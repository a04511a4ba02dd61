-------------------------- MODULE InvestigatePhase --------------------------
(***************************************************************************)
(* The Investigate phase (phase_investigate.go): batches of open leads, at *)
(* most a configured number over the whole run, given to a pool of workers *)
(* over an unbuffered channel.  A lead's task closes it, may promote it to *)
(* a finding and may create follow-up leads, all in one bundle that is     *)
(* ingested as a whole.  The phase can be cancelled, fail, crash, and is   *)
(* called again by a resume, which only knows what the ledger says.  Each  *)
(* worker that works at a lead has a machine of its own: the pool is as    *)
(* large as HostCapacity says, from what the host reported.                *)
(***************************************************************************)
EXTENDS HostCapacity

CONSTANTS Configs,      \* what a run may ask of the host (runner.*)
          Hosts,        \* what the host may report
          Initial,      \* number of leads that Recon created
          Limit,        \* runner.max_investigations
          None,
          MaxLeads,     \* bound: leads, follow-ups included
          MaxCalls,     \* bound: calls of the phase
          MaxFaults     \* bound: crashes, and errors of the runner's own ledger writes

ASSUME InvestigateAssumption ==
    /\ Configs \subseteq Requests /\ Hosts \subseteq Readings
    /\ Configs # {} /\ Hosts # {}
    /\ Initial \in Nat /\ Limit \in Nat /\ MaxLeads \in Nat
    /\ Initial <= MaxLeads
    /\ None \notin 1..MaxLeads
    /\ MaxCalls \in Nat /\ MaxFaults \in Nat

VARIABLES
    config,     \* the request of the run, from its config snapshot
    host,       \* the reading that the pool of this call was sized by
    status,     \* what the ledger says of each lead, in order of creation
    findings,   \* leads with a finding
    started,    \* leads whose task is recorded as started
    done,       \* leads whose task is recorded as completed, with its notes
    limitOpen,  \* the open leads named by the last investigate.limit_reached
    pc,         \* where the phase is
    processed,  \* leads this call counts as investigated
    batch,      \* the current batch
    queue,      \* the part of it that is not sent yet
    failed,     \* some task of the batch, or the sending, failed
    wpc,        \* where each worker is
    job,        \* its lead
    view,       \* the lead states its current attempt was started with
    cancelled, result,
    foreign,    \* history: leads closed by the task of another lead
    calls, faults   \* history

ledger == <<status, findings, started, done, limitOpen>>
main == <<pc, processed, batch, queue>>
pool == <<wpc, job, view>>
sizing == <<config, host>>
history == <<calls, faults>>

vars == <<sizing, foreign, ledger, main, failed, pool, cancelled, result, history>>

Leads == 1..MaxLeads

\* The goroutines of the largest pool.
Workers == UNION {1..EffectiveParallelTasksForResources(c, h) : c \in Configs, h \in Hosts}

\* taskParallelism, after Run has put the count into its configuration.
PoolSize == EffectiveParallelTasksForResources(config, host)

NoView == [l \in Leads |-> "none"]

Open(l) == status[l] = "open"

Closed(s, l) == s[l] \in {"dismissed", "promoted"}

Known == {l \in Leads : status[l] # "none"}

\* investigationTaskComplete.
Complete(l) ==
    /\ l \in done
    /\ Closed(status, l)
    /\ status[l] = "promoted" => l \in findings

\* completedInvestigationLeads: what counts against the limit, and what no
\* resume can repair.
Processed == {l \in started : Complete(l)}

InvalidClosed == {l \in started : ~ Complete(l) /\ ~ Open(l)}

\* The first n leads of S, in ledger order.
First(S, n) == {l \in S : Cardinality({k \in S : k < l}) < n}

Init ==
    /\ config \in Configs
    /\ host \in Hosts
    /\ foreign = {}
    /\ status = [l \in Leads |-> IF l <= Initial THEN "open" ELSE "none"]
    /\ findings = {}
    /\ started = {}
    /\ done = {}
    /\ limitOpen = {}
    /\ pc = "out"
    /\ processed = {}
    /\ batch = {}
    /\ queue = {}
    /\ failed = FALSE
    /\ wpc = [w \in Workers |-> "gone"]
    /\ job = [w \in Workers |-> None]
    /\ view = [w \in Workers |-> NoView]
    /\ cancelled = FALSE
    /\ result = "none"
    /\ calls = 0
    /\ faults = 0

Fault == faults < MaxFaults /\ faults' = faults + 1

\* The call is over; its variables go with it.
Return(r) ==
    /\ pc' = "out"
    /\ result' = r
    /\ processed' = {}
    /\ batch' = {}
    /\ queue' = {}
    /\ failed' = FALSE
-----------------------------------------------------------------------------
\* The preflight has found the host large enough.  If the count is left to the
\* host, it is read a second time, and its disk may be fuller by then.
Size ==
    \E h \in Hosts :
       /\ ValidHost(config, h)
       /\ IF config.parallel > 0 THEN host' = h ELSE host' \in Hosts
    /\ UNCHANGED config

\* The run, or a resume of it, reaches the phase.
Enter ==
    /\ pc = "out"
    /\ calls < MaxCalls
    /\ Size
    /\ calls' = calls + 1
    /\ cancelled' = FALSE
    /\ \/ InvalidClosed # {} /\ Return("invalid")
       \/ /\ InvalidClosed = {}
          /\ pc' = "scan"
          /\ result' = "none"
          /\ processed' = Processed
          /\ UNCHANGED <<batch, queue, failed>>
    /\ UNCHANGED <<foreign, ledger, pool, faults>>

Cancel ==
    /\ pc # "out"
    /\ ~ cancelled
    /\ cancelled' = TRUE
    /\ UNCHANGED <<sizing, foreign, ledger, main, failed, pool, result, history>>

Pending == {l \in Leads : Open(l) /\ l \notin processed}

Remaining == IF Limit > Cardinality(processed) THEN Limit - Cardinality(processed) ELSE 0

\* A new pool: one goroutine per worker.
Spawn == wpc' = [w \in Workers |-> IF w <= PoolSize THEN "idle" ELSE "gone"]

\* Mutant: the whole batch is taken once one lead is allowed.
ScanUntruncated ==
    /\ pc = "scan"
    /\ \/ cancelled /\ Return("cancelled") /\ UNCHANGED <<wpc, limitOpen>>
       \/ ~ cancelled /\ Pending = {} /\ Return("ok") /\ UNCHANGED <<wpc, limitOpen>>
       \/ /\ ~ cancelled /\ Pending # {} /\ Remaining = 0
          /\ limitOpen' = {l \in Leads : Open(l)}
          /\ Return("ok")
          /\ UNCHANGED wpc
       \/ /\ ~ cancelled /\ Pending # {} /\ Remaining # 0
          /\ batch' = Pending
          /\ queue' = batch'
          /\ pc' = "send"
          /\ Spawn
          /\ UNCHANGED <<processed, failed, result, limitOpen>>
    /\ UNCHANGED <<sizing, foreign, status, findings, started, done, job, view, cancelled, history>>

\* The top of the loop: the open leads are read again, follow-ups included.
Scan ==
    /\ pc = "scan"
    /\ \/ cancelled /\ Return("cancelled") /\ UNCHANGED <<wpc, limitOpen, faults>>
       \/ ~ cancelled /\ Pending = {} /\ Return("ok") /\ UNCHANGED <<wpc, limitOpen, faults>>
       \/ /\ ~ cancelled /\ Pending # {} /\ Remaining = 0
          /\ limitOpen' = {l \in Leads : Open(l)}
          /\ Return("ok")
          /\ UNCHANGED <<wpc, faults>>
       \/ /\ ~ cancelled /\ Pending # {} /\ Remaining = 0
          /\ Fault
          /\ Return("error")
          /\ UNCHANGED <<wpc, limitOpen>>
       \/ /\ ~ cancelled /\ Pending # {} /\ Remaining # 0
          /\ batch' = First(Pending, Remaining)
          /\ queue' = batch'
          /\ pc' = "send"
          /\ Spawn
          /\ UNCHANGED <<processed, failed, result, limitOpen, faults>>
    /\ UNCHANGED <<sizing, foreign, status, findings, started, done, job, view, cancelled, calls>>

\* Mutant: the lead stays in the queue.
SendAgain(w) ==
    /\ pc = "send"
    /\ queue # {}
    /\ wpc[w] = "idle"
    /\ \E l \in First(queue, 1) : job' = [job EXCEPT ![w] = l]
    /\ wpc' = [wpc EXCEPT ![w] = "begin"]
    /\ UNCHANGED <<sizing, foreign, ledger, main, failed, view, cancelled, result, history>>

\* jobs <- lead, to a worker that is waiting for one.
Send(w) ==
    /\ pc = "send"
    /\ queue # {}
    /\ wpc[w] = "idle"
    /\ \E l \in First(queue, 1) :
          /\ job' = [job EXCEPT ![w] = l]
          /\ queue' = queue \ {l}
    /\ wpc' = [wpc EXCEPT ![w] = "begin"]
    /\ UNCHANGED <<sizing, foreign, ledger, pc, processed, batch, failed, view, cancelled, result, history>>

\* Every lead is sent, or the context ends the sending.
CloseJobs ==
    /\ pc = "send"
    /\ queue = {} \/ cancelled
    /\ failed' = (failed \/ queue # {})
    /\ pc' = "wait"
    /\ UNCHANGED <<sizing, foreign, ledger, processed, batch, queue, pool, cancelled, result, history>>

\* Mutant: errors of the batch are lost.
WaitPoolErrorsLost ==
    /\ pc = "wait"
    /\ \A w \in Workers : wpc[w] = "gone"
    /\ processed' = processed \cup batch
    /\ batch' = {}
    /\ queue' = {}
    /\ failed' = FALSE
    /\ pc' = "scan"
    /\ UNCHANGED <<sizing, foreign, ledger, pool, cancelled, result, history>>

\* wg.Wait, then the joined errors or the next round.
WaitPool ==
    /\ pc = "wait"
    /\ \A w \in Workers : wpc[w] = "gone"
    /\ \/ failed /\ Return("error")
       \/ /\ ~ failed
          /\ processed' = processed \cup batch
          /\ batch' = {}
          /\ queue' = {}
          /\ pc' = "scan"
          /\ UNCHANGED <<failed, result>>
    /\ UNCHANGED <<sizing, foreign, ledger, pool, cancelled, history>>
-----------------------------------------------------------------------------
\* Mutant: the channel is only closed when every lead is sent.
LeaveWhenSent(w) ==
    /\ wpc[w] = "idle"
    /\ pc = "wait"
    /\ queue = {}
    /\ wpc' = [wpc EXCEPT ![w] = "gone"]
    /\ UNCHANGED <<sizing, foreign, ledger, main, failed, job, view, cancelled, result, history>>

\* The jobs channel is closed and empty.
Leave(w) ==
    /\ wpc[w] = "idle"
    /\ pc = "wait"
    /\ wpc' = [wpc EXCEPT ![w] = "gone"]
    /\ UNCHANGED <<sizing, foreign, ledger, main, failed, job, view, cancelled, result, history>>

\* The attempt is over; its snapshot goes with it.
DropView(w) == view' = [view EXCEPT ![w] = NoView]

NextJob(w) ==
    /\ wpc' = [wpc EXCEPT ![w] = "idle"]
    /\ job' = [job EXCEPT ![w] = None]

\* errs <- err, and on to the next lead.
Fail(w) ==
    /\ failed' = TRUE
    /\ NextJob(w)

\* The task is registered, once; its workspace and context are prepared.
BeginTask(w) ==
    /\ wpc[w] = "begin"
    /\ \/ cancelled /\ Fail(w) /\ UNCHANGED started
       \/ /\ ~ cancelled
          /\ started' = started \cup {job[w]}
          /\ wpc' = [wpc EXCEPT ![w] = "attempt"]
          /\ UNCHANGED <<failed, job>>
       \/ ~ cancelled /\ started' = started \cup {job[w]} /\ Fail(w)
    /\ UNCHANGED <<sizing, foreign, status, findings, done, limitOpen, main, view, cancelled, result, history>>

\* An attempt, the first or a retry, works on a snapshot of the ledger.
Attempt(w) ==
    /\ wpc[w] = "attempt"
    /\ view' = [view EXCEPT ![w] = status]
    /\ wpc' = [wpc EXCEPT ![w] = "agent"]
    /\ UNCHANGED <<sizing, foreign, ledger, main, failed, job, cancelled, result, history>>

Retry(w) ==
    /\ wpc[w] = "agent"
    /\ wpc' = [wpc EXCEPT ![w] = "attempt"]
    /\ DropView(w)
    /\ UNCHANGED <<sizing, foreign, ledger, main, failed, job, cancelled, result, history>>

\* The leads an agent may close: lead close checks that the lead is open in
\* the snapshot, not that it is the task's.
Closable(w) == {l \in Leads : view[w][l] = "open"}

FollowUps(n) ==
    {l \in Leads : Cardinality(Known) < l /\ l <= Cardinality(Known) + n}

\* What a bundle does to the leads, whatever they have become meanwhile.
AfterBundle(closed, n) ==
    [l \in Leads |-> IF l \in DOMAIN closed THEN closed[l]
                     ELSE IF l \in FollowUps(n) THEN "open" ELSE status[l]]

\* The attempt is verified and its bundle ingested as a whole.
Ingest(w) ==
    /\ wpc[w] = "agent"
    /\ \E S \in SUBSET Closable(w) : \E closed \in [S -> {"dismissed", "promoted"}] :
       \E n \in 0..MaxLeads - Cardinality(Known) :
          /\ status' = AfterBundle(closed, n)
          /\ foreign' = foreign \cup (S \ {job[w]})
          /\ findings' \in {findings, findings \cup {job[w]}}
          /\ Closed(status', job[w])
          /\ status'[job[w]] = "promoted" => job[w] \in findings'
    /\ done' = done \cup {job[w]}
    /\ wpc' = [wpc EXCEPT ![w] = "transcript"]
    /\ DropView(w)
    /\ UNCHANGED <<sizing, started, limitOpen, main, failed, job, cancelled, result, history>>

\* Mutant: the events of a failed attempt are in the ledger.
AttemptsFailPartly(w) ==
    /\ wpc[w] = "agent"
    /\ status' = [status EXCEPT ![job[w]] = "promoted"]
    /\ Fail(w)
    /\ DropView(w)
    /\ UNCHANGED <<sizing, foreign, findings, started, done, limitOpen, main, cancelled, result, history>>

\* The last attempt failed and left nothing behind.
AttemptsFail(w) ==
    /\ wpc[w] = "agent"
    /\ Fail(w)
    /\ DropView(w)
    /\ UNCHANGED <<sizing, foreign, ledger, main, cancelled, result, history>>

RegisterTranscript(w) ==
    /\ wpc[w] = "transcript"
    /\ \/ NextJob(w) /\ UNCHANGED <<failed, faults>>
       \/ Fault /\ Fail(w)
    /\ UNCHANGED <<sizing, foreign, ledger, main, view, cancelled, result, calls>>
-----------------------------------------------------------------------------
Crash ==
    /\ pc # "out"
    /\ Fault
    /\ Return("crashed")
    /\ wpc' = [w \in Workers |-> "gone"]
    /\ job' = [w \in Workers |-> None]
    /\ view' = [w \in Workers |-> NoView]
    /\ UNCHANGED <<sizing, foreign, ledger, cancelled, calls>>

Main == Scan \/ (\E w \in Workers : Send(w)) \/ CloseJobs \/ WaitPool

Finish(w) == Ingest(w) \/ AttemptsFail(w)

Worker(w) ==
    Leave(w) \/ BeginTask(w) \/ Attempt(w) \/ Finish(w) \/ RegisterTranscript(w)

Next ==
    \/ Enter \/ Cancel \/ Crash \/ Main
    \/ \E w \in Workers : Worker(w) \/ Retry(w)

\* Goroutines run, and the attempts at a task end (TaskAttempts, TaskEnds).
Fairness ==
    /\ WF_vars(Main)
    /\ \A w \in Workers : WF_vars(Worker(w)) /\ SF_vars(Finish(w))

Spec == Init /\ [][Next]_vars /\ Fairness
-----------------------------------------------------------------------------
States == {"none", "open", "dismissed", "promoted"}

\* Every variable has its type.
TypeOK ==
    /\ config \in Configs
    /\ host \in Hosts
    /\ foreign \subseteq Leads
    /\ status \in [Leads -> States]
    /\ findings \subseteq Leads
    /\ started \subseteq Leads
    /\ done \subseteq Leads
    /\ limitOpen \subseteq Leads
    /\ pc \in {"out", "scan", "send", "wait"}
    /\ processed \subseteq Leads
    /\ batch \subseteq Leads
    /\ queue \subseteq Leads
    /\ failed \in BOOLEAN
    /\ wpc \in [Workers -> {"idle", "begin", "attempt", "agent", "transcript", "gone"}]
    /\ job \in [Workers -> Leads \cup {None}]
    /\ view \in [Workers -> [Leads -> States]]
    /\ cancelled \in BOOLEAN
    /\ result \in {"none", "ok", "error", "cancelled", "invalid", "crashed"}
    /\ calls \in 0..MaxCalls
    /\ faults \in 0..MaxFaults

\* Over all calls of the phase, crashed and failed ones included, no more leads
\* are investigated than runner.max_investigations allows, although a call only
\* counts the completed ones.
InvestigationsBounded == Cardinality(started) <= Limit

\* When the phase succeeds, every lead is closed, or the limit is reached and
\* the ledger names exactly the leads that are left open.
NoLeadForgotten ==
    result = "ok" =>
        \/ \A l \in Known : ~ Open(l)
        \/ /\ {l \in Known : Open(l)} = limitOpen
           /\ Cardinality(done) >= Limit

\* A lead is investigated by one worker at a time, and never again once its
\* investigation is complete.
InvestigatedOnce ==
    \A w \in Workers : job[w] # None =>
        /\ \A x \in Workers \ {w} : job[x] # job[w]
        /\ wpc[w] # "transcript" => job[w] \notin done

\* Whatever fails, a later resume finds a ledger it can continue from: a lead is
\* closed without its complete investigation only if the task of another lead
\* closed it.
ResumeNotBlocked == InvalidClosed \subseteq foreign

\* The machines that run at once fit the host that was reported, in each
\* resource the report was not empty of; a single machine is always started.
TasksFitHost ==
    LET machines == {w \in Workers : wpc[w] \in {"attempt", "agent"}}
    IN  Cardinality(machines) > 1 =>
          \A x \in Resources :
             host[x] > 0 => Demand(config, x, Cardinality(machines)) <= host[x]

\* While leads are to be sent somebody is there to receive them: the channel has no
\* buffer, and the sender would wait for ever.
SenderHeard == pc = "send" => \E w \in Workers : wpc[w] # "gone"

\* Every round investigates leads that the call had not counted, and all rounds of
\* a call together no more than the limit, whatever leads the tasks create.
RoundsBounded ==
    [][pc = "wait" /\ pc' = "scan" =>
          /\ processed \subseteq processed' /\ processed' # processed
          /\ Cardinality(processed') <= Limit]_vars

\* What is left of the steps of a lead of the batch, and of the whole round.
LeadLeft(l) ==
    {i \in 1..4 : \/ l \in queue
                 \/ \E w \in Workers : /\ job[w] = l
                                       /\ i <= CASE wpc[w] = "begin" -> 3
                                                 [] wpc[w] \in {"attempt", "agent"} -> 2
                                                 [] OTHER -> 1}

RoundLeft ==
    [main |-> CASE pc = "scan" -> {"scan", "send", "wait"}
                [] pc = "send" -> {"send", "wait"}
                [] OTHER -> {pc},
     leads |-> IF pc = "scan" THEN Leads \X (1..4) ELSE {s \in Leads \X (1..4) : s[2] \in LeadLeft(s[1])},
     pool |-> IF pc = "scan" THEN Workers ELSE {w \in Workers : wpc[w] # "gone"}]

\* No step of a call but a retry of an attempt is ever taken back: it counts more
\* leads, ends the call, or leaves less of the round.
StepsRunOut ==
    [][Main \/ (\E w \in Workers : Worker(w) /\ ~ Attempt(w)) =>
          \/ pc' = "out"
          \/ processed \subseteq processed' /\ processed' # processed
          \/ /\ UNCHANGED processed
             /\ \A part \in DOMAIN RoundLeft : RoundLeft'[part] \subseteq RoundLeft[part]
             /\ RoundLeft' # RoundLeft]_vars

\* Refinement: the phase keeps to the contract with the tasks of its leads.
Contract ==
    INSTANCE TaskContract
    WITH Tasks <- Leads, Lossy <- {}, called <- {l \in Leads : \E w \in Workers : job[w] = l},
         recorded <- done, counted <- processed

ContractSpec == Contract!Spec

\* Follow-up leads do not keep the phase going forever, and neither the sender
\* nor a worker is left waiting for the other.
PhaseEnds == pc # "out" ~> pc = "out"
=============================================================================
