---------------------------- MODULE TaskAttempts ----------------------------
(***************************************************************************)
(* The attempts at one task (runner.go, lima_task_runner.go): each one runs *)
(* an agent, on the host or in a virtual machine of its own; what it made  *)
(* is verified, ingested and its setup log registered, or its error        *)
(* decides whether there is another one.  The context may be cancelled at  *)
(* any time, and the runner may crash and be resumed.  Recon also looks at *)
(* its evidence: a completed task that lost some is called once more.      *)
(***************************************************************************)
EXTENDS Naturals

CONSTANTS MaxAttempts,  \* openCodeMaxAttempts
          Configs,      \* how the run may be configured
          Recovers,     \* the task is recon's: a loss of its evidence is recovered
          MaxRuns,      \* bound: calls of the task, the resumes included
          MaxFaults,    \* bound: errors of the ledger after the ingest
          MaxVMFaults,  \* bound: failures to dispose of a machine
          MaxCrashes    \* bound: crashes of the runner

ASSUME AttemptsAssumption ==
    /\ MaxAttempts \in Nat \ {0}
    /\ Configs \subseteq [lima : BOOLEAN, setup : BOOLEAN, keep : BOOLEAN]
    /\ Recovers \in BOOLEAN
    /\ MaxRuns \in Nat
    /\ MaxFaults \in Nat
    /\ MaxVMFaults \in Nat
    /\ MaxCrashes \in Nat

VARIABLES
    config,      \* the configuration of the run
    pc,          \* where the call of the task is, "out" between calls
    attempt,     \* the current attempt, 0 between calls
    err,         \* the error of the current attempt
    result,      \* how the last call ended
    cancelled,   \* the context of the call is done
    vm,          \* the machine of each attempt; its name says which; "left" by a crash
    ingested,    \* the task's events, its completion among them, are recorded
    lost,        \* evidence that they name is gone since
    setupLogs,   \* the attempts whose setup log is recorded
    retries,     \* the recorded retries: call and attempt
    runs,        \* history: calls so far
    timeouts,    \* history: attempts of this call that ran into the timeout
    faults, vmFaults, crashes   \* history

vars == <<config, pc, attempt, err, result, cancelled, vm, ingested, lost, setupLogs, retries, runs,
          timeouts, faults, vmFaults, crashes>>

Attempts == 1..MaxAttempts

\* Attempts run in virtual machines; a setup script is configured; machines are
\* kept for inspection.
Lima == config.lima
Setup == config.setup
KeepVM == config.keep

Kinds == {"none", "timeout", "postcondition", "stage", "other"}

Errors == [kind : Kinds, modified : BOOLEAN, permanent : BOOLEAN, transient : BOOLEAN]

Error(kind) == [kind |-> kind, modified |-> FALSE, permanent |-> FALSE, transient |-> FALSE]

NoError == Error("none")

\* The text of an error, and of the transcript, has the markers it has.
Texts == [kind : {"other"}, modified : {FALSE}, permanent : BOOLEAN, transient : BOOLEAN]

\* The error of the guest's command repeats that command, whose option
\* --timeout-minutes contains the marker "timeout".
GuestError ==
    [kind |-> "other", modified |-> FALSE, permanent |-> FALSE, transient |-> TRUE]

\* Mutant: an error with a transient marker is retried whatever it is.
RetryableTimeout(e) ==
    \/ e.kind = "timeout"
    \/ e.kind = "postcondition" /\ ~ e.modified
    \/ e.kind = "stage"
    \/ e.kind = "other" /\ ~ e.permanent /\ e.transient

\* retryableOpenCodeError.
Retryable(e) ==
    \/ e.kind = "postcondition" /\ ~ e.modified
    \/ e.kind = "stage"
    \/ e.kind = "other" /\ ~ e.permanent /\ e.transient

Init ==
    /\ config \in Configs
    /\ pc = "out"
    /\ attempt = 0
    /\ err = NoError
    /\ result = "none"
    /\ cancelled = FALSE
    /\ vm = [k \in Attempts |-> "none"]
    /\ ingested = FALSE
    /\ lost = FALSE
    /\ setupLogs = {}
    /\ retries = {}
    /\ runs = 0
    /\ timeouts = {}
    /\ faults = 0
    /\ vmFaults = 0
    /\ crashes = 0

Goto(place) == pc' = place

Fails(e, place) == err' = e /\ Goto(place)

Return(r) ==
    /\ Goto("out")
    /\ result' = r
    /\ attempt' = 0
    /\ err' = NoError

Fault == faults < MaxFaults /\ faults' = faults + 1

VMFault == vmFaults < MaxVMFaults /\ vmFaults' = vmFaults + 1

SetVM(state) == vm' = [vm EXCEPT ![attempt] = state]

Ledger == <<ingested, lost, setupLogs, retries>>

History == <<runs, timeouts, faults, vmFaults, crashes>>
-----------------------------------------------------------------------------
\* Mutant: a resume does not ask whether the task is completed.
StartAgain ==
    /\ pc = "out"
    /\ runs < MaxRuns
    /\ runs' = runs + 1
    /\ attempt' = 1
    /\ result' = "none"
    /\ cancelled' = FALSE
    /\ timeouts' = {}
    /\ Goto("check")
    /\ UNCHANGED <<config, err, vm, Ledger, faults, vmFaults, crashes>>

\* Its completion is recorded and, where that is looked at, its evidence is there.
Done == ingested /\ ~ lost

\* The phase runs the task unless it is done; a recovery admits a second completion.
Start ==
    /\ pc = "out"
    /\ ~ Done
    /\ runs < MaxRuns
    /\ runs' = runs + 1
    /\ attempt' = 1
    /\ result' = "none"
    /\ cancelled' = FALSE
    /\ timeouts' = {}
    /\ Goto("check")
    /\ UNCHANGED <<config, err, vm, Ledger, faults, vmFaults, crashes>>

\* Between two calls a file of recon disappears, or changes.
Lose ==
    /\ Recovers
    /\ pc = "out"
    /\ Done
    /\ lost' = TRUE
    /\ result' = "none"
    /\ UNCHANGED <<config, pc, attempt, err, cancelled, vm, ingested, setupLogs, retries, History>>

\* The run is interrupted or reaches its deadline.
Cancel ==
    /\ pc # "out"
    /\ ~ cancelled
    /\ cancelled' = TRUE
    /\ UNCHANGED <<config, pc, attempt, err, result, vm, Ledger, History>>

CheckContext ==
    /\ pc = "check"
    /\ \/ ~ cancelled /\ Goto("prepare") /\ UNCHANGED <<attempt, err, result>>
       \/ cancelled /\ Return("cancelled")
    /\ UNCHANGED <<config, cancelled, vm, Ledger, History>>

\* The attempt runner looks at the context once more, then makes a fresh
\* directory for this attempt.
Prepare ==
    /\ pc = "prepare"
    /\ \/ ~ cancelled /\ Lima /\ Goto("delete") /\ UNCHANGED err
       \/ ~ cancelled /\ ~ Lima /\ Setup /\ Goto("setup") /\ UNCHANGED err
       \/ ~ cancelled /\ ~ Lima /\ ~ Setup /\ Goto("agent") /\ UNCHANGED err
       \/ \E e \in Texts : Fails(e, "decide")
    /\ UNCHANGED <<config, attempt, result, cancelled, vm, Ledger, History>>
-----------------------------------------------------------------------------
\* An attempt on the host.
SetupHook ==
    /\ pc = "setup"
    /\ \/ Goto("agent") /\ UNCHANGED err
       \/ \E e \in Texts : Fails(e, "decide")
    /\ UNCHANGED <<config, attempt, result, cancelled, vm, Ledger, History>>

\* The agent is not told of a cancelled context; its own timeout ends it.
Agent ==
    /\ pc = "agent"
    /\ \/ Goto("verify") /\ UNCHANGED <<err, timeouts>>
       \/ \E e \in Texts : Fails(e, "decide") /\ UNCHANGED timeouts
       \/ Fails(Error("timeout"), "decide") /\ timeouts' = timeouts \cup {attempt}
    /\ UNCHANGED <<config, attempt, result, cancelled, vm, Ledger, runs, faults, vmFaults, crashes>>
-----------------------------------------------------------------------------
\* An attempt in a virtual machine.  Every command fails once the context is
\* done, except those that dispose of the machine.
\* A machine of the same name is deleted first; an error is ignored.
DeleteOldVM ==
    /\ pc = "delete"
    /\ \/ ~ cancelled /\ SetVM("none") /\ UNCHANGED vmFaults
       \/ cancelled /\ UNCHANGED <<vm, vmFaults>>
       \/ VMFault /\ UNCHANGED vm
    /\ Goto("create")
    /\ UNCHANGED <<config, attempt, err, result, cancelled, Ledger, runs, timeouts, faults, crashes>>

\* A create that fails may leave a machine behind; nothing disposes of it.
CreateVM ==
    /\ pc = "create"
    /\ \/ /\ ~ cancelled /\ vm[attempt] = "none"
          /\ SetVM("created")
          /\ Goto("start")
          /\ UNCHANGED <<err, vmFaults>>
       \/ Fails(Error("stage"), "decide") /\ UNCHANGED <<vm, vmFaults>>
       \/ /\ ~ cancelled /\ vm[attempt] = "none"
          /\ VMFault
          /\ SetVM("created")
          /\ Fails(Error("stage"), "decide")
    /\ UNCHANGED <<config, attempt, result, cancelled, Ledger, runs, timeouts, faults, crashes>>

\* Mutant: the machine that did not start is left alone.
StartVMLeaves ==
    /\ pc = "start"
    /\ \/ ~ cancelled /\ SetVM("running") /\ Goto("inputs") /\ UNCHANGED err
       \/ SetVM("running") /\ Fails(Error("stage"), "decide")
    /\ UNCHANGED <<config, attempt, result, cancelled, Ledger, History>>

StartVM ==
    /\ pc = "start"
    /\ \/ ~ cancelled /\ SetVM("running") /\ Goto("inputs") /\ UNCHANGED err
       \/ \E state \in {"created", "running"} : SetVM(state) /\ Fails(Error("stage"), "stop")
    /\ UNCHANGED <<config, attempt, result, cancelled, Ledger, History>>

CopyInputs ==
    /\ pc = "inputs"
    /\ \/ ~ cancelled /\ Goto("guest") /\ UNCHANGED err
       \/ Fails(Error("stage"), "stop")
    /\ UNCHANGED <<config, attempt, result, cancelled, vm, Ledger, History>>

\* The guest runs the setup hook as attempt 1, whatever the attempt, registers
\* its log in the bundle, and runs the agent under the timeout.  The host only
\* sees that its command failed.
Guest ==
    /\ pc = "guest"
    /\ \/ ~ cancelled /\ Goto("outputs") /\ UNCHANGED <<err, timeouts>>
       \/ Fails(GuestError, "stop") /\ UNCHANGED timeouts
       \/ Fails(GuestError, "stop") /\ timeouts' = timeouts \cup {attempt}
    /\ UNCHANGED <<config, attempt, result, cancelled, vm, Ledger, runs, faults, vmFaults, crashes>>

CopyOutput ==
    /\ pc = "outputs"
    /\ \/ ~ cancelled /\ Goto("stop") /\ UNCHANGED err
       \/ Fails(Error("stage"), "stop")
    /\ UNCHANGED <<config, attempt, result, cancelled, vm, Ledger, History>>

\* The deferred stop and delete; their errors are ignored.
StopVM ==
    /\ pc = "stop"
    /\ \/ SetVM("stopped") /\ UNCHANGED vmFaults
       \/ VMFault /\ UNCHANGED vm
    /\ Goto("dispose")
    /\ UNCHANGED <<config, attempt, err, result, cancelled, Ledger, runs, timeouts, faults, crashes>>

DeleteVM ==
    /\ pc = "dispose"
    /\ \/ SetVM(IF KeepVM THEN vm[attempt] ELSE "none") /\ UNCHANGED vmFaults
       \/ VMFault /\ UNCHANGED vm
    /\ Goto("log")
    /\ UNCHANGED <<config, attempt, err, result, cancelled, Ledger, runs, timeouts, faults, crashes>>

\* copyLimaAttemptLog; an attempt without an error needs its transcript.
CopyLog ==
    /\ pc = "log"
    /\ \/ err # NoError /\ Goto("decide") /\ UNCHANGED err
       \/ err = NoError /\ Goto("verify") /\ UNCHANGED err
       \/ err = NoError /\ \E e \in Texts : Fails(e, "decide")
    /\ UNCHANGED <<config, attempt, result, cancelled, vm, Ledger, History>>
-----------------------------------------------------------------------------
\* The bundle is ingested into a private copy and the phase verifies it there.
Verify ==
    /\ pc = "verify"
    /\ \/ Goto("ingest") /\ UNCHANGED err
       \/ Fails(Error("postcondition"), "decide")
    /\ UNCHANGED <<config, attempt, result, cancelled, vm, Ledger, History>>

IngestError ==
    [kind |-> "postcondition", modified |-> TRUE, permanent |-> FALSE, transient |-> FALSE]

Ingest ==
    /\ pc = "ingest"
    /\ \/ /\ ingested' = TRUE /\ lost' = FALSE
          /\ setupLogs' = setupLogs \cup (IF Lima /\ Setup THEN {1} ELSE {})
          /\ Goto("setuplog")
          /\ UNCHANGED err
       \/ Fails(IngestError, "decide") /\ UNCHANGED <<ingested, lost, setupLogs>>
    /\ UNCHANGED <<config, attempt, result, cancelled, vm, retries, History>>

\* Mutant: the task is done before its setup log is looked for.
RegisterSetupLogSkipped ==
    /\ pc = "setuplog"
    /\ Return("ok")
    /\ UNCHANGED <<config, cancelled, vm, Ledger, History>>

\* registerSuccessfulTaskSetupLog: the log of this attempt is recorded already,
\* or it was captured in the attempt's directory; a guest only captures the log
\* of attempt 1, and records it.
RegisterSetupLog ==
    /\ pc = "setuplog"
    /\ \/ /\ ~ Setup \/ attempt \in setupLogs
          /\ Return("ok")
          /\ UNCHANGED <<setupLogs, faults>>
       \/ /\ Setup /\ attempt \notin setupLogs /\ ~ Lima
          /\ setupLogs' = setupLogs \cup {attempt}
          /\ Return("ok")
          /\ UNCHANGED faults
       \/ /\ Setup /\ attempt \notin setupLogs /\ Lima
          /\ Return("error")
          /\ UNCHANGED <<setupLogs, faults>>
       \/ /\ Setup /\ attempt \notin setupLogs /\ ~ Lima
          /\ Fault
          /\ Return("error")
          /\ UNCHANGED setupLogs
    /\ UNCHANGED <<config, cancelled, vm, ingested, lost, retries, runs, timeouts, vmFaults, crashes>>
-----------------------------------------------------------------------------
\* The error of the attempt decides.
Decide ==
    /\ pc = "decide"
    /\ \/ (attempt = MaxAttempts \/ ~ Retryable(err)) /\ Return("error")
       \/ attempt # MaxAttempts /\ Retryable(err) /\ Goto("record") /\ UNCHANGED <<attempt, err, result>>
    /\ UNCHANGED <<config, cancelled, vm, Ledger, History>>

\* Mutant: an error of the ledger does not stop the retry.
RecordRetryIgnored ==
    /\ pc = "record"
    /\ Goto("backoff")
    /\ \/ retries' = retries \cup {<<runs, attempt>>} /\ UNCHANGED faults
       \/ Fault /\ UNCHANGED retries
    /\ UNCHANGED <<config, attempt, err, result, cancelled, vm, ingested, lost, setupLogs, runs, timeouts,
                   vmFaults, crashes>>

\* appendOpenCodeRetryEvent.
RecordRetry ==
    /\ pc = "record"
    /\ \/ /\ retries' = retries \cup {<<runs, attempt>>}
          /\ Goto("backoff")
          /\ UNCHANGED <<attempt, err, result, faults>>
       \/ Fault /\ Return("error") /\ UNCHANGED retries
    /\ UNCHANGED <<config, cancelled, vm, ingested, lost, setupLogs, runs, timeouts, vmFaults,
                   crashes>>

\* Mutant: the same attempt again.
BackoffSame ==
    /\ pc = "backoff"
    /\ \/ Goto("check") /\ err' = NoError /\ UNCHANGED <<attempt, result>>
       \/ cancelled /\ Return("cancelled")
    /\ UNCHANGED <<config, cancelled, vm, Ledger, History>>

\* The timer fires, or the context is done.
Backoff ==
    /\ pc = "backoff"
    /\ \/ /\ attempt' = attempt + 1
          /\ err' = NoError
          /\ Goto("check")
          /\ UNCHANGED result
       \/ cancelled /\ Return("cancelled")
    /\ UNCHANGED <<config, cancelled, vm, Ledger, History>>

\* Where an attempt has a machine that it will dispose of.
VMPlaces == {"start", "inputs", "guest", "outputs", "stop", "dispose"}

\* A machine that is in use, or is being made, is nobody's from now on.
Crash ==
    /\ pc # "out"
    /\ crashes < MaxCrashes
    /\ crashes' = crashes + 1
    /\ \/ pc \in VMPlaces \cup {"create"} /\ SetVM("left")
       \/ pc \notin VMPlaces /\ UNCHANGED vm
    /\ Return("crashed")
    /\ UNCHANGED <<config, cancelled, Ledger, runs, timeouts, faults, vmFaults>>

Step ==
    \/ CheckContext \/ Prepare \/ SetupHook \/ Agent
    \/ DeleteOldVM \/ CreateVM \/ StartVM \/ CopyInputs \/ Guest \/ CopyOutput
    \/ StopVM \/ DeleteVM \/ CopyLog
    \/ Verify \/ Ingest \/ RegisterSetupLog \/ Decide \/ RecordRetry \/ Backoff

Next == Start \/ Lose \/ Cancel \/ Step \/ Crash

\* Every step of a call ends: commands return, and the agent has a timeout.
Spec == Init /\ [][Next]_vars /\ WF_vars(Step)
-----------------------------------------------------------------------------
Places == VMPlaces \cup {"out", "check", "prepare", "setup", "agent", "delete", "create",
                         "log", "verify", "ingest", "setuplog", "decide", "record", "backoff"}

\* Every variable has its type.
TypeOK ==
    /\ config \in Configs
    /\ pc \in Places
    /\ attempt \in 0..MaxAttempts
    /\ err \in Errors
    /\ result \in {"none", "ok", "error", "cancelled", "crashed"}
    /\ cancelled \in BOOLEAN
    /\ vm \in [Attempts -> {"none", "created", "running", "stopped", "left"}]
    /\ ingested \in BOOLEAN
    /\ lost \in BOOLEAN
    /\ setupLogs \subseteq Attempts
    /\ retries \subseteq (1..MaxRuns) \X Attempts
    /\ runs \in 0..MaxRuns
    /\ timeouts \subseteq Attempts
    /\ faults \in 0..MaxFaults
    /\ vmFaults \in 0..MaxVMFaults
    /\ crashes \in 0..MaxCrashes

\* The ledger tells of every attempt that was retried, and of no retry that the
\* loop did not decide on.
RetriesRecorded ==
    /\ \A k \in 1..attempt - 1 : <<runs, k>> \in retries
    /\ pc \notin {"out", "backoff"} => \A k \in attempt..MaxAttempts : <<runs, k>> \notin retries

\* An attempt that ran into the task's own timeout is the last one (PLAN.md).
NoRetryAfterTimeout == \A k \in timeouts : attempt <= k

\* So it is on the host, where the timeout is known by the type of the error.
HostTimeoutFinal == ~ Lima => NoRetryAfterTimeout

\* What a call says of the task is true: a success is recorded with its setup
\* log, and a task that failed, on a sound ledger, has left nothing behind.
ResultTrue ==
    /\ result = "ok" => Done /\ (Setup => setupLogs # {})
    /\ result = "error" /\ faults = 0 => ~ Done
    /\ result = "cancelled" => ~ Done

\* Every machine an attempt makes is gone when the attempt is over, whatever
\* stage of it failed, unless disposing of it failed: at most one machine of a
\* task runs, besides those that a crash of the runner left behind.  An attempt
\* of the same number does not go on beside such a machine.
VMsDisposed ==
    \A k \in Attempts :
       /\ vmFaults = 0 => \/ vm[k] \in {"none", "left"}
                          \/ k = attempt /\ pc \in VMPlaces
                          \/ KeepVM /\ vm[k] = "stopped"
       /\ k = attempt /\ pc \in VMPlaces => vm[k] # "left"

\* What is left of a call: the attempts that it may still make, and of the current one
\* the places that it has not come to.
StepsOf(place) ==
    CASE place = "check" -> 19 [] place = "prepare" -> 18
      [] place = "delete" -> 17 [] place = "create" -> 16 [] place = "start" -> 15
      [] place = "inputs" -> 14 [] place = "guest" -> 13 [] place = "outputs" -> 12
      [] place = "stop" -> 11 [] place = "dispose" -> 10 [] place = "log" -> 9
      [] place = "setup" -> 8 [] place = "agent" -> 7
      [] place = "verify" -> 6 [] place = "ingest" -> 5 [] place = "setuplog" -> 4
      [] place = "decide" -> 3 [] place = "record" -> 2 [] place = "backoff" -> 1

StepsLeft == IF pc = "out" THEN 0 ELSE (MaxAttempts - attempt) * 19 + StepsOf(pc)

\* Whatever fails, no step of a call is ever taken back: a retry has one attempt less
\* to go, and there is never one beyond the last.
StepsRunOut == [][Step => 0 <= StepsLeft' /\ StepsLeft' < StepsLeft]_vars

\* Refinement: the task keeps to its contract with the phase, which takes a result "ok"
\* for a task done.
Contract ==
    INSTANCE TaskContract
    WITH Tasks <- {"task"}, Lossy <- IF Recovers THEN {"task"} ELSE {},
         called <- IF pc # "out" THEN {"task"} ELSE {},
         recorded <- IF Done THEN {"task"} ELSE {},
         counted <- IF result = "ok" THEN {"task"} ELSE {}

ContractSpec == Contract!Spec

\* A call of a task ends, in a result or in a crash.
TaskEnds == pc # "out" ~> pc = "out"
=============================================================================
