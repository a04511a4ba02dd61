----------------------------- MODULE LedgerFile -----------------------------
(***************************************************************************)
(* The run ledger as the code keeps it (ledger.go, ledger_commands.go):    *)
(* a file, events.jsonl, guarded by a lock file that is created with       *)
(* O_EXCL and removed on unlock.  Every `mnm` ledger command and every     *)
(* goroutine of the runner is a process of its own: it prepares its events *)
(* (identity and timestamp), takes the lock, looks for an earlier event    *)
(* that settles the same thing, reads the whole file, writes a temporary   *)
(* file with the old content and its own lines, renames it over the ledger *)
(* and removes the lock file.  Nothing tells a stale lock from a held one, *)
(* so a process that dies between locking and unlocking leaves the lock    *)
(* behind; only copying the directory out of a VM drops it.                *)
(*                                                                         *)
(* The module stands for any ledger: the one of a task's directory, where  *)
(* only commands append, and the central one of the run, where the runner  *)
(* also appends the bundles of finished tasks (task_bundle.go).  A bundle  *)
(* brings events that settle keys, a lead's closing or a verdict, and is   *)
(* checked under the lock for one of them only: the completion of its own  *)
(* task, and not even for that one when recon is recovered.                *)
(***************************************************************************)
EXTENDS Naturals, Sequences, FiniteSets

CONSTANTS Procs,       \* processes that use the ledger at the same time
          Keys,        \* what idempotent commands can settle
          Completions, \* those that are the completion of a task
          NoKey,       \* the key of an event that settles nothing
          Vals,        \* the data of an event, as far as commands compare it
          None,        \* no command
          MaxBatch,    \* most events one command appends
          MaxCommands, \* bound: commands started in a behaviour
          MaxKills,    \* bound: processes killed in a behaviour
          MaxCollects  \* bound: copies of the directory out of its VM

ASSUME ConstantsAssumption ==
    /\ NoKey \notin Keys
    /\ Completions \subseteq Keys
    /\ MaxBatch \in Nat \ {0}
    /\ MaxCommands \in Nat
    /\ MaxKills \in Nat
    /\ MaxCollects \in Nat

VARIABLES
    file,     \* the events of events.jsonl, in order
    lock,     \* does the file .events.lock exist
    pc,       \* where each process is
    cmd,      \* the batch of events each process wants to append
    buf,      \* what each process read (ReadFile), then its temporary file
    replies,  \* history: what was reported to whoever ran the command
    started,  \* history: number of commands started, the source of event ids
    kills,    \* history: processes killed so far
    collects  \* history: copies made so far

vars == <<file, lock, pc, cmd, buf, replies, started, kills, collects>>

Ids == 1..MaxCommands

\* by is history: how the event came into the file.
Event == [id : Ids, pos : 1..MaxBatch, key : Keys \cup {NoKey}, val : Vals,
          by : {"command", "bundle", "recovery"}]

\* Events in one batch: identity, positions, keys, data and origin.
Events(id, keys, v, by) ==
    [i \in 1..Len(keys) |->
        [id |-> id, pos |-> i, key |-> keys[i], val |-> v, by |-> by]]

\* Findings, runner events and retry notices settle nothing.
FreeKeys == UNION {[1..n -> {NoKey}] : n \in 1..MaxBatch}

\* An idempotent command settles one key.
OnceKeys == [1..1 -> Keys]

\* What a task leaves in its directory, its completion last.
BundleKeys ==
    {ks \in UNION {[1..n -> Keys \cup {NoKey}] : n \in 1..MaxBatch} :
        \A i \in DOMAIN ks : ks[i] \in Completions <=> i = Len(ks)}

Batches ==
    {Events(id, keys, v, "command") : id \in Ids, keys \in FreeKeys \cup OnceKeys, v \in Vals}
        \cup {Events(id, keys, v, by) :
                 id \in Ids, keys \in BundleKeys, v \in Vals, by \in {"bundle", "recovery"}}

\* The key that has to be open for a batch to be appended: what the command
\* settles, or the completion of the bundle's task.  Nothing of a recovered
\* task is checked, nor what else a bundle settles.
Claim(batch) ==
    IF batch[1].by = "recovery" THEN NoKey ELSE batch[Len(batch)].key

\* The places at which a process owns the lock file.
Holding == {"locked", "checked", "read", "written", "finished"}

Running == {"waiting"} \cup Holding

PCs == {"idle", "dead"} \cup Running

\* appended: the events are recorded; settled: the same claim was recorded
\* before, nothing is written; refused: another claim was; failed: an error;
\* killed: no answer.
Outcomes == {"appended", "settled", "refused", "failed", "killed"}

Report(p, outcome) == replies' = replies \cup {[batch |-> cmd[p], outcome |-> outcome]}

Init ==
    /\ file = << >>
    /\ lock = FALSE
    /\ pc = [p \in Procs |-> "idle"]
    /\ cmd = [p \in Procs |-> None]
    /\ buf = [p \in Procs |-> << >>]
    /\ replies = {}
    /\ started = 0
    /\ kills = 0
    /\ collects = 0
-----------------------------------------------------------------------------
\* prepareLedgerEvent(s): the events get their identity before the lock.
Prepare(p) ==
    /\ pc[p] = "idle"
    /\ started < MaxCommands
    /\ \E batch \in Batches :
          /\ batch[1].id = started + 1
          /\ cmd' = [cmd EXCEPT ![p] = batch]
    /\ started' = started + 1
    /\ pc' = [pc EXCEPT ![p] = "waiting"]
    /\ UNCHANGED <<file, lock, buf, replies, kills, collects>>

\* Mutant: the lock file is created without O_EXCL.
LockNotExclusive(p) ==
    /\ pc[p] = "waiting"
    /\ lock' = TRUE
    /\ pc' = [pc EXCEPT ![p] = "locked"]
    /\ UNCHANGED <<file, cmd, buf, replies, started, kills, collects>>

\* lockRunDir: the exclusive create succeeds.
Lock(p) ==
    /\ pc[p] = "waiting"
    /\ ~ lock
    /\ lock' = TRUE
    /\ pc' = [pc EXCEPT ![p] = "locked"]
    /\ UNCHANGED <<file, cmd, buf, replies, started, kills, collects>>

\* Mutant: the lock loop has no deadline.
LockTimeoutNever(p) ==
    /\ pc[p] = "waiting"
    /\ lock
    /\ UNCHANGED vars

\* lockRunDir: the lock file exists and the ten seconds are over.
LockTimeout(p) ==
    /\ pc[p] = "waiting"
    /\ lock
    /\ Report(p, "failed")
    /\ pc' = [pc EXCEPT ![p] = "idle"]
    /\ cmd' = [cmd EXCEPT ![p] = None]
    /\ UNCHANGED <<file, lock, buf, started, kills, collects>>

\* lockRunDir: the lock file cannot be created, for another reason.
LockFails(p) ==
    /\ pc[p] = "waiting"
    /\ Report(p, "failed")
    /\ pc' = [pc EXCEPT ![p] = "idle"]
    /\ cmd' = [cmd EXCEPT ![p] = None]
    /\ UNCHANGED <<file, lock, buf, started, kills, collects>>

Settlers(k) == {i \in DOMAIN file : file[i].key = k}

LastSettled(k) == file[CHOOSE i \in Settlers(k) : \A j \in Settlers(k) : j <= i]

\* Mutant: the check was made before the lock, and found nothing.
CheckSettledTooEarly(p) ==
    /\ pc[p] = "locked"
    /\ pc' = [pc EXCEPT ![p] = "checked"]
    /\ UNCHANGED <<file, lock, cmd, buf, replies, started, kills, collects>>

Open(batch) == Claim(batch) # NoKey => Settlers(Claim(batch)) = {}

\* Under the lock: the idempotency check of task complete, lead create, lead
\* close, evidence add, verdict record, report finalize and of the start of a
\* task, which accepts the same claim again; or taskBundleEventsToAppend, which
\* refuses the bundle of a completed task.
CheckSettled(p) ==
    /\ pc[p] = "locked"
    /\ \/ /\ Open(cmd[p])
          /\ pc' = [pc EXCEPT ![p] = "checked"]
          /\ UNCHANGED replies
       \/ /\ ~ Open(cmd[p])
          /\ Report(p, IF /\ cmd[p][1].by = "command"
                          /\ LastSettled(Claim(cmd[p])).val = cmd[p][1].val
                       THEN "settled" ELSE "refused")
          /\ pc' = [pc EXCEPT ![p] = "finished"]
    /\ UNCHANGED <<file, lock, cmd, buf, started, kills, collects>>

\* appendLedgerEventsUnlocked: read the whole file, ...
ReadExisting(p) ==
    /\ pc[p] = "checked"
    /\ buf' = [buf EXCEPT ![p] = file]
    /\ pc' = [pc EXCEPT ![p] = "read"]
    /\ UNCHANGED <<file, lock, cmd, replies, started, kills, collects>>

\* Mutant: the temporary file gets the new lines only.
WriteTempDropsOld(p) ==
    /\ pc[p] = "read"
    /\ buf' = [buf EXCEPT ![p] = cmd[p]]
    /\ pc' = [pc EXCEPT ![p] = "written"]
    /\ UNCHANGED <<file, lock, cmd, replies, started, kills, collects>>

\* ... write the temporary file, ...
WriteTemp(p) ==
    /\ pc[p] = "read"
    /\ buf' = [buf EXCEPT ![p] = @ \o cmd[p]]
    /\ pc' = [pc EXCEPT ![p] = "written"]
    /\ UNCHANGED <<file, lock, cmd, replies, started, kills, collects>>

\* ... and rename it over the ledger.
Rename(p) ==
    /\ pc[p] = "written"
    /\ file' = buf[p]
    /\ Report(p, "appended")
    /\ pc' = [pc EXCEPT ![p] = "finished"]
    /\ UNCHANGED <<lock, cmd, buf, started, kills, collects>>

\* Any of these system calls may fail: the temporary file is removed, the
\* error is returned and the deferred unlock still runs.
IOError(p) ==
    /\ pc[p] \in {"locked", "checked", "read", "written"}
    /\ Report(p, "failed")
    /\ pc' = [pc EXCEPT ![p] = "finished"]
    /\ UNCHANGED <<file, lock, cmd, buf, started, kills, collects>>

\* The deferred unlock removes the lock file, whoever created it.
Unlock(p) ==
    /\ pc[p] = "finished"
    /\ lock' = FALSE
    /\ pc' = [pc EXCEPT ![p] = "idle"]
    /\ cmd' = [cmd EXCEPT ![p] = None]
    /\ buf' = [buf EXCEPT ![p] = << >>]
    /\ UNCHANGED <<file, replies, started, kills, collects>>
-----------------------------------------------------------------------------
\* The process group is killed (a task's timeout, an interrupt, a crash).
Kill(p) ==
    /\ pc[p] \in Running
    /\ kills < MaxKills
    /\ kills' = kills + 1
    /\ Report(p, "killed")
    /\ pc' = [pc EXCEPT ![p] = "dead"]
    /\ cmd' = [cmd EXCEPT ![p] = None]
    /\ buf' = [buf EXCEPT ![p] = << >>]
    /\ UNCHANGED <<file, lock, started, collects>>

\* copyOutputs / copyTaskOutput: the run directory is copied out of the VM,
\* which is deleted with every process in it; the copy loses the lock file.
\* What a process does between the copy and the deletion is lost with the VM,
\* its reply included, so the two are one step for whoever uses the copy.
Collect ==
    /\ collects < MaxCollects
    /\ collects' = collects + 1
    /\ replies' = replies \cup {[batch |-> cmd[p], outcome |-> "killed"] :
                                   p \in {q \in Procs : pc[q] \in Running}}
    /\ lock' = FALSE
    /\ pc' = [p \in Procs |-> "idle"]
    /\ cmd' = [p \in Procs |-> None]
    /\ buf' = [p \in Procs |-> << >>]
    /\ UNCHANGED <<file, started, kills>>

Step(p) ==
    \/ Lock(p) \/ LockTimeout(p) \/ CheckSettled(p) \/ ReadExisting(p)
    \/ WriteTemp(p) \/ Rename(p) \/ Unlock(p)

Next ==
    \/ \E p \in Procs : Prepare(p) \/ Step(p) \/ LockFails(p) \/ IOError(p) \/ Kill(p)
    \/ Collect

Spec == Init /\ [][Next]_vars

\* The lock loop has a deadline and no other step waits for anybody: a live
\* process that has started a command goes on.  No error is counted on.
FairSpec == Spec /\ \A p \in Procs : WF_vars(Step(p))
-----------------------------------------------------------------------------
\* Every variable has its type.
TypeOK ==
    /\ file \in Seq(Event)
    /\ lock \in BOOLEAN
    /\ pc \in [Procs -> PCs]
    /\ cmd \in [Procs -> Batches \cup {None}]
    /\ buf \in [Procs -> Seq(Event)]
    /\ replies \subseteq [batch : Batches, outcome : Outcomes]
    /\ started \in 0..MaxCommands
    /\ kills \in 0..MaxKills
    /\ collects \in 0..MaxCollects

\* The lock file excludes: one holder at a time, and never one without the
\* lock file, although a kill may leave the lock file without a holder.
MutualExclusion ==
    /\ \A p \in Procs : pc[p] \in Holding => lock
    /\ \A p, q \in Procs : pc[p] \in Holding /\ pc[q] \in Holding => p = q

\* However processes race on a key (two workers, a retry and the attempt it
\* replaces, a bundle and a command), it is settled once, with two exceptions:
\* what a bundle brings besides the completion of its task is not checked, so
\* two tasks may both close a lead in the central ledger (in a task's own
\* directory there are no bundles); and recovered recon completes its task again.
SettledOnce ==
    \A i, j \in DOMAIN file :
        i < j /\ file[i].key = file[j].key /\ file[j].key # NoKey =>
            /\ file[j].by # "command"
            /\ file[j].key \in Completions => file[j].by = "recovery"

\* Where a batch stands in the ledger: all of it, in order and in one piece.
OccursAt(batch, i) ==
    \A j \in DOMAIN batch : (i + j) \in DOMAIN file /\ file[i + j] = batch[j]

Absent(batch) == \A i \in DOMAIN file : file[i].id # batch[1].id

Recorded(batch) ==
    /\ \E i \in 0..Len(file) : OccursAt(batch, i)
    /\ Cardinality({i \in DOMAIN file : file[i].id = batch[1].id}) = Len(batch)

\* What a command reported is true of the ledger from then on, whatever other
\* processes append, fail or die afterwards: "appended" means recorded whole
\* and once, an error or a refusal means not recorded at all, "settled" means
\* that the same claim stands under another identity, and a killed command
\* has left all of its batch or nothing.
RepliesHold ==
    \A r \in replies :
        CASE r.outcome = "appended" -> Recorded(r.batch)
          [] r.outcome = "killed" -> Recorded(r.batch) \/ Absent(r.batch)
          [] r.outcome = "settled" ->
                /\ Absent(r.batch)
                /\ \E i \in DOMAIN file : /\ file[i].key = r.batch[1].key
                                          /\ file[i].val = r.batch[1].val
          [] OTHER -> Absent(r.batch)

\* Every command ends, stale lock or not.
CommandsEnd == \A p \in Procs : pc[p] \in Running ~> pc[p] \notin Running

\* Refinement: the ledger file is the abstract log.
Log == INSTANCE LedgerLog WITH log <- file

LogSpec == Log!Spec
=============================================================================
