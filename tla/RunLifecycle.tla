---------------------------- MODULE RunLifecycle ----------------------------
(***************************************************************************)
(* The life of one run as `mnm analyze` and `mnm analyze --resume` keep it *)
(* in the host's SQLite table (analyze.go, state.go).  A process prepares  *)
(* the run (row, snapshot), or resumes it after reading its status, then   *)
(* executes it: it marks the row vm_starting and running, starts a monitor *)
(* goroutine that records a deadline or an interrupt while the runner is   *)
(* still working, waits for the runner and then for the monitor, and       *)
(* writes the final status.  Every status write is an unconditional UPDATE *)
(* and may fail, again and again; nothing but the status tells a second    *)
(* process that a first one is at work.                                    *)
(***************************************************************************)
EXTENDS Naturals, FiniteSets

CONSTANTS Procs,        \* invocations of mnm analyze on this run
          Overlap,      \* may a run be resumed while a process executes it?
          MaxCrashes    \* bound: processes that die (kill -9, power loss)

ASSUME LifecycleAssumption ==
    /\ Overlap \in BOOLEAN
    /\ MaxCrashes \in Nat

VARIABLES
    status,    \* the status column of the run, "absent" before the insert
    snapshot,  \* has snapshot.tar.zst been written
    finished,  \* has the pipeline run through to runner.completed
    pc,        \* where each process is
    opt,       \* how each process was asked to run
    ctx,       \* why its run context is over, if it is
    mon,       \* where its monitor goroutine is
    result,    \* what its runner returned
    dbFailed,  \* history: has a status write failed
    crashes    \* history: dead processes

vars == <<status, snapshot, finished, pc, opt, ctx, mon, result, dbFailed, crashes>>

Statuses == {"created", "snapshotting", "prepared", "vm_starting", "running",
             "stopping", "stopped", "completed", "failed", "timed_out"}

Resumable == {"prepared", "stopped", "timed_out", "failed"}

Options == {"full", "stopAfter", "prepareOnly"}

Preparing == {"created", "snapshotting", "saved"}
Executing == {"starting", "running", "returned", "joined"}
PCs == {"idle", "resuming", "ready", "exited", "dead"} \cup Preparing \cup Executing

Init ==
    /\ status = "absent"
    /\ snapshot = FALSE
    /\ finished = FALSE
    /\ pc = [p \in Procs |-> "idle"]
    /\ opt = [p \in Procs |-> "full"]
    /\ ctx = [p \in Procs |-> "live"]
    /\ mon = [p \in Procs |-> "off"]
    /\ result = [p \in Procs |-> "none"]
    /\ dbFailed = FALSE
    /\ crashes = 0

\* UpdateRunStatus followed by what the caller does next, or its error.
WriteStatus(p, s, next) ==
    \/ /\ status' = s
       /\ pc' = [pc EXCEPT ![p] = next]
       /\ UNCHANGED dbFailed
    \/ /\ dbFailed' = TRUE
       /\ pc' = [pc EXCEPT ![p] = "exited"]
       /\ UNCHANGED status
-----------------------------------------------------------------------------
\* analyzeWorkspace: preflight passed, the row is inserted.
CreateRun(p) ==
    /\ pc[p] = "idle"
    /\ status = "absent"
    /\ status' = "created"
    /\ pc' = [pc EXCEPT ![p] = "created"]
    /\ \E o \in Options : opt' = [opt EXCEPT ![p] = o]
    /\ UNCHANGED <<snapshot, finished, ctx, mon, result, dbFailed, crashes>>

MarkSnapshotting(p) ==
    /\ pc[p] = "created"
    /\ WriteStatus(p, "snapshotting", "snapshotting")
    /\ UNCHANGED <<snapshot, finished, opt, ctx, mon, result, crashes>>

\* The archive is written and the setup script is found in it, or the process
\* gives up and leaves the row as it is.
Snapshot(p) ==
    /\ pc[p] = "snapshotting"
    /\ \/ /\ snapshot' = TRUE
          /\ pc' = [pc EXCEPT ![p] = "saved"]
       \/ /\ snapshot' \in BOOLEAN
          /\ pc' = [pc EXCEPT ![p] = "exited"]
    /\ UNCHANGED <<status, finished, opt, ctx, mon, result, dbFailed, crashes>>

MarkPrepared(p) ==
    /\ pc[p] = "saved"
    /\ WriteStatus(p, "prepared", IF opt[p] = "prepareOnly" THEN "exited" ELSE "ready")
    /\ UNCHANGED <<snapshot, finished, opt, ctx, mon, result, crashes>>

\* resumeAnalyzeRun: GetRun finds a resumable status.  Unless runs overlap, a
\* user resumes a run only when no process works on it.
Resume(p) ==
    /\ pc[p] = "idle"
    /\ status \in Resumable
    /\ Overlap \/ \A q \in Procs : pc[q] \in {"idle", "exited", "dead"}
    /\ pc' = [pc EXCEPT ![p] = "resuming"]
    /\ \E o \in {"full", "stopAfter"} : opt' = [opt EXCEPT ![p] = o]
    /\ UNCHANGED <<status, snapshot, finished, ctx, mon, result, dbFailed, crashes>>

\* Its files, configuration and preflight are checked without a write.
ResumePreflight(p) ==
    /\ pc[p] = "resuming"
    /\ \/ snapshot /\ ctx[p] = "live" /\ pc' = [pc EXCEPT ![p] = "ready"]
       \/ pc' = [pc EXCEPT ![p] = "exited"]
    /\ UNCHANGED <<status, snapshot, finished, opt, ctx, mon, result, dbFailed, crashes>>
-----------------------------------------------------------------------------
\* executePreparedRun.
MarkVMStarting(p) ==
    /\ pc[p] = "ready"
    /\ WriteStatus(p, "vm_starting", "starting")
    /\ UNCHANGED <<snapshot, finished, opt, ctx, mon, result, crashes>>

\* The run context exists; the monitor starts with the runner.
MarkRunning(p) ==
    /\ pc[p] = "starting"
    /\ WriteStatus(p, "running", "running")
    /\ mon' = [mon EXCEPT ![p] = IF pc'[p] = "running" THEN "watching" ELSE "off"]
    /\ UNCHANGED <<snapshot, finished, opt, ctx, result, crashes>>

\* An interrupt cancels the command's context, at any moment.
Interrupt(p) ==
    /\ pc[p] \in {"resuming", "ready"} \cup Preparing \cup Executing
    /\ ctx[p] = "live"
    /\ ctx' = [ctx EXCEPT ![p] = "canceled"]
    /\ UNCHANGED <<status, snapshot, finished, pc, opt, mon, result, dbFailed, crashes>>

\* runner.timeout_minutes are over.
Deadline(p) ==
    /\ pc[p] \in Executing
    /\ ctx[p] = "live"
    /\ ctx' = [ctx EXCEPT ![p] = "deadline"]
    /\ UNCHANGED <<status, snapshot, finished, pc, opt, mon, result, dbFailed, crashes>>

\* runner.Run returns and runnerDone is closed.  Success means that the
\* pipeline went through, or up to the phase to stop after; the context may be
\* over by then, for no check follows the last task.
RunnerReturn(p) ==
    /\ pc[p] = "running"
    /\ pc' = [pc EXCEPT ![p] = "returned"]
    /\ \/ /\ result' = [result EXCEPT ![p] = "success"]
          /\ finished' = (finished \/ opt[p] = "full")
       \/ /\ result' = [result EXCEPT ![p] = "error"]
          /\ UNCHANGED finished
    /\ UNCHANGED <<status, snapshot, opt, ctx, mon, dbFailed, crashes>>

RunnerDone(p) == pc[p] \notin {"starting", "running"}

\* The monitor's select: an ended context while the runner works leads to a
\* write; when both channels are ready either branch may be taken, and the
\* first looks at runnerDone again.
MonitorWake(p) ==
    /\ mon[p] = "watching"
    /\ \/ ctx[p] # "live" /\ ~ RunnerDone(p) /\ mon' = [mon EXCEPT ![p] = "checking"]
       \/ RunnerDone(p) /\ mon' = [mon EXCEPT ![p] = "done"]
    /\ UNCHANGED <<status, snapshot, finished, pc, opt, ctx, result, dbFailed, crashes>>

\* Mutant: the retry loop does not look at runnerDone again.
MonitorCheckNever(p) ==
    /\ mon[p] = "checking"
    /\ mon' = [mon EXCEPT ![p] = "writing"]
    /\ UNCHANGED <<status, snapshot, finished, pc, opt, ctx, result, dbFailed, crashes>>

\* updateRunStatusUntilRunnerDone: look at runnerDone ...
MonitorCheck(p) ==
    /\ mon[p] = "checking"
    /\ mon' = [mon EXCEPT ![p] = IF RunnerDone(p) THEN "done" ELSE "writing"]
    /\ UNCHANGED <<status, snapshot, finished, pc, opt, ctx, result, dbFailed, crashes>>

\* ... then write, which may come after the runner is done; an error is
\* retried after ten milliseconds, for as long as the runner works.
MonitorWrite(p) ==
    /\ mon[p] = "writing"
    /\ \/ /\ status' = IF ctx[p] = "deadline" THEN "timed_out" ELSE "stopping"
          /\ mon' = [mon EXCEPT ![p] = "done"]
          /\ UNCHANGED dbFailed
       \/ /\ dbFailed' = TRUE
          /\ mon' = [mon EXCEPT ![p] = "checking"]
          /\ UNCHANGED status
    /\ UNCHANGED <<snapshot, finished, pc, opt, ctx, result, crashes>>

\* Mutant: the final status is written without waiting for the monitor.
JoinMonitorNoWait(p) ==
    /\ pc[p] = "returned"
    /\ pc' = [pc EXCEPT ![p] = "joined"]
    /\ UNCHANGED <<status, snapshot, finished, opt, ctx, mon, result, dbFailed, crashes>>

\* <-monitorDone
JoinMonitor(p) ==
    /\ pc[p] = "returned"
    /\ mon[p] = "done"
    /\ pc' = [pc EXCEPT ![p] = "joined"]
    /\ UNCHANGED <<status, snapshot, finished, opt, ctx, mon, result, dbFailed, crashes>>

\* Mutant: the phase to stop after is forgotten.
FinalStatusNoStop(p) ==
    CASE result[p] = "error" -> CASE ctx[p] = "deadline" -> "timed_out"
                                  [] ctx[p] = "canceled" -> "stopped"
                                  [] OTHER -> "failed"
      [] result[p] = "success" -> "completed"

\* Mutant: the cause of an error is not looked at.
FinalStatusNoCause(p) ==
    CASE result[p] = "error" -> "failed"
      [] result[p] = "success" -> IF opt[p] = "stopAfter" THEN "stopped" ELSE "completed"

\* An error of the runner is a deadline or a cancellation only when its context
\* is over: what has a timeout of its own, the setup hook, runs in the guest.
FinalStatus(p) ==
    CASE result[p] = "error" -> CASE ctx[p] = "deadline" -> "timed_out"
                                  [] ctx[p] = "canceled" -> "stopped"
                                  [] OTHER -> "failed"
      [] result[p] = "success" -> IF opt[p] = "stopAfter" THEN "stopped" ELSE "completed"

WriteFinalStatus(p) ==
    /\ pc[p] = "joined"
    /\ WriteStatus(p, FinalStatus(p), "exited")
    /\ UNCHANGED <<snapshot, finished, opt, ctx, mon, result, crashes>>

Crash(p) ==
    /\ pc[p] \in {"resuming", "ready"} \cup Preparing \cup Executing
    /\ crashes < MaxCrashes
    /\ crashes' = crashes + 1
    /\ pc' = [pc EXCEPT ![p] = "dead"]
    /\ mon' = [mon EXCEPT ![p] = "off"]
    /\ UNCHANGED <<status, snapshot, finished, opt, ctx, result, dbFailed>>
-----------------------------------------------------------------------------
Step(p) ==
    \/ MarkSnapshotting(p) \/ Snapshot(p) \/ MarkPrepared(p) \/ ResumePreflight(p)
    \/ MarkVMStarting(p) \/ MarkRunning(p) \/ RunnerReturn(p) \/ JoinMonitor(p)
    \/ WriteFinalStatus(p)

MonitorStep(p) == MonitorWake(p) \/ MonitorCheck(p) \/ MonitorWrite(p)

Next ==
    \E p \in Procs :
        \/ CreateRun(p) \/ Resume(p) \/ Step(p) \/ MonitorStep(p)
        \/ Interrupt(p) \/ Deadline(p) \/ Crash(p)

Spec == Init /\ [][Next]_vars

\* The process and its goroutine are scheduled; the deadline makes the runner
\* return in the end.  Nobody has to interrupt, resume or crash.
FairSpec ==
    /\ Spec
    /\ \A p \in Procs : WF_vars(Step(p)) /\ WF_vars(MonitorStep(p))
-----------------------------------------------------------------------------
\* Every variable has its type.
TypeOK ==
    /\ status \in Statuses \cup {"absent"}
    /\ snapshot \in BOOLEAN
    /\ finished \in BOOLEAN
    /\ pc \in [Procs -> PCs]
    /\ opt \in [Procs -> Options]
    /\ ctx \in [Procs -> {"live", "deadline", "canceled"}]
    /\ mon \in [Procs -> {"off", "watching", "checking", "writing", "done"}]
    /\ result \in [Procs -> {"none", "success", "error"}]
    /\ dbFailed \in BOOLEAN
    /\ crashes \in 0..MaxCrashes

NobodyWorks == \A p \in Procs : pc[p] \in {"idle", "exited", "dead"}

\* A run is listed as completed only when some process took the whole pipeline
\* to its end, whatever stops, deadlines and resumes came before.
CompletedMeansFinished == status = "completed" => finished

\* Once nobody works on the run, no late write of a monitor changes what the
\* last process recorded: only a new process does.
RecordedStatusStands ==
    [][NobodyWorks => \/ UNCHANGED status
                      \/ status = "absent"]_vars

Disturbed == crashes > 0 \/ dbFailed

\* The statuses that say that somebody works on the run, and that no resume takes.
Active == {"vm_starting", "running", "stopping"}

\* The status is active only while some process executes the run: nobody leaves,
\* and no late write of a monitor brings back, a status that keeps every later
\* resume out, unless a process crashed or a write failed.
ActiveIsExecuted ==
    status \in Active => Disturbed \/ \E p \in Procs : pc[p] \in Executing

\* README: interrupting "records the run as `stopped`", unless the pipeline
\* was through by then, a process crashed or a write failed.
InterruptRecorded ==
    \A p \in Procs : pc[p] \in Executing /\ ctx[p] = "canceled"
                        ~> status \in {"stopped", "completed"} \/ Disturbed

\* Whatever fails, and however long the database is out of order, every process
\* comes to an end: the monitor's retry loop never keeps it.
ProcessesEnd == \A p \in Procs : pc[p] \in Executing ~> pc[p] \in {"exited", "dead"}

\* How far a process, and its monitor, are from their ends.
ProcessLeft(p) ==
    CASE pc[p] = "created" -> 11
      [] pc[p] = "snapshotting" -> 10
      [] pc[p] \in {"saved", "resuming"} -> 9
      [] pc[p] = "ready" -> 8
      [] pc[p] = "starting" -> 7
      [] pc[p] = "running" -> 3
      [] pc[p] = "returned" -> 2
      [] pc[p] = "joined" -> 1
      [] OTHER -> 0

MonitorLeft(p) ==
    CASE mon[p] = "watching" -> 3
      [] mon[p] = "writing" -> 2
      [] mon[p] = "checking" -> 1
      [] OTHER -> 0

StepsLeft(p) == ProcessLeft(p) + MonitorLeft(p)

\* Every step of a process brings it and its monitor nearer to their end, and so
\* does, once the runner is done, every step of its monitor, however many writes
\* fail; nobody takes them away from it but the monitor's retry while the runner
\* works.
StepsRunOut ==
    [][\A p \in Procs :
          /\ Step(p) \/ (MonitorStep(p) /\ RunnerDone(p)) => StepsLeft(p)' < StepsLeft(p)
          /\ pc[p] \notin {"idle", "exited", "dead"} =>
                \/ StepsLeft(p)' <= StepsLeft(p)
                \/ ~ RunnerDone(p) /\ mon[p] = "checking"]_vars
-----------------------------------------------------------------------------
\* The resume check: a completed run "cannot be resumed".
CompletedNotExecuted ==
    [][\A p \in Procs : pc[p] = "ready" /\ pc'[p] = "starting"
                          => status # "completed"]_vars
=============================================================================
