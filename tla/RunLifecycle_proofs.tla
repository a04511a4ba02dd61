------------------------- MODULE RunLifecycle_proofs -------------------------
(***************************************************************************)
(* Proofs about RunLifecycle, for any number of processes, whether or not  *)
(* they may execute the run at the same time, and any number of failed     *)
(* writes and crashes.                                                     *)
(***************************************************************************)
EXTENDS RunLifecycle, TLAPS

\* A runner that has returned has a result.
Returned == \A p \in Procs : pc[p] \in {"returned", "joined"} => result[p] # "none"

TypeInv == TypeOK /\ Returned

\* The final status says completed for a run to the end only.
LEMMA FinalStatusShape ==
    ASSUME TypeInv, NEW p \in Procs, pc[p] = "joined"
    PROVE  /\ FinalStatus(p) \in {"timed_out", "stopped", "failed", "completed"}
           /\ FinalStatus(p) = "completed" => result[p] = "success" /\ opt[p] # "stopAfter"
<1>1. result[p] \in {"error", "success"}
  BY DEF TypeInv, TypeOK, Returned
<1>2. CASE result[p] = "error"
  BY <1>2 DEF FinalStatus
<1>3. CASE result[p] = "success"
  BY <1>3 DEF FinalStatus
<1> QED
  BY <1>1, <1>2, <1>3

\* Every step keeps the types.
LEMMA TypeInvStep == TypeInv /\ [Next]_vars => TypeInv'
<1> SUFFICES ASSUME TypeInv, [Next]_vars PROVE TypeInv'
  OBVIOUS
<1> USE LifecycleAssumption
<1> USE DEF TypeInv, Returned, TypeOK, PCs, Preparing, Executing, Options, Statuses,
            WriteStatus
<1>1. CASE UNCHANGED vars
  BY <1>1 DEF vars
<1>2. ASSUME NEW p \in Procs,
             \/ CreateRun(p) \/ Resume(p) \/ Step(p) \/ MonitorStep(p)
             \/ Interrupt(p) \/ Deadline(p) \/ Crash(p)
      PROVE  TypeInv'
  <2>1. CASE CreateRun(p)
    BY <2>1 DEF CreateRun
  <2>2. CASE MarkSnapshotting(p)
    BY <2>2 DEF MarkSnapshotting
  <2>3. CASE Snapshot(p)
    BY <2>3 DEF Snapshot
  <2>4. CASE MarkPrepared(p)
    BY <2>4 DEF MarkPrepared
  <2>5. CASE Resume(p)
    BY <2>5 DEF Resume
  <2>6. CASE ResumePreflight(p)
    BY <2>6 DEF ResumePreflight
  <2>7. CASE MarkVMStarting(p)
    BY <2>7 DEF MarkVMStarting
  <2>8. CASE MarkRunning(p)
    BY <2>8 DEF MarkRunning
  <2>9. CASE Interrupt(p)
    BY <2>9 DEF Interrupt
  <2>10. CASE Deadline(p)
    BY <2>10 DEF Deadline
  <2>11. CASE RunnerReturn(p)
    BY <2>11 DEF RunnerReturn
  <2>12. CASE MonitorWake(p)
    BY <2>12 DEF MonitorWake
  <2>13. CASE MonitorCheck(p)
    BY <2>13 DEF MonitorCheck
  <2>14. CASE MonitorWrite(p)
    BY <2>14 DEF MonitorWrite
  <2>15. CASE JoinMonitor(p)
    BY <2>15 DEF JoinMonitor
  <2>16. CASE WriteFinalStatus(p)
    <3>1. FinalStatus(p) \in Statuses
      BY <2>16, FinalStatusShape DEF WriteFinalStatus
    <3> QED
      BY <2>16, <3>1 DEF WriteFinalStatus
  <2>17. CASE Crash(p)
    BY <2>17 DEF Crash
  <2> QED
    BY <1>2, <2>1, <2>2, <2>3, <2>4, <2>5, <2>6, <2>7, <2>8, <2>9, <2>10, <2>11, <2>12,
       <2>13, <2>14, <2>15, <2>16, <2>17 DEF Step, MonitorStep
<1> QED
  BY <1>1, <1>2 DEF Next

-----------------------------------------------------------------------------
\* The monitor works only while its process waits for the runner or for it.
MonitorJoined ==
    \A p \in Procs : pc[p] \notin {"running", "returned"} => mon[p] \in {"off", "done"}

\* No step lets a process go on without its monitor.
LEMMA MonitorJoinedStep == TypeInv /\ MonitorJoined /\ [Next]_vars => MonitorJoined'
<1> SUFFICES ASSUME TypeInv, MonitorJoined, [Next]_vars PROVE MonitorJoined'
  OBVIOUS
<1> USE LifecycleAssumption
<1> USE DEF MonitorJoined, TypeInv, TypeOK, PCs, Executing, Preparing, WriteStatus, RunnerDone
<1>1. CASE UNCHANGED vars
  BY <1>1 DEF vars
<1>2. ASSUME NEW p \in Procs,
             \/ CreateRun(p) \/ Resume(p) \/ Step(p) \/ MonitorStep(p)
             \/ Interrupt(p) \/ Deadline(p) \/ Crash(p)
      PROVE  MonitorJoined'
  <2>1. CASE CreateRun(p)
    BY <2>1 DEF CreateRun
  <2>2. CASE MarkSnapshotting(p)
    BY <2>2 DEF MarkSnapshotting
  <2>3. CASE Snapshot(p)
    BY <2>3 DEF Snapshot
  <2>4. CASE MarkPrepared(p)
    BY <2>4 DEF MarkPrepared
  <2>5. CASE Resume(p)
    BY <2>5 DEF Resume
  <2>6. CASE ResumePreflight(p)
    BY <2>6 DEF ResumePreflight
  <2>7. CASE MarkVMStarting(p)
    BY <2>7 DEF MarkVMStarting
  <2>8. CASE MarkRunning(p)
    BY <2>8 DEF MarkRunning
  <2>9. CASE Interrupt(p)
    BY <2>9 DEF Interrupt
  <2>10. CASE Deadline(p)
    BY <2>10 DEF Deadline
  <2>11. CASE RunnerReturn(p)
    BY <2>11 DEF RunnerReturn
  <2>12. CASE MonitorWake(p)
    BY <2>12 DEF MonitorWake
  <2>13. CASE MonitorCheck(p)
    BY <2>13 DEF MonitorCheck
  <2>14. CASE MonitorWrite(p)
    BY <2>14 DEF MonitorWrite
  <2>15. CASE JoinMonitor(p)
    BY <2>15 DEF JoinMonitor
  <2>16. CASE WriteFinalStatus(p)
    BY <2>16 DEF WriteFinalStatus
  <2>17. CASE Crash(p)
    BY <2>17 DEF Crash
  <2> QED
    BY <1>2, <2>1, <2>2, <2>3, <2>4, <2>5, <2>6, <2>7, <2>8, <2>9, <2>10, <2>11, <2>12,
       <2>13, <2>14, <2>15, <2>16, <2>17 DEF Step, MonitorStep
<1> QED
  BY <1>1, <1>2 DEF Next

-----------------------------------------------------------------------------
\* A runner that succeeded was asked to stop early, or the pipeline is through;
\* only a process that prepares the run may do no more.
Finished ==
    /\ \A p \in Procs :
          /\ pc[p] \in Executing \cup {"resuming", "ready"} => opt[p] # "prepareOnly"
          /\ result[p] = "success" =>
                /\ pc[p] \in {"returned", "joined", "exited", "dead"}
                /\ opt[p] = "stopAfter" \/ finished
    /\ CompletedMeansFinished

\* No step completes a run that is not finished.
LEMMA FinishedStep == TypeInv /\ Finished /\ [Next]_vars => Finished'
<1> SUFFICES ASSUME TypeInv, Finished, [Next]_vars PROVE Finished'
  OBVIOUS
<1> USE LifecycleAssumption
<1> USE DEF Finished, CompletedMeansFinished, TypeInv, TypeOK, PCs, Executing, Preparing, Options,
            WriteStatus
<1>1. CASE UNCHANGED vars
  BY <1>1 DEF vars
<1>2. ASSUME NEW p \in Procs,
             \/ CreateRun(p) \/ Resume(p) \/ Step(p) \/ MonitorStep(p)
             \/ Interrupt(p) \/ Deadline(p) \/ Crash(p)
      PROVE  Finished'
  <2>1. CASE CreateRun(p)
    BY <2>1 DEF CreateRun
  <2>2. CASE MarkSnapshotting(p)
    BY <2>2 DEF MarkSnapshotting
  <2>3. CASE Snapshot(p)
    BY <2>3 DEF Snapshot
  <2>4. CASE MarkPrepared(p)
    BY <2>4 DEF MarkPrepared
  <2>5. CASE Resume(p)
    BY <2>5 DEF Resume
  <2>6. CASE ResumePreflight(p)
    BY <2>6 DEF ResumePreflight
  <2>7. CASE MarkVMStarting(p)
    BY <2>7 DEF MarkVMStarting
  <2>8. CASE MarkRunning(p)
    BY <2>8 DEF MarkRunning
  <2>9. CASE Interrupt(p)
    BY <2>9 DEF Interrupt
  <2>10. CASE Deadline(p)
    BY <2>10 DEF Deadline
  <2>11. CASE RunnerReturn(p)
    <3>1. finished => finished'
      BY <2>11 DEF RunnerReturn
    <3>2. result'[p] = "success" => opt[p] = "stopAfter" \/ finished'
      BY <2>11 DEF RunnerReturn
    <3>3. /\ result' \in [Procs -> {"none", "success", "error"}]
          /\ \A q \in Procs \ {p} : result'[q] = result[q]
          /\ pc' = [pc EXCEPT ![p] = "returned"] /\ UNCHANGED <<opt, status>>
      BY <2>11 DEF RunnerReturn
    <3> QED
      BY <2>11, <3>1, <3>2, <3>3 DEF RunnerReturn
  <2>12. CASE MonitorWake(p)
    BY <2>12 DEF MonitorWake
  <2>13. CASE MonitorCheck(p)
    BY <2>13 DEF MonitorCheck
  <2>14. CASE MonitorWrite(p)
    BY <2>14 DEF MonitorWrite
  <2>15. CASE JoinMonitor(p)
    BY <2>15 DEF JoinMonitor
  <2>16. CASE WriteFinalStatus(p)
    <3>1. FinalStatus(p) = "completed" => finished
      BY <2>16, FinalStatusShape DEF WriteFinalStatus
    <3> QED
      BY <2>16, <3>1 DEF WriteFinalStatus
  <2>17. CASE Crash(p)
    BY <2>17 DEF Crash
  <2> QED
    BY <1>2, <2>1, <2>2, <2>3, <2>4, <2>5, <2>6, <2>7, <2>8, <2>9, <2>10, <2>11, <2>12,
       <2>13, <2>14, <2>15, <2>16, <2>17 DEF Step, MonitorStep
<1> QED
  BY <1>1, <1>2 DEF Next

-----------------------------------------------------------------------------
\* The inductive invariant.
LifeInv == TypeInv /\ MonitorJoined /\ Finished

\* It always holds.
LEMMA LifeInvariant == Spec => []LifeInv
<1>1. Init => LifeInv
  <2> SUFFICES ASSUME Init PROVE LifeInv
    OBVIOUS
  <2>1. snapshot \in BOOLEAN /\ finished \in BOOLEAN /\ dbFailed \in BOOLEAN
    BY Zenon DEF Init
  <2> QED
    BY <2>1, LifecycleAssumption
    DEF Init, LifeInv, TypeInv, TypeOK, Returned, MonitorJoined, Finished, CompletedMeansFinished,
        Statuses, PCs, Preparing, Executing, Options
<1>2. LifeInv /\ [Next]_vars => LifeInv'
  BY TypeInvStep, MonitorJoinedStep, FinishedStep DEF LifeInv
<1> QED
  BY <1>1, <1>2, PTL DEF Spec

\* Every variable of the life of a run keeps its type, for any number of
\* processes, failed writes and crashes.
THEOREM TypeCorrect == Spec => []TypeOK
<1>1. LifeInv => TypeOK
  BY DEF LifeInv, TypeInv
<1> QED
  BY <1>1, LifeInvariant, PTL

\* The status completed is true of the run, even when processes overlap.
THEOREM CompletedIsFinished == Spec => []CompletedMeansFinished
<1>1. LifeInv => CompletedMeansFinished
  BY DEF LifeInv, Finished
<1> QED
  BY <1>1, LifeInvariant, PTL

\* No late write: once nobody works on the run its status stands, until a new
\* process takes it up.
THEOREM RecordedStatusIsFinal == Spec => RecordedStatusStands
<1> DEFINE Quiet == NobodyWorks => UNCHANGED status \/ status = "absent"
<1>1. LifeInv /\ [Next]_vars => [Quiet]_vars
  <2> SUFFICES ASSUME LifeInv, Next, NobodyWorks PROVE UNCHANGED status \/ status = "absent"
    OBVIOUS
  <2>1. \A p \in Procs : pc[p] \in {"idle", "exited", "dead"} /\ mon[p] \in {"off", "done"}
    BY DEF LifeInv, MonitorJoined, NobodyWorks
  <2>2. PICK p \in Procs : \/ CreateRun(p) \/ Resume(p) \/ Step(p) \/ MonitorStep(p)
                           \/ Interrupt(p) \/ Deadline(p) \/ Crash(p)
    BY DEF Next
  <2>3. ~ Step(p)
    BY <2>1 DEF Step, MarkSnapshotting, Snapshot, MarkPrepared, ResumePreflight, MarkVMStarting,
                MarkRunning, RunnerReturn, JoinMonitor, WriteFinalStatus
  <2>4. ~ MonitorStep(p) \/ UNCHANGED status
    BY <2>1 DEF MonitorStep, MonitorWake, MonitorCheck, MonitorWrite
  <2> QED
    BY <2>2, <2>3, <2>4 DEF CreateRun, Resume, Interrupt, Deadline, Crash
<1> QED
  BY <1>1, LifeInvariant, PTL DEF Spec, RecordedStatusStands

-----------------------------------------------------------------------------
\* The places of a process that works.
Works(p) == pc[p] \in Preparing \cup Executing \cup {"resuming", "ready"}

\* A process that has set out to execute a run that is executed by nobody else
\* still finds the status it has read.
Alone ==
    /\ status = "absent" => NobodyWorks
    /\ \A p, q \in Procs : Works(p) /\ Works(q) => p = q
    /\ \A p \in Procs : pc[p] \in {"resuming", "ready"} \cup Preparing => status # "completed"

\* Unless runs overlap, no step lets a second process work.
LEMMA AloneStep == ~ Overlap /\ LifeInv /\ Alone /\ [Next]_vars => Alone'
<1> SUFFICES ASSUME ~ Overlap, LifeInv, Alone, [Next]_vars PROVE Alone'
  OBVIOUS
<1> USE LifecycleAssumption
<1> USE DEF Alone, Works, NobodyWorks, LifeInv, TypeInv, TypeOK, MonitorJoined, PCs, Executing,
            Preparing, Statuses, Resumable, WriteStatus
<1>1. CASE UNCHANGED vars
  BY <1>1 DEF vars
<1>2. ASSUME NEW p \in Procs,
             \/ CreateRun(p) \/ Resume(p) \/ Step(p) \/ MonitorStep(p)
             \/ Interrupt(p) \/ Deadline(p) \/ Crash(p)
      PROVE  Alone'
  <2>1. CASE CreateRun(p)
    BY <2>1 DEF CreateRun
  <2>2. CASE MarkSnapshotting(p)
    BY <2>2 DEF MarkSnapshotting
  <2>3. CASE Snapshot(p)
    BY <2>3 DEF Snapshot
  <2>4. CASE MarkPrepared(p)
    BY <2>4 DEF MarkPrepared
  <2>5. CASE Resume(p)
    BY <2>5 DEF Resume
  <2>6. CASE ResumePreflight(p)
    BY <2>6 DEF ResumePreflight
  <2>7. CASE MarkVMStarting(p)
    BY <2>7 DEF MarkVMStarting
  <2>8. CASE MarkRunning(p)
    BY <2>8 DEF MarkRunning
  <2>9. CASE Interrupt(p)
    BY <2>9 DEF Interrupt
  <2>10. CASE Deadline(p)
    BY <2>10 DEF Deadline
  <2>11. CASE RunnerReturn(p)
    BY <2>11 DEF RunnerReturn
  <2>12. CASE MonitorWake(p)
    BY <2>12 DEF MonitorWake
  <2>13. CASE MonitorCheck(p)
    BY <2>13 DEF MonitorCheck
  <2>14. CASE MonitorWrite(p)
    BY <2>14 DEF MonitorWrite
  <2>15. CASE JoinMonitor(p)
    BY <2>15 DEF JoinMonitor
  <2>16. CASE WriteFinalStatus(p)
    <3>1. FinalStatus(p) # "absent"
      BY <2>16, FinalStatusShape DEF WriteFinalStatus
    <3> QED
      BY <2>16, <3>1 DEF WriteFinalStatus
  <2>17. CASE Crash(p)
    BY <2>17 DEF Crash
  <2> QED
    BY <1>2, <2>1, <2>2, <2>3, <2>4, <2>5, <2>6, <2>7, <2>8, <2>9, <2>10, <2>11, <2>12,
       <2>13, <2>14, <2>15, <2>16, <2>17 DEF Step, MonitorStep
<1> QED
  BY <1>1, <1>2 DEF Next

\* A completed run is never executed again, for any number of processes and
\* crashes: what MCRunLifecycleOverlap finds is the overlap and nothing else.
THEOREM CompletedIsNotExecuted ==
    ASSUME ~ Overlap
    PROVE  Spec => CompletedNotExecuted
<1> DEFINE Fresh == \A p \in Procs : pc[p] = "ready" /\ pc'[p] = "starting" => status # "completed"
<1>1. Init => Alone
  BY DEF Init, Alone, Works, NobodyWorks, Preparing, Executing
<1>2. LifeInv /\ Alone /\ [Next]_vars => Alone'
  BY AloneStep
<1>3. Alone => [Fresh]_vars
  BY DEF Alone
<1> QED
  BY <1>1, <1>2, <1>3, LifeInvariant, PTL DEF Spec, CompletedNotExecuted

-----------------------------------------------------------------------------
\* What a status that nobody may resume from stands on: its executor, whose
\* monitor is there to be waited for.
Executed ==
    /\ ActiveIsExecuted
    /\ \A p \in Procs : pc[p] \in {"running", "returned"} => mon[p] # "off"

\* The last process to leave takes the active status with it.
LEMMA ExecutedStep == LifeInv /\ Executed /\ [Next]_vars => Executed'
<1> SUFFICES ASSUME LifeInv, Executed, [Next]_vars PROVE Executed'
  OBVIOUS
<1> USE LifecycleAssumption
<1> USE DEF Executed, ActiveIsExecuted, Active, Disturbed, LifeInv, TypeInv, TypeOK, MonitorJoined,
            PCs, Executing, Preparing, WriteStatus
<1>1. CASE UNCHANGED vars
  BY <1>1 DEF vars
<1>2. ASSUME NEW p \in Procs,
             \/ CreateRun(p) \/ Resume(p) \/ Step(p) \/ MonitorStep(p)
             \/ Interrupt(p) \/ Deadline(p) \/ Crash(p)
      PROVE  Executed'
  <2>1. CASE CreateRun(p)
    BY <2>1 DEF CreateRun
  <2>2. CASE MarkSnapshotting(p)
    BY <2>2 DEF MarkSnapshotting
  <2>3. CASE Snapshot(p)
    BY <2>3 DEF Snapshot
  <2>4. CASE MarkPrepared(p)
    BY <2>4 DEF MarkPrepared
  <2>5. CASE Resume(p)
    BY <2>5 DEF Resume
  <2>6. CASE ResumePreflight(p)
    BY <2>6 DEF ResumePreflight
  <2>7. CASE MarkVMStarting(p)
    BY <2>7 DEF MarkVMStarting
  <2>8. CASE MarkRunning(p)
    BY <2>8 DEF MarkRunning
  <2>9. CASE Interrupt(p)
    BY <2>9 DEF Interrupt
  <2>10. CASE Deadline(p)
    BY <2>10 DEF Deadline
  <2>11. CASE RunnerReturn(p)
    BY <2>11 DEF RunnerReturn
  <2>12. CASE MonitorWake(p)
    BY <2>12 DEF MonitorWake
  <2>13. CASE MonitorCheck(p)
    BY <2>13 DEF MonitorCheck
  <2>14. CASE MonitorWrite(p)
    BY <2>14 DEF MonitorWrite
  <2>15. CASE JoinMonitor(p)
    BY <2>15 DEF JoinMonitor
  <2>16. CASE WriteFinalStatus(p)
    <3>1. FinalStatus(p) \notin Active
      BY <2>16, FinalStatusShape DEF WriteFinalStatus
    <3> QED
      BY <2>16, <3>1 DEF WriteFinalStatus
  <2>17. CASE Crash(p)
    BY <2>17 DEF Crash
  <2> QED
    BY <1>2, <2>1, <2>2, <2>3, <2>4, <2>5, <2>6, <2>7, <2>8, <2>9, <2>10, <2>11, <2>12,
       <2>13, <2>14, <2>15, <2>16, <2>17 DEF Step, MonitorStep
<1> QED
  BY <1>1, <1>2 DEF Next

\* LifeInv and Executed always hold.
LEMMA ExecutedInvariant == Spec => [](LifeInv /\ Executed)
<1>1. Init => Executed
  BY DEF Init, Executed, ActiveIsExecuted, Active
<1>2. LifeInv /\ Executed /\ [Next]_vars => Executed'
  BY ExecutedStep
<1> QED
  BY <1>1, <1>2, LifeInvariant, PTL DEF Spec

\* An active status has somebody who executes the run, unless a process crashed
\* or a write failed, however many processes overlap.
THEOREM ActiveStatusIsExecuted == Spec => []ActiveIsExecuted
BY ExecutedInvariant, PTL DEF Executed

\* What an interrupted process leaves behind says stopped, or completed when the
\* pipeline was through by then.
InterruptedExit ==
    [][\A p \in Procs : pc[p] \in Executing /\ ctx[p] = "canceled" /\ pc'[p] = "exited"
                            => status' \in {"stopped", "completed"} \/ dbFailed']_vars

\* The safety part of InterruptRecorded: README's "records the run as `stopped`".
THEOREM InterruptIsRecorded == Spec => InterruptedExit
<1> DEFINE Told == \A p \in Procs : pc[p] \in Executing /\ ctx[p] = "canceled" /\ pc'[p] = "exited"
                      => status' \in {"stopped", "completed"} \/ dbFailed'
<1>1. LifeInv /\ [Next]_vars => [Told]_vars
  <2> SUFFICES ASSUME LifeInv, Next, NEW q \in Procs, pc[q] \in Executing, ctx[q] = "canceled",
                      pc'[q] = "exited"
               PROVE  status' \in {"stopped", "completed"} \/ dbFailed'
    OBVIOUS
  <2> USE LifecycleAssumption DEF LifeInv, TypeInv, TypeOK, Executing, WriteStatus
  <2>1. PICK p \in Procs : \/ CreateRun(p) \/ Resume(p) \/ Step(p) \/ MonitorStep(p)
                         \/ Interrupt(p) \/ Deadline(p) \/ Crash(p)
    BY DEF Next
  <2>2. q = p
    BY <2>1 DEF CreateRun, Resume, Step, MonitorStep, Interrupt, Deadline, Crash, MarkSnapshotting,
                Snapshot, MarkPrepared, ResumePreflight, RunnerReturn, JoinMonitor, MonitorWake,
                MonitorCheck, MonitorWrite, MarkVMStarting, MarkRunning, WriteFinalStatus
  <2>3. MarkRunning(p) \/ WriteFinalStatus(p)
    BY <2>1, <2>2
    DEF CreateRun, Resume, Step, MonitorStep, Interrupt, Deadline, Crash, MarkSnapshotting,
        Snapshot, MarkPrepared, ResumePreflight, RunnerReturn, JoinMonitor, MonitorWake,
        MonitorCheck, MonitorWrite, MarkVMStarting
  <2>4. CASE MarkRunning(p)
    BY <2>2, <2>4 DEF MarkRunning
  <2>5. CASE WriteFinalStatus(p)
    <3>1. result[p] \in {"error", "success"}
      BY <2>5 DEF WriteFinalStatus, Returned
    <3>2. FinalStatus(p) \in {"stopped", "completed"}
      BY <2>2, <3>1 DEF FinalStatus
    <3> QED
      BY <2>5, <3>2 DEF WriteFinalStatus
  <2> QED
    BY <2>3, <2>4, <2>5
<1> QED
  BY <1>1, LifeInvariant, PTL DEF Spec, InterruptedExit

-----------------------------------------------------------------------------
\* The measures are naturals.
LEMMA MeasureTyped ==
    ASSUME TypeOK, NEW p \in Procs
    PROVE  ProcessLeft(p) \in 0..11 /\ MonitorLeft(p) \in 0..3 /\ StepsLeft(p) \in Nat
<1>1. ProcessLeft(p) \in 0..11
  BY DEF ProcessLeft
<1>2. MonitorLeft(p) \in 0..3
  BY DEF MonitorLeft
<1> QED
  BY <1>1, <1>2 DEF StepsLeft

\* A step of p, or of its monitor when the runner is done, costs p one at least.
LEMMA StepCosts ==
    ASSUME LifeInv, NEW p \in Procs, Step(p) \/ (MonitorStep(p) /\ RunnerDone(p)), TypeOK'
    PROVE  StepsLeft(p)' < StepsLeft(p)
<1> USE LifecycleAssumption
<1> USE DEF LifeInv, TypeInv, TypeOK, MonitorJoined, StepsLeft, ProcessLeft, MonitorLeft, WriteStatus
<1>1. CASE MarkSnapshotting(p)
  BY <1>1 DEF MarkSnapshotting
<1>2. CASE Snapshot(p)
  BY <1>2 DEF Snapshot
<1>3. CASE MarkPrepared(p)
  BY <1>3 DEF MarkPrepared
<1>4. CASE ResumePreflight(p)
  BY <1>4 DEF ResumePreflight
<1>5. CASE MarkVMStarting(p)
  BY <1>5 DEF MarkVMStarting
<1>6. CASE MarkRunning(p)
  BY <1>6 DEF MarkRunning
<1>7. CASE RunnerReturn(p)
  BY <1>7 DEF RunnerReturn
<1>8. CASE JoinMonitor(p)
  BY <1>8 DEF JoinMonitor
<1>9. CASE WriteFinalStatus(p)
  BY <1>9 DEF WriteFinalStatus
<1>10. CASE MonitorWake(p) /\ RunnerDone(p)
  BY <1>10 DEF MonitorWake
<1>11. CASE MonitorCheck(p) /\ RunnerDone(p)
  BY <1>11 DEF MonitorCheck
<1>12. CASE MonitorWrite(p) /\ RunnerDone(p)
  BY <1>12 DEF MonitorWrite
<1> QED
  BY <1>1, <1>2, <1>3, <1>4, <1>5, <1>6, <1>7, <1>8, <1>9, <1>10, <1>11, <1>12 DEF Step, MonitorStep

\* While the runner works only the retry takes the monitor back.
LEMMA OnlyRetryDelays ==
    ASSUME LifeInv, NEW p \in Procs, MonitorStep(p), TypeOK', mon[p] # "checking"
    PROVE  StepsLeft(p)' <= StepsLeft(p)
<1> USE DEF LifeInv, TypeInv, TypeOK, StepsLeft, ProcessLeft, MonitorLeft
<1>1. CASE MonitorWake(p)
  BY <1>1 DEF MonitorWake
<1>2. CASE MonitorWrite(p)
  BY <1>2 DEF MonitorWrite
<1> QED
  BY <1>1, <1>2 DEF MonitorStep, MonitorCheck

\* No step of anybody else takes a process that works away from its end.
LEMMA NobodyDelays ==
    ASSUME LifeInv, [Next]_vars, LifeInv', NEW q \in Procs, pc[q] \notin {"idle", "exited", "dead"}
    PROVE  StepsLeft(q)' <= StepsLeft(q) \/ (~ RunnerDone(q) /\ mon[q] = "checking")
<1> USE MeasureTyped
<1> USE DEF LifeInv, TypeInv, TypeOK, StepsLeft, ProcessLeft, MonitorLeft, WriteStatus
<1>1. CASE UNCHANGED vars
  BY <1>1 DEF vars
<1>2. ASSUME NEW p \in Procs,
             \/ CreateRun(p) \/ Resume(p) \/ Step(p) \/ MonitorStep(p)
             \/ Interrupt(p) \/ Deadline(p) \/ Crash(p)
      PROVE  StepsLeft(q)' <= StepsLeft(q) \/ (~ RunnerDone(q) /\ mon[q] = "checking")
  <2>1. CASE p = q /\ (Step(p) \/ (MonitorStep(p) /\ RunnerDone(p)))
    BY <2>1, StepCosts, MeasureTyped
  <2>2. CASE CreateRun(p)
    BY <2>2 DEF CreateRun
  <2>3. CASE Resume(p)
    BY <2>3 DEF Resume
  <2>4. CASE Interrupt(p)
    BY <2>4 DEF Interrupt
  <2>5. CASE Deadline(p)
    BY <2>5 DEF Deadline
  <2>6. CASE Crash(p)
    BY <2>6 DEF Crash
  <2>7. CASE p # q /\ (Step(p) \/ MonitorStep(p))
    <3>1. pc'[q] = pc[q] /\ mon'[q] = mon[q]
      BY <2>7 DEF Step, MonitorStep, MarkSnapshotting, Snapshot, MarkPrepared, ResumePreflight,
                  MarkVMStarting, MarkRunning, RunnerReturn, JoinMonitor, WriteFinalStatus,
                  MonitorWake, MonitorCheck, MonitorWrite
    <3> QED
      BY <3>1
  <2>8. CASE p = q /\ MonitorStep(p) /\ ~ RunnerDone(p)
    BY <2>8, OnlyRetryDelays
  <2> QED
    BY <1>2, <2>1, <2>2, <2>3, <2>4, <2>5, <2>6, <2>7, <2>8
<1> QED
  BY <1>1, <1>2 DEF Next

\* The steps of every process run out once its runner is done, whatever the others
\* do and however often the database fails; MonitorAnswers says that it has one to
\* take.
THEOREM StepsAlwaysRunOut == Spec => StepsRunOut
<1> DEFINE Down == \A p \in Procs :
              /\ Step(p) \/ (MonitorStep(p) /\ RunnerDone(p)) => StepsLeft(p)' < StepsLeft(p)
              /\ pc[p] \notin {"idle", "exited", "dead"} =>
                    \/ StepsLeft(p)' <= StepsLeft(p)
                    \/ ~ RunnerDone(p) /\ mon[p] = "checking"
<1>1. LifeInv /\ LifeInv' /\ [Next]_vars => [Down]_vars
  BY StepCosts, NobodyDelays DEF LifeInv, TypeInv
<1> QED
  BY <1>1, LifeInvariant, PTL DEF Spec, StepsRunOut

\* A process that waits for its monitor waits for one that has a step to take, or
\* is done: the wait is no deadlock.
MonitorAnswers ==
    \A p \in Procs : pc[p] = "returned" => mon[p] \in {"watching", "checking", "writing", "done"}

\* The wait for the monitor, for any number of processes, failed writes and crashes.
THEOREM MonitorAlwaysAnswers == Spec => []MonitorAnswers
<1>1. LifeInv /\ Executed => MonitorAnswers
  BY DEF LifeInv, TypeInv, TypeOK, Executed, MonitorAnswers
<1> QED
  BY <1>1, ExecutedInvariant, PTL
=============================================================================
