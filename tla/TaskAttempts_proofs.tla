------------------------- MODULE TaskAttempts_proofs -------------------------
(***************************************************************************)
(* Proofs about TaskAttempts, for any number of attempts, calls, faults    *)
(* and crashes.  TypeInv is its inductive type invariant; on it rest four  *)
(* invariants of one concern each: the recorded retries, the ingest and    *)
(* the result, the timeouts on the host, and the machines.                 *)
(***************************************************************************)
EXTENDS TaskAttempts, TLAPS

\* A call has an attempt and no result yet; there is an attempt after one that
\* is retried.
Bounds ==
    /\ pc = "out" => attempt = 0
    /\ pc # "out" => attempt \in Attempts /\ runs \in 1..MaxRuns /\ result = "none"
    /\ pc \in {"record", "backoff"} => attempt < MaxAttempts

TypeInv == TypeOK /\ Bounds

\* The errors the attempts end with are errors.
LEMMA ErrorsTyped ==
    /\ NoError \in Errors
    /\ \A kind \in Kinds : Error(kind) \in Errors
    /\ Texts \subseteq Errors
    /\ GuestError \in Errors
    /\ IngestError \in Errors
BY DEF NoError, Error, Errors, Kinds, Texts, GuestError, IngestError

\* The first state is typed.
LEMMA TypeInvInit == Init => TypeInv
<1> SUFFICES ASSUME Init PROVE TypeInv
  OBVIOUS
<1>1. cancelled \in BOOLEAN /\ ingested \in BOOLEAN /\ lost \in BOOLEAN
  BY Zenon DEF Init
<1> QED
  BY <1>1, AttemptsAssumption, ErrorsTyped
  DEF Init, TypeInv, TypeOK, Bounds, Attempts, Places, VMPlaces

\* Every step keeps the types.
LEMMA TypeInvStep == TypeInv /\ [Next]_vars => TypeInv'
<1> SUFFICES ASSUME TypeInv, [Next]_vars PROVE TypeInv'
  OBVIOUS
<1> USE AttemptsAssumption, ErrorsTyped
<1> USE DEF TypeInv, TypeOK, Bounds, Places, VMPlaces, Attempts, Kinds,
            Goto, Fails, Return, SetVM, Fault, VMFault, Ledger, History
<1>1. CASE Start
  <2>1. (cancelled \in BOOLEAN)' /\ (ingested \in BOOLEAN)' /\ (lost \in BOOLEAN)'
    BY <1>1, Zenon DEF Start, Ledger, TypeInv, TypeOK
  <2> QED
    BY <1>1, <2>1 DEF Start
<1>2. CASE Cancel
  BY <1>2 DEF Cancel
<1>3. CASE CheckContext
  BY <1>3 DEF CheckContext
<1>4. CASE Prepare
  BY <1>4 DEF Prepare
<1>5. CASE SetupHook
  BY <1>5 DEF SetupHook
<1>6. CASE Agent
  BY <1>6 DEF Agent
<1>7. CASE DeleteOldVM
  BY <1>7 DEF DeleteOldVM
<1>8. CASE CreateVM
  BY <1>8 DEF CreateVM
<1>9. CASE StartVM
  BY <1>9 DEF StartVM
<1>10. CASE CopyInputs
  BY <1>10 DEF CopyInputs
<1>11. CASE Guest
  BY <1>11 DEF Guest
<1>12. CASE CopyOutput
  BY <1>12 DEF CopyOutput
<1>13. CASE StopVM
  BY <1>13 DEF StopVM
<1>14. CASE DeleteVM
  BY <1>14 DEF DeleteVM
<1>15. CASE CopyLog
  BY <1>15 DEF CopyLog
<1>16. CASE Verify
  BY <1>16 DEF Verify
<1>17. CASE Ingest
  <2>1. (cancelled \in BOOLEAN)' /\ (ingested \in BOOLEAN)' /\ (lost \in BOOLEAN)'
    BY <1>17, Zenon DEF Ingest, Ledger, TypeInv, TypeOK
  <2>2. (setupLogs \subseteq Attempts)'
    <3>1. 1 \in Attempts
      BY DEF Attempts
    <3>2. setupLogs' \subseteq setupLogs \cup {1}
      BY <1>17 DEF Ingest
    <3> QED
      BY <3>1, <3>2 DEF TypeInv, TypeOK
  <2> QED
    BY <1>17, <2>1, <2>2 DEF Ingest
<1>18. CASE RegisterSetupLog
  <2>1. (setupLogs \subseteq Attempts)'
    BY <1>18 DEF RegisterSetupLog
  <2>2. (err \in Errors)' /\ (attempt = 0)' /\ (pc = "out")' /\ (result \in {"ok", "error"})'
    BY <1>18 DEF RegisterSetupLog
  <2>3. (faults \in 0..MaxFaults)'
    BY <1>18 DEF RegisterSetupLog
  <2> QED
    BY <1>18, <2>1, <2>2, <2>3 DEF RegisterSetupLog
<1>19. CASE Decide
  BY <1>19 DEF Decide
<1>20. CASE RecordRetry
  BY <1>20 DEF RecordRetry
<1>21. CASE Backoff
  BY <1>21 DEF Backoff
<1>22. CASE Crash
  BY <1>22 DEF Crash
<1>23. CASE Lose
  BY <1>23 DEF Lose
<1>24. CASE UNCHANGED vars
  BY <1>24 DEF vars
<1> QED
  BY <1>1, <1>2, <1>3, <1>4, <1>5, <1>6, <1>7, <1>8, <1>9, <1>10, <1>11, <1>12, <1>13, <1>14,
     <1>15, <1>16, <1>17, <1>18, <1>19, <1>20, <1>21, <1>22, <1>23,
     <1>24 DEF Next, Step

\* Every variable of the attempts at a task keeps its type, for any number of
\* attempts, calls, faults and crashes, and in every configuration.
THEOREM TypeCorrect == Spec => []TypeOK
<1>1. Init => TypeInv
  BY TypeInvInit
<1>2. TypeInv /\ [Next]_vars => TypeInv'
  BY TypeInvStep
<1>3. TypeInv => TypeOK
  BY DEF TypeInv
<1> QED
  BY <1>1, <1>2, <1>3, PTL DEF Spec
-----------------------------------------------------------------------------
\* The recorded retries are of attempts so far; the one that is waited for is
\* among them and none after it.
RetryInv ==
    /\ retries \subseteq (1..runs) \X Attempts
    /\ pc = "backoff" => /\ <<runs, attempt>> \in retries
                         /\ \A k \in attempt + 1..MaxAttempts : <<runs, k>> \notin retries
    /\ RetriesRecorded

\* No step loses a retry or records one that is not made.
LEMMA RetryInvStep == TypeInv /\ RetryInv /\ [Next]_vars => RetryInv'
<1> SUFFICES ASSUME TypeInv, RetryInv, [Next]_vars PROVE RetryInv'
  OBVIOUS
<1> USE AttemptsAssumption
<1> USE DEF RetryInv, TypeInv, TypeOK, Bounds, Attempts, RetriesRecorded, Goto, Fails, Return, Ledger, History
<1>1. CASE Start
  BY <1>1 DEF Start
<1>2. CASE Cancel
  BY <1>2 DEF Cancel
<1>3. CASE CheckContext
  BY <1>3 DEF CheckContext
<1>4. CASE Prepare
  BY <1>4 DEF Prepare
<1>5. CASE SetupHook
  BY <1>5 DEF SetupHook
<1>6. CASE Agent
  BY <1>6 DEF Agent
<1>7. CASE DeleteOldVM
  BY <1>7 DEF DeleteOldVM
<1>8. CASE CreateVM
  BY <1>8 DEF CreateVM
<1>9. CASE StartVM
  BY <1>9 DEF StartVM
<1>10. CASE CopyInputs
  BY <1>10 DEF CopyInputs
<1>11. CASE Guest
  BY <1>11 DEF Guest
<1>12. CASE CopyOutput
  BY <1>12 DEF CopyOutput
<1>13. CASE StopVM
  BY <1>13 DEF StopVM
<1>14. CASE DeleteVM
  BY <1>14 DEF DeleteVM
<1>15. CASE CopyLog
  BY <1>15 DEF CopyLog
<1>16. CASE Verify
  BY <1>16 DEF Verify
<1>17. CASE Ingest
  BY <1>17 DEF Ingest
<1>18. CASE RegisterSetupLog
  BY <1>18 DEF RegisterSetupLog
<1>19. CASE Decide
  BY <1>19 DEF Decide
<1>20. CASE RecordRetry
  BY <1>20 DEF RecordRetry
<1>21. CASE Backoff
  BY <1>21 DEF Backoff
<1>22. CASE Crash
  BY <1>22 DEF Crash
<1>23. CASE Lose
  BY <1>23 DEF Lose
<1>24. CASE UNCHANGED vars
  BY <1>24 DEF vars
<1> QED
  BY <1>1, <1>2, <1>3, <1>4, <1>5, <1>6, <1>7, <1>8, <1>9, <1>10, <1>11, <1>12, <1>13, <1>14,
     <1>15, <1>16, <1>17, <1>18, <1>19, <1>20, <1>21, <1>22, <1>23,
     <1>24 DEF Next, Step

-----------------------------------------------------------------------------
\* Work in the ledger is not attempted again, and a result speaks of it.
ResultInv ==
    /\ pc \notin {"out", "setuplog"} => ~ Done
    /\ pc = "setuplog" => Done
    /\ ~ (Lima /\ Setup) => ResultTrue

\* No step attempts what is ingested, or reports what is not true of the ledger.
LEMMA ResultInvStep == TypeInv /\ ResultInv /\ [Next]_vars => ResultInv'
<1> SUFFICES ASSUME TypeInv, ResultInv, [Next]_vars PROVE ResultInv'
  OBVIOUS
<1> USE AttemptsAssumption
<1> USE DEF ResultInv, TypeInv, TypeOK, Bounds, Attempts, ResultTrue, Done, Goto, Fails, Return, Fault, Ledger, History, Lima, Setup
<1>1. CASE Start
  BY <1>1 DEF Start
<1>2. CASE Cancel
  BY <1>2 DEF Cancel
<1>3. CASE CheckContext
  BY <1>3 DEF CheckContext
<1>4. CASE Prepare
  BY <1>4 DEF Prepare
<1>5. CASE SetupHook
  BY <1>5 DEF SetupHook
<1>6. CASE Agent
  BY <1>6 DEF Agent
<1>7. CASE DeleteOldVM
  BY <1>7 DEF DeleteOldVM
<1>8. CASE CreateVM
  BY <1>8 DEF CreateVM
<1>9. CASE StartVM
  BY <1>9 DEF StartVM
<1>10. CASE CopyInputs
  BY <1>10 DEF CopyInputs
<1>11. CASE Guest
  BY <1>11 DEF Guest
<1>12. CASE CopyOutput
  BY <1>12 DEF CopyOutput
<1>13. CASE StopVM
  BY <1>13 DEF StopVM
<1>14. CASE DeleteVM
  BY <1>14 DEF DeleteVM
<1>15. CASE CopyLog
  BY <1>15 DEF CopyLog
<1>16. CASE Verify
  BY <1>16 DEF Verify
<1>17. CASE Ingest
  BY <1>17 DEF Ingest
<1>18. CASE RegisterSetupLog
  BY <1>18 DEF RegisterSetupLog
<1>19. CASE Decide
  BY <1>19 DEF Decide
<1>20. CASE RecordRetry
  BY <1>20 DEF RecordRetry
<1>21. CASE Backoff
  BY <1>21 DEF Backoff
<1>22. CASE Crash
  BY <1>22 DEF Crash
<1>23. CASE Lose
  BY <1>23 DEF Lose
<1>24. CASE UNCHANGED vars
  BY <1>24 DEF vars
<1> QED
  BY <1>1, <1>2, <1>3, <1>4, <1>5, <1>6, <1>7, <1>8, <1>9, <1>10, <1>11, <1>12, <1>13, <1>14,
     <1>15, <1>16, <1>17, <1>18, <1>19, <1>20, <1>21, <1>22, <1>23,
     <1>24 DEF Next, Step

-----------------------------------------------------------------------------
\* On the host a timeout is decided upon at once.
TimeoutInv ==
    ~ Lima =>
        /\ pc \notin VMPlaces \cup {"delete", "create", "log"}
        /\ timeouts # {} => \/ pc = "out"
                            \/ pc = "decide" /\ err.kind = "timeout" /\ timeouts = {attempt}

\* No step on the host goes on from a timeout.
LEMMA TimeoutInvStep == TypeInv /\ TimeoutInv /\ [Next]_vars => TimeoutInv'
<1> SUFFICES ASSUME TypeInv, TimeoutInv, [Next]_vars PROVE TimeoutInv'
  OBVIOUS
<1> USE AttemptsAssumption
<1> USE DEF TimeoutInv, TypeInv, TypeOK, Bounds, Attempts, VMPlaces, Goto, Fails, Return, Ledger, History, Lima, Error, Retryable, Texts, NoError, IngestError
<1>1. CASE Start
  BY <1>1 DEF Start
<1>2. CASE Cancel
  BY <1>2 DEF Cancel
<1>3. CASE CheckContext
  BY <1>3 DEF CheckContext
<1>4. CASE Prepare
  BY <1>4 DEF Prepare
<1>5. CASE SetupHook
  BY <1>5 DEF SetupHook
<1>6. CASE Agent
  <2>1. ~ Lima => timeouts = {}
    BY <1>6 DEF Agent
  <2>2. config' = config /\ attempt' = attempt /\ pc' \in {"verify", "decide"}
    BY <1>6 DEF Agent
  <2>3. CASE timeouts' = timeouts
    BY <2>1, <2>2, <2>3
  <2>4. CASE err' = Error("timeout") /\ pc' = "decide" /\ timeouts' = timeouts \cup {attempt}
    BY <2>1, <2>2, <2>4
  <2> QED
    BY <1>6, <2>3, <2>4 DEF Agent
<1>7. CASE DeleteOldVM
  BY <1>7 DEF DeleteOldVM
<1>8. CASE CreateVM
  BY <1>8 DEF CreateVM
<1>9. CASE StartVM
  BY <1>9 DEF StartVM
<1>10. CASE CopyInputs
  BY <1>10 DEF CopyInputs
<1>11. CASE Guest
  BY <1>11 DEF Guest
<1>12. CASE CopyOutput
  BY <1>12 DEF CopyOutput
<1>13. CASE StopVM
  BY <1>13 DEF StopVM
<1>14. CASE DeleteVM
  BY <1>14 DEF DeleteVM
<1>15. CASE CopyLog
  BY <1>15 DEF CopyLog
<1>16. CASE Verify
  BY <1>16 DEF Verify
<1>17. CASE Ingest
  BY <1>17 DEF Ingest
<1>18. CASE RegisterSetupLog
  BY <1>18 DEF RegisterSetupLog
<1>19. CASE Decide
  BY <1>19 DEF Decide
<1>20. CASE RecordRetry
  BY <1>20 DEF RecordRetry
<1>21. CASE Backoff
  BY <1>21 DEF Backoff
<1>22. CASE Crash
  BY <1>22 DEF Crash
<1>23. CASE Lose
  BY <1>23 DEF Lose
<1>24. CASE UNCHANGED vars
  BY <1>24 DEF vars
<1> QED
  BY <1>1, <1>2, <1>3, <1>4, <1>5, <1>6, <1>7, <1>8, <1>9, <1>10, <1>11, <1>12, <1>13, <1>14,
     <1>15, <1>16, <1>17, <1>18, <1>19, <1>20, <1>21, <1>22, <1>23,
     <1>24 DEF Next, Step

-----------------------------------------------------------------------------
\* A machine that is about to be deleted was stopped.
MachineInv ==
    /\ pc = "dispose" /\ vmFaults = 0 => vm[attempt] = "stopped"
    /\ VMsDisposed

\* No step leaves a machine behind.
LEMMA MachineInvStep == TypeInv /\ MachineInv /\ [Next]_vars => MachineInv'
<1> SUFFICES ASSUME TypeInv, MachineInv, [Next]_vars PROVE MachineInv'
  OBVIOUS
<1> USE AttemptsAssumption
<1> USE DEF MachineInv, TypeInv, TypeOK, Bounds, Attempts, VMsDisposed, VMPlaces, Goto, Fails, Return, SetVM, VMFault, Ledger, History, KeepVM
<1>1. CASE Start
  BY <1>1 DEF Start
<1>2. CASE Cancel
  BY <1>2 DEF Cancel
<1>3. CASE CheckContext
  BY <1>3 DEF CheckContext
<1>4. CASE Prepare
  BY <1>4 DEF Prepare
<1>5. CASE SetupHook
  BY <1>5 DEF SetupHook
<1>6. CASE Agent
  BY <1>6 DEF Agent
<1>7. CASE DeleteOldVM
  BY <1>7 DEF DeleteOldVM
<1>8. CASE CreateVM
  BY <1>8 DEF CreateVM
<1>9. CASE StartVM
  BY <1>9 DEF StartVM
<1>10. CASE CopyInputs
  BY <1>10 DEF CopyInputs
<1>11. CASE Guest
  BY <1>11 DEF Guest
<1>12. CASE CopyOutput
  BY <1>12 DEF CopyOutput
<1>13. CASE StopVM
  BY <1>13 DEF StopVM
<1>14. CASE DeleteVM
  BY <1>14 DEF DeleteVM
<1>15. CASE CopyLog
  BY <1>15 DEF CopyLog
<1>16. CASE Verify
  BY <1>16 DEF Verify
<1>17. CASE Ingest
  BY <1>17 DEF Ingest
<1>18. CASE RegisterSetupLog
  BY <1>18 DEF RegisterSetupLog
<1>19. CASE Decide
  BY <1>19 DEF Decide
<1>20. CASE RecordRetry
  BY <1>20 DEF RecordRetry
<1>21. CASE Backoff
  BY <1>21 DEF Backoff
<1>22. CASE Crash
  BY <1>22 DEF Crash
<1>23. CASE Lose
  BY <1>23 DEF Lose
<1>24. CASE UNCHANGED vars
  BY <1>24 DEF vars
<1> QED
  BY <1>1, <1>2, <1>3, <1>4, <1>5, <1>6, <1>7, <1>8, <1>9, <1>10, <1>11, <1>12, <1>13, <1>14,
     <1>15, <1>16, <1>17, <1>18, <1>19, <1>20, <1>21, <1>22, <1>23,
     <1>24 DEF Next, Step

-----------------------------------------------------------------------------
\* The inductive invariant.
AttemptsInv == TypeInv /\ RetryInv /\ ResultInv /\ TimeoutInv /\ MachineInv

\* It holds at first.
LEMMA AttemptsInvInit == Init => AttemptsInv
<1> SUFFICES ASSUME Init PROVE AttemptsInv
  OBVIOUS
<1> USE AttemptsAssumption
<1>1. TypeInv
  BY TypeInvInit
<1>2. RetryInv
  BY DEF Init, RetryInv, RetriesRecorded, Attempts
<1>3. ResultInv
  BY DEF Init, ResultInv, ResultTrue, Done
<1>4. TimeoutInv
  BY DEF Init, TimeoutInv, VMPlaces
<1>5. MachineInv
  BY DEF Init, MachineInv, VMsDisposed
<1> QED
  BY <1>1, <1>2, <1>3, <1>4, <1>5 DEF AttemptsInv

\* It always holds.
LEMMA AttemptsInvariant == Spec => []AttemptsInv
<1>1. Init => AttemptsInv
  BY AttemptsInvInit
<1>2. AttemptsInv /\ [Next]_vars => AttemptsInv'
  BY TypeInvStep, RetryInvStep, ResultInvStep, TimeoutInvStep, MachineInvStep DEF AttemptsInv
<1> QED
  BY <1>1, <1>2, PTL DEF Spec

\* Every retry is in the ledger, and only those the loop decided on, for any
\* number of attempts, calls, faults and crashes.
THEOREM RetriesAreRecorded == Spec => []RetriesRecorded
<1>1. AttemptsInv => RetriesRecorded
  BY DEF AttemptsInv, RetryInv
<1> QED
  BY <1>1, AttemptsInvariant, PTL

\* What a call reports is true of the ledger, except in a guest with a setup
\* script, where the run MCTaskAttemptsSetup refutes it.
THEOREM ResultIsTrue == Spec => [](~ (Lima /\ Setup) => ResultTrue)
<1>1. AttemptsInv => (~ (Lima /\ Setup) => ResultTrue)
  BY DEF AttemptsInv, ResultInv
<1> QED
  BY <1>1, AttemptsInvariant, PTL

\* On the host no attempt follows one that ran into the task's timeout.
THEOREM HostTimeoutIsFinal == Spec => []HostTimeoutFinal
<1>1. AttemptsInv => HostTimeoutFinal
  <2> SUFFICES ASSUME AttemptsInv, ~ Lima, NEW k \in timeouts PROVE attempt <= k
    BY DEF HostTimeoutFinal, NoRetryAfterTimeout
  <2>1. k \in Attempts /\ attempt \in 0..MaxAttempts
    BY DEF AttemptsInv, TypeInv, TypeOK
  <2>2. attempt = 0 \/ k = attempt
    BY DEF AttemptsInv, TypeInv, Bounds, TimeoutInv
  <2> QED
    BY <2>1, <2>2, AttemptsAssumption DEF Attempts
<1> QED
  BY <1>1, AttemptsInvariant, PTL

\* No attempt leaves its machine behind, whatever stage of it fails, as long as
\* the machine can be disposed of; one that a crash left is never used again.
THEOREM MachinesDisposed == Spec => []VMsDisposed
<1>1. AttemptsInv => VMsDisposed
  BY DEF AttemptsInv, MachineInv
<1> QED
  BY <1>1, AttemptsInvariant, PTL
-----------------------------------------------------------------------------
\* Each step of a call goes on to a later place of the attempt, ends the call, or goes on
\* to the next attempt.
LEMMA StepAdvances ==
    ASSUME TypeInv, Step
    PROVE  \/ pc' = "out"
           \/ /\ attempt' = attempt /\ pc' \in Places \ {"out"}
              /\ StepsOf(pc') < StepsOf(pc)
           \/ attempt' = attempt + 1 /\ pc' = "check" /\ pc = "backoff"
<1> USE DEF StepsOf, Places, VMPlaces, Goto, Fails, Return
<1>1. CASE CheckContext
  BY <1>1 DEF CheckContext
<1>2. CASE Prepare
  BY <1>2 DEF Prepare
<1>3. CASE SetupHook
  BY <1>3 DEF SetupHook
<1>4. CASE Agent
  BY <1>4 DEF Agent
<1>5. CASE DeleteOldVM
  BY <1>5 DEF DeleteOldVM
<1>6. CASE CreateVM
  BY <1>6 DEF CreateVM
<1>7. CASE StartVM
  BY <1>7 DEF StartVM
<1>8. CASE CopyInputs
  BY <1>8 DEF CopyInputs
<1>9. CASE Guest
  BY <1>9 DEF Guest
<1>10. CASE CopyOutput
  BY <1>10 DEF CopyOutput
<1>11. CASE StopVM
  BY <1>11 DEF StopVM
<1>12. CASE DeleteVM
  BY <1>12 DEF DeleteVM
<1>13. CASE CopyLog
  BY <1>13 DEF CopyLog
<1>14. CASE Verify
  BY <1>14 DEF Verify
<1>15. CASE Ingest
  BY <1>15 DEF Ingest
<1>16. CASE RegisterSetupLog
  BY <1>16 DEF RegisterSetupLog
<1>17. CASE Decide
  BY <1>17 DEF Decide
<1>18. CASE RecordRetry
  BY <1>18 DEF RecordRetry
<1>19. CASE Backoff
  BY <1>19 DEF Backoff
<1> QED
  BY <1>1, <1>2, <1>3, <1>4, <1>5, <1>6, <1>7, <1>8, <1>9,
     <1>10, <1>11, <1>12, <1>13, <1>14, <1>15, <1>16, <1>17, <1>18, <1>19 DEF Step

LEMMA StepsOfPlace == \A place \in Places \ {"out"} : StepsOf(place) \in 1..19
BY DEF StepsOf, Places, VMPlaces

\* A call of a task is over after at most 19 steps for each attempt that it may make:
\* no error, cancellation or retry makes it take one of them again, or makes it go on
\* after the last attempt (the loop of runOpenCodeTaskWithAttemptRunnerContext).
THEOREM StepsAlwaysRunOut == Spec => StepsRunOut
<1>1. ASSUME TypeInv, Step PROVE 0 <= StepsLeft' /\ StepsLeft' < StepsLeft
  <2>1. /\ pc # "out" /\ pc \in Places
        /\ attempt \in 1..MaxAttempts /\ (pc = "backoff" => attempt < MaxAttempts)
    <3>1. pc # "out"
      BY <1>1 DEF Step, CheckContext, Prepare, SetupHook, Agent, DeleteOldVM, CreateVM, StartVM,
            CopyInputs, Guest, CopyOutput, StopVM, DeleteVM, CopyLog, Verify, Ingest,
            RegisterSetupLog, Decide, RecordRetry, Backoff
    <3> QED
      BY <1>1, <3>1 DEF TypeInv, TypeOK, Bounds, Attempts
  <2>2. PICK n \in 1..19 : n = StepsOf(pc)
    BY <2>1, StepsOfPlace
  <2>3. PICK d \in Nat : d = MaxAttempts - attempt /\ (pc = "backoff" => d >= 1)
    BY <2>1, AttemptsAssumption
  <2>4. StepsLeft = d * 19 + n
    BY <2>1, <2>2, <2>3 DEF StepsLeft
  <2>5. CASE pc' = "out"
    BY <2>2, <2>3, <2>4, <2>5 DEF StepsLeft
  <2>6. CASE attempt' = attempt /\ pc' \in Places \ {"out"} /\ StepsOf(pc') < StepsOf(pc)
    <3>1. PICK m \in 1..19 : m = StepsOf(pc')
      BY <2>6, StepsOfPlace
    <3>2. StepsLeft' = d * 19 + m
      BY <2>3, <2>6, <3>1 DEF StepsLeft
    <3> QED
      BY <2>2, <2>3, <2>4, <2>6, <3>1, <3>2
  <2>7. CASE attempt' = attempt + 1 /\ pc' = "check" /\ pc = "backoff"
    <3>1. StepsOf(pc') = 19
      BY <2>7 DEF StepsOf
    <3>2. MaxAttempts - attempt' = d - 1
      BY <2>1, <2>3, <2>7, AttemptsAssumption
    <3>3. StepsLeft' = (d - 1) * 19 + 19
      BY <2>7, <3>1, <3>2 DEF StepsLeft
    <3> QED
      BY <2>2, <2>3, <2>4, <2>7, <3>3
  <2> QED
    BY <1>1, <2>5, <2>6, <2>7, StepAdvances
<1>2. TypeInv /\ [Next]_vars => [Step => 0 <= StepsLeft' /\ StepsLeft' < StepsLeft]_vars
  BY <1>1
<1>3. AttemptsInv => TypeInv
  BY DEF AttemptsInv
<1> QED
  BY <1>2, <1>3, AttemptsInvariant, PTL DEF Spec, StepsRunOut
-----------------------------------------------------------------------------
(* The contract with the phase.                                            *)

\* A success follows the ingest.
OkInv == ResultInv /\ (result = "ok" => Done)

\* What one step can do to the three things that the phase sees of a task.
LEMMA TaskStep ==
    ASSUME TypeInv, ResultInv, Next
    PROVE  /\ pc = "out" /\ pc' # "out" => ~ Done
           /\ Done => Done' \/ (Recovers /\ pc = "out")
           /\ Done' => Done \/ pc # "out"
           /\ result' = "ok" => pc' = "out" /\ (Done' \/ (result = "ok" /\ (Done => Done')))
<1> USE DEF TypeInv, Bounds, ResultInv, Done, Goto, Fails, Return, Ledger
<1>1. CASE Start
  BY <1>1 DEF Start
<1>2. CASE Cancel \/ Crash
  BY <1>2 DEF Cancel, Crash
<1>3. CASE Ingest
  BY <1>3 DEF Ingest
<1>4. CASE RegisterSetupLog
  BY <1>4 DEF RegisterSetupLog
<1>5. CASE CheckContext \/ Prepare \/ SetupHook \/ Agent \/ Verify \/ Decide \/ RecordRetry \/ Backoff
  BY <1>5 DEF CheckContext, Prepare, SetupHook, Agent, Verify, Decide, RecordRetry, Backoff
<1>6. CASE \/ DeleteOldVM \/ CreateVM \/ StartVM \/ CopyInputs \/ Guest \/ CopyOutput
           \/ StopVM \/ DeleteVM \/ CopyLog
  BY <1>6 DEF DeleteOldVM, CreateVM, StartVM, CopyInputs, Guest, CopyOutput, StopVM, DeleteVM, CopyLog
<1>7. CASE Lose
  BY <1>7 DEF Lose
<1> QED
  BY <1>1, <1>2, <1>3, <1>4, <1>5, <1>6, <1>7 DEF Next, Step

LEMMA OkInvStep == TypeInv /\ OkInv /\ [Next]_vars => OkInv'
<1> SUFFICES ASSUME TypeInv, OkInv, [Next]_vars PROVE OkInv'
  OBVIOUS
<1>1. ResultInv'
  BY ResultInvStep DEF OkInv
<1>2. CASE Next
  BY <1>1, <1>2, TaskStep DEF OkInv
<1>3. CASE UNCHANGED vars
  BY <1>1, <1>3 DEF vars, OkInv, Done
<1> QED
  BY <1>2, <1>3

\* The attempts at a task, all together, are what a phase takes a call of a task for: in
\* every configuration the work of a task is recorded by a call alone, stays recorded
\* whatever happens to the call, is there when the call reports a success, and is not
\* asked for again, but for the work of recon that is lost between two calls
\* (runOpenCodeTaskWithAttemptRunnerContext of runner.go).
THEOREM KeepsContract == Spec => ContractSpec
<1> DEFINE called == IF pc # "out" THEN {"task"} ELSE {}
           recorded == IF Done THEN {"task"} ELSE {}
           counted == IF result = "ok" THEN {"task"} ELSE {}
<1>1. Init => Contract!Init
  BY DEF Init, Done, Contract!Init
<1>2. ASSUME TypeInv, OkInv, OkInv', [Next]_vars
      PROVE  [Contract!Next]_<<called, recorded, counted>>
  <2>1. CASE Next
    <3>1. /\ pc = "out" /\ pc' # "out" => ~ Done
          /\ Done => Done' \/ (Recovers /\ pc = "out")
          /\ Done' => Done \/ pc # "out"
          /\ result' = "ok" => pc' = "out" /\ Done'
      BY <1>2, <2>1, TaskStep DEF OkInv
    <3>2. (called' \ called) \cap recorded = {}
      BY <3>1
    <3>3. /\ recorded' \subseteq recorded \cup called
          /\ recorded \ recorded' \subseteq (IF Recovers THEN {"task"} ELSE {}) \ called
      BY <3>1
    <3>4. counted' \subseteq recorded' \ called' /\ called' \subseteq {"task"}
      BY <3>1
    <3> QED
      BY <3>2, <3>3, <3>4 DEF Contract!Next, Contract!Call, Contract!Record, Contract!Count
  <2>2. CASE UNCHANGED vars
    BY <2>2 DEF vars, Done
  <2> QED
    BY <1>2, <2>1, <2>2
<1>3. Init => OkInv
  BY AttemptsInvInit DEF AttemptsInv, OkInv, Init
<1>4. AttemptsInv => TypeInv
  BY DEF AttemptsInv
<1> QED
  BY <1>1, <1>2, <1>3, <1>4, OkInvStep, AttemptsInvariant, PTL DEF Spec, ContractSpec, Contract!Spec
=============================================================================
