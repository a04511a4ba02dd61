--------------------------- MODULE FindingVerdicts ---------------------------
(***************************************************************************)
(* The findings of a run on their way to the report: Review, Deduplicate,  *)
(* Validate and Finalize (phase_*.go), and what they read back from the    *)
(* ledger (ledger_state.go).  The ledger is a sequence of events; a        *)
(* verdict counts when its notes come before it and the completion of its  *)
(* task after it.  Tasks of a phase run concurrently, each on a snapshot,  *)
(* and their bundles are verified and appended whole; any of them may      *)
(* fail, and a resume begins again with Review.                            *)
(***************************************************************************)
EXTENDS Naturals, Sequences, FiniteSets, SequencesExt

CONSTANTS Findings,
          None,
          Cross,       \* tasks whose agents may also judge another finding
          Outcomes,    \* the verdicts a validation may come to
          Parallel,    \* runner.parallel_tasks
          MaxCalls,    \* bound: calls of the pipeline
          MaxFailures  \* bound: failed tasks and crashes

ASSUME VerdictsAssumption ==
    /\ IsFiniteSet(Findings) /\ None \notin Findings
    /\ Outcomes \subseteq {"proven", "failed", "inconclusive"} /\ Outcomes # {}
    /\ Parallel \in Nat \ {0}
    /\ MaxCalls \in Nat /\ MaxFailures \in Nat

VARIABLES
    events,   \* the ledger
    notes,    \* who wrote the notes of each phase and finding; an artifact
    pc,       \* the phase, "out" between calls
    todo,     \* tasks of the phase that are not sent yet
    running,  \* tasks that run, each with the findings its snapshot has judged
    failed,   \* some task of the phase failed
    report,   \* the report's bucket of each finding, once finalized
    calls, failures   \* history

vars == <<events, notes, pc, todo, running, failed, report, calls, failures>>

Task(phase, f) == [phase |-> phase, finding |-> f]

Deduplicate == Task("deduplicate", None)

Finalize == Task("finalize", None)

Tasks == {Task(phase, f) : phase \in {"review", "validate"}, f \in Findings}
             \cup {Deduplicate, Finalize}

ASSUME NoTask == None \notin Tasks

ASSUME CrossAssumption ==
    Cross \subseteq {Task(phase, f) : phase \in {"review", "validate"}, f \in Findings}

Phases == {"review", "deduplicate", "validate"}

\* The name of what the notes are attached to.
NoteNames == Phases \X (Findings \cup {None})

LedgerEvents ==
    [type : {"evidence", "proof", "handoff", "verdict", "completed"}, task : Tasks,
     finding : Findings \cup {None}, canonical : Findings \cup {None},
     value : {"none", "accepted", "rejected", "canonical", "duplicate", "proven", "failed",
              "inconclusive", "blocked"}]

Evidence(t, f) == [type |-> "evidence", task |-> t, finding |-> f, value |-> "none", canonical |-> None]

ProofEvent(t, f) == [type |-> "proof", task |-> t, finding |-> f, value |-> "none", canonical |-> None]

VerdictEvent(t, f, value, canonical) ==
    [type |-> "verdict", task |-> t, finding |-> f, value |-> value, canonical |-> canonical]

Completion(t) ==
    [type |-> "completed", task |-> t, finding |-> None, value |-> "none", canonical |-> None]

\* The task handoff; what an inconclusive validation was blocked by is in it.
Handoff(t, blocked) ==
    [type |-> "handoff", task |-> t, finding |-> t.finding,
     value |-> IF blocked THEN "blocked" ELSE "none", canonical |-> None]

NoVerdict ==
    [type |-> "verdict", task |-> None, finding |-> None, value |-> "none", canonical |-> None]

\* What the notes are attached to: the deduplication has one file for all.
NotesOf(t, f) == IF t.phase = "deduplicate" THEN None ELSE f
-----------------------------------------------------------------------------
\* ledger_state.go, over the events s.
TaskCompleted(s, t) == \E i \in 1..Len(s) : s[i] = Completion(t)

\* ledgerTaskCompletedAfterFromEvents.
CompletedAfter(s, t, i) == \E k \in i + 1 .. Len(s) : s[k] = Completion(t)

\* ...HasValid...EvidenceFromEvents: registered before the verdict.  (What is
\* registered is intact: TaskBundleIngest, RecordedIntact.)
NotesBefore(s, i) ==
    \E k \in 1..i - 1 : s[k] = Evidence(s[i].task, NotesOf(s[i].task, s[i].finding))

\* ledgerVerdictCompleteFromEvents.
VerdictComplete(s, i) ==
    /\ s[i].type = "verdict"
    /\ CompletedAfter(s, s[i].task, i)
    /\ NotesBefore(s, i)

\* ledgerFindingVerdict: the last complete verdict of each phase and finding.
Verdicts(s) ==
    LET complete == {i \in 1..Len(s) : VerdictComplete(s, i)}
        Latest(phase, f) ==
            LET these == {i \in complete : s[i].task.phase = phase /\ s[i].finding = f}
            IN  IF these = {} THEN NoVerdict ELSE s[CHOOSE i \in these : \A k \in these : k <= i]
    IN  [phase \in Phases |-> [f \in Findings |-> Latest(phase, f)]]

\* What follows reads the verdicts v of a ledger.
Value(v, phase, f) == v[phase][f].value

Without(v, phase, S) == {f \in S : Value(v, phase, f) = "none"}

Unreviewed(v) == Without(v, "review", Findings)

Accepted(v) == {f \in Findings : Value(v, "review", f) = "accepted"}

Undeduplicated(v) == Without(v, "deduplicate", Accepted(v))

Unvalidated(v) ==
    Without(v, "validate", {f \in Accepted(v) : Value(v, "deduplicate", f) = "canonical"})

\* reportBucketForFinding.
Bucket(v, f) ==
    IF Value(v, "review", f) = "rejected" THEN "rejected"
    ELSE IF Value(v, "deduplicate", f) = "duplicate" THEN "duplicate"
    ELSE IF f \in Accepted(v) /\ Value(v, "deduplicate", f) = "canonical"
            /\ Value(v, "validate", f) # "none"
         THEN Value(v, "validate", f)
    ELSE "unvalidated"
-----------------------------------------------------------------------------
\* The bundles an agent may produce.  The notes and the verdict of a finding
\* come in any order and either may be missing; the completion comes last.
Values(phase) == IF phase = "review" THEN {"accepted", "rejected"} ELSE Outcomes

Verdict(t, f, v) ==
    LET note == Evidence(t, f)
        ruling == VerdictEvent(t, f, v, None)
        unproved == {<<note, ruling>>, <<ruling, note>>, <<ruling>>}
    IN  unproved \cup
        (IF v = "proven" THEN {<<ProofEvent(t, f)>> \o b : b \in unproved} ELSE {})

Parts(t, f) == {<<Evidence(t, f)>>} \cup UNION {Verdict(t, f, v) : v \in Values(t.phase)}

\* Nothing keeps an agent from judging a finding that is not its task's; the
\* command only refuses a second verdict on one that the snapshot has judged.
CrossParts(t, judged) ==
    {<<>>} \cup
    (IF t \in Cross THEN UNION {Parts(t, g) : g \in Findings \ (judged \cup {t.finding})}
     ELSE {})

\* A deduplication says of findings whose duplicate they are, if any.  Both
\* must be accepted; nothing else is checked by the command.
DedupVerdict(f, c) ==
    VerdictEvent(Deduplicate, f, IF c = f THEN "canonical" ELSE "duplicate",
                 IF c = f THEN None ELSE c)

DedupEvents(canon) ==
    LET order == SetToSeq(DOMAIN canon)
    IN  [i \in 1..Len(order) |-> DedupVerdict(order[i], canon[order[i]])]

\* A handoff may be missing, and have blockers whatever the verdict is.
Handoffs(t) ==
    {<<>>} \cup {<<Handoff(t, blocked)>> : blocked \in {FALSE, t.phase = "validate"}}

\* The findings S it judges, each with the one it stands for.
Deduplications(v) == UNION {[S -> Accepted(v)] : S \in SUBSET Undeduplicated(v)}

DedupBundles(t) ==
    {<<Evidence(t, None)>> \o DedupEvents(canon) \o h \o <<Completion(t)>> :
         canon \in Deduplications(Verdicts(events)), h \in Handoffs(t)}

JudgeBundles(t, judged) ==
    {own \o other \o h \o <<Completion(t)>> :
         own \in {<<>>} \cup Parts(t, t.finding), other \in CrossParts(t, judged),
         h \in Handoffs(t)}

Bundles(t, judged) ==
    CASE t.phase = "finalize" -> {<<Completion(t)>>}
      [] t.phase = "deduplicate" -> DedupBundles(t)
      [] OTHER -> JudgeBundles(t, judged)

NotesIn(b) == {<<b[i].task.phase, b[i].finding>> : i \in {k \in 1..Len(b) : b[k].type = "evidence"}}

\* An artifact of other bytes that another task has recorded is in the way.  An
\* assumption on the agents makes that all: two of them do not write the same
\* notes, byte for byte.  The code admits such notes and registers them again.
Fits(t, b) == \A n \in NotesIn(b) : notes[n] \in {None, t}

\* Mutant: it is enough that every finding has a verdict.
GraphUnchecked(v, pending) == \A f \in pending : Value(v, "deduplicate", f) # "none"

\* validateDeduplicateGraph, of the findings that were pending.
GraphValid(v, pending) ==
    \A f \in pending :
        LET c == v["deduplicate"][f].canonical
        IN  /\ Value(v, "deduplicate", f) # "none"
            /\ Value(v, "deduplicate", f) = "duplicate" =>
                  c \in Accepted(v) /\ Value(v, "deduplicate", c) = "canonical"

\* validationProofEvidence, citesValidationProofEvidence: a proof is registered
\* by t, before the verdict.
Proved(s, ruling, t) ==
    ruling.value = "proven" =>
        \E i, k \in 1..Len(s) : i < k /\ s[i] = ProofEvent(t, ruling.finding) /\ s[k] = ruling

\* validateRequiredTaskHandoff.
HasHandoff(s, t) == \E i \in 1..Len(s) : s[i] \in {Handoff(t, b) : b \in BOOLEAN}

\* validateBlockedValidationHandoff and validationBlockersFromTaskHandoffs: a
\* handoff of t, the task of the ruling, names a blocker.
Blocked(s, ruling, t) ==
    ruling.value = "inconclusive" => \E i \in 1..Len(s) : s[i] = Handoff(t, TRUE)

Backed(s, ruling, t) == Proved(s, ruling, t) /\ Blocked(s, ruling, t)

\* validateReportFindingItem: a report can say of f what its bucket demands.
Reportable(s, v, f) ==
    LET ruling == v["validate"][f]
    IN  Bucket(v, f) = ruling.value => Backed(s, ruling, ruling.task)

\* The Verify function of Deduplicate.
VerifyGraph(v) == GraphValid(v, Undeduplicated(Verdicts(events))) /\ Undeduplicated(v) = {}

\* Mutant: the notes and the handoff are enough for any verdict.
VerifyUnbacked(t, s) ==
    LET v == Verdicts(s)
    IN  CASE t.phase = "deduplicate" -> HasHandoff(s, t) /\ VerifyGraph(v)
          [] t.phase = "finalize" -> \A f \in Findings : Reportable(s, v, f)
          [] OTHER -> HasHandoff(s, t) /\ Value(v, t.phase, t.finding) # "none"

\* The Verify function of each phase's task, on the copy s that has the bundle.
Verify(t, s) ==
    LET v == Verdicts(s)
    IN  CASE t.phase \in {"review", "validate"} ->
                /\ Evidence(t, t.finding) \in {s[i] : i \in 1..Len(s)}
                /\ HasHandoff(s, t)
                /\ Value(v, t.phase, t.finding) # "none"
                /\ t.phase = "validate" => Backed(s, v["validate"][t.finding], t)
          [] t.phase = "deduplicate" -> HasHandoff(s, t) /\ VerifyGraph(v)
          [] OTHER -> \A f \in Findings : Reportable(s, v, f)
-----------------------------------------------------------------------------
Init ==
    /\ events = <<>>
    /\ notes = [n \in NoteNames |-> None]
    /\ pc = "out"
    /\ todo = {}
    /\ running = {}
    /\ failed = FALSE
    /\ report = [f \in Findings |-> "none"]
    /\ calls = 0
    /\ failures = 0

\* The tasks of a phase that are pending by the verdicts v of the ledger.
PendingIn(v, phase) ==
    CASE phase = "review" -> {Task("review", f) : f \in Unreviewed(v)}
      [] phase = "deduplicate" -> IF Undeduplicated(v) = {} THEN {} ELSE {Deduplicate}
      [] phase = "validate" -> {Task("validate", f) : f \in Unvalidated(v)}
      [] phase = "finalize" -> IF TaskCompleted(events, Finalize) THEN {} ELSE {Finalize}
      [] OTHER -> {}

\* They are read when the phase begins.
Pending(phase) == PendingIn(Verdicts(events), phase)

Begin(phase) ==
    /\ pc' = phase
    /\ todo' = Pending(phase)
    /\ running' = {}
    /\ failed' = FALSE

\* runPhases, after Recon and Investigate.
Enter ==
    /\ pc = "out"
    /\ calls < MaxCalls
    /\ calls' = calls + 1
    /\ Begin("review")
    /\ UNCHANGED <<events, notes, report, failures>>

After == [review |-> "deduplicate", deduplicate |-> "validate", validate |-> "finalize",
          finalize |-> "out"]

\* Mutant: the next phase begins whatever happened to this one.
EndPhaseAlways ==
    /\ pc # "out"
    /\ todo = {} /\ running = {}
    /\ Begin(After[pc])
    /\ UNCHANGED <<events, notes, report, calls, failures>>

\* runPhases returns the first error of a phase.
EndPhase ==
    /\ pc # "out"
    /\ todo = {} /\ running = {}
    /\ Begin(IF failed THEN "out" ELSE After[pc])
    /\ UNCHANGED <<events, notes, report, calls, failures>>

\* What the snapshot of t tells it of the findings; only some agents look.
Judged(t) ==
    IF t \notin Cross THEN {}
    ELSE LET v == Verdicts(events) IN Findings \ Without(v, t.phase, Findings)

StartTask(t) ==
    /\ t \in todo
    /\ Cardinality(running) < Parallel
    /\ todo' = todo \ {t}
    /\ running' = running \cup {<<t, Judged(t)>>}
    /\ UNCHANGED <<events, notes, pc, failed, report, calls, failures>>

\* An attempt is verified and its bundle ingested as a whole; a completed task
\* is refused.  The registration of its transcript may still fail.
Ingest(t, judged) ==
    /\ <<t, judged>> \in running
    /\ ~ TaskCompleted(events, t)
    /\ \E b \in Bundles(t, judged) :
          /\ Fits(t, b)
          /\ Verify(t, events \o b)
          /\ events' = events \o b
          /\ notes' = [n \in DOMAIN notes |-> IF n \in NotesIn(b) THEN t ELSE notes[n]]
    /\ report' = IF t # Finalize THEN report
                 ELSE LET v == Verdicts(events) IN [f \in Findings |-> Bucket(v, f)]
    /\ running' = running \ {<<t, judged>>}
    /\ \/ UNCHANGED <<failed, failures>>
       \/ /\ failures < MaxFailures
          /\ failures' = failures + 1
          /\ failed' = TRUE
    /\ UNCHANGED <<pc, todo, calls>>

\* A retry has a new snapshot.
Retry(t, judged) ==
    /\ <<t, judged>> \in running
    /\ judged # Judged(t)
    /\ running' = (running \ {<<t, judged>>}) \cup {<<t, Judged(t)>>}
    /\ UNCHANGED <<events, notes, pc, todo, failed, report, calls, failures>>

\* The attempts are over; the pool goes on, or stops sending when the run is
\* cancelled.
Fail(t, judged) ==
    /\ <<t, judged>> \in running
    /\ failures < MaxFailures
    /\ failures' = failures + 1
    /\ running' = running \ {<<t, judged>>}
    /\ failed' = TRUE
    /\ todo' \in {todo, {}}
    /\ UNCHANGED <<events, notes, pc, report, calls>>

Crash ==
    /\ pc # "out"
    /\ failures < MaxFailures
    /\ failures' = failures + 1
    /\ Begin("out")
    /\ UNCHANGED <<events, notes, report, calls>>

Next ==
    \/ Enter \/ EndPhase \/ Crash
    \/ \E t \in todo : StartTask(t)
    \/ \E r \in running : Ingest(r[1], r[2]) \/ Retry(r[1], r[2]) \/ Fail(r[1], r[2])

Spec == Init /\ [][Next]_vars
-----------------------------------------------------------------------------
\* Every variable has its type.
TypeOK ==
    /\ events \in Seq(LedgerEvents)
    /\ notes \in [NoteNames -> Tasks \cup {None}]
    /\ pc \in {"out", "review", "deduplicate", "validate", "finalize"}
    /\ todo \subseteq Tasks
    /\ running \subseteq Tasks \X SUBSET Findings
    /\ failed \in BOOLEAN
    /\ report \in [Findings -> {"none", "proven", "inconclusive", "failed", "rejected",
                                "duplicate", "unvalidated"}]
    /\ calls \in 0..MaxCalls
    /\ failures \in 0..MaxFailures

\* The final report has a verdict on every finding: none is left unvalidated,
\* and the buckets still are what the ledger says.
ReportDecided ==
    TaskCompleted(events, Finalize) =>
        LET v == Verdicts(events)
        IN  \A f \in Findings : report[f] # "unvalidated" /\ report[f] = Bucket(v, f)

\* When the report's turn comes no finding that was validated by its own task keeps
\* it from being written: a proven one has a proof that task registered before the
\* verdict, an inconclusive one a blocker in that task's handoff, whoever else was
\* judging and however the run was resumed.  The report's own validation asks for
\* both, and the tasks that could still provide them are completed.  A finding that
\* the agent of another finding's validation judged first has no such promise.
ReportPossible ==
    pc = "finalize" =>
        LET v == Verdicts(events)
        IN  \A f \in Findings :
                v["validate"][f].task \in {None, Task("validate", f)} => Reportable(events, v, f)

\* Refinement: the complete verdicts form a board that is written once and in order,
\* although agents judge each other's findings and only on snapshots.
Board ==
    LET v == Verdicts(events)
    IN  [f \in Findings |-> [review |-> Value(v, "review", f),
                             deduplicate |-> Value(v, "deduplicate", f),
                             canonical |-> v["deduplicate"][f].canonical,
                             validate |-> Value(v, "validate", f)]]

Abstract == INSTANCE VerdictBoard WITH board <- Board

BoardSpec == Abstract!Spec

\* Refinement: the phases keep to the contract with their tasks.  The tasks that count
\* are those whose verdicts the ledger is read for.
Counted == LET v == Verdicts(events) IN {v[phase][f].task : phase \in Phases, f \in Findings} \ {None}

Contract ==
    INSTANCE TaskContract
    WITH Lossy <- {}, called <- {r[1] : r \in running}, recorded <- {t \in Tasks : TaskCompleted(events, t)},
         counted <- Counted

ContractSpec == Contract!Spec

\* The verdicts are bound, so that they are computed once.
OpenPhases ==
    UNION {{p \in {"review", "deduplicate", "validate", "finalize"} : PendingIn(v, p) # {}}
           : v \in {Verdicts(events)}}

\* Refinement: however tasks overlap, fail and judge each other's findings, the phases
\* close their own work only and give work to the next phase only; so the runner's
\* pipeline may take a phase for the work that is open for it (Pipeline, Progress).
Order ==
    INSTANCE PhaseOrder
    WITH phase <- pc,
         open <- OpenPhases,
         over <- {t.phase : t \in {u \in {Deduplicate, Finalize} : TaskCompleted(events, u)}}

OrderSpec == Order!Spec

\* What is left of the call: the phases that still come.
Ahead ==
    [out |-> {}, finalize |-> {"out"}, validate |-> {"finalize", "out"},
     deduplicate |-> {"validate", "finalize", "out"},
     review |-> {"deduplicate", "validate", "finalize", "out"}]

\* The snapshots of tasks that go on only get richer.
Richer(old, new) ==
    /\ old # new
    /\ \A r \in old : \E q \in new : q[1] = r[1] /\ r[2] \subseteq q[2]
    /\ \A q \in new : \E r \in old : q[1] = r[1] /\ r[2] \subseteq q[2]

StepShrinks ==
    \/ calls' > calls
    \/ calls' = calls /\
          \/ Ahead[pc'] \subseteq Ahead[pc] /\ pc' # pc
          \/ pc' = pc /\
                \/ todo' \subseteq todo /\ todo' # todo
                \/ todo' = todo /\
                      \/ running' \subseteq running /\ running' # running
                      \/ Richer(running, running')

\* No call goes on for ever: between two calls every step ends a phase, takes a task
\* from the list, ends a task, or gives one that goes on a snapshot with more verdicts,
\* of which there are no more than findings.
StepsRunOut == [][StepShrinks]_vars
=============================================================================
