--------------------------- MODULE Pipeline_proofs ---------------------------
(***************************************************************************)
(* Proofs about Pipeline, for any number of calls, faults and losses, and  *)
(* for both runners.  The inductive invariant says where the call is, that *)
(* it has left no work behind, and what was recorded of the last one.      *)
(***************************************************************************)
EXTENDS Pipeline, SequenceTheorems, TLAPS

\* The step of a call belongs to its stage, and a result stands between calls.
Stepping ==
    /\ step = "out" <=> stage = "out"
    /\ step \in Stages => step = stage
    /\ step = "recon_transcript" => stage = "recon"
    /\ step = "stop" => stage = stopAfter
    /\ result # "none" => stage = "out"

\* No phase before the current one has work, and once a phase has returned nor
\* has that phase.
NothingBehind ==
    /\ stage \in ToSet(Phases) => open \subseteq {stage} \cup Later(stage)
    /\ step \in {"recon_transcript", "stop"} => open \subseteq Later(stage)
    /\ step = "runner_completed_event" => open = {} /\ ~ stale

\* What the tasks that take place once leave open.
TasksDone ==
    /\ "recon" \in open <=> ~ ReconComplete
    /\ "finalize" \in open <=> "finalize" \notin completed
    /\ losses = 0 => intact
    /\ losses = 0 /\ "deduplicate" \in completed => open \subseteq {"validate", "finalize"}

\* The file is of the stage that failed, and the last event says how the last
\* call ended.
Recorded ==
    /\ step = "record_event" => file = stage
    /\ result = "failed" =>
          /\ Shown(events) = file /\ file # "none"
          /\ losses = 0 /\ file \in ToSet(Phases) => open \subseteq {file} \cup Later(file)
    /\ result \in {"stopped", "completed"} => Shown(events) = "none"

PipeInv == TypeOK /\ Stepping /\ NothingBehind /\ TasksDone /\ Recorded
-----------------------------------------------------------------------------
(* The stages and their order.                                             *)

LEMMA PhasesListed ==
    /\ ToSet(Phases) = {"recon", "investigate", "review", "deduplicate", "validate", "finalize"}
    /\ Later("recon") = {"investigate", "review", "deduplicate", "validate", "finalize"}
    /\ Later("investigate") = {"review", "deduplicate", "validate", "finalize"}
    /\ Later("review") = {"deduplicate", "validate", "finalize"}
    /\ Later("deduplicate") = {"validate", "finalize"}
    /\ Later("validate") = {"finalize"}
    /\ Later("finalize") = {}
<1> DEFINE p == Phases
<1>1. /\ Len(p) = 6 /\ DOMAIN p = 1..6
      /\ p[1] = "recon" /\ p[2] = "investigate" /\ p[3] = "review" /\ p[4] = "deduplicate"
      /\ p[5] = "validate" /\ p[6] = "finalize"
  BY DEF Phases
<1> HIDE DEF p
<1>2. ToSet(Phases) = {p[1], p[2], p[3], p[4], p[5], p[6]}
  <2>1. \A i \in 1..6 : i = 1 \/ i = 2 \/ i = 3 \/ i = 4 \/ i = 5 \/ i = 6
    OBVIOUS
  <2>2. QED
    BY <1>1, <2>1 DEF ToSet, p
<1>3. ASSUME NEW i \in 1..6
      PROVE  Later(p[i]) = {p[k] : k \in {n \in 1..6 : i < n}}
  <2>1. \A j \in 1..6 : p[j] = p[i] => j = i
    BY <1>1
  <2>2. \A n \in 1..6 : (\E j \in 1..n - 1 : p[j] = p[i]) <=> i < n
    BY <2>1
  <2>3. QED
    BY <1>1, <2>2 DEF Later, p
<1>4. ASSUME NEW i \in 1..6, NEW x PROVE x \in Later(p[i]) <=> \E k \in 1..6 : i < k /\ x = p[k]
  BY <1>3
<1>5. QED
  BY <1>1, <1>2, <1>4

LEMMA StagesListed ==
    Stages = {"load_config", "extract_snapshot", "toolchain_bootstrap", "opencode_bootstrap",
              "runner_manifest", "runner_started_event", "recon", "investigate", "review",
              "deduplicate", "validate", "finalize", "runner_completed_event"}
BY DEF Stages, After

\* Where a phase leads when it has returned, and that a stage is no other step.
LEMMA AfterPhase ==
    /\ \A s \in ToSet(Phases) : /\ s \in Stages /\ After[s] \in Stages
                                /\ After[s] \in Later(s) \cup {"runner_completed_event"}
                                /\ After[s] = "runner_completed_event" => s = "finalize"
                                /\ Later(s) \subseteq {After[s]} \cup Later(After[s])
    /\ \A s \in Preparations \cup {"runner_started_event"} :
          s \in Stages /\ After[s] \in Stages \ {"runner_completed_event"}
          /\ (After[s] \in ToSet(Phases) => After[s] = "recon")
    /\ {"out", "stop", "recon_transcript", "record_file", "record_event", "none"} \cap Stages = {}
BY PhasesListed, StagesListed DEF After, Preparations

\* Of a list of events the last one is shown, if it ended a call.
LEMMA LastShown ==
    ASSUME NEW d, NEW n \in Nat \ {0}, DOMAIN d = 1..n, d[n].type # "started"
    PROVE  Shown(d) = IF d[n].type = "failed" THEN d[n].stage ELSE "none"
<1> DEFINE ended == {i \in DOMAIN d : d[i].type # "started"}
           last == {i \in ended : d[i].type = "failed" /\ \A k \in ended : k <= i}
<1>1. n \in ended /\ \A k \in ended : k \in Nat /\ k <= n
  OBVIOUS
<1>2. \A i \in last : i = n
  BY <1>1
<1>3. n \in last <=> d[n].type = "failed"
  BY <1>1
<1> HIDE DEF last
<1>4. CASE d[n].type = "failed"
  <2>1. last = {n}
    BY <1>2, <1>3, <1>4
  <2>2. (CHOOSE i \in last : TRUE) = n
    BY <2>1
  <2>3. QED
    BY <1>4, <2>1, <2>2 DEF last, Shown
<1>5. CASE d[n].type # "failed"
  <2>1. last = {}
    BY <1>2, <1>3, <1>5
  <2>2. QED
    BY <1>5, <2>1 DEF last, Shown
<1>6. QED
  BY <1>4, <1>5

\* An event that ends a call is shown at once.
LEMMA ShownAppended ==
    ASSUME NEW R, NEW old \in Seq(R), NEW e \in R, e.type # "started"
    PROVE  Shown(Append(old, e)) = IF e.type = "failed" THEN e.stage ELSE "none"
<1>1. PICK d : d = Append(old, e)
  OBVIOUS
<1>2. d \in Seq(R) /\ Len(d) = Len(old) + 1 /\ d[Len(old) + 1] = e
  BY <1>1, AppendProperties
<1>3. Len(old) \in Nat
  BY LenProperties
<1>4. PICK n \in Nat \ {0} : n = Len(old) + 1
  BY <1>3
<1>5. DOMAIN d = 1..n /\ d[n] = e
  BY <1>2, <1>4, LenProperties
<1>6. Shown(d) = IF d[n].type = "failed" THEN d[n].stage ELSE "none"
  BY <1>4, <1>5, LastShown, Zenon
<1>7. QED
  BY <1>1, <1>5, <1>6, Zenon

\* The same of the ledger.
LEMMA EndShown ==
    ASSUME TypeOK, NEW t \in {"completed", "stopped", "failed"}, NEW s \in Stages \cup {"none"},
           events' = Append(events, RunnerEvent(t, s))
    PROVE  /\ Shown(events') = IF t = "failed" THEN s ELSE "none"
           /\ events' \in Seq([type : {"started", "completed", "stopped", "failed"},
                               stage : Stages \cup {"none"}])
<1> DEFINE R == [type : {"started", "completed", "stopped", "failed"}, stage : Stages \cup {"none"}]
<1>1. PICK e : e = RunnerEvent(t, s)
  OBVIOUS
<1>2. e \in R /\ e.type = t /\ e.stage = s
  BY <1>1 DEF RunnerEvent
<1>3. events \in Seq(R)
  BY DEF TypeOK
<1> HIDE DEF R
<1>4. PICK old : old = events
  OBVIOUS
<1>5. Shown(Append(old, e)) = IF t = "failed" THEN s ELSE "none"
  BY <1>2, <1>3, <1>4, ShownAppended
<1>6. Append(old, e) \in Seq(R)
  BY <1>2, <1>3, <1>4, AppendProperties
<1>7. events' = Append(old, e)
  BY <1>1, <1>4, Zenon
<1>8. QED
  BY <1>5, <1>6, <1>7 DEF R
-----------------------------------------------------------------------------
(* The steps.                                                              *)

\* How a phase ends that has no work left of its own.
LEMMA ReturnMoves ==
    ASSUME TypeOK, Stepping, stage \in ToSet(Phases), open' \subseteq Later(stage), Return,
           stage = "finalize" => ~ stale', UNCHANGED <<stopAfter, result>>, result = "none"
    PROVE  /\ stage' \in Stages /\ step' \in Stages \cup {"stop"}
           /\ Stepping' /\ NothingBehind'
<1>1. CASE stage = stopAfter
  <2>1. step' = "stop" /\ stage' = stage
    BY <1>1 DEF Return
  <2>2. QED
    BY <1>1, <2>1, AfterPhase DEF Stepping, NothingBehind
<1>2. CASE stage # stopAfter
  <2>1. step' = After[stage] /\ stage' = After[stage]
    BY <1>2 DEF Return, Enter
  <2>2. /\ After[stage] \in Stages
        /\ After[stage] \in Later(stage) \cup {"runner_completed_event"}
        /\ After[stage] = "runner_completed_event" => stage = "finalize"
        /\ Later(stage) \subseteq {After[stage]} \cup Later(After[stage])
    BY AfterPhase
  <2>3. Stepping'
    BY <2>1, <2>2, AfterPhase DEF Stepping
  <2>4. NothingBehind'
    BY <2>1, <2>2, PhasesListed, StagesListed DEF NothingBehind
  <2>5. QED
    BY <2>1, <2>2, <2>3, <2>4
<1>3. QED
  BY <1>1, <1>2

\* How a stage ends in an error.
LEMMA RaiseMoves ==
    ASSUME TypeOK, Stepping, stage \in Stages, Raise, UNCHANGED <<stopAfter, result>>,
           stage \in ToSet(Phases) => open' \subseteq {stage} \cup Later(stage)
    PROVE  /\ stage' \in Stages /\ step' = "record_file"
           /\ Stepping' /\ NothingBehind'
BY AfterPhase DEF Raise, Stepping, NothingBehind

\* How a call ends.
LEMMA EndMoves ==
    ASSUME TypeOK, NEW r \in {"completed", "stopped", "failed", "unrecorded", "crashed"}, EndCall(r)
    PROVE  /\ stage' = "out" /\ step' = "out" /\ result' = r
           /\ Stepping' /\ NothingBehind'
BY AfterPhase, PhasesListed DEF EndCall, Stepping, NothingBehind

\* Calls, and what happens between them.
LEMMA CallStep ==
    ASSUME PipeInv, (\E stop \in Stoppable \cup {"none"} : Call(stop)) \/ CallRefused \/ Lose
    PROVE  PipeInv'
<1> USE DEF PipeInv
<1>1. ASSUME NEW stop \in Stoppable \cup {"none"}, Call(stop) PROVE PipeInv'
  <2>1. /\ stage' = "load_config" /\ step' = "load_config" /\ result' = "none" /\ stopAfter' = stop
        /\ UNCHANGED <<events, file, faults, open, completed, intact, log, logged, stale, losses>>
        /\ calls' = calls + 1 /\ calls < MaxCalls
    BY <1>1 DEF Call, work
  <2>2. TypeOK'
    <3>1. calls' \in 0..MaxCalls /\ log' \in 0..calls' /\ logged' \in 0..log'
      BY <2>1, PipelineAssumption DEF TypeOK
    <3>2. stage' \in Stages /\ step' \in Stages
      BY <2>1, StagesListed
    <3>3. QED
      BY <2>1, <3>1, <3>2 DEF TypeOK
  <2>3. Stepping' /\ NothingBehind'
    BY <2>1, StagesListed, PhasesListed DEF Stepping, NothingBehind
  <2>4. TasksDone' /\ Recorded'
    BY <2>1 DEF TasksDone, Recorded, ReconComplete
  <2>5. QED
    BY <2>2, <2>3, <2>4
<1>2. CASE Lose
  <2>1. /\ stage = "out" /\ losses' = losses + 1 /\ losses < MaxLosses /\ intact' = FALSE
        /\ open' = open \cup {"recon"} /\ "recon" \in completed
        /\ UNCHANGED <<stage, step, stopAfter, events, file, completed, log, logged, stale, result,
                       calls, faults>>
    BY <1>2 DEF Lose
  <2>2. TypeOK' /\ losses' # 0
    <3>1. losses' \in 0..MaxLosses /\ losses' # 0
      BY <2>1, PipelineAssumption DEF TypeOK
    <3>2. open' \subseteq ToSet(Phases)
      BY <2>1, PhasesListed DEF TypeOK
    <3>3. QED
      BY <2>1, <3>1, <3>2 DEF TypeOK
  <2>3. Stepping' /\ NothingBehind'
    BY <2>1, StagesListed, PhasesListed DEF Stepping, NothingBehind
  <2>4. TasksDone' /\ Recorded'
    BY <2>1, <2>2 DEF TasksDone, Recorded, ReconComplete
  <2>5. QED
    BY <2>2, <2>3, <2>4
<1>3. CASE CallRefused
  <2>1. /\ result' = "unrecorded" /\ stage = "out"
        /\ calls' = calls + 1 /\ calls < MaxCalls /\ faults' = faults + 1 /\ faults < MaxFaults
        /\ UNCHANGED <<stage, step, stopAfter, events, file, open, completed, intact, log, logged,
                       stale, losses>>
    BY <1>3 DEF CallRefused, work
  <2>2. TypeOK'
    <3>1. /\ calls' \in 0..MaxCalls /\ faults' \in 0..MaxFaults
          /\ log' \in 0..calls' /\ logged' \in 0..log'
      BY <2>1, PipelineAssumption DEF TypeOK
    <3>2. QED
      BY <2>1, <3>1 DEF TypeOK
  <2>3. Stepping' /\ NothingBehind'
    BY <2>1, StagesListed, PhasesListed DEF Stepping, NothingBehind
  <2>4. TasksDone' /\ Recorded'
    BY <2>1 DEF TasksDone, Recorded, ReconComplete
  <2>5. QED
    BY <2>2, <2>3, <2>4
<1>4. QED
  BY <1>1, <1>2, <1>3

\* The stages before recon.
LEMMA PrepareStep ==
    ASSUME PipeInv, Prepare \/ RecordStarted
    PROVE  PipeInv'
<1> USE DEF PipeInv
<1>1. /\ stage' = After[stage] /\ step' = stage' /\ result = "none"
      /\ stage \in Preparations \cup {"runner_started_event"}
      /\ UNCHANGED <<stopAfter, file, result, calls, faults, open, completed, intact, log, logged,
                     stale, losses>>
  BY AfterPhase DEF Prepare, RecordStarted, Enter, work, Stepping, Preparations
<1>2. /\ stage' \in Stages \ {"runner_completed_event"}
      /\ stage' \in ToSet(Phases) => stage' = "recon"
  BY <1>1, AfterPhase
<1>3. events' \in Seq([type : {"started", "completed", "stopped", "failed"}, stage : Stages \cup {"none"}])
  <2>1. CASE Prepare
    BY <2>1 DEF Prepare, TypeOK
  <2>2. CASE RecordStarted
    <3>1. RunnerEvent("started", "none") \in
             [type : {"started", "completed", "stopped", "failed"}, stage : Stages \cup {"none"}]
      BY DEF RunnerEvent
    <3>2. QED
      BY <2>2, <3>1, AppendProperties DEF RecordStarted, TypeOK
  <2>3. QED
    BY <2>1, <2>2
<1>4. TypeOK'
  BY <1>1, <1>2, <1>3 DEF TypeOK
<1>5. Stepping'
  BY <1>1, <1>2, AfterPhase DEF Stepping
<1>6. NothingBehind'
  <2>1. stage' \in ToSet(Phases) => open' \subseteq {stage'} \cup Later(stage')
    BY <1>1, <1>2, PhasesListed DEF TypeOK
  <2>2. step' \notin {"recon_transcript", "stop", "runner_completed_event"}
    BY <1>1, <1>2, AfterPhase
  <2>3. QED
    BY <2>1, <2>2 DEF NothingBehind
<1>7. TasksDone' /\ Recorded'
  BY <1>1, <1>2, AfterPhase DEF TasksDone, Recorded, ReconComplete
<1>8. QED
  BY <1>4, <1>5, <1>6, <1>7

\* The work of recon.
LEMMA ReconStep ==
    ASSUME PipeInv, ReconDone \/ ReconIngest \/ RegisterTranscript \/ RefuseTranscript
    PROVE  PipeInv'
<1> USE DEF PipeInv
<1>1. /\ stage = "recon" /\ result = "none" /\ "recon" \in ToSet(Phases)
      /\ UNCHANGED <<stopAfter, events, file, result, calls, faults, losses, stale>>
  BY PhasesListed, StagesListed
     DEF ReconDone, ReconIngest, RegisterTranscript, RefuseTranscript, work, Stepping
<1>2. CASE ReconDone
  <2>1. open' \subseteq Later(stage) /\ UNCHANGED <<open, completed, intact, log, logged>> /\ Return
    BY <1>1, <1>2 DEF ReconDone, NothingBehind, TasksDone, work
  <2>2. stage' \in Stages /\ step' \in Stages \cup {"stop"} /\ Stepping' /\ NothingBehind'
    BY <1>1, <2>1, ReturnMoves
  <2>3. TypeOK'
    BY <1>1, <2>1, <2>2 DEF TypeOK
  <2>4. TasksDone' /\ Recorded'
    BY <1>1, <2>1, <2>2, AfterPhase DEF TasksDone, Recorded, ReconComplete
  <2>5. QED
    BY <2>2, <2>3, <2>4
<1>3. CASE ReconIngest
  <2>1. /\ ~ ReconComplete /\ completed' = completed \cup {"recon"} /\ intact' = TRUE
        /\ log' = calls /\ open' = (open \ {"recon"}) \cup {"investigate"}
        /\ stage' = stage /\ step' = "recon_transcript" /\ logged' = logged
    BY <1>3 DEF ReconIngest
  <2>2. open' \subseteq Later("recon")
    BY <1>1, <2>1, PhasesListed DEF TypeOK
  <2>3. TypeOK'
    <3>1. log' \in 0..calls' /\ logged' \in 0..log'
      BY <1>1, <2>1 DEF TypeOK
    <3>2. open' \subseteq ToSet(Phases)
      BY <2>2, PhasesListed
    <3>3. QED
      BY <1>1, <2>1, <3>1, <3>2 DEF TypeOK
  <2>4. Stepping' /\ NothingBehind'
    BY <1>1, <2>1, <2>2, AfterPhase DEF Stepping, NothingBehind
  <2>5. TasksDone'
    <3>1. losses = 0 => "deduplicate" \notin completed
      BY <2>1 DEF TasksDone
    <3>2. QED
      BY <1>1, <2>1, <3>1 DEF TasksDone, ReconComplete
  <2>6. Recorded'
    BY <1>1, <2>1 DEF Recorded
  <2>7. QED
    BY <2>3, <2>4, <2>5, <2>6
<1>4. CASE RegisterTranscript
  <2>1. /\ UNCHANGED <<open, completed, intact, log>> /\ logged' = log /\ Return
        /\ open' \subseteq Later(stage)
    BY <1>1, <1>4 DEF RegisterTranscript, NothingBehind
  <2>2. stage' \in Stages /\ step' \in Stages \cup {"stop"} /\ Stepping' /\ NothingBehind'
    BY <1>1, <2>1, ReturnMoves
  <2>3. TypeOK'
    <3>1. log' \in 0..calls' /\ logged' \in 0..log'
      BY <1>1, <2>1 DEF TypeOK
    <3>2. QED
      BY <1>1, <2>1, <2>2, <3>1 DEF TypeOK
  <2>4. TasksDone' /\ Recorded'
    BY <1>1, <2>1, <2>2, AfterPhase DEF TasksDone, Recorded, ReconComplete
  <2>5. QED
    BY <2>2, <2>3, <2>4
<1>5. CASE RefuseTranscript
  <2>1. UNCHANGED <<open, completed, intact, log, logged>> /\ Raise
    BY <1>5 DEF RefuseTranscript
  <2>2. stage' \in Stages /\ step' = "record_file" /\ Stepping' /\ NothingBehind'
    BY <1>1, <2>1, RaiseMoves, AfterPhase DEF NothingBehind
  <2>3. TypeOK'
    BY <1>1, <2>1, <2>2 DEF TypeOK
  <2>4. TasksDone' /\ Recorded'
    BY <1>1, <2>1, <2>2, AfterPhase DEF TasksDone, Recorded, ReconComplete
  <2>5. QED
    BY <2>2, <2>3, <2>4
<1>6. QED
  BY <1>2, <1>3, <1>4, <1>5

\* A phase leaves work to a later one only.
LEMMA GivesLater == \A p \in Middle : Gives(p) \subseteq Later(p) /\ p \in ToSet(Phases)
BY PhasesListed DEF Middle, Gives

\* What the tasks of a phase have done fits with the order of the phases.
LEMMA ProgressMade ==
    ASSUME PipeInv, NEW done \in SUBSET {step}, Progress(done)
    PROVE  /\ step = stage /\ stage \in Middle \cap open /\ stage \in ToSet(Phases)
           /\ open' \subseteq ToSet(Phases) /\ open' \subseteq {stage} \cup Later(stage)
           /\ done = {step} => open' \subseteq Later(stage)
           /\ stale' \in BOOLEAN /\ completed' \subseteq {"recon", "deduplicate", "finalize"}
           /\ TasksDone' /\ UNCHANGED <<intact, log, logged, losses>>
<1> USE DEF PipeInv
<1>1. /\ step \in Middle \cap open /\ completed \cap done = {}
      /\ completed' = completed \cup (done \cap {"deduplicate"})
      /\ UNCHANGED <<intact, log, logged, losses>>
  BY DEF Progress
<1>2. PICK new \in SUBSET Gives(step) :
          /\ step = "deduplicate" /\ new # {} => step \in done
          /\ open' = (open \ done) \cup new
          /\ stale' = (stale \/ ("review" \in new /\ "finalize" \in completed))
  BY DEF Progress
<1>3. step = stage /\ stage \in ToSet(Phases) /\ open \subseteq {stage} \cup Later(stage)
  BY <1>1, PhasesListed, StagesListed DEF Stepping, NothingBehind, Middle
<1>4. /\ open' \subseteq ToSet(Phases) /\ open' \subseteq {stage} \cup Later(stage)
      /\ done = {step} => open' \subseteq Later(stage)
  BY <1>1, <1>2, <1>3, GivesLater, PhasesListed DEF TypeOK, Middle
<1>5. stale' \in BOOLEAN /\ completed' \subseteq {"recon", "deduplicate", "finalize"}
  BY <1>1, <1>2 DEF TypeOK
<1>6. TasksDone'
  <2>1. \A p \in {"recon", "finalize"} :
           (p \in open' <=> p \in open) /\ (p \in completed' <=> p \in completed)
    BY <1>1, <1>2 DEF Middle, Gives
  <2>2. ASSUME losses = 0, "deduplicate" \in completed' PROVE open' \subseteq {"validate", "finalize"}
    <3>1. CASE "deduplicate" \in completed
      <4>1. open \subseteq {"validate", "finalize"} /\ step = "validate"
        BY <1>1, <2>2, <3>1 DEF TasksDone, Middle
      <4>2. QED
        BY <1>2, <4>1 DEF Gives
    <3>2. CASE done = {step} /\ step = "deduplicate"
      BY <1>3, <1>4, <3>2, PhasesListed
    <3>3. QED
      BY <1>1, <2>2, <3>1, <3>2
  <2>3. QED
    BY <1>1, <2>1, <2>2 DEF TasksDone, ReconComplete
<1>7. QED
  BY <1>1, <1>3, <1>4, <1>5, <1>6

\* The work of the other phases.
LEMMA PhaseStep ==
    ASSUME PipeInv, PhaseDone \/ PhaseWork \/ PhaseFails \/ DeduplicateRefused \/ FinalizeReport
    PROVE  PipeInv'
<1> USE DEF PipeInv
<1>1. /\ step = stage /\ stage \in ToSet(Phases) /\ stage \in Stages /\ result = "none"
      /\ UNCHANGED <<stopAfter, events, file, result, calls, losses, log, logged, intact>>
      /\ open \subseteq {stage} \cup Later(stage)
  BY PhasesListed, StagesListed
     DEF PhaseDone, PhaseWork, PhaseFails, Progress, DeduplicateRefused, FinalizeReport, work,
         Stepping, NothingBehind, Middle
<1>2. ASSUME UNCHANGED <<open, completed, stale, faults>>,
             \/ Return /\ open \subseteq Later(stage) /\ (stage = "finalize" => ~ stale)
             \/ Raise
      PROVE  PipeInv'
  <2>1. stage' \in Stages /\ step' \in Stages \cup {"stop", "record_file"} /\ Stepping' /\ NothingBehind'
    BY <1>1, <1>2, ReturnMoves, RaiseMoves
  <2>2. TypeOK'
    BY <1>1, <1>2, <2>1 DEF TypeOK
  <2>3. TasksDone' /\ Recorded'
    BY <1>1, <1>2, <2>1, AfterPhase DEF TasksDone, Recorded, ReconComplete
  <2>4. QED
    BY <2>1, <2>2, <2>3
<1>3. CASE PhaseDone
  <2>1. open \subseteq Later(stage) /\ stage # "finalize"
    BY <1>1, <1>3 DEF PhaseDone, Middle
  <2>2. QED
    BY <1>2, <1>3, <2>1 DEF PhaseDone, work
<1>4. CASE DeduplicateRefused
  BY <1>2, <1>4 DEF DeduplicateRefused, work
<1>5. ASSUME NEW done \in SUBSET {step}, Progress(done), faults' \in 0..MaxFaults,
             (done = {step} /\ Return) \/ Raise
      PROVE  PipeInv'
  <2>1. /\ stage \in Middle /\ open' \subseteq ToSet(Phases)
        /\ open' \subseteq {stage} \cup Later(stage)
        /\ done = {step} => open' \subseteq Later(stage)
        /\ stale' \in BOOLEAN /\ completed' \subseteq {"recon", "deduplicate", "finalize"}
        /\ TasksDone'
    BY <1>5, ProgressMade
  <2>2. stage' \in Stages /\ step' \in Stages \cup {"stop", "record_file"} /\ Stepping' /\ NothingBehind'
    <3>1. CASE done = {step} /\ Return
      BY <1>1, <2>1, <3>1, ReturnMoves DEF Middle
    <3>2. CASE Raise
      BY <1>1, <2>1, <3>2, RaiseMoves
    <3>3. QED
      BY <1>5, <3>1, <3>2
  <2>3. TypeOK'
    BY <1>1, <1>5, <2>1, <2>2 DEF TypeOK
  <2>4. Recorded'
    BY <1>1, <2>2, AfterPhase DEF Recorded
  <2>5. QED
    BY <2>1, <2>2, <2>3, <2>4
<1>6. CASE PhaseWork
  <2>1. Progress({step}) /\ Return /\ faults' \in 0..MaxFaults
    BY <1>6 DEF PhaseWork, TypeOK
  <2>2. QED
    BY <1>5, <2>1
<1>7. CASE PhaseFails
  <2>1. PICK done \in SUBSET {step} : Progress(done) /\ Raise
    BY <1>7 DEF PhaseFails
  <2>2. faults' \in 0..MaxFaults
    BY <1>7, PipelineAssumption DEF PhaseFails, TypeOK
  <2>3. QED
    BY <1>5, <2>1, <2>2
<1>8. CASE FinalizeReport
  <2>1. /\ stage = "finalize" /\ stale' = stale
        /\ open' = open \ {"finalize"} /\ completed' = completed \cup {"finalize"}
        /\ (~ stale /\ Return) \/ Raise
    BY <1>1, <1>8 DEF FinalizeReport, TasksDone
  <2>2. faults' \in 0..MaxFaults
    BY <1>8, PipelineAssumption DEF FinalizeReport, TypeOK
  <2>3. open' = {}
    BY <1>1, <2>1, PhasesListed
  <2>4. stage' \in Stages /\ step' \in Stages \cup {"stop", "record_file"} /\ Stepping' /\ NothingBehind'
    BY <1>1, <2>1, <2>3, ReturnMoves, RaiseMoves
  <2>5. TypeOK'
    BY <1>1, <2>1, <2>2, <2>3, <2>4 DEF TypeOK
  <2>6. TasksDone'
    BY <1>1, <2>1, <2>3 DEF TasksDone, ReconComplete
  <2>7. Recorded'
    BY <1>1, <2>4, AfterPhase DEF Recorded
  <2>8. QED
    BY <2>4, <2>5, <2>6, <2>7
<1>9. QED
  BY <1>3, <1>4, <1>6, <1>7, <1>8

\* How a call is recorded.
LEMMA EndStep ==
    ASSUME PipeInv,
           \/ RecordCompleted \/ RecordStopped \/ RecordFile \/ RecordFailed
           \/ StageFails \/ RecordFails \/ Crash
    PROVE  PipeInv'
<1> USE DEF PipeInv
<1>1. /\ stage \in Stages /\ result = "none"
      /\ UNCHANGED <<stopAfter, calls, open, completed, intact, log, logged, stale, losses>>
  BY AfterPhase, StagesListed
     DEF RecordCompleted, RecordStopped, RecordFile, RecordFailed, StageFails, RecordFails, Crash,
         work, TypeOK, Stepping
<1>2. TasksDone'
  BY <1>1 DEF TasksDone, ReconComplete
<1>3. ASSUME NEW r \in {"completed", "stopped", "failed", "unrecorded", "crashed"}, EndCall(r),
             events' \in Seq([type : {"started", "completed", "stopped", "failed"},
                              stage : Stages \cup {"none"}]),
             file' = file, faults' \in 0..MaxFaults
      PROVE  TypeOK' /\ Stepping' /\ NothingBehind' /\ step' = "out" /\ result' = r
  <2>1. stage' = "out" /\ step' = "out" /\ result' = r /\ Stepping' /\ NothingBehind'
    BY <1>3, EndMoves
  <2>2. QED
    BY <1>1, <1>3, <2>1 DEF TypeOK
<1>4. CASE RecordCompleted
  <2>1. Shown(events') = "none"
        /\ events' \in Seq([type : {"started", "completed", "stopped", "failed"},
                            stage : Stages \cup {"none"}])
    BY <1>4, EndShown DEF RecordCompleted
  <2>2. EndCall("completed") /\ file' = file /\ faults' \in 0..MaxFaults
    BY <1>4 DEF RecordCompleted, TypeOK
  <2>3. TypeOK' /\ Stepping' /\ NothingBehind' /\ step' = "out" /\ result' = "completed"
    BY <1>3, <2>1, <2>2
  <2>4. Recorded'
    BY <2>1, <2>3 DEF Recorded
  <2>5. QED
    BY <1>2, <2>3, <2>4
<1>5. CASE RecordStopped
  <2>1. PICK s \in Stages : s = stage
    BY <1>1
  <2>2. Shown(events') = "none"
        /\ events' \in Seq([type : {"started", "completed", "stopped", "failed"},
                            stage : Stages \cup {"none"}])
    BY <1>5, <2>1, EndShown DEF RecordStopped
  <2>3. EndCall("stopped") /\ file' = file /\ faults' \in 0..MaxFaults
    BY <1>5 DEF RecordStopped, TypeOK
  <2>4. TypeOK' /\ Stepping' /\ NothingBehind' /\ step' = "out" /\ result' = "stopped"
    BY <1>3, <2>2, <2>3
  <2>5. Recorded'
    BY <2>2, <2>4 DEF Recorded
  <2>6. QED
    BY <1>2, <2>4, <2>5
<1>6. CASE RecordFailed
  <2>1. PICK s \in Stages : s = stage
    BY <1>1
  <2>2. Shown(events') = s
        /\ events' \in Seq([type : {"started", "completed", "stopped", "failed"},
                            stage : Stages \cup {"none"}])
    BY <1>6, <2>1, EndShown DEF RecordFailed
  <2>3. EndCall("failed") /\ file' = file /\ faults' \in 0..MaxFaults /\ file = stage
    BY <1>6 DEF RecordFailed, TypeOK, Recorded
  <2>4. TypeOK' /\ Stepping' /\ NothingBehind' /\ step' = "out" /\ result' = "failed"
    BY <1>3, <2>2, <2>3
  <2>5. Recorded'
    BY <1>1, <2>1, <2>2, <2>3, <2>4, AfterPhase DEF Recorded, NothingBehind
  <2>6. QED
    BY <1>2, <2>4, <2>5
<1>7. CASE RecordFails \/ Crash
  <2>1. PICK r \in {"unrecorded", "crashed"} : EndCall(r)
    BY <1>7 DEF RecordFails, Crash
  <2>2. events' = events /\ file' = file /\ faults' = faults + 1 /\ faults < MaxFaults
    BY <1>7 DEF RecordFails, Crash
  <2>3. faults' \in 0..MaxFaults
    BY <2>2, PipelineAssumption DEF TypeOK
  <2>4. TypeOK' /\ Stepping' /\ NothingBehind' /\ step' = "out" /\ result' = r
    BY <1>3, <2>1, <2>2, <2>3 DEF TypeOK
  <2>5. Recorded'
    BY <2>1, <2>4 DEF Recorded
  <2>6. QED
    BY <1>2, <2>4, <2>5
<1>8. CASE RecordFile
  <2>1. /\ file' = stage /\ step' = "record_event" /\ step = "record_file"
        /\ UNCHANGED <<stage, events, result, faults>>
    BY <1>8 DEF RecordFile
  <2>2. TypeOK' /\ Stepping' /\ NothingBehind' /\ Recorded'
    BY <1>1, <2>1, AfterPhase DEF TypeOK, Stepping, NothingBehind, Recorded
  <2>3. QED
    BY <1>2, <2>2
<1>9. CASE StageFails
  <2>1. Raise /\ UNCHANGED <<events, file, result>> /\ faults' = faults + 1 /\ faults < MaxFaults
    BY <1>9 DEF StageFails
  <2>2. faults' \in 0..MaxFaults
    BY <2>1, PipelineAssumption DEF TypeOK
  <2>3. stage' \in Stages /\ step' = "record_file" /\ Stepping' /\ NothingBehind'
    BY <1>1, <2>1, RaiseMoves DEF NothingBehind
  <2>4. TypeOK' /\ Recorded'
    BY <1>1, <2>1, <2>2, <2>3 DEF TypeOK, Recorded
  <2>5. QED
    BY <1>2, <2>3, <2>4
<1>10. QED
  BY <1>4, <1>5, <1>6, <1>7, <1>8, <1>9
-----------------------------------------------------------------------------
(* The invariant, and what follows from it.                                *)

LEMMA InitInv == Init => PipeInv
<1>1. SUFFICES ASSUME Init PROVE PipeInv
  OBVIOUS
<1>2. events \in Seq([type : {"started", "completed", "stopped", "failed"}, stage : Stages \cup {"none"}])
  BY <1>1, EmptySeq DEF Init
<1>3. TypeOK
  <2>1. /\ calls \in 0..MaxCalls /\ faults \in 0..MaxFaults /\ losses \in 0..MaxLosses
        /\ log \in 0..calls /\ logged \in 0..log
    BY <1>1, PipelineAssumption DEF Init
  <2>2. open \subseteq ToSet(Phases)
    BY <1>1, PhasesListed DEF Init
  <2>3. /\ stage \in Stages \cup {"out"}
        /\ step \in Stages \cup {"out", "stop", "recon_transcript", "record_file", "record_event"}
        /\ stopAfter \in Stoppable \cup {"none"}
        /\ file \in Stages \cup {"none"}
        /\ completed \subseteq {"recon", "deduplicate", "finalize"}
        /\ intact \in BOOLEAN /\ stale \in BOOLEAN
        /\ result \in {"none", "completed", "stopped", "failed", "unrecorded", "crashed"}
    BY <1>1 DEF Init
  <2>4. QED
    BY <1>2, <2>1, <2>2, <2>3, Zenon DEF TypeOK
<1>4. Stepping /\ NothingBehind /\ TasksDone /\ Recorded
  BY <1>1, AfterPhase, PhasesListed
     DEF Init, Stepping, NothingBehind, TasksDone, Recorded, ReconComplete
<1>5. QED
  BY <1>3, <1>4 DEF PipeInv

LEMMA InvStep == PipeInv /\ [Next]_vars => PipeInv'
<1>1. SUFFICES ASSUME PipeInv, [Next]_vars PROVE PipeInv'
  OBVIOUS
<1>2. CASE Next
  BY <1>1, <1>2, CallStep, PrepareStep, ReconStep, PhaseStep, EndStep DEF Next
<1>3. CASE UNCHANGED vars
  BY <1>1, <1>3
     DEF vars, PipeInv, TypeOK, Stepping, NothingBehind, TasksDone, Recorded, ReconComplete
<1>4. QED
  BY <1>1, <1>2, <1>3

LEMMA AlwaysInv == Spec => []PipeInv
<1>1. QED
  BY InitInv, InvStep, PTL DEF Spec

\* Every variable of the pipeline keeps its type, whatever the instance
\* (AttemptPipelineRunner.Run and the failure context).
THEOREM TypeCorrect == Spec => []TypeOK
<1>1. PipeInv => TypeOK
  BY DEF PipeInv
<1>2. QED
  BY <1>1, AlwaysInv, PTL

\* After any number of calls and failures the failure that is shown is that of
\* the last call, its file is of the same stage, and that stage is where to go
\* on (latestRunnerFailure, runnerFailureContext.Record).
THEOREM FailureIsShown == Spec => []FailureShown
<1>1. PipeInv => FailureShown
  BY DEF PipeInv, Recorded, FailureShown
<1>2. QED
  BY <1>1, AlwaysInv, PTL

\* Without a loss of evidence no call finds a deduplication to do that has taken
\* place (taskBundleEventsToAppend refuses the second bundle).
THEOREM DeduplicationNeverBlocked == Spec => []DeduplicationNotBlocked
<1>1. PipeInv => DeduplicationNotBlocked
  BY DEF PipeInv, TasksDone, DeduplicationNotBlocked
<1>2. QED
  BY <1>1, AlwaysInv, PTL

\* A call that records runner.completed leaves nothing open and a report that
\* covers every finding, for any number of calls, faults and losses (runPhases).
THEOREM CompletionIsDone == Spec => CompletedIsDone
<1>1. PipeInv /\ [Next]_vars =>
         [result' = "completed" /\ result # "completed" => open = {} /\ ~ stale]_vars
  <2>1. SUFFICES ASSUME PipeInv, Next, result' = "completed", result # "completed"
                 PROVE  open = {} /\ ~ stale
    BY Zenon
  <2>2. RecordCompleted
    BY <2>1 DEF Next, Call, Prepare, RecordStarted, ReconDone, ReconIngest, RegisterTranscript,
                RefuseTranscript, PhaseDone, PhaseWork, PhaseFails, Progress, DeduplicateRefused,
                FinalizeReport, RecordStopped, RecordFile, RecordFailed, StageFails,
                RecordFails, Crash, CallRefused, Lose, EndCall
  <2>3. QED
    BY <2>1, <2>2 DEF RecordCompleted, PipeInv, NothingBehind
<1>2. QED
  BY <1>1, AlwaysInv, PTL DEF Spec, CompletedIsDone
-----------------------------------------------------------------------------
(* The order of the verdict phases.                                        *)

Four == {"review", "deduplicate", "validate", "finalize"}

\* The verdict phase of the call, the work that is left for such phases, and what
\* is over of it.
At == IF step \in Four THEN step ELSE "out"

Left == open \cap Four

Over == completed \cap {"deduplicate", "finalize"}


\* A step that does no work of a verdict phase.
LEMMA NoWork ==
    ASSUME Left' = Left, Over' = Over,
           \/ At' \in {At, "out"}
           \/ At = "out" /\ At' = "review"
           \/ At # "out" /\ At' = Order!After[At] /\ At \notin Left
    PROVE  Order!Next
<1>1. CASE At = "out"
  <2>1. Order!Outside(Left, Left')
    BY <1>1 DEF Order!Outside, At, Over, Four
  <2>2. QED
    BY <2>1 DEF Order!Next, Left, Four
<1>2. CASE At # "out"
  <2>1. Order!Work(Left, Left')
    <3>1. \E done \in SUBSET ({At} \cap Left), new \in SUBSET Order!Gives[At] :
              done = {} /\ new = {}
      OBVIOUS
    <3>2. QED
      BY <3>1 DEF Order!Work, At, Over, Four
  <2>2. Order!Inside(Left, Left')
    BY <1>2, <2>1 DEF Order!Inside, At, Four
  <2>3. QED
    BY <2>2 DEF Order!Next, Left, Four
<1>3. QED
  BY <1>1, <1>2

\* Where a phase may lead that has returned.
LEMMA ReturnLeads ==
    ASSUME Return, step = stage, stage \in ToSet(Phases)
    PROVE  /\ step \in Four => At' \in {"out", Order!After[step]}
           /\ step \notin Four => At' \in {"out", "review"}
BY PhasesListed DEF Return, Enter, After, At, Four, Order!After

\* The work of a phase that has a verdict phase after it, or is one.
LEMMA WorkInOrder ==
    ASSUME PipeInv, NEW done \in SUBSET {step}, Progress(done),
           (done = {step} /\ Return) \/ Raise
    PROVE  Order!Next
<1>1. step = stage /\ stage \in Middle \cap open /\ stage \in ToSet(Phases)
  BY ProgressMade
<1>2. /\ completed \cap done = {} /\ completed' = completed \cup (done \cap {"deduplicate"})
      /\ Over' = Over \cup (done \cap {"deduplicate", "finalize"})
  BY <1>1 DEF Progress, Over, Middle
<1>3. PICK new \in SUBSET Gives(step) :
          /\ step = "deduplicate" /\ new # {} => step \in done
          /\ open' = (open \ done) \cup new
  BY DEF Progress
<1>4. At' = "out" \/ (done = {step} /\ Return)
  <2>1. Raise => At' = "out"
    BY DEF Raise, At, Four
  <2>2. QED
    BY <2>1
<1>5. CASE step = "investigate"
  <2>1. At = "out" /\ Left' \in {Left, Left \cup {"review"}} /\ Over' = Over
    BY <1>2, <1>3, <1>5 DEF At, Left, Four, Gives
  <2>2. At' \in {"out", "review"}
    BY <1>1, <1>4, <1>5, ReturnLeads DEF Four
  <2>3. Order!Outside(Left, Left')
    BY <2>1, <2>2 DEF Order!Outside, At, Over, Four
  <2>4. QED
    BY <2>3 DEF Order!Next, Left, Four
<1>6. CASE step \in {"review", "deduplicate", "validate"}
  <2>1. At = step /\ step \in Left /\ new \in SUBSET Order!Gives[step]
        /\ done \in SUBSET ({At} \cap Left)
    BY <1>1, <1>3, <1>6 DEF At, Left, Four, Gives, Order!Gives
  <2>2. Left' = (Left \ done) \cup new
    BY <1>3, <1>6 DEF Left, Four, Gives
  <2>3. done \cap Over = {}
    BY <1>2 DEF Over
  <2>4. new # {} /\ step \in Order!Once => step \in done
    BY <1>3, <1>6 DEF Order!Once
  <2>5. Order!Work(Left, Left')
    BY <1>2, <2>1, <2>2, <2>3, <2>4 DEF Order!Work, Order!Once, At, Over, Four
  <2>6. At' \in {"out"} \/ (At' = Order!After[step] /\ step \notin Left')
    <3>1. done = {step} => step \notin Left'
      BY <1>3, <1>6, <2>2 DEF Gives
    <3>2. QED
      BY <1>1, <1>4, <2>1, <3>1, ReturnLeads DEF Left
  <2>7. Order!Inside(Left, Left')
    BY <1>6, <2>1, <2>5, <2>6 DEF Order!Inside, At, Four
  <2>8. QED
    BY <2>7 DEF Order!Next, Left, Four
<1>7. QED
  BY <1>1, <1>5, <1>6 DEF Middle

\* The report, and its validation in a later call.
LEMMA ReportInOrder == ASSUME PipeInv, FinalizeReport PROVE Order!Next
<1>1. /\ step = "finalize" /\ stage = step
      /\ open' = open \ {"finalize"} /\ completed' = completed \cup {"finalize"}
      /\ "finalize" \in open <=> "finalize" \notin completed
      /\ Return \/ Raise
  BY StagesListed DEF FinalizeReport, PipeInv, Stepping, TasksDone
<1>2. At = "finalize" /\ At' = "out"
  <2>1. Raise => At' = "out"
    BY DEF Raise, At, Four
  <2>2. Return => At' = "out"
    BY <1>1 DEF Return, Enter, After, At, Four
  <2>3. QED
    BY <1>1, <2>1, <2>2 DEF At, Four
<1>3. PICK done : done = {"finalize"} \cap open
  OBVIOUS
<1>4. /\ done \in SUBSET ({At} \cap Left) /\ Left' = (Left \ done) \cup {}
      /\ Over' = Over \cup (done \cap {"deduplicate", "finalize"}) /\ done \cap Over = {}
  BY <1>1, <1>2, <1>3 DEF Left, Over, Four
<1>5. Order!Work(Left, Left')
  <2>1. {} \in SUBSET Order!Gives[At]
    OBVIOUS
  <2>2. QED
    BY <1>2, <1>4, <2>1 DEF Order!Work, Order!Once, At, Over, Four
<1>6. Order!Inside(Left, Left')
  BY <1>2, <1>5 DEF Order!Inside, At, Four
<1>7. QED
  BY <1>6 DEF Order!Next, Left, Four

LEMMA OrderStep == ASSUME PipeInv, [Next]_vars PROVE Order!Next
<1> USE DEF PipeInv
<1>1. CASE UNCHANGED vars
  <2>1. Left' = Left /\ Over' = Over /\ At' = At
    BY <1>1 DEF vars, Left, Over, At
  <2>2. QED
    BY <2>1, NoWork
<1>2. CASE \/ \E stop \in Stoppable \cup {"none"} : Call(stop)
           \/ CallRefused \/ Lose \/ RefuseTranscript \/ RecordStopped \/ RecordCompleted \/ RecordFile
           \/ RecordFailed \/ StageFails \/ RecordFails \/ Crash \/ DeduplicateRefused
  <2>1. At' \in {At, "out"}
    BY <1>2, StagesListed
       DEF Call, CallRefused, Lose, RefuseTranscript, RecordStopped, RecordCompleted, RecordFile, RecordFailed,
           StageFails, RecordFails, Crash, DeduplicateRefused, EndCall, Raise, At, Four
  <2>2. Left' = Left /\ Over' = Over
    BY <1>2
       DEF Call, CallRefused, Lose, RefuseTranscript, RecordStopped, RecordCompleted, RecordFile, RecordFailed,
           StageFails, RecordFails, Crash, DeduplicateRefused, work, Left, Over, Four
  <2>3. QED
    BY <2>1, <2>2, NoWork
<1>3. CASE Prepare \/ RecordStarted \/ ReconIngest
  <2>1. At = "out" /\ At' = "out"
    BY <1>3, AfterPhase, StagesListed, PhasesListed
       DEF Prepare, RecordStarted, ReconIngest, Enter, Stepping, Preparations, At, Four
  <2>2. Left' = Left /\ Over' = Over
    BY <1>3 DEF Prepare, RecordStarted, ReconIngest, work, Left, Over, Four
  <2>3. QED
    BY <2>1, <2>2, NoWork
<1>4. CASE ReconDone \/ RegisterTranscript
  <2>1. stage = "recon" /\ step \notin Four /\ Return
    BY <1>4, StagesListed DEF ReconDone, RegisterTranscript, Stepping, Four
  <2>2. At = "out" /\ At' = "out"
    BY <2>1 DEF At, Four, Return, Enter, After
  <2>3. Left' = Left /\ Over' = Over
    BY <1>4 DEF ReconDone, RegisterTranscript, work, Left, Over
  <2>4. QED
    BY <2>2, <2>3, NoWork
<1>5. CASE PhaseDone
  <2>1. /\ step = stage /\ step \in ToSet(Phases) /\ step \notin open /\ Return
        /\ Left' = Left /\ Over' = Over
    BY <1>5, PhasesListed, StagesListed DEF PhaseDone, Middle, Stepping, work, Left, Over
  <2>2. CASE step \in Four
    BY <2>1, <2>2, ReturnLeads, NoWork DEF At, Left, Four
  <2>3. CASE step \notin Four
    BY <2>1, <2>3, ReturnLeads, NoWork DEF At
  <2>4. QED
    BY <2>2, <2>3
<1>6. CASE PhaseWork \/ PhaseFails
  <2>1. PICK done \in SUBSET {step} : Progress(done) /\ ((done = {step} /\ Return) \/ Raise)
    BY <1>6 DEF PhaseWork, PhaseFails
  <2>2. QED
    BY <2>1, WorkInOrder
<1>7. CASE FinalizeReport
  BY <1>7, ReportInOrder
<1>8. QED
  BY <1>1, <1>2, <1>3, <1>4, <1>5, <1>6, <1>7 DEF Next

\* In any number of calls, stopped, failed or resumed where they may be, the runner
\* takes the verdict phases in order: it enters the next one when the ledger has no work
\* left for this one, and does no deduplication and no report twice (runPhases).
THEOREM RunnerKeepsOrder == Spec => OrderSpec
<1>1. Init => Order!Init
  BY DEF Init, Order!Init
<1>2. PipeInv /\ [Next]_vars => Order!Next
  BY OrderStep
<1>3. QED
  BY <1>1, <1>2, AlwaysInv, PTL DEF Spec, OrderSpec, Order!Spec
=============================================================================
