------------------------------ MODULE Pipeline ------------------------------
(***************************************************************************)
(* One runner takes a run through its phases (pipeline_runner.go,          *)
(* runner.go).  A call prepares the workspace, runs the phases in order,   *)
(* stops after one on request, and records how it ended: completed,        *)
(* stopped, or failed in a stage.  Later calls resume from the ledger.  A  *)
(* phase is reduced to the work that the ledger says is open for it; how   *)
(* it gets it done is InvestigatePhase and FindingVerdicts.                *)
(***************************************************************************)
EXTENDS Naturals, Sequences, SequencesExt

CONSTANTS Guest,      \* the guest's runner, which installs toolchains and opencode
          MaxCalls,   \* bound: calls of the runner
          MaxFaults,  \* bound: errors, crashes included
          MaxLosses   \* bound: losses of recon's evidence files

ASSUME PipelineAssumption ==
    /\ Guest \in BOOLEAN
    /\ MaxCalls \in Nat /\ MaxFaults \in Nat /\ MaxLosses \in Nat

VARIABLES
    stage,      \* failure.Stage; "out" between calls
    step,       \* what the call does: the stage, or a part of its end
    stopAfter,  \* --stop-after
    events,     \* the runner's own events in the ledger
    file,       \* the stage in runner-failure.json
    open,       \* the phases that have work left, as the ledger tells it
    completed,  \* completed tasks among recon, deduplicate and finalize
    intact,     \* recon's evidence files are there
    log,        \* recon's transcript: the call that wrote it
    logged,     \* the transcript that is registered, 0 if none is
    stale,      \* a finding was made after the report was finalized
    result,     \* how the last call ended
    calls, faults, losses    \* history

vars == <<stage, step, stopAfter, events, file, open, completed, intact, log, logged, stale,
          result, calls, faults, losses>>

work == <<open, completed, intact, log, logged, stale, losses>>

Phases == <<"recon", "investigate", "review", "deduplicate", "validate", "finalize">>

\* What failure.Stage becomes after each stage.
After ==
    [load_config |-> "extract_snapshot",
     extract_snapshot |-> IF Guest THEN "toolchain_bootstrap" ELSE "runner_manifest",
     toolchain_bootstrap |-> "opencode_bootstrap",
     opencode_bootstrap |-> "runner_manifest",
     runner_manifest |-> "runner_started_event",
     runner_started_event |-> "recon", recon |-> "investigate", investigate |-> "review",
     review |-> "deduplicate", deduplicate |-> "validate", validate |-> "finalize",
     finalize |-> "runner_completed_event"]

Stages == DOMAIN After \cup {"runner_completed_event"}

\* The stages that only may fail.
Preparations ==
    Stages \ (ToSet(Phases) \cup {"runner_started_event", "runner_completed_event"})

Stoppable == ToSet(Phases) \ {"finalize"}

\* The phases that come after s.
Later(s) == {Phases[k] : k \in {i \in 1..Len(Phases) : \E j \in 1..i - 1 : Phases[j] = s}}

RunnerEvent(type, s) == [type |-> type, stage |-> s]

\* Mutant: only a completion clears the failure.
ShownUntilCompleted(s) ==
    LET ended == {i \in DOMAIN s : s[i].type \in {"failed", "completed"}}
        last == {i \in ended : s[i].type = "failed" /\ \A k \in ended : k <= i}
    IN  IF last = {} THEN "none" ELSE s[CHOOSE i \in last : TRUE].stage

\* latestRunnerFailure of the events s: the last failure, unless it is over.
Shown(s) ==
    LET ended == {i \in DOMAIN s : s[i].type # "started"}
        last == {i \in ended : s[i].type = "failed" /\ \A k \in ended : k <= i}
    IN  IF last = {} THEN "none" ELSE s[CHOOSE i \in last : TRUE].stage
-----------------------------------------------------------------------------
Init ==
    /\ stage = "out"
    /\ step = "out"
    /\ stopAfter = "none"
    /\ events = <<>>
    /\ file = "none"
    /\ open = {"recon", "finalize"}
    /\ completed = {}
    /\ intact = TRUE
    /\ log = 0
    /\ logged = 0
    /\ stale = FALSE
    /\ result = "none"
    /\ calls = 0
    /\ faults = 0
    /\ losses = 0

\* runnerCommandContext, AttemptPipelineRunner.Run.
Call(stop) ==
    /\ stage = "out"
    /\ calls < MaxCalls
    /\ calls' = calls + 1
    /\ stopAfter' = stop
    /\ result' = "none"
    /\ stage' = "load_config"
    /\ step' = "load_config"
    /\ UNCHANGED <<events, file, faults, work>>

\* An error before failure.Record is deferred, or a context that is done already:
\* nothing is recorded of the call.
CallRefused ==
    /\ stage = "out"
    /\ calls < MaxCalls
    /\ calls' = calls + 1
    /\ faults < MaxFaults
    /\ faults' = faults + 1
    /\ result' = "unrecorded"
    /\ UNCHANGED <<stage, step, stopAfter, events, file, work>>

Enter(s) == stage' = s /\ step' = s

Prepare ==
    /\ step \in Preparations
    /\ Enter(After[stage])
    /\ UNCHANGED <<stopAfter, events, file, result, calls, faults, work>>

RecordStarted ==
    /\ step = "runner_started_event"
    /\ events' = Append(events, RunnerEvent("started", "none"))
    /\ Enter(After[stage])
    /\ UNCHANGED <<stopAfter, file, result, calls, faults, work>>

\* A phase has returned without an error.
Return ==
    IF stage = stopAfter THEN step' = "stop" /\ UNCHANGED stage ELSE Enter(After[stage])

\* An error, or a cancelled context, in a stage: failure.Record begins.
Raise == step' = "record_file" /\ UNCHANGED stage

\* reconTaskComplete.
ReconComplete == "recon" \in completed /\ intact

ReconDone ==
    /\ step = "recon"
    /\ ReconComplete
    /\ Return
    /\ UNCHANGED <<stopAfter, events, file, result, calls, faults, work>>

\* The attempts succeed: the transcript is written, then the bundle ingested,
\* even after a completion that turned out to be void.
ReconIngest ==
    /\ step = "recon"
    /\ ~ ReconComplete
    /\ completed' = completed \cup {"recon"}
    /\ intact' = TRUE
    /\ log' = calls
    /\ open' = (open \ {"recon"}) \cup {"investigate"}
    /\ step' = "recon_transcript"
    /\ UNCHANGED <<stage, stopAfter, events, file, logged, stale, result, calls, faults, losses>>

\* registerTaskEvidence without AllowContentChange.
RegisterTranscript ==
    /\ step = "recon_transcript"
    /\ logged \in {0, log}
    /\ logged' = log
    /\ Return
    /\ UNCHANGED <<stopAfter, events, file, open, completed, intact, log, stale, result, calls,
                   faults, losses>>

RefuseTranscript ==
    /\ step = "recon_transcript"
    /\ logged \notin {0, log}
    /\ Raise
    /\ UNCHANGED <<stopAfter, events, file, open, completed, intact, log, logged, stale, result,
                   calls, faults, losses>>

\* What a phase may leave to the next: findings to review, accepted findings to
\* deduplicate, canonical ones to validate.
Gives(p) ==
    CASE p = "investigate" -> {"review"}
      [] p = "review" -> {"deduplicate"}
      [] p = "deduplicate" -> {"validate"}
      [] OTHER -> {}

Middle == {"investigate", "review", "deduplicate", "validate"}

PhaseDone ==
    /\ step \in Middle
    /\ step \notin open
    /\ Return
    /\ UNCHANGED <<stopAfter, events, file, result, calls, faults, work>>

\* What the tasks of the phase have done, with the phases that are done with.  The
\* deduplication is one task; its bundle is refused once it is completed.
Progress(done) ==
    /\ step \in Middle \cap open
    /\ completed \cap done = {}
    /\ completed' = completed \cup (done \cap {"deduplicate"})
    /\ \E new \in SUBSET Gives(step) :
          /\ step = "deduplicate" /\ new # {} => step \in done
          /\ open' = (open \ done) \cup new
          /\ stale' = (stale \/ ("review" \in new /\ "finalize" \in completed))
    /\ UNCHANGED <<intact, log, logged, losses>>

\* All tasks of the phase succeed.
PhaseWork ==
    /\ Progress({step})
    /\ Return
    /\ UNCHANGED <<stopAfter, events, file, result, calls, faults>>

\* Mutant: the error of a task is logged and the run goes on.
PhaseFailsOn ==
    /\ faults < MaxFaults
    /\ faults' = faults + 1
    /\ \E done \in SUBSET {step} : Progress(done)
    /\ Return
    /\ UNCHANGED <<stopAfter, events, file, result, calls>>

\* Some tasks fail, the others have done their part.  A task that fails may have
\* done its own: its transcript is registered after its bundle is ingested.
PhaseFails ==
    /\ faults < MaxFaults
    /\ faults' = faults + 1
    /\ \E done \in SUBSET {step} : Progress(done)
    /\ Raise
    /\ UNCHANGED <<stopAfter, events, file, result, calls>>

DeduplicateRefused ==
    /\ step = "deduplicate"
    /\ step \in open \cap completed
    /\ Raise
    /\ UNCHANGED <<stopAfter, events, file, result, calls, faults, work>>

\* Mutant: a finalized report is not looked at again.
FinalizeReportUnchecked ==
    /\ step = "finalize"
    /\ open' = open \ {"finalize"}
    /\ completed' = completed \cup {"finalize"}
    /\ Return
    /\ UNCHANGED <<stopAfter, events, file, intact, log, logged, stale, result, calls, faults,
                   losses>>

\* A finalized report is validated again, and misses the findings made since.
\* Otherwise the report is written, and covers what the ledger has; its transcript
\* may fail to be registered.
FinalizeReport ==
    /\ step = "finalize"
    /\ IF "finalize" \in completed THEN UNCHANGED <<open, completed>>
       ELSE open' = open \ {"finalize"} /\ completed' = completed \cup {"finalize"}
    /\ \/ /\ IF stale THEN Raise ELSE Return
          /\ UNCHANGED faults
       \/ /\ "finalize" \notin completed
          /\ faults < MaxFaults
          /\ faults' = faults + 1
          /\ Raise
    /\ UNCHANGED <<stopAfter, events, file, intact, log, logged, stale, result, calls, losses>>

EndCall(r) ==
    /\ stage' = "out"
    /\ step' = "out"
    /\ result' = r

RecordCompleted ==
    /\ step = "runner_completed_event"
    /\ events' = Append(events, RunnerEvent("completed", "none"))
    /\ EndCall("completed")
    /\ UNCHANGED <<stopAfter, file, calls, faults, work>>

RecordStopped ==
    /\ step = "stop"
    /\ events' = Append(events, RunnerEvent("stopped", stage))
    /\ EndCall("stopped")
    /\ UNCHANGED <<stopAfter, file, calls, faults, work>>

\* failure.Record: the file, its registration, the event.  The registration
\* changes the ledger once only and is left out.
RecordFile ==
    /\ step = "record_file"
    /\ file' = stage
    /\ step' = "record_event"
    /\ UNCHANGED <<stage, stopAfter, events, result, calls, faults, work>>

RecordFailed ==
    /\ step = "record_event"
    /\ events' = Append(events, RunnerEvent("failed", stage))
    /\ EndCall("failed")
    /\ UNCHANGED <<stopAfter, file, calls, faults, work>>

\* An error of a preparation, of an event, of a task that is not a phase's own,
\* or a cancelled context before a phase.
StageFails ==
    /\ step \in Stages \cup {"stop", "recon_transcript"}
    /\ faults < MaxFaults
    /\ faults' = faults + 1
    /\ Raise
    /\ UNCHANGED <<stopAfter, events, file, result, calls, work>>

\* The failure cannot be recorded: the call returns both errors.
RecordFails ==
    /\ step \in {"record_file", "record_event"}
    /\ faults < MaxFaults
    /\ faults' = faults + 1
    /\ EndCall("unrecorded")
    /\ UNCHANGED <<stopAfter, events, file, calls, work>>

Crash ==
    /\ stage # "out"
    /\ faults < MaxFaults
    /\ faults' = faults + 1
    /\ EndCall("crashed")
    /\ UNCHANGED <<stopAfter, events, file, calls, work>>

\* Somebody removes an evidence file of recon between two calls.
Lose ==
    /\ stage = "out"
    /\ "recon" \in completed
    /\ losses < MaxLosses
    /\ losses' = losses + 1
    /\ intact' = FALSE
    /\ open' = open \cup {"recon"}
    /\ UNCHANGED <<stage, step, stopAfter, events, file, completed, log, logged, stale, result,
                   calls, faults>>

Next ==
    \/ \E stop \in Stoppable \cup {"none"} : Call(stop)
    \/ CallRefused \/ Prepare \/ RecordStarted
    \/ ReconDone \/ ReconIngest \/ RegisterTranscript \/ RefuseTranscript
    \/ PhaseDone \/ PhaseWork \/ PhaseFails \/ DeduplicateRefused \/ FinalizeReport
    \/ RecordCompleted \/ RecordStopped \/ RecordFile \/ RecordFailed
    \/ StageFails \/ RecordFails \/ Crash \/ Lose

Spec == Init /\ [][Next]_vars
-----------------------------------------------------------------------------
\* Every variable has its type.
TypeOK ==
    /\ stage \in Stages \cup {"out"}
    /\ step \in Stages \cup {"out", "stop", "recon_transcript", "record_file", "record_event"}
    /\ stopAfter \in Stoppable \cup {"none"}
    /\ events \in Seq([type : {"started", "completed", "stopped", "failed"}, stage : Stages \cup {"none"}])
    /\ file \in Stages \cup {"none"}
    /\ open \subseteq ToSet(Phases)
    /\ completed \subseteq {"recon", "deduplicate", "finalize"}
    /\ intact \in BOOLEAN /\ stale \in BOOLEAN
    /\ log \in 0..calls /\ logged \in 0..log
    /\ result \in {"none", "completed", "stopped", "failed", "unrecorded", "crashed"}
    /\ calls \in 0..MaxCalls /\ faults \in 0..MaxFaults /\ losses \in 0..MaxLosses

\* A runner that records its completion leaves nothing undone, and its report
\* covers every finding, whatever calls and failures came before.
CompletedIsDone == [][result' = "completed" /\ result # "completed" => open = {} /\ ~ stale]_vars

\* mnm runs and mnm report show tell where a failed run has to go on: the file
\* they point to is of the stage they show, and nothing before that stage is
\* left to do, unless evidence was lost.  They tell of no failure once the run
\* was stopped or completed.
FailureShown ==
    LET shown == Shown(events)
    IN  /\ result = "failed" => shown # "none" /\ file = shown
        /\ result = "failed" /\ losses = 0 /\ shown \in ToSet(Phases) =>
               open \subseteq Later(shown) \cup {shown}
        /\ result \in {"stopped", "completed"} => shown = "none"

\* As long as no evidence is lost nothing waits for a deduplication that has
\* taken place: its task cannot run again, and every later call would fail there.
DeduplicationNotBlocked ==
    losses = 0 => ~ ("deduplicate" \in open /\ "deduplicate" \in completed)

\* Refinement: with phases reduced to the work that is open for them the runner
\* keeps the order of the verdict phases, as FindingVerdicts does with the tasks.
Order ==
    INSTANCE PhaseOrder
    WITH phase <- IF step \in {"review", "deduplicate", "validate", "finalize"} THEN step ELSE "out",
         open <- open \cap {"review", "deduplicate", "validate", "finalize"},
         over <- completed \cap {"deduplicate", "finalize"}

OrderSpec == Order!Spec
=============================================================================
