# A TLA+ model of mnm

`mnm` ("make no mistakes") audits a workspace. A command on the host snapshots
the workspace and starts a runner, on the host or in a virtual machine; the
runner takes the run through six phases (recon, investigate, review,
deduplicate, validate, finalize); the workers of a phase give tasks to coding
agents, one attempt after another; and everything that is learned is recorded
in an append-only ledger from which every later step, and every resume, reads
what is left to do.

This directory has models of the parts whose correctness depends on order,
concurrency and failure, the TLC runs that check them on small instances, and
TLAPS proofs for every instance. Source paths without a directory are relative
to `src/cmd/mnm/`; `README.md:N` and `PLAN.md:N` are the repository's.

1. Inventory
2. Modules, and how they fit together
3. Each module: state, actions, run, findings
4. Fairness
5. Proofs
6. What is not modelled, and observations outside the runs
7. Plan

## 1. Inventory

| component | state it keeps | operations | interacts with |
|---|---|---|---|
| ledger file (`ledger.go`) | `ledger/events.jsonl`, `.events.lock` | lock, read, rewrite with a batch appended, unlock | every command and every goroutine of the runner |
| ledger commands (`ledger_commands.go`) | none | task complete, lead create/close, finding create, evidence add/write, verdict record, report finalize | agents call them in a task directory; each checks and appends under the lock |
| derived state (`ledger_state.go`) | none: recomputed from the events | open leads, complete verdicts, pending findings, latest failure | phases, report validation, listings |
| run status (`state.go`, `analyze.go`) | a row per run in SQLite | create, mark, resume, monitor goroutine, final status | user's interrupts, deadline, runner |
| host and guest pipeline (`pipeline_runner.go`, `runner.go`) | `runner.*` events, `runner-failure.json` | run the phases in order, stop after one, record a failure | phases |
| phases (`phase_*.go`, recon in `runner.go`) | task and phase events | find open work, run a worker pool, check postconditions | tasks |
| task attempts (`runner.go`) | attempt number, task directory | attempt, verify in a copy, ingest, retry with backoff | machines, bundles |
| task bundles (`task_bundle.go`) | copied artifacts, appended events | validate, copy exclusively, roll back, append | concurrent workers of a phase, ledger |
| virtual machines (`lima_runner.go`, `lima_task_runner.go`) | Lima instances | create, start, copy in, run, copy out, stop, delete | attempts, analyze |
| host capacity (`config.go`, `lima_runner.go`) | none | size the pool from a reading of the host, refuse a host that is too small | preflight, worker pools |
| handoffs (`phase_handoff.go`, `handoff_commands.go`) | JSON files under `evidence/` | write, validate, put into the next agent's context | tasks |
| report validation (`report_validation.go`, `report_show.go`) | none | compare a report with the ledger | finalize, `mnm report show` |
| snapshot, toolchain, setup hook, configuration | files | archive and extract, install, run the hook, parse | analyze, runner |

What is hard to test here:

* processes that share a lock file, and may be killed while they hold it;
* a goroutine that writes the same database row as the function that waits for it;
* worker pools that keep going after an error (the errors are joined at the
  end; only a cancelled context stops the sending), so that the rest of a batch
  changes the ledger after a task has failed;
* retries, which must only follow attempts that left nothing behind;
* the artifacts of two tasks copied into one directory, and rolled back, without
  a lock;
* checks made in a task's snapshot of the ledger and acted upon after others
  have appended to it;
* rules about a bundle that are written down twice, in the commands an agent runs
  and in the host that takes the bundle, while the files can change in between;
* a host that is measured twice and may be fuller the second time;
* resumes, which know nothing but the ledger, over whatever a failed, cancelled
  or crashed call left.

What makes each part correct is stated as properties of its module below;
PROJECT.json lists the hazards by source line with the property for each.

## 2. Modules, and how they fit together

    LedgerFile  ==>  LedgerLog          the file implements the append-only log
    FindingVerdicts  ==>  VerdictBoard   complete verdicts are written once, in order
    FindingVerdicts  ==>  PhaseOrder  <==  Pipeline    phases take turns, work moves on
    TaskAttempts  ==>  TaskContract  <==  InvestigatePhase, FindingVerdicts
                                         what a task and its phase rely on
    TaskBundleIngest                     the copies and the append of concurrent bundles
    RunLifecycle                         host: row, monitor, resume
    Pipeline                             runner: stages, phases, failures
    InvestigatePhase  EXTENDS HostCapacity    the batches and pool of Investigate
    TaskAttempts                         attempts, retries, machines of one task
    TaskSession                          one attempt from inside: commands, bundle, host's checks
    HostCapacity                         pure operators: pool size, what fits the host

`==>` is a refinement, checked as a property of the detailed module (but for the contract
of FindingVerdicts, which is proved only) and proved in `<module>_proofs`, for every
constant the section on proofs names. Two of the four abstract
modules have a detailed one on either side. TaskContract is written for the two ends
of a call: the attempts at a task implement it for that task, the phases implement it
for all of theirs, so that what a phase makes of a task (begun, its work recorded or
not, over) is what the attempts do. PhaseOrder is written for the two views of the
verdict phases: FindingVerdicts implements it task by task on a ledger, Pipeline
implements it with a phase reduced to the work it has left. Each layer takes from the
one below what that one is checked for, instead of its detail:

* an append is atomic, in order and never lost (LedgerFile), so TaskBundleIngest
  appends a bundle in one step under a lock, and the phases have a sequence or a
  set of events;
* a command of an agent takes two steps at most, what it reads before the lock and
  what it does under it (TaskSession), because the lock of its directory excludes
  the others (LedgerFile);
* a bundle that an agent makes with the commands is valid (TaskSession), and one
  that is not is refused before it touches anything, so TaskBundleIngest begins
  with a valid one;
* a bundle is ingested whole or not at all, and what is recorded stays intact
  (TaskBundleIngest), so InvestigatePhase and FindingVerdicts ingest in one
  step and do not look at files again;
* a call of a task ends, its result is true and a failed one leaves nothing
  behind (TaskAttempts: TaskEnds, ResultTrue), so the phases have a task succeed
  or fail, with any number of retries on fresh snapshots; both sides keep to
  TaskContract;
* a phase ends, and leaves nothing open when it succeeds (InvestigatePhase,
  FindingVerdicts), so Pipeline reduces it to the set of phases with open work; for
  the verdict phases both sides keep to PhaseOrder;
* the runner returns success only if it went through or was told to stop
  (Pipeline), so RunLifecycle has a runner that returns one of two results.

TaskAttempts is checked only in configurations where ResultTrue holds; the
configuration where it does not (a setup script in a machine) has a run of its
own, and is the case in which a phase sees a *failed* task whose work is
recorded. InvestigatePhase (RegisterTranscript) and FindingVerdicts (Ingest with
a failure) have that outcome too, because a later step of the task may fail.

Conventions. Constants named `Max...` that the comments call "bound" only limit
the search: the code has no such limit. A variable marked "history" records what
happened and guards nothing but a bound or a property; the exceptions are
`runs`, `bundles`, `started` and `calls`, which also serve as fresh identities.
Definitions whose comment starts with "Mutant:" are not part of any
specification: each is a plausible bug in the definition that follows it, and
TLC finds a property violated when it takes that definition's place. `MC*`
modules only add the values of constants; the `.cfg` of the same name is a run, and
one whose name goes on is another run of the same module. `*_proofs` modules only add
lemmas and theorems. A property below that is marked *proved only* is in no `.cfg`: it
is a theorem for every value of the constants, and a run leaves its time to what needs
it more. So are the type invariants (TypeOK) of all modules but TaskSession; TLC finds no violation of any of them
when they are added to the module's `.cfg`.

## 3. Each module

### LedgerFile, LedgerLog (`ledger.go`, `ledger_commands.go`)

State: the events in the file, whether the lock file exists, and for each process
its place, its batch and its buffer. One action per system call that others can
see: Prepare (event id and time are taken *before* the lock), Lock (`O_EXCL`),
LockTimeout (ten seconds), CheckSettled (the idempotency check of the command),
ReadExisting, WriteTemp, Rename, IOError (anywhere in the section: the deferred
unlock still runs), Unlock. Kill stops a process anywhere; Collect is the copy of
the directory out of its machine, which drops the lock file and everybody in the
machine. LockFails is a lock file that cannot be created for another reason than that
it exists. A *key* stands for what an idempotent command settles: a task's
completion, the closing of a lead, a piece of evidence, a verdict, the report.
`replies` records what was reported to whoever ran a command.

The module is any ledger, that of a task's directory, where only commands append, and
the central one, where the runner appends whole bundles as well
(`appendTaskBundleEvents`). A command looks under the lock for the key it settles. A
bundle brings many keys and is checked for one of them, the completion of its own task;
the bundle of a recovered recon is not checked at all. `by` is history: it says how an
event came into the file.

Run MCLedgerFile (200,922 states): two processes, the closing of a lead and the
completion of a task as keys, two values, commands of up to two free events or one key,
bundles of one or two events, recoveries; two commands, one kill, one copy. Two
processes race on a key with the same or a different value, by command or bundle;
batches of two events could be split; one kill covers every place, and the other process
then meets the stale lock. More processes only add symmetric waiters, and the safety
part is proved for any number.

* SettledOnce: no command settles what is settled, no bundle completes a task that is
  completed; only what a bundle brings along besides (a lead's closing, a verdict) and
  a recovered completion come a second time. The first is what PLAN.md:246 denies, see
  the observations.
* RepliesHold: what was reported stays true whatever others do afterwards. An
  error means that nothing was recorded; a killed command left all or nothing.
* LogSpec: the file implements LedgerLog. CommandsEnd: every command ends, also
  behind a stale lock.

### RunLifecycle (`analyze.go`, `state.go`)

State: the status column, whether the snapshot is written, whether the pipeline
went through, and for each invocation its place, option, context, monitor and
runner result. Every `UpdateRunStatus` is an action that may fail. The monitor is
three actions: MonitorWake (the select; with both channels ready either branch may
be taken), MonitorCheck (look at runnerDone again) and MonitorWrite (the write,
which may come after the runner is done, or fail and be tried again). JoinMonitor
is the wait that keeps the final write last. `Overlap` says whether a run may be
resumed while another process works on it: the code does not prevent it. A cause that
`finalRunStatus` reads off an error of the runner itself (`analyze.go:264-266`) comes
from the same context here: the runners of the pipeline return no other deadline or
cancellation.

Run MCRunLifecycle (13,214 states): two invocations one after the other (Overlap
FALSE), one crash, and any number of failed writes, so that a database may stay out of
order for ever; `dbFailed` only remembers that one has failed.

* CompletedMeansFinished; RecordedStatusStands (no late write of a monitor changes
  what the last process recorded); CompletedNotExecuted (a completed run is not
  taken up again; *proved only*, and violated in the run below).
* ActiveIsExecuted: while no process crashed and no write failed, an active status
  has a process behind it that works on the run, so that it passes with the process.
* InterruptRecorded: an interrupt ends with the status `stopped`, unless the run was
  through by then, a process crashed or a write failed.
* StepsRunOut: every step of a process brings it and its monitor nearer to their end,
  and so does every step of the monitor once the runner is done, however many writes
  fail; only the monitor's retry while the runner works takes a step back. ProcessesEnd
  follows from it, since a waiting process waits for a monitor that can go on. A retry
  loop that does not look at `runnerDone` again (`analyze.go:288`) violates both.

Run MCRunLifecycleOverlap (expected violation of CompletedNotExecuted). *Finding:*
the status is read once, the run is marked much later and unconditionally
(`analyze.go:173-221`); of two resumes that both read a resumable status, the
second executes a run that the first has completed, although `analyze.go:178` and
`analyze_test.go:415` say that a completed run is not resumed. Without the overlap the
property is a theorem, for any number of invocations: the overlap is all of it.

### TaskSession (`ledger_commands.go`, `handoff_commands.go`, `task_bundle.go`, `phase_handoff.go`)

One attempt as its agent sees it. State: the task, the snapshot of the ledger it
began with, the events and the files of its output directory, the commands that
have read a file and wait for the lock, and what the host made of the bundle. A
read of the ledger is the snapshot followed by the bundle, as in
`readLedgerEvents`; an append goes to the bundle only.

LeadCreate, FindingCreate and EvidenceAdd are the part of their command before the
lock (phase, owner, a file that is not empty, its digest) and Finish is the rest:
a path with another digest is refused, a repeated lead or evidence answered. The
other commands do everything that others could change under the lock: LeadClose,
VerdictRecord, TaskComplete, and EvidenceWrite and HandoffWrite, which write a file
and then register it, and leave the file behind when that is refused. Edit is
whatever the agent does to a file without a command. Submit is the host's look at
the result: ValidBundle and RequiredHandoff, written from `task_bundle.go` and
`phase_handoff.go` and not from the commands.

Run MCTaskSession (760,636 states): a recon that begins and one that is recovered,
and a task of each other phase, with or without a setup log; two leads, one
finding, three paths; up to three events, two commands at once, one edit. Two
commands at once are every pair of a read before the lock and a write under it;
three events are a repeated command, or a conflict, and a completion; one edit
comes between a command and the completion, or the completion and the end.

* CommandsObeyHost: an agent that leaves alone what it has registered, and stops
  after its `task complete`, has a valid bundle. The commands check single events,
  the host the whole bundle; where they disagreed, hours of work would be refused
  for a reason the agent was never told.
* HandoffsReadable: a handoff that `handoff write` has checked still is one when the
  bundle is accepted, whatever became of the file. What is *not* checked is below
  under observations.

### HostCapacity, with InvestigatePhase (`config.go`, `lima_runner.go`)

Operators: what k machines need of a resource (CPUs counted, memory and disk in GiB
against bytes), the limits of the detected resources, the number of workers
(EffectiveParallelTasksForResources) and the preflight's verdict on a host
(ValidHost). InvestigatePhase takes its pool from them. At Enter the preflight has
found one reading valid; when the count is left to the host the pool is sized by a
second reading, which may be anything.

* TasksFitHost (in MCInvestigatePhase): the machines that run at once fit the reading
  the pool was sized by, in each resource that was detected; one machine is always
  started. BytesPerGiB is two in the run, so that a disk can hold part of a machine,
  and any positive number in the proof.

### TaskBundleIngest (`task_bundle.go`, `runner.go`, `files.go`)

State: the files of the run directory (absent, torn or with a content), the
recorded bundles, the ledger lock, and for each worker its place, bundle,
verification copy, and what it still has to copy and has created. Actions follow
`ingestTaskBundle`: the verification copy, made without the lock (CopyEvents, then
ListEvidence and CopyEvidence, which reads the directory once and copies what it listed
one file at a time, and EndWalk), Verify, CheckTargets, CopyArtifact / Create / Fill for each artifact in
sorted order (`O_EXCL` makes a torn file visible before it is filled),
ValidateReports, Remove (rollback, one file at a time), LockLedger or LockTimeout,
RequireIngested, AppendEvents. A bundle that fails the checks that look at it
alone (TaskSession) touches nothing and is not begun.

Run MCTaskBundleIngest (265,566 states): two workers with disjoint new paths (one
with two of them, so that the second can fail after the first), one path that is
recorded already and that both may name with the right or the wrong content, an
I/O error, a failed append, a crash; the second worker's task is a recovery, whose
bundle is taken although the task is completed. Two bundles are enough for every
pair of an ingest and a concurrent one; a third bundle meets the same files.

* RecordedIntact: what the ledger names is there, whole and unchanged.
* VerifiedOnSoundCopy: whatever other ingests create or remove while the walk goes
  over the evidence, what the copied events name is copied, whole, or still there to be
  copied: the walk never fails, and never takes half a file, for something recorded. It
  can fail over what is not recorded (see the observations).
* OrphansOnlyFromAppend: only a failed append or a crash leaves files that nothing
  records.

Run MCTaskBundleIngestShared (expected violation of RecordedIntact): two bundles
that name the same new artifact. *Finding:* the first creates it, the second finds
it in place and is recorded, the first fails on its next artifact and removes it
(`task_bundle.go:49`), and the ledger names evidence that is gone. The prompts ask for
paths with the task's object in the name (`phase_investigate.go:357`); names such
as `lead-specific-name.md` are left to the agents, and nothing checks them.

### TaskAttempts (`runner.go`, `lima_task_runner.go`, `setup_hook.go`)

State: the configuration (machine or host, setup script, keep machines), the place
in the call, the attempt, its error, the machine of each attempt, what the ledger
has of the task, and history. One action per stage: CheckContext, Prepare; on the
host SetupHook and Agent; in a machine DeleteOldVM, CreateVM, StartVM, CopyInputs,
Guest, CopyOutput, StopVM, DeleteVM, CopyLog; then Verify, Ingest,
RegisterSetupLog, Decide (`retryableOpenCodeError`), RecordRetry, Backoff. An error
is reduced to what Retryable looks at. Cancel and Crash may come at any time; a
crash leaves the machine of its attempt, and the attempt of the same number in the
next call deletes it first. A task that is completed is not called again, except
recon: `Recovers` says that the task is recon's, whose evidence is looked at as well
(`reconTaskComplete`). Lose takes some of it away between two calls; the task then
counts as not done (Done), is called again, and its second completion is accepted.

Run MCTaskAttempts (153,594 states): the task of recon; three attempts (the code's own
constant), two calls, one ledger error, one failed disposal, one crash; on the host with
a setup script, and in machines without one, kept or not. Every behaviour of another
task is one of these in which nothing is lost.

* RetriesRecorded, HostTimeoutFinal.
* StepsRunOut: a call takes at most nineteen steps per attempt, none is ever taken
  back, and there is no attempt beyond the last (*proved only*). TaskEnds is what
  fairness makes of it.
* ContractSpec: the task keeps to TaskContract, in which recon (`Lossy`) may lose its
  work while it is not called.
* VMsDisposed: every machine is gone when its attempt is over, whatever stage failed,
  but for one that a crash left or that could not be disposed of; no attempt goes on
  beside a machine that a crash left under its name.
* ResultTrue: a reported success is recorded with its setup log; a failed or
  cancelled task, on a sound ledger, has left nothing behind.

Run MCTaskAttemptsTimeout (expected violation of NoRetryAfterTimeout). *Finding:*
PLAN.md:277 says that an attempt that ran into its timeout is not retried. On the
host the error's type says so; for a guest, only the text of the error of `limactl
shell` is left, it repeats the guest's command line, and the option
`--timeout-minutes` in it contains the transient marker "timeout".

Run MCTaskAttemptsSetup (expected violation of ResultTrue). *Finding:* in a machine
with a setup script the guest always writes the log of attempt 1
(`runner.go:322`), the host looks for the log of its own attempt
(`runner.go:935`): a second attempt that succeeds is ingested and then reported
as failed.

### InvestigatePhase (`phase_investigate.go`)

State: the ledger as far as the phase reads it (status of each lead, findings,
started and completed tasks, the last limit event), the loop's variables and, for
each worker, its place, lead and snapshot; the request and the reading of the host
that size the pool. Actions: Enter (preflight, pool size, and the check that no
closed lead has an incomplete task), Scan (top of the loop; the limit event may
fail), Send over the unbuffered channel, CloseJobs, WaitPool; for a worker
BeginTask, Attempt (a snapshot is taken), Retry, Ingest (the bundle may close *any*
leads that are open in the snapshot, must close the task's own, may create a
finding and follow-up leads), AttemptsFail, RegisterTranscript, Leave. Cancel at any
time; Crash anywhere.

Run MCInvestigatePhase (205,995 states): two first leads, a follow-up, limit two,
two calls, one fault, a pool pinned to two or left to a host whose free disk holds
two machines, none, or is not known. Three leads exceed the limit and leave one
open; two fill a batch for two workers, or make one wait; agents close each
other's leads; the second call is a resume after whatever the first left.

* InvestigationsBounded: no more investigations over all calls than the limit,
  although a call only counts the completed ones.
* NoLeadForgotten, InvestigatedOnce, TasksFitHost.
* SenderHeard: while the main goroutine sends on the unbuffered channel some worker
  has not left. RoundsBounded: each round counts new leads, and all of them together
  no more than the limit, whatever follow-ups the tasks create. StepsRunOut: no step
  of a call but a retry is ever taken back. The three are *proved only*; PhaseEnds,
  which the run checks, is what fairness makes of them: neither the sender nor a worker is left waiting.
* ContractSpec: the phase keeps to TaskContract, with a lead's task called while its
  worker has it and counted once its call has succeeded.
* ResumeNotBlocked: whatever fails, the check of Enter only ever stops a resume for
  a lead that the task of *another* lead has closed (`foreign`). That exception is
  an observation below.

### FindingVerdicts, VerdictBoard (`phase_review.go`, `phase_deduplicate.go`, `phase_validate.go`, `phase_finalize.go`, `ledger_state.go`, `report_validation.go`)

State: the events of the ledger as a sequence, since a verdict counts only when
its notes come before it and the completion of its task after it; who wrote the
notes of a finding; the phase, its unsent and running tasks (each with what its
snapshot has judged); the report. The derived-state functions are operators over
the sequence; Verify is the postcondition of each phase's task, with the proof
that `proven` needs, the handoff, and the blocker that `inconclusive` needs. An
agent may produce notes and verdict in any order or leave one out, record `proven`
without a proof, `inconclusive` without a blocker and, if its task is in `Cross`,
judge other findings than its own, which no code keeps it from (`ledger_commands.go:674`,
`phase_validate.go:168`). Ingest includes the case that the registration of the
transcript fails afterwards. Fits assumes of the agents that no two of them write the
same notes byte for byte: the code admits that, and registers the file a second time.

Run MCFindingVerdicts (25,701 states): two findings, two workers, two calls, one
failure. The agents of one finding's review and validation also judge the other
finding; that both findings' agents do it to each other is left to the proofs, which
hold for any Cross. Outcomes are `proven` and `inconclusive`: `failed` needs no backing
and would only repeat a `proven` whose proof is there. Two findings are what a
duplicate, a cycle, and a verdict on another's finding need; with one failure the second
call resumes from every place.

* ReportDecided: the final report has a verdict on every finding, and is what the
  ledger says.
* ReportPossible: when Finalize begins, every proven finding that its own task has
  validated has a proof of that task from before the verdict, and every inconclusive
  one a blocker in that task's handoff, whoever else was judging. The report's own
  validation demands both, and the tasks that could still provide them are completed by
  then. A finding that another finding's validator judged first has no such promise: the
  run reaches such states, and without the exception the property is violated (see
  the observations).
* BoardSpec: complete verdicts are written once and never replaced, a finding is
  validated only after it is reviewed and deduplicated, and no duplicate points at a
  duplicate, although agents judge each other's findings and are only checked on
  snapshots.
* OrderSpec: however tasks overlap and fail, the phases keep to PhaseOrder.

*Proved only*:

* ContractSpec: the phases keep to TaskContract, and read no verdict whose task may
  still fail.
* StepsRunOut: no call goes on for ever; a task that is tried again has a snapshot that
  tells it more.

### Pipeline (`pipeline_runner.go`, `runner.go`, `runs.go`, `report_show.go`)

State: the stage and the step in it, the runner's events, `runner-failure.json`,
the phases with open work, the completed tasks, recon's evidence and transcript.
Actions: Call, CallRefused (an error before the recording of failures is deferred, of
which nothing is recorded), Prepare, RecordStarted, recon's own (ReconDone, ReconIngest,
RegisterTranscript, RefuseTranscript), PhaseDone / PhaseWork / PhaseFails for the
four phases of many tasks (a phase may also fail after all its work is done, when the
transcript of its last task cannot be registered), DeduplicateRefused, FinalizeReport, RecordCompleted,
RecordStopped, RecordFile and RecordFailed (the two steps of `failure.Record` that
matter), StageFails, RecordFails, Crash, and Lose, an evidence file of recon that
disappears between two calls (the case recon's recovery is written for).

Run MCPipeline (622,165 states, the guest's stages; the host's are two less): three
calls, two faults, one loss. Three calls are a failure, a resume that fails
elsewhere, and one that may complete.

* CompletedIsDone: a recorded completion leaves no open work, and a report that
  covers every finding.
* FailureShown: the failure shown, and the file it names, are of the stage where the
  next call has to go on; after a stop or a completion none is shown.
* DeduplicationNotBlocked: while no evidence is lost, nothing waits for a
  deduplication that has taken place.
* OrderSpec: the runner keeps to PhaseOrder. It was this property, also asked of
  FindingVerdicts, that showed the phase failing with nothing left to do.

CHECK_DEADLOCK is FALSE in every run: a process may end, a run may be left as it is
and the bounds run out. That nothing waits for ever is what CommandsEnd,
ProcessesEnd, TaskEnds and PhaseEnds say, and the StepsRunOut of four modules, with
SenderHeard and MonitorAnswers, without fairness.

## 4. Fairness

A call ends because no step of it is ever taken back, nothing it waits for is missing,
and what can be done is done. Only the last of these is fairness. The first is
StepsRunOut in RunLifecycle, TaskAttempts, InvestigatePhase and FindingVerdicts: an
action property about a measure, proved for every value of the constants. The second
is proved where a process waits for another one's step: SenderIsHeard and
MonitorAlwaysAnswers. That the steps are taken (which needs ENABLED) is left to TLC.

* LedgerFile, RunLifecycle: weak fairness of a process's own steps. The code waits
  for a lock with a deadline and for a runner whose context has one; a live process
  is scheduled. No fairness for commands, interrupts, resumes, kills, crashes.
* TaskAttempts: weak fairness of Step. Commands return, the agent has a timeout.
* InvestigatePhase: weak fairness of the main goroutine and of each worker, and
  strong fairness of Finish: a task's attempts are retried a bounded number of
  times, which TaskAttempts checks (TaskEnds), while Retry here has no counter.
* TaskSession, TaskBundleIngest, FindingVerdicts and Pipeline have no fairness and
  state no liveness; FindingVerdicts has its StepsRunOut instead.

## 5. Proofs

The proofs are about the same definitions that TLC checks, and hold for every
value of the constants that the named assumptions of the modules allow (bounds are
naturals; keys and contents differ from the marks for none). No theorem uses
fairness. Every safety property of a passing run is proved, every refinement, and of
each liveness property but CommandsEnd the part that is safety: a measure that
every step brings down, or a wait that has somebody to end it.

**LedgerFile_proofs.** That a key is settled once depends on what each holder of
the lock knows, so the invariant is

    IInv == TypeOK /\ MutualExclusion /\ HolderKnowsFile /\ CheckStillHolds /\ SettledOnce

HolderKnowsFile: what the holder read is still the file; CheckStillHolds: a key it
found open is still open, where for a bundle that is the completion of its task and
for a recovered recon no key at all. AppendKeepsSettledOnce then takes the three kinds
of batch apart, which leaves the two exceptions of SettledOnce. The lemma FileStep says that a step leaves the file alone
or appends the batch of the one holder; from it follow SettledAtMostOnce and
LedgerFileImplementsLog (Spec => LogSpec, a step per abstract action). LockExcludes
and StaleLockIsForGood come with the invariant. For RepliesStayTrue the invariant is
joined by *Numbered*: identities are given once, and a command that is not finished
has recorded and reported nothing; then an append of another identity changes
nothing of what was reported of the first. Any number of processes, keys, kills and
copies.

**RunLifecycle_proofs.** `LifeInv == TypeInv /\ MonitorJoined /\ Finished`: a monitor
works only while its process is running or waits for it, and a process that may
write `completed` has finished the run. Theorems TypeCorrect, CompletedIsFinished
and RecordedStatusIsFinal, for any number of invocations, failed writes and crashes,
and for both values of Overlap. CompletedIsNotExecuted has the hypothesis ~ Overlap
and needs that at most one process is at work and that while it prepares or resumes
the status is not `completed`; MCRunLifecycleOverlap is the counterexample without it,
and nothing else that is proved here needs the hypothesis. ActiveStatusIsExecuted needs
only that a running process has a monitor, which it waits for before its final write;
InterruptIsRecorded is the safety part of InterruptRecorded, about the step in which an
interrupted process exits.
StepsAlwaysRunOut gives each process a natural number of steps left, in which starting
the monitor is paid for in advance and only the monitor's retry while the runner works
feeds its loop, so that failed writes need no bound;
MonitorAlwaysAnswers says that JoinMonitor waits for a monitor that has a step, or is
done. Together they are ProcessesEnd but for fairness.

**TaskSession_proofs.** The invariant says of every event in the bundle, and of every
pending one, that it is *Checked*: its phase allows it, its file is sound unless
somebody edited it, and one that says `handoff write` checked it is a handoff by its
digest. To this comes that there is one completion (CompletedOnce) and that what
was accepted is valid. The work is in the lemma that appending a checked event, or
writing a file that no event names with another content, keeps the rest checked.
Theorems TypeCorrect, CommandsAgree, CheckedHandoffs, for any sessions, ledgers,
files and number of concurrent commands.

**TaskBundleIngest_proofs.** TypeCorrect needs the shape of what a worker knows at
each place (Shape) and no more. The other theorems have the hypothesis

    ExclusiveOwn == \A v, w \in Workers : v # w => Own[v] \cap Own[w] = {}

(the new paths of two tasks differ); MCTaskBundleIngestShared is the counterexample
without it. The invariant: what the ledger names is intact; a worker's copied and
torn files are new paths of its own that no bundle records, so a rollback takes
nothing from the ledger; from RequireIngested to AppendEvents the files match the
bundle; and whatever the copied events of a walk name is intact, and is listed or
copied already (SoundCopy): the events are copied before the directory is listed, and
what they name no rollback removes. Theorems EvidenceStaysIntact, CopyIsSound and
NoOrphanWithoutFailedAppend.

**TaskAttempts_proofs.** `AttemptsInv == TypeInv /\ RetryInv /\ ResultInv /\ TimeoutInv /\
MachineInv`. RetryInv: a retry is recorded between the decision and the next attempt.
ResultInv: a task's work is done (recorded, and of recon nothing lost) exactly from
Ingest to the end of the call, which is why no attempt follows. TimeoutInv: on the host a timeout leads to the decision
that returns. MachineInv: what is about to be deleted was stopped, and what a crash
left is only passed by the deletion. Theorems TypeCorrect, RetriesAreRecorded,
HostTimeoutIsFinal, MachinesDisposed, and ResultIsTrue, which says
`~ (Lima /\ Setup) => ResultTrue`: the exception is the finding of
MCTaskAttemptsSetup. StepsAlwaysRunOut: an attempt has nineteen steps at most, a retry
has an attempt less to go, in any configuration. KeepsContract (Spec => ContractSpec)
holds in every configuration: a success that is reported is recorded, and what is
recorded is not attempted again in any call, also where a failure is reported for
recorded work. Only recon is, when some of its evidence is lost between two calls.
Any number of attempts, calls and faults.

**InvestigatePhase_proofs.** `IInv == TypeOK /\ Staffed /\ Told /\ Assigned /\ Answered /\
Counted`. Staffed: who is in the pool, and that it is not larger than its size; with
the arithmetic of HostCapacity (the least of at most three limits, and what a
quotient of a machine's demand allows) it gives PoolFitsHost. Told: lead numbers have
no gap, and a lead closed by nobody else's task was closed by its own; it gives
ResumeFindsRepairable. Assigned: every lead of a batch waits, has one worker, is done,
or the batch has failed; it gives NeverTwice and, with Answered, NothingForgotten.
Counted is what makes the limit hold over calls: between batches every started lead
that is still open has fewer than the limit of open or counted leads before it, so
that the next call, which takes the first ones, takes it again before any new one;
it gives InvestigationsStayBounded. Any leads, workers, limits, hosts, calls, faults.

PoolIsLargest is about HostCapacity alone: on a host that was read completely, k
machines (k > 1) fit if and only if the pool has k workers, so the preflight and the
pool size, written in different functions over different units, agree. For the other
theorems two conjuncts join the invariant, RInv == IInv /\ Fresh /\ SenderHeard: no
lead of a batch was counted before, a batch that is sent is not empty, and the workers
stay until the channel is closed. SenderIsHeard and RoundsStayBounded follow.
StepsAlwaysRunOut takes as measure the set of leads not counted and, below it, what is
left of the round (places of the main goroutine, steps of each lead, workers), as sets
that only shrink. KeepsContract (Spec => ContractSpec): a lead is given out only when
its work is not recorded, and counted only when it is and nobody has it any more.

**FindingVerdicts_proofs.** All theorems hold for any Cross, the tasks of validation
included. The invariant: the ledger is a
sequence of whole bundles and has one complete verdict per phase and finding, with
notes that one task has (Recorded); what is judged of a finding fits what is judged of
others (Settled); a validation that the finding's own task made has its proof or its
blocker (Supported); the
tasks at work are of the phase and, while none has failed, all that is pending
(Working); a phase begins when those before it have nothing pending (Reached); and
nothing is left to do after the report (Decided). The central lemma reads the ledger
after a bundle: a complete verdict stays what it is, and a new one belongs to the
bundle. It gives TypeCorrect, ReportIsDecided, ReportIsPossible (with the exception
that ReportPossible states) and VerdictsImplementBoard (Spec => BoardSpec).

For KeepsContract and PhasesKeepOrder the invariant is
KInv == IInv /\ Once /\ Undone /\ Lasting: a task is sent once and runs once (Once); a
task at work is not completed (Undone); and a completed task leaves nothing that its
phase would find pending, not even after a later review (Lasting), since the
deduplication waits for all of them. StepsAlwaysRunOut needs in addition (Told) that a
snapshot has no verdicts which the ledger does not have, so that a new snapshot, if it
is another one, says more. Any findings, workers, calls, failures,
and any stale snapshots.

**Pipeline_proofs.** `PipeInv == TypeOK /\ Stepping /\ NothingBehind /\ TasksDone /\
Recorded`. NothingBehind: no phase before the current one has work; TasksDone: what the
tasks that take place once leave open; Recorded: the file and the last event agree
with the result. Theorems TypeCorrect, FailureIsShown, DeduplicationNeverBlocked,
CompletionIsDone and RunnerKeepsOrder (Spec => OrderSpec, a step per action), for both
runners and any number of calls, faults and losses.

Only model-checked: the liveness properties CommandsEnd, ProcessesEnd,
InterruptRecorded, TaskEnds and PhaseEnds (liveness and ENABLED are out of the prover's
reach). What stands behind them and is proved:

| liveness property | proved |
|---|---|
| ProcessesEnd | StepsAlwaysRunOut, MonitorAlwaysAnswers of RunLifecycle |
| InterruptRecorded | InterruptIsRecorded |
| TaskEnds | StepsAlwaysRunOut of TaskAttempts |
| PhaseEnds | StepsAlwaysRunOut, RoundsStayBounded, SenderIsHeard of InvestigatePhase |
| CommandsEnd | only that a stale lock is removed by nothing but a copy (StaleLockIsForGood) |

Nothing here declares a RECURSIVE operator.

## 6. What is not modelled, and observations outside the runs

Not modelled, because it has no control of its own: the wording of prompts,
contexts, manifests and listings; parsing and validation of configuration, JSON,
Markdown and paths (pure functions over text); snapshot archives (sequential I/O);
toolchain and opencode installation (external commands, a stage that may fail);
command dispatch, authentication, process groups; VM templates and limactl command
lines. Of the ledger only order and identity of events are modelled, not their
reading from JSON lines.

Seen while reading the code, and kept out of the runs either because the models
cover them with an assumption stated above or because no property of the module
would say more than the code does:

* `mnm lead close` takes any lead that is open in the snapshot
  (`ledger_commands.go:273`) and the postcondition only looks at the task's own. If the
  task of the other lead then fails, that lead is started, closed and incomplete,
  and `phase_investigate.go:26` refuses every later call, while README.md:31 and
  PLAN.md:304 promise a resume. ResumeNotBlocked excepts exactly these leads.
* A validation task that also judges another task's finding needs no proof and no
  blocker for it, and the finding need not be canonical (`phase_validate.go:168`,
  `ledger_commands.go:674`). With its verdict complete the finding is not pending, its
  own validation is never sent, and the report cannot be finalized, though every task
  is done. MCFindingVerdicts reaches such states, and ReportPossible excepts exactly
  the findings that another finding's task has validated; the other properties have no
  exception.
* The context of a phase's handoffs and the prompts are registered with
  AllowContentChange, which accepts a changed file under the old event
  (`ledger_commands.go:1020`): after a resume the digest on record is that of the
  first file. The report is refused when it cites such a path
  (`report_validation.go:373`).
* `mnm evidence add` and `evidence write` take the title "Task handoff: ..." with any
  JSON content; the host checks only the handoff at the expected path, and
  `buildPhaseHandoffContext` (`phase_handoff.go:257`) then fails on the other one for
  every later task. TaskSession tells the two titles apart ("Task handoff", "Task
  handoff, checked"), and HandoffsReadable speaks of the second.
* A resource whose second reading is 0 counts as "not detected" (`config.go:394`): a
  disk that has filled up since the preflight drops the limit on the disk.
  TasksFitHost excepts resources that read 0.
* PLAN.md:25 resumes "an incomplete run"; after a crash the row keeps an active
  status, which `analyze.go:314` does not accept (ActiveIsExecuted excepts it).
* PLAN.md:195 "ingests each bundle atomically": a failed append leaves the copied
  artifacts behind (`task_bundle.go:60`; OrphansOnlyFromAppend excepts it).
* README.md:66 says that the machine of a task disappears after the host "has
  collected and validated its output bundle": it is deleted when the attempt
  returns (`lima_task_runner.go:200`), before the bundle is validated, so nothing
  of the machine can be looked at when its bundle is refused.
* PLAN.md:246 says that invalid status transitions are rejected: two tasks may
  close one lead with different states, each on its own snapshot, and
  `appendTaskBundleEvents` (`task_bundle.go:291`) checks only that the bundle's own
  task is not completed. MCLedgerFile reaches a ledger that settles a lead twice;
  SettledOnce excepts what a bundle brings besides the completion.
* `copyDir` (`files.go:18`) copies what it has listed, and the evidence directory of the
  run is copied without the ledger's lock for the verification of a task. A
  rollback of another task (`task_bundle.go:390`) that removes a listed file before it
  is opened makes the copy, and with it the attempt, fail for a file that no event
  names. VerifiedOnSoundCopy says that recorded files are not affected.
* A call that is refused before the recording of its failure is deferred
  (`runner.go:51`, `pipeline_runner.go:74`) leaves what an earlier call recorded:
  FailureShown speaks of calls that got further (CallRefused in Pipeline).
* README.md:42: when a second failure is written to its file but not to the ledger,
  the file and the failure shown differ (`runner.go:539`). FailureShown therefore
  speaks of calls whose failure was recorded.
* A recon that is recovered after the deduplication brings findings that the
  completed deduplication task cannot take any more: DeduplicationNotBlocked
  excepts lost evidence.

## 7. Plan

Done: all modules above with their runs, seven refinements of four abstract modules,
and proofs for all nine modules with state or operators (HostCapacity's are with
InvestigatePhase). What a next step would take up:

1. A measure for LedgerFile, as in the other modules, for a command that is not behind
   a stale lock; the same for the rollback of TaskBundleIngest.
2. A composition of InvestigatePhase with TaskBundleIngest's orphan files, for a
   resume that meets the artifacts of an earlier crash under the paths of its own
   retried task.
3. Judging findings and closing leads of other tasks as the subject of a change in the
   code: with a check that the object is the task's own, the exceptions of
   ReportPossible, ResumeNotBlocked (`foreign`) and SettledOnce go away.
4. `report finalize` and the removal of an incomplete report as commands of
   TaskSession.
