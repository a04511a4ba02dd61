----------------------------- MODULE TaskSession -----------------------------
(***************************************************************************)
(* One attempt at a task as its agent sees it: a snapshot of the ledger to *)
(* read, an output directory for a bundle of events and the files they     *)
(* name, and the mnm commands (ledger_commands.go, handoff_commands.go).   *)
(* The agent edits its files as it likes and may run several commands at   *)
(* once.  A command checks what it records; the host checks the bundle     *)
(* again when the agent is done (task_bundle.go, phase_handoff.go), and    *)
(* the two sets of rules are written down apart.                           *)
(***************************************************************************)
EXTENDS Naturals, Sequences, FiniteSets

CONSTANTS Sessions,     \* the tasks, each with a ledger that it may begin with
          Leads, Findings,
          Paths,        \* of the output directory
          SetupPath,    \* the log of the setup hook
          HandoffPath,  \* where the host looks for the handoff of the task
          None,
          Texts,        \* bound: what an agent writes without handoff write
          MaxPending,   \* bound: commands that run at once
          MaxEvents,    \* bound: events of the bundle
          MaxEdits      \* bound: edits of files by other means than commands

VARIABLES
    task,       \* the task, [phase, subject]
    snapshot,   \* the events of the ledger when the attempt began
    bundle,     \* the events of the output directory
    files,      \* its files
    pending,    \* events of commands that have read a file and wait for the lock
    pc,         \* "agent", then what the host made of the bundle
    edited,     \* history: files edited after a command had read them
    edits       \* history

vars == <<task, snapshot, bundle, files, pending, pc, edited, edits>>

Objects == Leads \cup Findings \cup {None}

Content(kind) == [kind |-> kind, owner |-> None]

\* A handoff of this very task, written for an owner.  Anything else, the handoff of
\* another task included, is text to the host.
HandoffFor(o) == [kind |-> "handoff", owner |-> o]

\* What a file holds, "none" if there is no file.
Contents == {Content(kind) : kind \in {"none", "blank", "text"}} \cup {HandoffFor(o) : o \in Objects}

ASSUME SessionAssumption ==
    /\ None \notin Leads \cup Findings \cup Paths
    /\ Leads \cap Findings = {}
    /\ {SetupPath, HandoffPath} \subseteq Paths
    /\ Texts \subseteq Contents
    /\ MaxPending \in Nat /\ MaxEvents \in Nat /\ MaxEdits \in Nat

Blank(c) == c.kind \in {"none", "blank"}

\* An event of the session.  What a file held is its digest.
Event(type, id, owner, path, digest, note) ==
    [type |-> type, task |-> task, id |-> id, owner |-> owner, path |-> path,
     digest |-> digest, note |-> note]

LeadCreated(l, p) == Event("lead.created", l, None, p, Content("none"), "open")

LeadClosed(l, status) == Event("lead.closed", l, None, None, Content("none"), status)

FindingCreated(f, l, p) == Event("finding.created", f, l, p, Content("none"), "")

EvidenceAdded(o, p, c, title) == Event("evidence.added", None, o, p, c, title)

\* Mutant: the arguments in the wrong order.
VerdictRecordedSwapped(f, value) ==
    Event("verdict.recorded", value, None, None, Content("none"), f)

VerdictRecorded(f, value) == Event("verdict.recorded", f, None, None, Content("none"), value)

TaskCompleted == Event("task.completed", None, None, None, Content("none"), "")

Elements(s) == {s[i] : i \in 1..Len(s)}

\* readLedgerEvents: the snapshot, and what the session adds.
Ledger == snapshot \o bundle

Created(type, x) == \E e \in Elements(Ledger) : e.type = type /\ e.id = x

\* requireLedgerObject, of the owner of an event.
OwnerExists(o) ==
    /\ o \in Leads => Created("lead.created", o)
    /\ o \in Findings => Created("finding.created", o)

\* requireEvidenceOwnerPhase.
OwnerAllowed(o) ==
    task.phase \in (IF o \in Leads THEN {"investigate"}
                    ELSE IF o \in Findings THEN {"investigate", "review", "validate"}
                    ELSE {"recon", "deduplicate"})

\* newLedgerID: not in the ledger, nor in use by another command.
Fresh(x) == \A e \in Elements(Ledger) \cup pending : e.id # x
-----------------------------------------------------------------------------
\* The setup hook has run, and registered its log, or there is none.
Init ==
    /\ \E s \in Sessions : task = s.task /\ snapshot = s.snapshot
    /\ bundle \in {<<>>, <<EvidenceAdded(None, SetupPath, Content("text"), "Setup hook log")>>}
    /\ files = [p \in Paths |-> IF bundle # <<>> /\ p = SetupPath THEN Content("text")
                                ELSE Content("none")]
    /\ pending = {}
    /\ pc = "agent"
    /\ edited = {}
    /\ edits = 0

Named == {e.path : e \in Elements(bundle) \cup pending}

\* The agent writes, overwrites or removes a file by other means.
Edit(p, c) ==
    /\ pc = "agent"
    /\ edits < MaxEdits
    /\ edits' = edits + 1
    /\ files' = [files EXCEPT ![p] = c]
    /\ edited' = edited \cup ({p} \cap Named)
    /\ UNCHANGED <<task, snapshot, bundle, pending, pc>>

Room == Len(bundle) + Cardinality(pending) < MaxEvents

\* A command has looked at the file p and is about to record e.
Start(e, p) ==
    /\ pc = "agent"
    /\ Room
    /\ Cardinality(pending) < MaxPending
    /\ ~ Blank(files[p])
    /\ pending' = pending \cup {e}
    /\ UNCHANGED <<task, snapshot, bundle, files, pc, edited, edits>>

\* lead create, up to the lock.
LeadCreate(l, p) ==
    /\ task.phase \in {"recon", "investigate"}
    /\ Fresh(l)
    /\ Start(LeadCreated(l, p), p)

\* finding create, up to the lock; the source lead is optional.
FindingCreate(f, l, p) ==
    /\ task.phase = "investigate"
    /\ OwnerExists(l)
    /\ Fresh(f)
    /\ Start(FindingCreated(f, l, p), p)

\* evidence add, up to the lock: the file is hashed before.
EvidenceAdd(o, p, title) ==
    /\ OwnerAllowed(o)
    /\ OwnerExists(o)
    /\ Start(EvidenceAdded(o, p, files[p], title), p)

\* A path is registered with another content, in the snapshot or the bundle.
Conflict(e) ==
    \E k \in Elements(Ledger) :
       k.type = "evidence.added" /\ k.path = e.path /\ k.digest # e.digest

\* The task has a lead of this body, or this evidence for this owner: the
\* command answers with it, or refuses other metadata.
Repeated(e) ==
    \E k \in Elements(Ledger) :
       /\ k.task = e.task /\ k.type = e.type /\ k.path = e.path
       /\ \/ e.type = "lead.created"
          \/ e.type = "evidence.added" /\ k.owner = e.owner

\* The rest of the command under the lock.  A finding is always new.
Recorded(e) ==
    IF (e.type = "evidence.added" /\ Conflict(e)) \/ Repeated(e) THEN bundle
    ELSE Append(bundle, e)

Finish(e) ==
    /\ pc = "agent"
    /\ e \in pending
    /\ pending' = pending \ {e}
    /\ bundle' = Recorded(e)
    /\ UNCHANGED <<task, snapshot, files, pc, edited, edits>>
-----------------------------------------------------------------------------
\* The other commands do all under the lock that could change meanwhile; that a
\* lead or a finding exists stays true.

\* Mutant: the registration alone has to refuse another content.
WriteOver(o, p, c, title) ==
    /\ pc = "agent"
    /\ Room
    /\ OwnerExists(o)
    /\ files' = [files EXCEPT ![p] = c]
    /\ bundle' = Recorded(EvidenceAdded(o, p, c, title))
    /\ UNCHANGED <<task, snapshot, pending, pc, edited, edits>>

\* writeAndRegisterTaskEvidence: never over another content.  The file stays,
\* also when its registration is refused.
WriteAndRegister(o, p, c, title) ==
    /\ pc = "agent"
    /\ Room
    /\ OwnerExists(o)
    /\ files[p] \in {Content("none"), c}
    /\ files' = [files EXCEPT ![p] = c]
    /\ bundle' = Recorded(EvidenceAdded(o, p, c, title))
    /\ UNCHANGED <<task, snapshot, pending, pc, edited, edits>>

EvidenceWrite(o, p, c, title) ==
    /\ OwnerAllowed(o)
    /\ ~ Blank(c)
    /\ WriteAndRegister(o, p, c, title)

\* requireHandoffPhaseOwner.
HandoffOwner(o) ==
    \/ task.phase = "investigate" /\ o \in Leads
    \/ task.phase \in {"review", "validate"} /\ o \in Findings
    \/ task.phase = "deduplicate" /\ o = None

\* handoff write: the input is checked, completed and stored as one; a title of
\* the agent's takes the place of "Task handoff: ...".
HandoffWrite(o, p, title) ==
    /\ HandoffOwner(o)
    /\ WriteAndRegister(o, p, HandoffFor(o), title)

LeadStatus(l) ==
    LET these == {i \in 1..Len(Ledger) :
                     Ledger[i].type \in {"lead.created", "lead.closed"} /\ Ledger[i].id = l}
    IN  Ledger[CHOOSE i \in these : \A k \in these : k <= i].note

\* lead close; closed_no_finding needs its negative proof.
LeadClose(l, status) ==
    /\ pc = "agent"
    /\ Room
    /\ task.phase = "investigate"
    /\ Created("lead.created", l)
    /\ status # "closed_no_finding, unproved"
    /\ LeadStatus(l) = "open"
    /\ bundle' = Append(bundle, LeadClosed(l, status))
    /\ UNCHANGED <<task, snapshot, files, pending, pc, edited, edits>>

Values ==
    [review |-> {"accepted", "rejected"}, deduplicate |-> {"canonical"},
     validate |-> {"proven", "failed", "inconclusive"}]

\* existingVerdictForCommandUnlocked; a ledger's older verdicts are complete.
Judged(f) ==
    \E e \in Elements(Ledger) :
       e.type = "verdict.recorded" /\ e.task.phase = task.phase /\ e.id = f

\* requireReviewAcceptedFinding.
ReviewAccepted(f) ==
    \E e \in Elements(Ledger) :
       /\ e.type = "verdict.recorded" /\ e.task.phase = "review"
       /\ e.id = f /\ e.note = "accepted"

VerdictRecord(f, value) ==
    /\ pc = "agent"
    /\ Room
    /\ task.phase \in DOMAIN Values
    /\ value \in Values[task.phase]
    /\ Created("finding.created", f)
    /\ task.phase = "deduplicate" => ReviewAccepted(f)
    /\ ~ Judged(f)
    /\ bundle' = Append(bundle, VerdictRecorded(f, value))
    /\ UNCHANGED <<task, snapshot, files, pending, pc, edited, edits>>

\* task complete looks for another completion in the bundle only.
TaskComplete ==
    /\ pc = "agent"
    /\ Room
    /\ TaskCompleted \notin Elements(bundle)
    /\ bundle' = Append(bundle, TaskCompleted)
    /\ UNCHANGED <<task, snapshot, files, pending, pc, edited, edits>>
-----------------------------------------------------------------------------
\* The host.  validateTaskBundlePhaseEvent.
PhaseAllows(e) ==
    CASE e.type = "lead.created" -> task.phase \in {"recon", "investigate"}
      [] e.type = "lead.closed" ->
            task.phase = "investigate" /\ e.note # "closed_no_finding, unproved"
      [] e.type = "finding.created" -> task.phase = "investigate"
      [] e.type = "evidence.added" ->
            \/ e.owner \in Leads /\ task.phase = "investigate"
            \/ e.owner \in Findings /\ task.phase \in {"investigate", "review", "validate"}
            \/ e.owner = None /\ task.phase \in {"recon", "deduplicate"}
            \/ e.owner = None /\ e.path = SetupPath /\ e.note = "Setup hook log"
      [] e.type = "verdict.recorded" -> task.phase = e.task.phase /\ e.note \in Values[task.phase]
      [] OTHER -> TRUE

\* Mutant: the digest of evidence is not compared.
FilePresent(e) == e.path # None => ~ Blank(files[e.path])

\* validateTaskBundleArtifact, validateTaskBundleEvidenceDigest.
FileSound(e) ==
    /\ e.path # None => ~ Blank(files[e.path])
    /\ e.type = "evidence.added" => files[e.path] = e.digest

\* validateTaskBundle.
ValidBundle ==
    /\ bundle # <<>>
    /\ \A i \in 1..Len(bundle) :
          /\ bundle[i].task = task
          /\ PhaseAllows(bundle[i])
          /\ FileSound(bundle[i])
          /\ bundle[i].type = "task.completed" <=> i = Len(bundle)

IsHandoff(e) == e.type = "evidence.added" /\ e.note \in {"Task handoff", "Task handoff, checked"}

\* validateTaskHandoffFile; that the handoff has the task's id is in its kind.
ReadableAs(e, c) == c.kind = "handoff" /\ (e.owner # None => c.owner = e.owner)

\* validateRequiredTaskHandoff; it is for the subject.
RequiredHandoff ==
    task.phase = "recon" \/
    \E e \in Elements(bundle) :
       /\ IsHandoff(e) /\ e.owner = task.subject /\ e.path = HandoffPath
       /\ ReadableAs(e, files[e.path])

\* What else may stand in the way of a bundle is in TaskBundleIngest and in the
\* Verify functions of FindingVerdicts.
Submit ==
    /\ pc = "agent"
    /\ pc' \in {"refused"} \cup (IF ValidBundle /\ RequiredHandoff THEN {"accepted"} ELSE {})
    /\ pending' = {}
    /\ UNCHANGED <<task, snapshot, bundle, files, edited, edits>>

Statuses == {"promoted_to_finding", "closed_no_finding", "closed_no_finding, unproved"}

Titles == {"Task handoff", "other"}

\* Only handoff write may say that it has checked the content.
HandoffTitles == {"Task handoff, checked", "other"}

Commands(p) ==
    \/ \E l \in Leads : LeadCreate(l, p)
    \/ \E f \in Findings, l \in Leads \cup {None} : FindingCreate(f, l, p)
    \/ \E o \in Objects, title \in Titles :
          \/ EvidenceAdd(o, p, title)
          \/ \E c \in Texts : EvidenceWrite(o, p, c, title)
    \/ \E o \in Objects, title \in HandoffTitles : HandoffWrite(o, p, title)

Next ==
    \/ \E p \in Paths : Commands(p) \/ \E c \in Texts : Edit(p, c)
    \/ \E e \in pending : Finish(e)
    \/ \E l \in Leads, status \in Statuses : LeadClose(l, status)
    \/ \E f \in Findings : \E v \in UNION {Values[x] : x \in DOMAIN Values} : VerdictRecord(f, v)
    \/ TaskComplete
    \/ Submit

Spec == Init /\ [][Next]_vars
-----------------------------------------------------------------------------
Types == {"lead.created", "lead.closed", "finding.created", "evidence.added",
          "verdict.recorded", "task.completed"}

Notes ==
    {"", "Setup hook log"} \cup Titles \cup HandoffTitles \cup {"open"} \cup Statuses
    \cup UNION {Values[x] : x \in DOMAIN Values}

Events == [type : Types, task : {task}, id : Objects, owner : Objects,
           path : Paths \cup {None}, digest : Contents, note : Notes]

\* Every variable has its type.
TypeOK ==
    /\ \E s \in Sessions : task = s.task /\ snapshot = s.snapshot
    /\ bundle \in Seq(Events)
    /\ pending \subseteq Events
    /\ files \in [Paths -> Contents]
    /\ pc \in {"agent", "accepted", "refused"}
    /\ edited \subseteq Paths
    /\ edits \in 0..MaxEdits

\* An agent that leaves a file alone once a command has read it, and runs nothing
\* after its task complete, has a bundle that the host finds valid: what the
\* commands check before the lock and under it, each for its own event, adds up
\* to what the host demands of the whole.  A second task complete is no event.
CommandsObeyHost ==
    /\ \A i, k \in 1..Len(bundle) :
          bundle[i].type = "task.completed" /\ bundle[k].type = "task.completed" => i = k
    /\ edited = {} /\ bundle # <<>> /\ bundle[Len(bundle)].type = "task.completed" => ValidBundle

\* In an accepted bundle every handoff that handoff write has checked still is a
\* handoff, whatever became of the files meanwhile: the next task's context is
\* made from it, and one that cannot be read stops the run.
HandoffsReadable ==
    pc = "accepted" =>
        \A e \in Elements(bundle) :
           e.note = "Task handoff, checked" => ReadableAs(e, files[e.path])
=============================================================================
