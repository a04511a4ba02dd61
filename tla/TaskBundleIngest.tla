-------------------------- MODULE TaskBundleIngest --------------------------
(***************************************************************************)
(* How the bundle of a finished task attempt becomes part of the run       *)
(* (task_bundle.go, and the verification copy of runner.go).  The workers  *)
(* of one phase do this concurrently, each for its own task: the bundle is *)
(* first ingested into a private copy of the run directory and verified    *)
(* there, then into the run directory itself, artifact by artifact and     *)
(* without a lock, and its events are appended under the ledger lock when  *)
(* every artifact is in place.  A failure before the append removes what   *)
(* this ingest created; a failed append removes nothing.                   *)
(***************************************************************************)
EXTENDS Naturals, FiniteSets

CONSTANTS Workers,         \* workers, one task each
          Paths,           \* artifact paths, in the order they are sorted
          Contents,        \* what an artifact may hold
          Own,             \* the new paths each worker's agent may choose
          Known,           \* the artifacts recorded before: Paths -> Contents
          Recovery,        \* tasks whose bundle is taken although completed
          Absent, Torn, None,
          MaxBundles,      \* bound: bundles in a behaviour
          MaxFaults,       \* bound: I/O errors before the append
          MaxAppendFaults, \* bound: lock timeouts and I/O errors in the append
          MaxCrashes       \* bound: crashes of the runner

ASSUME IngestAssumption ==
    /\ Paths \subseteq Nat
    /\ \A S \in (SUBSET Paths) \ {{}} : \E p \in S : \A q \in S : p <= q
    /\ Own \in [Workers -> SUBSET Paths]
    /\ DOMAIN Known \subseteq Paths
    /\ \A p \in DOMAIN Known : Known[p] \in Contents
    /\ Recovery \subseteq Workers
    /\ Absent \notin Contents /\ Torn \notin Contents /\ Absent # Torn
    /\ None \notin Workers
    /\ MaxBundles \in Nat
    /\ MaxFaults \in Nat
    /\ MaxAppendFaults \in Nat
    /\ MaxCrashes \in Nat

VARIABLES
    files,        \* the run directory's evidence, path by path
    ledger,       \* the bundles whose events are in the ledger
    lock,         \* who holds the ledger lock
    pc,           \* where each worker is
    bundle,       \* the bundle it works on
    snap,         \* its verification copy: events, files listed and copied
    todo,         \* artifacts it still has to copy, or to remove
    copied,       \* artifacts this ingest created
    bundles,      \* history: number of bundles, the source of event ids
    faults, appendFaults, crashes   \* history

vars == <<files, ledger, lock, pc, bundle, snap, todo, copied, bundles,
          faults, appendFaults, crashes>>

Artifacts(w) == Own[w] \cup DOMAIN Known

Bundle ==
    UNION {[id : 0..MaxBundles, task : {w},
            arts : UNION {[S -> Contents] : S \in SUBSET Artifacts(w)}] : w \in Workers}

Recorded == UNION {{<<p, b.arts[p]>> : p \in DOMAIN b.arts} : b \in ledger}

RecordedPaths == {r[1] : r \in Recorded}

Before == [id |-> 0, task |-> None, arts |-> Known]

Least(S) == CHOOSE p \in S : \A q \in S : p <= q

NoSnap == [events |-> {}, listed |-> {}, evidence |-> [p \in Paths |-> Absent]]

Init ==
    /\ files = [p \in Paths |-> IF p \in DOMAIN Known THEN Known[p] ELSE Absent]
    /\ ledger = {Before}
    /\ lock = None
    /\ pc = [w \in Workers |-> "idle"]
    /\ bundle = [w \in Workers |-> Before]
    /\ snap = [w \in Workers |-> NoSnap]
    /\ todo = [w \in Workers |-> {}]
    /\ copied = [w \in Workers |-> {}]
    /\ bundles = 0
    /\ faults = 0
    /\ appendFaults = 0
    /\ crashes = 0

Goto(w, place) == pc' = [pc EXCEPT ![w] = place]

\* The ingest is over: its local state goes.
Leave(w) ==
    /\ Goto(w, "idle")
    /\ bundle' = [bundle EXCEPT ![w] = Before]
    /\ todo' = [todo EXCEPT ![w] = {}]
    /\ copied' = [copied EXCEPT ![w] = {}]

Fault == faults < MaxFaults /\ faults' = faults + 1

AppendFault == appendFaults < MaxAppendFaults /\ appendFaults' = appendFaults + 1
-----------------------------------------------------------------------------
\* An attempt ended and its bundle passes validateTaskBundle: artifacts are
\* there, digests match, the task's completion comes last.  (A bundle that
\* does not pass touches nothing.)
Begin(w) ==
    /\ pc[w] = "idle"
    /\ bundles < MaxBundles
    /\ \E S \in (SUBSET Artifacts(w)) \ {{}} : \E arts \in [S -> Contents] :
          bundle' = [bundle EXCEPT ![w] = [id |-> bundles + 1, task |-> w, arts |-> arts]]
    /\ bundles' = bundles + 1
    /\ Goto(w, "ready")
    /\ UNCHANGED <<files, ledger, lock, snap, todo, copied, faults, appendFaults, crashes>>

\* copyRunStateForTaskBundleVerification, without the ledger lock: the events
\* come first ...
CopyEvents(w) ==
    /\ pc[w] = "ready"
    /\ snap' = [snap EXCEPT ![w].events = Recorded]
    /\ Goto(w, "listing")
    /\ UNCHANGED <<files, ledger, lock, bundle, todo, copied, bundles, faults, appendFaults,
                   crashes>>

\* ... then copyDirContents reads the names in the evidence directory ...
ListEvidence(w) ==
    /\ pc[w] = "listing"
    /\ snap' = [snap EXCEPT ![w].listed = {p \in Paths : files[p] # Absent}]
    /\ Goto(w, "walking")
    /\ UNCHANGED <<files, ledger, lock, bundle, todo, copied, bundles, faults, appendFaults,
                   crashes>>

\* ... and copies one listed file after the other, as it finds it.  A file that
\* was removed since it was listed fails the walk, and the attempt with it.
CopyEvidence(w) ==
    /\ pc[w] = "walking"
    /\ snap[w].listed # {}
    /\ LET p == Least(snap[w].listed)
       IN  \/ /\ files[p] # Absent
              /\ snap' = [snap EXCEPT ![w].evidence[p] = files[p], ![w].listed = @ \ {p}]
              /\ UNCHANGED <<pc, bundle, todo, copied>>
           \/ /\ files[p] = Absent
              /\ snap' = [snap EXCEPT ![w] = NoSnap]
              /\ Leave(w)
    /\ UNCHANGED <<files, ledger, lock, bundles, faults, appendFaults, crashes>>

\* Mutant: the events are copied when the evidence has been.
EndWalkWithEvents(w) ==
    /\ pc[w] = "walking"
    /\ snap[w].listed = {}
    /\ snap' = [snap EXCEPT ![w].events = Recorded]
    /\ Goto(w, "verifying")
    /\ UNCHANGED <<files, ledger, lock, bundle, todo, copied, bundles, faults, appendFaults,
                   crashes>>

EndWalk(w) ==
    /\ pc[w] = "walking"
    /\ snap[w].listed = {}
    /\ Goto(w, "verifying")
    /\ UNCHANGED <<files, ledger, lock, bundle, snap, todo, copied, bundles, faults,
                   appendFaults, crashes>>

Completed(w) == \E b \in ledger : b.task = w

\* taskBundleEventsToAppend, for a bundle with new event ids.
Appendable(w) == bundle[w] \in ledger \/ ~ Completed(w) \/ w \in Recovery

\* Ingested into the copy, the bundle is accepted by the task's Verify, or the
\* attempt has failed and leaves no trace.
Verify(w) ==
    /\ pc[w] = "verifying"
    /\ snap' = [snap EXCEPT ![w] = NoSnap]
    /\ \/ /\ \A p \in DOMAIN bundle[w].arts :
                snap[w].evidence[p] \in {Absent, bundle[w].arts[p]}
          /\ Appendable(w)
          /\ Goto(w, "checking")
          /\ UNCHANGED <<bundle, todo, copied>>
       \/ Leave(w)
    /\ UNCHANGED <<files, ledger, lock, bundles, faults, appendFaults, crashes>>

Fits(w, p) == files[p] \in {Absent, bundle[w].arts[p]}

\* validateTaskBundleArtifactTarget for every artifact, before the first copy.
CheckTargets(w) ==
    /\ pc[w] = "checking"
    /\ \/ /\ \A p \in DOMAIN bundle[w].arts : Fits(w, p)
          /\ todo' = [todo EXCEPT ![w] = DOMAIN bundle[w].arts]
          /\ Goto(w, "copying")
          /\ UNCHANGED <<bundle, copied>>
       \/ /\ \E p \in DOMAIN bundle[w].arts : ~ Fits(w, p)
          /\ Leave(w)
    /\ UNCHANGED <<files, ledger, lock, snap, bundles, faults, appendFaults, crashes>>

\* Mutant: every artifact of the bundle is removed, found or created.
FailRemovesAll(w) ==
    /\ todo' = [todo EXCEPT ![w] = DOMAIN bundle[w].arts]
    /\ Goto(w, "rolling")
    /\ UNCHANGED <<bundle, copied>>

\* Mutant: nothing is removed.
FailRemovesNone(w) == Leave(w)

\* removeCopiedTaskBundleArtifacts starts.
Fail(w) ==
    /\ todo' = [todo EXCEPT ![w] = copied[w]]
    /\ Goto(w, "rolling")
    /\ UNCHANGED <<bundle, copied>>

Current(w) == Least(todo[w])

Skip(w) ==
    /\ todo' = [todo EXCEPT ![w] = @ \ {Current(w)}]
    /\ Goto(w, "copying")
    /\ UNCHANGED <<bundle, copied>>

\* copyTaskBundleArtifact: look at the target ...
CopyArtifact(w) ==
    /\ pc[w] = "copying"
    /\ todo[w] # {}
    /\ LET p == Current(w)
       IN  \/ files[p] = bundle[w].arts[p] /\ Skip(w)
           \/ ~ Fits(w, p) /\ Fail(w)
           \/ files[p] = Absent /\ Goto(w, "creating") /\ UNCHANGED <<bundle, todo, copied>>
    /\ UNCHANGED <<files, ledger, lock, snap, bundles, faults, appendFaults, crashes>>

\* ... create it exclusively; another worker may have been faster ...
Create(w) ==
    /\ pc[w] = "creating"
    /\ LET p == Current(w)
       IN  \/ /\ files[p] = Absent
              /\ files' = [files EXCEPT ![p] = Torn]
              /\ Goto(w, "filling")
              /\ UNCHANGED <<bundle, todo, copied, faults>>
           \/ files[p] = bundle[w].arts[p] /\ Skip(w) /\ UNCHANGED <<files, faults>>
           \/ ~ Fits(w, p) /\ Fail(w) /\ UNCHANGED <<files, faults>>
           \/ Fault /\ Fail(w) /\ UNCHANGED files
    /\ UNCHANGED <<ledger, lock, snap, bundles, appendFaults, crashes>>

\* ... and fill it, or remove it again.
Fill(w) ==
    /\ pc[w] = "filling"
    /\ LET p == Current(w)
       IN  \/ /\ files' = [files EXCEPT ![p] = bundle[w].arts[p]]
              /\ copied' = [copied EXCEPT ![w] = @ \cup {p}]
              /\ todo' = [todo EXCEPT ![w] = @ \ {p}]
              /\ Goto(w, "copying")
              /\ UNCHANGED <<bundle, faults>>
           \/ Fault /\ files' = [files EXCEPT ![p] = Absent] /\ Fail(w)
    /\ UNCHANGED <<ledger, lock, snap, bundles, appendFaults, crashes>>

Remove(w) ==
    /\ pc[w] = "rolling"
    /\ \/ /\ todo[w] # {}
          /\ files' = [files EXCEPT ![Current(w)] = Absent]
          /\ todo' = [todo EXCEPT ![w] = @ \ {Current(w)}]
          /\ UNCHANGED <<pc, bundle, copied>>
       \/ todo[w] = {} /\ Leave(w) /\ UNCHANGED files
    /\ UNCHANGED <<ledger, lock, snap, bundles, faults, appendFaults, crashes>>

\* validateTaskBundleReports: passed on the copy, it can still fail here.
ValidateReports(w) ==
    /\ pc[w] = "copying"
    /\ todo[w] = {}
    /\ \/ Goto(w, "appending") /\ UNCHANGED <<bundle, todo, copied, faults>>
       \/ Fault /\ Fail(w)
    /\ UNCHANGED <<files, ledger, lock, snap, bundles, appendFaults, crashes>>
-----------------------------------------------------------------------------
\* appendTaskBundleEvents.
LockLedger(w) ==
    /\ pc[w] = "appending"
    /\ lock = None
    /\ lock' = w
    /\ Goto(w, "locked")
    /\ UNCHANGED <<files, ledger, bundle, snap, todo, copied, bundles, faults, appendFaults,
                   crashes>>

LockTimeout(w) ==
    /\ pc[w] = "appending"
    /\ lock # None
    /\ AppendFault
    /\ Leave(w)
    /\ UNCHANGED <<files, ledger, lock, snap, bundles, faults, crashes>>

\* requireIngestedTaskBundleArtifact for every artifact, under the lock.
RequireIngested(w) ==
    /\ pc[w] = "locked"
    /\ \/ /\ \A p \in DOMAIN bundle[w].arts : files[p] = bundle[w].arts[p]
          /\ Goto(w, "checked")
          /\ UNCHANGED <<lock, bundle, todo, copied>>
       \/ /\ \E p \in DOMAIN bundle[w].arts : files[p] # bundle[w].arts[p]
          /\ lock' = None
          /\ Leave(w)
    /\ UNCHANGED <<files, ledger, snap, bundles, faults, appendFaults, crashes>>

\* The events are appended as one batch, or refused, or the append fails.
AppendEvents(w) ==
    /\ pc[w] = "checked"
    /\ lock' = None
    /\ Leave(w)
    /\ \/ Appendable(w) /\ ledger' = ledger \cup {bundle[w]} /\ UNCHANGED appendFaults
       \/ ~ Appendable(w) /\ UNCHANGED <<ledger, appendFaults>>
       \/ AppendFault /\ UNCHANGED ledger
    /\ UNCHANGED <<files, snap, bundles, faults, crashes>>

\* The runner dies with all its workers; a later resume starts over on what is
\* in the run directory, its stale lock removed.
Crash ==
    /\ crashes < MaxCrashes
    /\ crashes' = crashes + 1
    /\ lock' = None
    /\ pc' = [w \in Workers |-> "idle"]
    /\ bundle' = [w \in Workers |-> Before]
    /\ snap' = [w \in Workers |-> NoSnap]
    /\ todo' = [w \in Workers |-> {}]
    /\ copied' = [w \in Workers |-> {}]
    /\ UNCHANGED <<files, ledger, bundles, faults, appendFaults>>

Step(w) ==
    \/ CopyEvents(w) \/ ListEvidence(w) \/ CopyEvidence(w) \/ EndWalk(w)
    \/ Verify(w) \/ CheckTargets(w)
    \/ CopyArtifact(w) \/ Create(w) \/ Fill(w) \/ Remove(w) \/ ValidateReports(w)
    \/ LockLedger(w) \/ LockTimeout(w) \/ RequireIngested(w) \/ AppendEvents(w)

Next == Crash \/ \E w \in Workers : Begin(w) \/ Step(w)

Spec == Init /\ [][Next]_vars
-----------------------------------------------------------------------------
PCs == {"idle", "ready", "listing", "walking", "verifying", "checking", "copying", "creating",
        "filling", "rolling", "appending", "locked", "checked"}

\* Every variable has its type.
TypeOK ==
    /\ files \in [Paths -> Contents \cup {Absent, Torn}]
    /\ ledger \subseteq Bundle \cup {Before}
    /\ lock \in Workers \cup {None}
    /\ pc \in [Workers -> PCs]
    /\ bundle \in [Workers -> Bundle \cup {Before}]
    /\ snap \in [Workers -> [events : SUBSET (Paths \X Contents),
                             listed : SUBSET Paths,
                             evidence : [Paths -> Contents \cup {Absent, Torn}]]]
    /\ todo \in [Workers -> SUBSET Paths]
    /\ copied \in [Workers -> SUBSET Paths]
    /\ bundles \in 0..MaxBundles
    /\ faults \in 0..MaxFaults
    /\ appendFaults \in 0..MaxAppendFaults
    /\ crashes \in 0..MaxCrashes

\* What the ledger names is in the run directory, whole and unchanged, whatever
\* other ingests copy, remove or leave behind.
RecordedIntact == \A r \in Recorded : files[r[1]] = r[2]

\* The copy a bundle is verified in never names evidence it does not hold: at
\* every moment of the walk, what the copied events name is in the copy, whole,
\* or still to be copied from a file that is there.  The walk fails, or copies
\* half a file, only over an artifact no copied event names.
VerifiedOnSoundCopy ==
    \A w \in Workers : \A r \in snap[w].events :
        CASE pc[w] = "verifying" -> snap[w].evidence[r[1]] = r[2]
          [] pc[w] = "walking" ->
                 \/ snap[w].evidence[r[1]] = r[2]
                 \/ r[1] \in snap[w].listed /\ files[r[1]] = r[2]
          [] OTHER -> TRUE

InFlight(w) ==
    copied[w] \cup (IF pc[w] = "filling" THEN {Current(w)} ELSE {})
              \cup (IF pc[w] = "rolling" THEN todo[w] ELSE {})

\* Every artifact in the run directory is recorded, or being ingested.
NoOrphans ==
    \A p \in Paths : files[p] # Absent =>
        p \in RecordedPaths \/ \E w \in Workers : p \in InFlight(w)

\* Only a failed append or a crash leaves artifacts that nothing records: every
\* other failure removes what its ingest created.
OrphansOnlyFromAppend == appendFaults = 0 /\ crashes = 0 => NoOrphans
=============================================================================
