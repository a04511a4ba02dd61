----------------------- MODULE TaskBundleIngest_proofs -----------------------
(***************************************************************************)
(* Proofs about TaskBundleIngest, for any number of workers, paths and     *)
(* bundles.  The type is proved first, with the shape of what a worker     *)
(* knows at each place.  The rest is proved from it, under the assumption  *)
(* that the agents of two tasks choose different new paths; the run        *)
(* MCTaskBundleIngestShared shows what happens otherwise.                  *)
(***************************************************************************)
EXTENDS TaskBundleIngest, TLAPS

\* Places at which the bundle is being ingested into the run directory.
Ingesting == {"copying", "creating", "filling", "appending", "locked", "checked"}

\* A worker has a bundle of its own, and only what the bundle holds is still
\* to do or done.
WorkerShape(w) ==
    /\ pc[w] # "idle" => bundle[w] \in Bundle /\ bundle[w].task = w
    /\ todo[w] \cup copied[w] \subseteq DOMAIN bundle[w].arts
    /\ pc[w] \notin Ingesting \cup {"rolling"} => copied[w] = {} /\ todo[w] = {}
    /\ pc[w] \in {"creating", "filling"} => todo[w] # {}
    /\ pc[w] \in {"appending", "locked", "checked"} => todo[w] = {}

Shape == TypeOK /\ \A w \in Workers : WorkerShape(w)

\* What two tasks add has no path in common.
ExclusiveOwn == \A v, w \in Workers : v # w => Own[v] \cap Own[w] = {}

-----------------------------------------------------------------------------
(* Facts about bundles and paths.                                          *)

\* A bundle belongs to a worker and names paths of its task only.
LEMMA BundleShape ==
    ASSUME NEW x \in Bundle
    PROVE  /\ x.task \in Workers
           /\ x.id \in 0..MaxBundles
           /\ DOMAIN x.arts \subseteq Artifacts(x.task)
           /\ DOMAIN x.arts \subseteq Paths
           /\ \A p \in DOMAIN x.arts : x.arts[p] \in Contents
<1>1. PICK w \in Workers :
          x \in [id : 0..MaxBundles, task : {w},
                 arts : UNION {[S -> Contents] : S \in SUBSET Artifacts(w)}]
  BY DEF Bundle
<1>2. x.task = w /\ x.id \in 0..MaxBundles
      /\ x.arts \in UNION {[S -> Contents] : S \in SUBSET Artifacts(w)}
  BY <1>1
<1>3. PICK S \in SUBSET Artifacts(w) : x.arts \in [S -> Contents]
  BY <1>2
<1>4. Artifacts(w) \subseteq Paths
  BY IngestAssumption DEF Artifacts
<1>5. QED
  BY <1>2, <1>3, <1>4

\* What Begin makes is a bundle.
LEMMA BundleIntro ==
    ASSUME NEW w \in Workers, NEW n \in 0..MaxBundles,
           NEW S \in SUBSET Artifacts(w), NEW arts \in [S -> Contents]
    PROVE  [id |-> n, task |-> w, arts |-> arts] \in Bundle
<1>1. arts \in UNION {[T -> Contents] : T \in SUBSET Artifacts(w)}
  OBVIOUS
<1>2. [id |-> n, task |-> w, arts |-> arts] \in
          [id : 0..MaxBundles, task : {w},
           arts : UNION {[T -> Contents] : T \in SUBSET Artifacts(w)}]
  BY <1>1
<1>3. QED
  BY <1>2 DEF Bundle

\* The state before the phase names known artifacts only, and is no bundle.
LEMMA BeforeShape ==
    /\ Before.arts = Known
    /\ Before.task = None
    /\ DOMAIN Before.arts \subseteq Paths
    /\ \A p \in DOMAIN Before.arts : Before.arts[p] \in Contents
BY IngestAssumption DEF Before

\* Every set of paths that is not empty has a least one.
LEMMA LeastIn ==
    ASSUME NEW S \in SUBSET Paths, S # {}
    PROVE  Least(S) \in S
<1>1. \E p \in S : \A q \in S : p <= q
  BY IngestAssumption
<1>2. QED
  BY <1>1 DEF Least

\* The pairs <<path, content>> of a set of bundles.
PairsOf(L) == UNION {{<<p, x.arts[p]>> : p \in DOMAIN x.arts} : x \in L}

PathsOf(L) == {r[1] : r \in PairsOf(L)}

LEMMA PairsMembers ==
    ASSUME NEW L
    PROVE  /\ \A r \in PairsOf(L) : \E x \in L :
                 r[1] \in DOMAIN x.arts /\ r = <<r[1], x.arts[r[1]]>>
           /\ \A x \in L : \A p \in DOMAIN x.arts : <<p, x.arts[p]>> \in PairsOf(L)
           /\ \A p : p \in PathsOf(L) <=> \E x \in L : p \in DOMAIN x.arts
<1>1. \A r \in PairsOf(L) : \E x \in L : r[1] \in DOMAIN x.arts /\ r = <<r[1], x.arts[r[1]]>>
  <2>1. TAKE r \in PairsOf(L)
  <2>2. PICK x \in L : r \in {<<p, x.arts[p]>> : p \in DOMAIN x.arts}
    BY DEF PairsOf
  <2>3. PICK p \in DOMAIN x.arts : r = <<p, x.arts[p]>>
    BY <2>2
  <2>4. QED
    BY <2>3
<1>2. \A x \in L : \A p \in DOMAIN x.arts : <<p, x.arts[p]>> \in PairsOf(L)
  BY DEF PairsOf
<1>3. ASSUME NEW p, p \in PathsOf(L)
      PROVE  \E x \in L : p \in DOMAIN x.arts
  <2>1. PICK r \in PairsOf(L) : p = r[1]
    BY <1>3 DEF PathsOf
  <2>2. QED
    BY <1>1, <2>1
<1>4. ASSUME NEW x \in L, NEW p \in DOMAIN x.arts
      PROVE  p \in PathsOf(L)
  <2>1. <<p, x.arts[p]>>[1] = p
    OBVIOUS
  <2>2. QED
    BY <1>2, <2>1 DEF PathsOf
<1>5. QED
  BY <1>1, <1>2, <1>3, <1>4

\* What is recorded, bundle by bundle.
LEMMA RecordedMembers ==
    /\ \A r \in Recorded : \E x \in ledger : r[1] \in DOMAIN x.arts /\ r = <<r[1], x.arts[r[1]]>>
    /\ \A x \in ledger : \A p \in DOMAIN x.arts : <<p, x.arts[p]>> \in Recorded
    /\ \A p : p \in RecordedPaths <=> \E x \in ledger : p \in DOMAIN x.arts
<1>1. Recorded = PairsOf(ledger) /\ RecordedPaths = PathsOf(ledger)
  BY DEF Recorded, RecordedPaths, PairsOf, PathsOf
<1>2. QED
  BY <1>1, PairsMembers

LEMMA RecordedMembersNext ==
    /\ \A r \in Recorded' : \E x \in ledger' : r[1] \in DOMAIN x.arts /\ r = <<r[1], x.arts[r[1]]>>
    /\ \A x \in ledger' : \A p \in DOMAIN x.arts : <<p, x.arts[p]>> \in Recorded'
    /\ \A p : p \in RecordedPaths' <=> \E x \in ledger' : p \in DOMAIN x.arts
<1>1. Recorded' = PairsOf(ledger') /\ RecordedPaths' = PathsOf(ledger')
  BY DEF Recorded, RecordedPaths, PairsOf, PathsOf
<1>2. QED
  BY <1>1, PairsMembers

\* The recorded pairs are typed.
LEMMA RecordedType ==
    ASSUME TypeOK
    PROVE  Recorded \subseteq Paths \X Contents
<1>1. SUFFICES ASSUME NEW r \in Recorded PROVE r \in Paths \X Contents
  OBVIOUS
<1>2. PICK x \in ledger : r[1] \in DOMAIN x.arts /\ r = <<r[1], x.arts[r[1]]>>
  BY RecordedMembers
<1>3. x \in Bundle \/ x = Before
  BY DEF TypeOK
<1>4. r[1] \in Paths /\ x.arts[r[1]] \in Contents
  BY <1>2, <1>3, BundleShape, BeforeShape
<1>5. QED
  BY <1>2, <1>4
-----------------------------------------------------------------------------
(* The type and the shape of a worker.                                     *)

\* A verification copy.
SnapType ==
    [events : SUBSET (Paths \X Contents), listed : SUBSET Paths,
     evidence : [Paths -> Contents \cup {Absent, Torn}]]

\* A copy stays one when a listed file is copied.
LEMMA CopiedFile ==
    ASSUME NEW x \in SnapType, NEW left \in SUBSET Paths,
           NEW p \in Paths, NEW c \in Contents \cup {Absent, Torn}
    PROVE  [x EXCEPT !.evidence[p] = c, !.listed = left] \in SnapType
<1>1. PICK new : new = [x.evidence EXCEPT ![p] = c]
  OBVIOUS
<1>2. new \in [Paths -> Contents \cup {Absent, Torn}]
  BY <1>1 DEF SnapType
<1>3. [x EXCEPT !.evidence[p] = c, !.listed = left] = [x EXCEPT !.evidence = new, !.listed = left]
  BY <1>1 DEF SnapType
<1>4. QED
  BY <1>2, <1>3 DEF SnapType

\* A step of one worker leaves what the others know alone.
OthersStay(w) ==
    \A v \in Workers \ {w} :
        /\ pc'[v] = pc[v]
        /\ bundle'[v] = bundle[v]
        /\ snap'[v] = snap[v]
        /\ todo'[v] = todo[v]
        /\ copied'[v] = copied[v]

LEMMA StepIsLocal ==
    ASSUME TypeOK, NEW w \in Workers, Begin(w) \/ Step(w)
    PROVE  OthersStay(w)
<1> USE DEF TypeOK, OthersStay
<1>1. CASE Begin(w)
  BY <1>1 DEF Begin, Goto
<1>2. CASE CopyEvents(w) \/ ListEvidence(w) \/ CopyEvidence(w) \/ EndWalk(w)
  BY <1>2 DEF CopyEvents, ListEvidence, CopyEvidence, EndWalk, Leave, Goto
<1>3. CASE Verify(w) \/ CheckTargets(w)
  BY <1>3 DEF Verify, CheckTargets, Leave, Goto
<1>4. CASE CopyArtifact(w)
  BY <1>4 DEF CopyArtifact, Skip, Fail, Goto
<1>5. CASE Create(w)
  BY <1>5 DEF Create, Skip, Fail, Goto
<1>6. CASE Fill(w)
  BY <1>6 DEF Fill, Fail, Goto
<1>7. CASE Remove(w) \/ ValidateReports(w)
  BY <1>7 DEF Remove, ValidateReports, Fail, Leave, Goto
<1>8. CASE LockLedger(w) \/ LockTimeout(w) \/ RequireIngested(w) \/ AppendEvents(w)
  BY <1>8 DEF LockLedger, LockTimeout, RequireIngested, AppendEvents, Leave, Goto
<1>9. QED
  BY <1>1, <1>2, <1>3, <1>4, <1>5, <1>6, <1>7, <1>8 DEF Step

\* What a worker knows has its type.
LocalType ==
    /\ pc \in [Workers -> PCs]
    /\ bundle \in [Workers -> Bundle \cup {Before}]
    /\ todo \in [Workers -> SUBSET Paths]
    /\ copied \in [Workers -> SUBSET Paths]

\* Leaving, failing and skipping keep the type and the shape.
LEMMA LeaveShape ==
    ASSUME Shape, NEW w \in Workers, Leave(w)
    PROVE  LocalType' /\ WorkerShape(w)' /\ pc'[w] = "idle" /\ todo'[w] = {} /\ copied'[w] = {}
<1>1. /\ pc' = [pc EXCEPT ![w] = "idle"]
      /\ bundle' = [bundle EXCEPT ![w] = Before]
      /\ todo' = [todo EXCEPT ![w] = {}]
      /\ copied' = [copied EXCEPT ![w] = {}]
  BY DEF Leave, Goto
<1>2. LocalType'
  BY <1>1 DEF Shape, TypeOK, LocalType, PCs
<1>3. pc'[w] = "idle" /\ todo'[w] = {} /\ copied'[w] = {}
  BY <1>1 DEF Shape, TypeOK
<1>4. QED
  BY <1>2, <1>3 DEF WorkerShape, Ingesting

LEMMA FailShape ==
    ASSUME Shape, NEW w \in Workers, pc[w] # "idle", Fail(w)
    PROVE  /\ LocalType' /\ WorkerShape(w)'
           /\ pc'[w] = "rolling" /\ todo'[w] = copied[w] /\ copied'[w] = copied[w]
           /\ bundle'[w] = bundle[w]
<1>1. /\ pc' = [pc EXCEPT ![w] = "rolling"]
      /\ todo' = [todo EXCEPT ![w] = copied[w]]
      /\ bundle' = bundle /\ copied' = copied
  BY DEF Fail, Goto
<1>2. LocalType'
  BY <1>1 DEF Shape, TypeOK, LocalType, PCs
<1>3. pc'[w] = "rolling" /\ todo'[w] = copied[w]
  BY <1>1 DEF Shape, TypeOK
<1>4. QED
  BY <1>1, <1>2, <1>3 DEF Shape, WorkerShape, Ingesting

LEMMA SkipShape ==
    ASSUME Shape, NEW w \in Workers, pc[w] \in {"copying", "creating"}, Skip(w)
    PROVE  /\ LocalType' /\ WorkerShape(w)'
           /\ pc'[w] = "copying" /\ todo'[w] = todo[w] \ {Current(w)} /\ copied'[w] = copied[w]
           /\ bundle'[w] = bundle[w]
<1>1. PICK p : p = Current(w)
  OBVIOUS
<1>2. /\ pc' = [pc EXCEPT ![w] = "copying"]
      /\ todo' = [todo EXCEPT ![w] = todo[w] \ {p}]
      /\ bundle' = bundle /\ copied' = copied
  BY <1>1 DEF Skip, Goto
<1>3. LocalType'
  BY <1>2 DEF Shape, TypeOK, LocalType, PCs
<1>4. pc'[w] = "copying" /\ todo'[w] = todo[w] \ {p}
  BY <1>2 DEF Shape, TypeOK
<1>5. QED
  BY <1>1, <1>2, <1>3, <1>4 DEF Shape, WorkerShape, Ingesting

\* The path a worker is at is one of its bundle.
LEMMA CurrentIn ==
    ASSUME Shape, NEW w \in Workers, todo[w] # {}
    PROVE  Current(w) \in todo[w] /\ Current(w) \in DOMAIN bundle[w].arts /\ Current(w) \in Paths
<1>1. todo[w] \in SUBSET Paths /\ todo[w] \subseteq DOMAIN bundle[w].arts
  BY DEF Shape, TypeOK, WorkerShape
<1>2. Least(todo[w]) \in todo[w]
  BY <1>1, LeastIn
<1>3. QED
  BY <1>1, <1>2 DEF Current

\* The bundle of a worker that is not idle.
LEMMA OwnBundle ==
    ASSUME Shape, NEW w \in Workers, pc[w] # "idle"
    PROVE  /\ bundle[w] \in Bundle
           /\ bundle[w].task = w
           /\ DOMAIN bundle[w].arts \subseteq Artifacts(w)
           /\ DOMAIN bundle[w].arts \subseteq Paths
           /\ \A p \in DOMAIN bundle[w].arts : bundle[w].arts[p] \in Contents
<1>1. bundle[w] \in Bundle /\ bundle[w].task = w
  BY DEF Shape, WorkerShape
<1>2. QED
  BY <1>1, BundleShape

\* A worker's own step keeps the type and its shape.
LEMMA WorkerStepShape ==
    ASSUME Shape, NEW w \in Workers, Begin(w) \/ Step(w)
    PROVE  TypeOK' /\ WorkerShape(w)'
<1> USE DEF PCs
<1>a. TypeOK /\ WorkerShape(w)
  BY DEF Shape
<1>b. None \notin Workers /\ Absent # Torn
  BY IngestAssumption
<1>1. CASE Begin(w)
  <2>0. PICK S \in SUBSET Artifacts(w) : \E arts \in [S -> Contents] :
            bundle' = [bundle EXCEPT ![w] = [id |-> bundles + 1, task |-> w, arts |-> arts]]
    BY <1>1 DEF Begin
  <2>1. PICK arts \in [S -> Contents] :
            bundle' = [bundle EXCEPT ![w] = [id |-> bundles + 1, task |-> w, arts |-> arts]]
    BY <2>0
  <2>2. bundles + 1 \in 0..MaxBundles
    BY <1>1, <1>a, IngestAssumption DEF Begin, TypeOK
  <2>3. PICK x : x = [id |-> bundles + 1, task |-> w, arts |-> arts]
    OBVIOUS
  <2>4. x \in Bundle /\ x.task = w
    BY <2>2, <2>3, BundleIntro
  <2>5. bundle' = [bundle EXCEPT ![w] = x] /\ bundles' = bundles + 1
    BY <1>1, <2>1, <2>3 DEF Begin
  <2>6. TypeOK'
    BY <1>1, <1>a, <2>2, <2>4, <2>5 DEF Begin, TypeOK, Goto
  <2>7. /\ bundle'[w] = x /\ pc'[w] = "ready"
        /\ todo'[w] = {} /\ copied'[w] = {}
    BY <1>1, <1>a, <2>5 DEF Begin, TypeOK, WorkerShape, Goto, Ingesting
  <2>8. QED
    BY <2>4, <2>6, <2>7 DEF WorkerShape, Ingesting
<1>2. CASE CopyEvents(w) \/ ListEvidence(w) \/ EndWalk(w)
  <2>1. PICK q \in {"listing", "walking", "verifying"} :
            /\ Goto(w, q)
            /\ pc[w] \in {"ready", "listing", "walking"}
            /\ UNCHANGED <<files, ledger, lock, bundle, todo, copied, bundles, faults,
                           appendFaults, crashes>>
    BY <1>2 DEF CopyEvents, ListEvidence, EndWalk
  <2>2. snap' \in [Workers -> SnapType]
    <3>1. CASE CopyEvents(w)
      <4>1. PICK new : new = Recorded
        OBVIOUS
      <4>2. snap' = [snap EXCEPT ![w].events = new] /\ new \in SUBSET (Paths \X Contents)
        BY <1>a, <3>1, <4>1, RecordedType DEF CopyEvents
      <4>3. PICK x \in SnapType : x = snap[w]
        BY <1>a DEF TypeOK, SnapType
      <4>4. snap' = [snap EXCEPT ![w] = [x EXCEPT !.events = new]]
        BY <4>2, <4>3
      <4>5. [x EXCEPT !.events = new] \in SnapType
        BY <4>2 DEF SnapType
      <4>6. snap \in [Workers -> SnapType]
        BY <1>a DEF TypeOK, SnapType
      <4>7. QED
        BY <4>4, <4>5, <4>6
    <3>2. CASE ListEvidence(w)
      <4>1. PICK new \in SUBSET Paths : snap' = [snap EXCEPT ![w].listed = new]
        BY <3>2 DEF ListEvidence
      <4>2. PICK x \in SnapType : x = snap[w]
        BY <1>a DEF TypeOK, SnapType
      <4>3. snap' = [snap EXCEPT ![w] = [x EXCEPT !.listed = new]]
        BY <4>1, <4>2
      <4>4. [x EXCEPT !.listed = new] \in SnapType
        BY <4>1 DEF SnapType
      <4>5. snap \in [Workers -> SnapType]
        BY <1>a DEF TypeOK, SnapType
      <4>6. QED
        BY <4>3, <4>4, <4>5
    <3>3. CASE EndWalk(w)
      BY <1>a, <3>3 DEF EndWalk, TypeOK, SnapType
    <3>4. QED
      BY <1>2, <3>1, <3>2, <3>3
  <2>3. pc' \in [Workers -> PCs] /\ pc'[w] = q
    BY <1>a, <2>1 DEF TypeOK, Goto
  <2>4. TypeOK'
    BY <1>a, <2>1, <2>2, <2>3 DEF TypeOK, SnapType
  <2>5. QED
    BY <1>a, <2>1, <2>3, <2>4 DEF WorkerShape, Ingesting
<1>2a. CASE CopyEvidence(w)
  <2>1. /\ pc[w] = "walking" /\ snap[w].listed # {}
        /\ UNCHANGED <<files, ledger, lock, bundles, faults, appendFaults, crashes>>
    BY <1>2a DEF CopyEvidence
  <2>2. PICK p : p = Least(snap[w].listed)
    OBVIOUS
  <2>3. p \in Paths
    BY <1>a, <2>1, <2>2, LeastIn DEF TypeOK
  <2>4. CASE /\ snap' = [snap EXCEPT ![w].evidence[p] = files[p], ![w].listed = @ \ {p}]
             /\ UNCHANGED <<pc, bundle, todo, copied>>
    <3>1. files[p] \in Contents \cup {Absent, Torn}
      BY <1>a, <2>3 DEF TypeOK
    <3>2. PICK x \in SnapType : x = snap[w]
      BY <1>a DEF TypeOK, SnapType
    <3>3. PICK c \in Contents \cup {Absent, Torn} : c = files[p]
      BY <3>1
    <3>4. PICK left \in SUBSET Paths : left = snap[w].listed \ {p}
      BY <1>a DEF TypeOK
    <3>5. snap' = [snap EXCEPT ![w] = [x EXCEPT !.evidence[p] = c, !.listed = left]]
      BY <2>4, <3>2, <3>3, <3>4
    <3>6. snap' \in [Workers -> SnapType]
      <4>1. PICK y : y = [x EXCEPT !.evidence[p] = c, !.listed = left]
        OBVIOUS
      <4>2. y \in SnapType
        BY <2>3, <4>1, CopiedFile
      <4>3. snap \in [Workers -> SnapType] /\ snap' = [snap EXCEPT ![w] = y]
        BY <1>a, <3>5, <4>1 DEF TypeOK, SnapType
      <4>4. QED
        BY <4>2, <4>3
    <3>7. QED
      BY <1>a, <2>1, <2>4, <3>6 DEF TypeOK, SnapType, WorkerShape
  <2>5. CASE snap' = [snap EXCEPT ![w] = NoSnap] /\ Leave(w)
    <3>1. NoSnap \in SnapType
      BY DEF NoSnap, SnapType
    <3>2. snap' \in [Workers -> SnapType]
      BY <1>a, <2>5, <3>1 DEF TypeOK, SnapType
    <3>3. QED
      BY <1>a, <2>1, <2>5, <3>2, LeaveShape DEF TypeOK, SnapType, LocalType
  <2>6. QED
    BY <1>2a, <2>2, <2>4, <2>5 DEF CopyEvidence
<1>3. CASE Verify(w)
  <2>1. /\ pc[w] = "verifying" /\ snap' = [snap EXCEPT ![w] = NoSnap]
        /\ UNCHANGED <<files, ledger, lock, bundles, faults, appendFaults, crashes>>
    BY <1>3 DEF Verify
  <2>2. NoSnap \in SnapType
    BY DEF NoSnap, SnapType
  <2>3. snap' \in [Workers -> [events : SUBSET (Paths \X Contents), listed : SUBSET Paths,
                               evidence : [Paths -> Contents \cup {Absent, Torn}]]]
    BY <1>a, <2>1, <2>2 DEF TypeOK, SnapType
  <2>4. CASE Leave(w)
    BY <1>a, <2>1, <2>3, <2>4, LeaveShape DEF TypeOK, LocalType
  <2>5. CASE Goto(w, "checking") /\ UNCHANGED <<bundle, todo, copied>>
    <3>1. TypeOK' /\ pc'[w] = "checking"
      BY <1>a, <2>1, <2>3, <2>5 DEF TypeOK, Goto
    <3>2. QED
      BY <1>a, <2>1, <2>5, <3>1 DEF WorkerShape, Ingesting
  <2>6. QED
    BY <1>3, <2>4, <2>5 DEF Verify
<1>4. CASE CheckTargets(w)
  <2>1. /\ pc[w] = "checking"
        /\ UNCHANGED <<files, ledger, lock, snap, bundles, faults, appendFaults, crashes>>
    BY <1>4 DEF CheckTargets
  <2>2. CASE Leave(w)
    BY <1>a, <2>1, <2>2, LeaveShape DEF TypeOK, LocalType
  <2>3. CASE /\ todo' = [todo EXCEPT ![w] = DOMAIN bundle[w].arts]
             /\ Goto(w, "copying") /\ UNCHANGED <<bundle, copied>>
    <3>1. DOMAIN bundle[w].arts \subseteq Paths
      BY <2>1, OwnBundle
    <3>2. PICK d : d = DOMAIN bundle[w].arts
      OBVIOUS
    <3>3. todo' = [todo EXCEPT ![w] = d] /\ d \in SUBSET Paths
      BY <2>3, <3>1, <3>2
    <3>4. TypeOK' /\ pc'[w] = "copying" /\ todo'[w] = d
      BY <1>a, <2>1, <2>3, <3>3 DEF TypeOK, Goto
    <3>5. QED
      BY <1>a, <2>1, <2>3, <3>2, <3>4 DEF WorkerShape, Ingesting
  <2>4. QED
    BY <1>4, <2>2, <2>3 DEF CheckTargets
<1>5. CASE CopyArtifact(w)
  <2>1. /\ pc[w] = "copying" /\ todo[w] # {}
        /\ UNCHANGED <<files, ledger, lock, snap, bundles, faults, appendFaults, crashes>>
    BY <1>5 DEF CopyArtifact
  <2>2. CASE Skip(w)
    BY <1>a, <2>1, <2>2, SkipShape DEF TypeOK, LocalType
  <2>3. CASE Fail(w)
    BY <1>a, <2>1, <2>3, FailShape DEF TypeOK, LocalType
  <2>4. CASE Goto(w, "creating") /\ UNCHANGED <<bundle, todo, copied>>
    <3>1. TypeOK' /\ pc'[w] = "creating"
      BY <1>a, <2>1, <2>4 DEF TypeOK, Goto
    <3>2. QED
      BY <1>a, <2>1, <2>4, <3>1 DEF WorkerShape, Ingesting
  <2>5. QED
    BY <1>5, <2>2, <2>3, <2>4 DEF CopyArtifact
<1>6. CASE Create(w)
  <2>1. /\ pc[w] = "creating"
        /\ UNCHANGED <<ledger, lock, snap, bundles, appendFaults, crashes>>
    BY <1>6 DEF Create
  <2>2. PICK p : p = Current(w)
    OBVIOUS
  <2>3. p \in Paths
    BY <1>a, <2>1, <2>2, CurrentIn DEF WorkerShape
  <2>4. faults' \in 0..MaxFaults
    BY <1>6, <1>a, IngestAssumption DEF Create, Fault, TypeOK
  <2>5. CASE /\ files' = [files EXCEPT ![p] = Torn] /\ Goto(w, "filling")
             /\ UNCHANGED <<bundle, todo, copied, faults>>
    <3>1. TypeOK' /\ pc'[w] = "filling"
      BY <1>a, <2>1, <2>3, <2>5 DEF TypeOK, Goto
    <3>2. QED
      BY <1>a, <2>1, <2>5, <3>1 DEF WorkerShape, Ingesting
  <2>6. CASE Skip(w) /\ UNCHANGED files
    BY <1>a, <2>1, <2>4, <2>6, SkipShape DEF TypeOK, LocalType
  <2>7. CASE Fail(w) /\ UNCHANGED files
    BY <1>a, <2>1, <2>4, <2>7, FailShape DEF TypeOK, LocalType
  <2>8. QED
    BY <1>6, <2>2, <2>5, <2>6, <2>7 DEF Create
<1>7. CASE Fill(w)
  <2>1. /\ pc[w] = "filling"
        /\ UNCHANGED <<ledger, lock, snap, bundles, appendFaults, crashes>>
    BY <1>7 DEF Fill
  <2>2. PICK p : p = Current(w)
    OBVIOUS
  <2>3. p \in todo[w] /\ p \in DOMAIN bundle[w].arts /\ p \in Paths
    BY <1>a, <2>1, <2>2, CurrentIn DEF WorkerShape
  <2>4. faults' \in 0..MaxFaults
    BY <1>7, <1>a, IngestAssumption DEF Fill, Fault, TypeOK
  <2>5. CASE /\ files' = [files EXCEPT ![p] = bundle[w].arts[p]]
             /\ copied' = [copied EXCEPT ![w] = @ \cup {p}]
             /\ todo' = [todo EXCEPT ![w] = @ \ {p}]
             /\ Goto(w, "copying") /\ UNCHANGED <<bundle, faults>>
    <3>1. PICK c \in Contents : c = bundle[w].arts[p]
      BY <2>1, <2>3, OwnBundle
    <3>2. files' \in [Paths -> Contents \cup {Absent, Torn}]
      BY <1>a, <2>3, <2>5, <3>1 DEF TypeOK
    <3>3. /\ copied' \in [Workers -> SUBSET Paths] /\ copied'[w] = copied[w] \cup {p}
          /\ todo' \in [Workers -> SUBSET Paths] /\ todo'[w] = todo[w] \ {p}
          /\ pc' \in [Workers -> PCs] /\ pc'[w] = "copying"
      BY <1>a, <2>3, <2>5 DEF TypeOK, Goto
    <3>4. TypeOK'
      BY <1>a, <2>1, <2>4, <2>5, <3>2, <3>3 DEF TypeOK
    <3>5. QED
      BY <1>a, <2>1, <2>3, <2>5, <3>3, <3>4 DEF WorkerShape, Ingesting
  <2>6. CASE files' = [files EXCEPT ![p] = Absent] /\ Fail(w)
    <3>1. files' \in [Paths -> Contents \cup {Absent, Torn}]
      BY <1>a, <2>3, <2>6 DEF TypeOK
    <3>2. QED
      BY <1>a, <2>1, <2>4, <2>6, <3>1, FailShape DEF TypeOK, LocalType
  <2>7. QED
    BY <1>7, <2>2, <2>5, <2>6 DEF Fill
<1>8. CASE Remove(w)
  <2>1. /\ pc[w] = "rolling"
        /\ UNCHANGED <<ledger, lock, snap, bundles, faults, appendFaults, crashes>>
    BY <1>8 DEF Remove
  <2>2. CASE Leave(w) /\ UNCHANGED files
    BY <1>a, <2>1, <2>2, LeaveShape DEF TypeOK, LocalType
  <2>3. CASE /\ todo[w] # {}
             /\ files' = [files EXCEPT ![Current(w)] = Absent]
             /\ todo' = [todo EXCEPT ![w] = @ \ {Current(w)}]
             /\ UNCHANGED <<pc, bundle, copied>>
    <3>1. PICK p \in Paths : p = Current(w)
      BY <2>3, CurrentIn
    <3>2. /\ files' \in [Paths -> Contents \cup {Absent, Torn}]
          /\ todo' \in [Workers -> SUBSET Paths] /\ todo'[w] = todo[w] \ {p}
      BY <1>a, <2>3, <3>1 DEF TypeOK
    <3>3. TypeOK'
      BY <1>a, <2>1, <2>3, <3>2 DEF TypeOK
    <3>4. QED
      BY <1>a, <2>1, <2>3, <3>2, <3>3 DEF WorkerShape, Ingesting
  <2>4. QED
    BY <1>8, <2>2, <2>3 DEF Remove
<1>9. CASE ValidateReports(w)
  <2>1. /\ pc[w] = "copying" /\ todo[w] = {}
        /\ UNCHANGED <<files, ledger, lock, snap, bundles, appendFaults, crashes>>
    BY <1>9 DEF ValidateReports
  <2>2. faults' \in 0..MaxFaults
    BY <1>9, <1>a, IngestAssumption DEF ValidateReports, Fault, TypeOK
  <2>3. CASE Fail(w)
    BY <1>a, <2>1, <2>2, <2>3, FailShape DEF TypeOK, LocalType
  <2>4. CASE Goto(w, "appending") /\ UNCHANGED <<bundle, todo, copied>>
    <3>1. TypeOK' /\ pc'[w] = "appending"
      BY <1>a, <2>1, <2>2, <2>4 DEF TypeOK, Goto
    <3>2. QED
      BY <1>a, <2>1, <2>4, <3>1 DEF WorkerShape, Ingesting
  <2>5. QED
    BY <1>9, <2>3, <2>4 DEF ValidateReports
<1>10. CASE LockLedger(w)
  <2>1. TypeOK' /\ pc'[w] = "locked"
    BY <1>10, <1>a DEF LockLedger, TypeOK, Goto
  <2>2. QED
    BY <1>10, <1>a, <2>1 DEF LockLedger, WorkerShape, Ingesting
<1>11. CASE LockTimeout(w)
  <2>1. appendFaults' \in 0..MaxAppendFaults
    BY <1>11, <1>a, IngestAssumption DEF LockTimeout, AppendFault, TypeOK
  <2>2. QED
    BY <1>11, <1>a, <2>1, LeaveShape DEF LockTimeout, TypeOK, LocalType
<1>12. CASE RequireIngested(w)
  <2>1. /\ pc[w] = "locked" /\ lock' \in Workers \cup {None}
        /\ UNCHANGED <<files, ledger, snap, bundles, faults, appendFaults, crashes>>
    BY <1>12, <1>a DEF RequireIngested, TypeOK
  <2>2. CASE Leave(w)
    BY <1>a, <2>1, <2>2, LeaveShape DEF TypeOK, LocalType
  <2>3. CASE Goto(w, "checked") /\ UNCHANGED <<bundle, todo, copied>>
    <3>1. TypeOK' /\ pc'[w] = "checked"
      BY <1>a, <2>1, <2>3 DEF TypeOK, Goto
    <3>2. QED
      BY <1>a, <2>1, <2>3, <3>1 DEF WorkerShape, Ingesting
  <2>4. QED
    BY <1>12, <2>2, <2>3 DEF RequireIngested
<1>13. CASE AppendEvents(w)
  <2>1. /\ pc[w] = "checked" /\ lock' = None /\ Leave(w)
        /\ UNCHANGED <<files, snap, bundles, faults, crashes>>
    BY <1>13 DEF AppendEvents
  <2>2. bundle[w] \in Bundle
    BY <2>1, OwnBundle
  <2>3. ledger' = ledger \/ ledger' = ledger \cup {bundle[w]}
    BY <1>13 DEF AppendEvents
  <2>4. appendFaults' \in 0..MaxAppendFaults
    BY <1>13, <1>a, IngestAssumption DEF AppendEvents, AppendFault, TypeOK
  <2>5. ledger' \subseteq Bundle \cup {Before}
    BY <1>a, <2>2, <2>3 DEF TypeOK
  <2>6. QED
    BY <1>a, <2>1, <2>4, <2>5, LeaveShape DEF TypeOK, LocalType
<1>14. QED
  BY <1>1, <1>2, <1>2a, <1>3, <1>4, <1>5, <1>6, <1>7, <1>8, <1>9, <1>10, <1>11, <1>12, <1>13
  DEF Step

LEMMA InitShape == Init => Shape
<1> SUFFICES ASSUME Init PROVE Shape
  OBVIOUS
<1>1. /\ files \in [Paths -> Contents \cup {Absent, Torn}]
      /\ ledger \subseteq Bundle \cup {Before}
      /\ lock \in Workers \cup {None}
  BY IngestAssumption DEF Init
<1>2. /\ pc \in [Workers -> PCs]
      /\ bundle \in [Workers -> Bundle \cup {Before}]
      /\ todo \in [Workers -> SUBSET Paths]
      /\ copied \in [Workers -> SUBSET Paths]
  BY DEF Init, PCs
<1>3. snap \in [Workers -> [events : SUBSET (Paths \X Contents), listed : SUBSET Paths,
                            evidence : [Paths -> Contents \cup {Absent, Torn}]]]
  BY DEF Init, NoSnap
<1>4. /\ bundles \in 0..MaxBundles
      /\ faults \in 0..MaxFaults
      /\ appendFaults \in 0..MaxAppendFaults
      /\ crashes \in 0..MaxCrashes
  BY IngestAssumption DEF Init
<1>5. ASSUME NEW w \in Workers PROVE WorkerShape(w)
  BY <1>5 DEF Init, WorkerShape, Ingesting
<1>6. QED
  BY <1>1, <1>2, <1>3, <1>4, <1>5 DEF Shape, TypeOK

LEMMA CrashShape ==
    ASSUME Shape, Crash
    PROVE  Shape'
<1>1. TypeOK
  BY DEF Shape
<1>2. /\ files \in [Paths -> Contents \cup {Absent, Torn}] /\ files' = files
      /\ ledger \subseteq Bundle \cup {Before} /\ ledger' = ledger
      /\ lock' \in Workers \cup {None}
  BY <1>1 DEF TypeOK, Crash
<1>3. /\ pc' \in [Workers -> PCs]
      /\ bundle' \in [Workers -> Bundle \cup {Before}]
      /\ todo' \in [Workers -> SUBSET Paths]
      /\ copied' \in [Workers -> SUBSET Paths]
  BY DEF Crash, PCs
<1>4. snap' \in [Workers -> [events : SUBSET (Paths \X Contents), listed : SUBSET Paths,
                             evidence : [Paths -> Contents \cup {Absent, Torn}]]]
  BY DEF Crash, NoSnap
<1>5. /\ bundles' \in 0..MaxBundles
      /\ faults' \in 0..MaxFaults
      /\ appendFaults' \in 0..MaxAppendFaults
      /\ crashes' \in 0..MaxCrashes
  BY <1>1, IngestAssumption DEF TypeOK, Crash
<1>6. ASSUME NEW w \in Workers PROVE WorkerShape(w)'
  BY <1>6 DEF Crash, WorkerShape, Ingesting
<1>7. QED
  BY <1>2, <1>3, <1>4, <1>5, <1>6 DEF Shape, TypeOK

LEMMA ShapeStep == Shape /\ [Next]_vars => Shape'
<1> SUFFICES ASSUME Shape, [Next]_vars PROVE Shape'
  OBVIOUS
<1>1. CASE Crash
  BY <1>1, CrashShape
<1>2. ASSUME NEW w \in Workers, Begin(w) \/ Step(w)
      PROVE  Shape'
  <2>1. TypeOK' /\ WorkerShape(w)'
    BY <1>2, WorkerStepShape
  <2>2. OthersStay(w)
    BY <1>2, StepIsLocal DEF Shape
  <2>3. ASSUME NEW v \in Workers, v # w PROVE WorkerShape(v)'
    BY <2>2, <2>3 DEF Shape, WorkerShape, OthersStay
  <2>4. QED
    BY <2>1, <2>3 DEF Shape
<1>3. CASE UNCHANGED vars
  BY <1>3 DEF vars, Shape, TypeOK, WorkerShape
<1>4. QED
  BY <1>1, <1>2, <1>3 DEF Next

LEMMA AlwaysShape == Spec => []Shape
BY InitShape, ShapeStep, PTL DEF Spec

\* Every variable has its type, in every reachable state.
THEOREM TypeCorrect == Spec => []TypeOK
<1>1. Shape => TypeOK
  BY DEF Shape
<1>2. QED
  BY <1>1, AlwaysShape, PTL
-----------------------------------------------------------------------------
(* What each worker may rely on.                                           *)

\* Every bundle of the ledger lies in the run directory as it was recorded.
LedgerIntact == \A x \in ledger : \A p \in DOMAIN x.arts : files[p] = x.arts[p]

\* Under ingestion: the bundle may be appended, and what is not still to do is
\* in place.
Placed(w) ==
    /\ pc[w] \in Ingesting \cup {"checking"} => Appendable(w)
    /\ pc[w] \in Ingesting =>
          \A p \in DOMAIN bundle[w].arts \ todo[w] : files[p] = bundle[w].arts[p]

\* What it created and may remove is its own and nothing the ledger names, and
\* what it already removed is gone.
Private(w) ==
    /\ \A p \in InFlight(w) : p \in Own[w] /\ p \notin RecordedPaths
    /\ pc[w] = "rolling" => \A p \in copied[w] \ todo[w] : files[p] = Absent

\* The verification copy is sound: what its events name is recorded, and in the
\* copy or on the list of what is still to be copied.
SoundCopy(w) ==
    /\ pc[w] \in {"listing", "walking"} => snap[w].events \subseteq Recorded
    /\ pc[w] = "walking" =>
          \A r \in snap[w].events : snap[w].evidence[r[1]] = r[2] \/ r[1] \in snap[w].listed
    /\ pc[w] = "verifying" => \A r \in snap[w].events : snap[w].evidence[r[1]] = r[2]

WorkerInv(w) == Placed(w) /\ Private(w) /\ SoundCopy(w)

IInv ==
    /\ Before \in ledger
    /\ LedgerIntact
    /\ \A w \in Workers : WorkerInv(w)
    /\ OrphansOnlyFromAppend

\* A path of a worker's bundle is its own, or recorded.
LEMMA OwnOrRecorded ==
    ASSUME Shape, Before \in ledger, NEW w \in Workers, pc[w] # "idle",
           NEW p \in DOMAIN bundle[w].arts
    PROVE  p \in Own[w] \/ p \in RecordedPaths
<1>1. p \in Own[w] \cup DOMAIN Known
  BY OwnBundle DEF Artifacts
<1>2. p \in DOMAIN Known => p \in RecordedPaths
  BY BeforeShape, RecordedMembers
<1>3. QED
  BY <1>1, <1>2

\* A recorded file is neither absent nor half written.
LEMMA RecordedWhole ==
    ASSUME Shape, LedgerIntact, NEW p \in RecordedPaths
    PROVE  files[p] \in Contents /\ files[p] # Absent /\ files[p] # Torn
<1>1. PICK x \in ledger : p \in DOMAIN x.arts
  BY RecordedMembers
<1>2. x.arts[p] \in Contents
  BY <1>1, BundleShape, BeforeShape DEF Shape, TypeOK
<1>3. QED
  BY <1>1, <1>2, IngestAssumption DEF LedgerIntact

\* What is recorded in the bundles is so in the pairs.
LEMMA IntactRecords == LedgerIntact => RecordedIntact
<1>1. ASSUME LedgerIntact, NEW r \in Recorded PROVE files[r[1]] = r[2]
  <2>1. PICK x \in ledger : r[1] \in DOMAIN x.arts /\ r = <<r[1], x.arts[r[1]]>>
    BY RecordedMembers
  <2>2. QED
    BY <1>1, <2>1 DEF LedgerIntact
<1>2. QED
  BY <1>1 DEF RecordedIntact

\* A step changes only files that are the worker's own and not recorded.
LEMMA FilesStep ==
    ASSUME Shape, IInv, NEW w \in Workers, Begin(w) \/ Step(w),
           NEW p \in Paths, files'[p] # files[p]
    PROVE  p \in Own[w] /\ p \notin RecordedPaths
<1>a. files \in [Paths -> Contents \cup {Absent, Torn}] /\ WorkerShape(w)
  BY DEF Shape, TypeOK
<1>b. Private(w) /\ Before \in ledger /\ LedgerIntact
  BY DEF IInv, WorkerInv
<1>1. CASE Create(w)
  <2>1. PICK c : c = Current(w)
    OBVIOUS
  <2>2. files[c] = Absent /\ files' = [files EXCEPT ![c] = Torn] /\ pc[w] = "creating"
    BY <1>1, <2>1 DEF Create
  <2>3. p = c
    BY <1>a, <2>2
  <2>4. c \in DOMAIN bundle[w].arts
    BY <1>a, <2>1, <2>2, CurrentIn DEF WorkerShape
  <2>5. c \notin RecordedPaths
    BY <1>b, <2>2, RecordedWhole
  <2>6. QED
    BY <1>b, <2>2, <2>3, <2>4, <2>5, OwnOrRecorded
<1>2. CASE Fill(w)
  <2>1. PICK c : c = Current(w)
    OBVIOUS
  <2>2. pc[w] = "filling" /\ \E value : files' = [files EXCEPT ![c] = value]
    BY <1>2, <2>1 DEF Fill
  <2>3. p = c
    BY <1>a, <2>2
  <2>4. c \in InFlight(w)
    BY <2>1, <2>2 DEF InFlight
  <2>5. QED
    BY <1>b, <2>3, <2>4 DEF Private
<1>3. CASE Remove(w)
  <2>1. PICK c : c = Current(w)
    OBVIOUS
  <2>2. pc[w] = "rolling" /\ todo[w] # {} /\ files' = [files EXCEPT ![c] = Absent]
    BY <1>3, <2>1 DEF Remove
  <2>3. p = c
    BY <1>a, <2>2
  <2>4. c \in InFlight(w)
    BY <2>1, <2>2, CurrentIn DEF InFlight
  <2>5. QED
    BY <1>b, <2>3, <2>4 DEF Private
<1>4. CASE Begin(w) \/ CopyEvents(w) \/ ListEvidence(w) \/ CopyEvidence(w) \/ EndWalk(w)
           \/ Verify(w) \/ CheckTargets(w) \/ CopyArtifact(w) \/ ValidateReports(w) \/ LockLedger(w) \/ LockTimeout(w)
           \/ RequireIngested(w) \/ AppendEvents(w)
  <2>1. files' = files
    BY <1>4 DEF Begin, CopyEvents, ListEvidence, CopyEvidence, EndWalk, Verify, CheckTargets, CopyArtifact,
                ValidateReports, LockLedger, LockTimeout, RequireIngested, AppendEvents
  <2>2. QED
    BY <2>1
<1>5. QED
  BY <1>1, <1>2, <1>3, <1>4 DEF Step

\* A step adds the worker's bundle to the ledger, or nothing.
LEMMA LedgerStep ==
    ASSUME NEW w \in Workers, Begin(w) \/ Step(w)
    PROVE  \/ ledger' = ledger
           \/ /\ ledger' = ledger \cup {bundle[w]}
              /\ files' = files /\ pc[w] = "checked" /\ Appendable(w)
<1>1. CASE AppendEvents(w)
  BY <1>1 DEF AppendEvents
<1>2. CASE ~ AppendEvents(w)
  BY <1>2 DEF Step, Begin, CopyEvents, ListEvidence, CopyEvidence, EndWalk, Verify, CheckTargets, CopyArtifact, Create,
              Fill, Remove, ValidateReports, LockLedger, LockTimeout, RequireIngested
<1>3. QED
  BY <1>1, <1>2
-----------------------------------------------------------------------------
(* The invariant is kept: the ledger, the other workers, the worker.       *)

\* Nothing leaves the ledger, and only the worker's bundle enters it.
LEMMA LedgerGrows ==
    ASSUME Shape, IInv, NEW w \in Workers, Begin(w) \/ Step(w)
    PROVE  /\ ledger \subseteq ledger'
           /\ Recorded \subseteq Recorded'
           /\ RecordedPaths \subseteq RecordedPaths'
           /\ \A x \in ledger' : x \notin ledger =>
                 x = bundle[w] /\ pc[w] = "checked" /\ files' = files /\ x.task = w
           /\ \A p \in RecordedPaths' : p \in RecordedPaths \/ p \in Own[w]
<1>1. ledger \subseteq ledger'
  BY LedgerStep
<1>2. Recorded \subseteq Recorded' /\ RecordedPaths \subseteq RecordedPaths'
  <2>1. ASSUME NEW r \in Recorded PROVE r \in Recorded'
    <3>1. PICK x \in ledger : r[1] \in DOMAIN x.arts /\ r = <<r[1], x.arts[r[1]]>>
      BY RecordedMembers
    <3>2. QED
      BY <1>1, <3>1, RecordedMembersNext
  <2>2. ASSUME NEW p \in RecordedPaths PROVE p \in RecordedPaths'
    BY <1>1, RecordedMembers, RecordedMembersNext
  <2>3. QED
    BY <2>1, <2>2
<1>3. \A x \in ledger' : x \notin ledger =>
         x = bundle[w] /\ pc[w] = "checked" /\ files' = files /\ x.task = w
  BY LedgerStep, OwnBundle
<1>4. ASSUME NEW p \in RecordedPaths', p \notin RecordedPaths PROVE p \in Own[w]
  <2>1. PICK x \in ledger' : p \in DOMAIN x.arts
    BY RecordedMembersNext
  <2>2. x \notin ledger
    BY <1>4, <2>1, RecordedMembers
  <2>3. x = bundle[w] /\ pc[w] = "checked"
    BY <1>3, <2>2
  <2>4. QED
    BY <1>4, <2>1, <2>3, OwnOrRecorded DEF IInv
<1>5. QED
  BY <1>1, <1>2, <1>3, <1>4

\* What the ledger names stays as it is.
LEMMA IntactStep ==
    ASSUME Shape, IInv, NEW w \in Workers, Begin(w) \/ Step(w)
    PROVE  Before \in ledger' /\ LedgerIntact'
<1>1. ASSUME NEW x \in ledger', NEW p \in DOMAIN x.arts
      PROVE  files'[p] = x.arts[p]
  <2>1. CASE x \in ledger
    <3>1. p \in RecordedPaths /\ files[p] = x.arts[p]
      BY <2>1, RecordedMembers DEF IInv, LedgerIntact
    <3>2. p \in Paths
      BY <2>1, BundleShape, BeforeShape DEF Shape, TypeOK
    <3>3. QED
      BY <3>1, <3>2, FilesStep
  <2>2. CASE x \notin ledger
    <3>1. x = bundle[w] /\ pc[w] = "checked" /\ files' = files
      BY <2>2, LedgerGrows
    <3>2. todo[w] = {} /\ Placed(w)
      BY <3>1 DEF Shape, WorkerShape, IInv, WorkerInv
    <3>3. QED
      BY <3>1, <3>2 DEF Placed, Ingesting
  <2>3. QED
    BY <2>1, <2>2
<1>2. Before \in ledger'
  BY LedgerGrows DEF IInv
<1>3. QED
  BY <1>1, <1>2 DEF LedgerIntact

\* A step of one worker takes nothing from another.
LEMMA OthersInv ==
    ASSUME ExclusiveOwn, Shape, IInv, NEW w \in Workers, Begin(w) \/ Step(w),
           NEW v \in Workers, v # w
    PROVE  WorkerInv(v)'
<1>a. /\ pc'[v] = pc[v] /\ bundle'[v] = bundle[v] /\ snap'[v] = snap[v]
      /\ todo'[v] = todo[v] /\ copied'[v] = copied[v]
  BY StepIsLocal DEF OthersStay, Shape
<1>b. WorkerInv(v) /\ WorkerShape(v) /\ Before \in ledger
  BY DEF IInv, Shape
<1>c. Own[v] \cap Own[w] = {} /\ Own[v] \subseteq Paths
  BY IngestAssumption DEF ExclusiveOwn
<1>d. ASSUME NEW p \in Paths, p \in Own[v] \/ p \in RecordedPaths
      PROVE  files'[p] = files[p]
  BY <1>c, <1>d, FilesStep
<1>1. Placed(v)'
  <2>1. ASSUME Appendable(v) PROVE Appendable(v)'
    <3>1. Completed(v)' => Completed(v)
      BY LedgerGrows DEF Completed
    <3>2. QED
      BY <1>a, <2>1, <3>1, LedgerGrows DEF Appendable
  <2>2. ASSUME pc[v] \in Ingesting, NEW p \in DOMAIN bundle[v].arts \ todo[v]
        PROVE  files'[p] = bundle[v].arts[p]
    <3>1. p \in Paths /\ (p \in Own[v] \/ p \in RecordedPaths)
      BY <1>b, <2>2, OwnBundle, OwnOrRecorded DEF Ingesting
    <3>2. files[p] = bundle[v].arts[p]
      BY <1>b, <2>2 DEF WorkerInv, Placed
    <3>3. QED
      BY <1>d, <3>1, <3>2
  <2>3. QED
    BY <1>a, <1>b, <2>1, <2>2 DEF Placed, WorkerInv
<1>2. Private(v)'
  <2>1. InFlight(v)' = InFlight(v)
    BY <1>a DEF InFlight, Current
  <2>2. ASSUME NEW p \in InFlight(v) PROVE p \in Own[v] /\ p \notin RecordedPaths'
    BY <1>b, <1>c, LedgerGrows DEF WorkerInv, Private
  <2>3. ASSUME pc[v] = "rolling", NEW p \in copied[v] \ todo[v] PROVE files'[p] = Absent
    <3>1. p \in Own[v] /\ files[p] = Absent
      BY <1>b, <2>3 DEF WorkerInv, Private, InFlight
    <3>2. QED
      BY <1>c, <1>d, <3>1
  <2>4. QED
    BY <1>a, <2>1, <2>2, <2>3 DEF Private
<1>3. SoundCopy(v)'
  BY <1>a, <1>b, LedgerGrows DEF WorkerInv, SoundCopy
<1>4. QED
  BY <1>1, <1>2, <1>3 DEF WorkerInv

\* What is in the run directory after a step of the worker, and was created
\* or is removable by it, is recorded or still known to it.
Tracked(w) ==
    \A p \in Paths : files'[p] # Absent /\ (files[p] = Absent \/ p \in InFlight(w)) =>
        p \in RecordedPaths' \/ p \in InFlight(w)'

\* What is in flight, place by place.
LEMMA InFlightShape ==
    ASSUME Shape, NEW w \in Workers
    PROVE  /\ pc[w] \notin {"filling", "rolling"} => InFlight(w) = copied[w]
           /\ pc[w] \notin Ingesting \cup {"rolling"} => InFlight(w) = {}
           /\ pc[w] = "filling" => InFlight(w) = copied[w] \cup {Current(w)}
           /\ pc[w] = "rolling" => InFlight(w) = copied[w] \cup todo[w]
BY DEF Shape, WorkerShape, InFlight, Ingesting

\* An ingest that is over relies on nothing.
LEMMA LeaveInv ==
    ASSUME Shape, NEW w \in Workers, Leave(w)
    PROVE  WorkerInv(w)'
<1>1. pc'[w] = "idle" /\ todo'[w] = {} /\ copied'[w] = {}
  BY LeaveShape
<1>2. QED
  BY <1>1 DEF WorkerInv, Placed, Private, SoundCopy, InFlight, Ingesting

\* A failed ingest still has to remove all it created.
LEMMA FailInv ==
    ASSUME Shape, NEW w \in Workers, WorkerInv(w), Fail(w), ledger' = ledger,
           pc[w] \in {"copying", "creating", "filling"}
    PROVE  WorkerInv(w)' /\ InFlight(w)' = copied[w]
<1>1. pc'[w] = "rolling" /\ todo'[w] = copied[w] /\ copied'[w] = copied[w]
  BY FailShape
<1>2. InFlight(w)' = copied[w]
  BY <1>1 DEF InFlight
<1>3. \A p \in copied[w] : p \in Own[w] /\ p \notin RecordedPaths
  BY DEF WorkerInv, Private, InFlight
<1>4. RecordedPaths' = RecordedPaths
  BY DEF RecordedPaths, Recorded
<1>5. QED
  BY <1>1, <1>2, <1>3, <1>4 DEF WorkerInv, Placed, Private, SoundCopy, Ingesting

\* An artifact found in place is done.
LEMMA SkipInv ==
    ASSUME Shape, NEW w \in Workers, WorkerInv(w), Skip(w), UNCHANGED <<files, ledger>>,
           pc[w] \in {"copying", "creating"}, files[Current(w)] = bundle[w].arts[Current(w)]
    PROVE  WorkerInv(w)' /\ InFlight(w)' = copied[w]
<1>1. /\ pc'[w] = "copying" /\ todo'[w] = todo[w] \ {Current(w)}
      /\ copied'[w] = copied[w] /\ bundle'[w] = bundle[w]
  BY SkipShape
<1>2. InFlight(w) = copied[w] /\ InFlight(w)' = copied[w]
  BY <1>1 DEF InFlight
<1>3. RecordedPaths' = RecordedPaths /\ (Appendable(w)' <=> Appendable(w))
  BY <1>1 DEF RecordedPaths, Recorded, Appendable, Completed
<1>4. Placed(w)'
  BY <1>1, <1>3 DEF WorkerInv, Placed, Ingesting
<1>5. QED
  BY <1>1, <1>2, <1>3, <1>4 DEF WorkerInv, Private, SoundCopy

\* A worker that moves on with the same bundle, files and ledger.
LEMMA MoveInv ==
    ASSUME Shape, NEW w \in Workers, WorkerInv(w), NEW q,
           Goto(w, q), UNCHANGED <<files, ledger, bundle, todo, copied>>,
           \/ pc[w] = "copying" /\ q \in {"creating", "appending"}
           \/ pc[w] = "appending" /\ q = "locked"
           \/ pc[w] = "locked" /\ q = "checked"
    PROVE  WorkerInv(w)' /\ InFlight(w)' = copied[w]
<1>1. pc'[w] = q
  BY DEF Goto, Shape, TypeOK
<1>2. InFlight(w)' = copied[w] /\ InFlight(w) = copied[w]
  BY <1>1 DEF InFlight
<1>3. RecordedPaths' = RecordedPaths /\ (Appendable(w)' <=> Appendable(w))
  BY DEF RecordedPaths, Recorded, Appendable, Completed
<1>4. Placed(w)'
  BY <1>1, <1>3 DEF WorkerInv, Placed, Ingesting
<1>5. QED
  BY <1>1, <1>2, <1>3, <1>4 DEF WorkerInv, Private, SoundCopy

\* The worker's own step keeps what it relies on, and loses track of nothing
\* unless the append fails.
LEMMA OwnInv ==
    ASSUME Shape, IInv, NEW w \in Workers, Begin(w) \/ Step(w)
    PROVE  WorkerInv(w)' /\ (appendFaults' = 0 => Tracked(w))
<1>a. TypeOK /\ WorkerShape(w) /\ WorkerInv(w) /\ LedgerIntact /\ Before \in ledger
  BY DEF Shape, IInv
<1>1. CASE Begin(w)
  <2>1. /\ pc[w] = "idle" /\ pc'[w] = "ready" /\ files' = files
        /\ copied'[w] = {} /\ todo'[w] = {} /\ copied[w] = {}
    BY <1>1, <1>a DEF Begin, Goto, TypeOK, WorkerShape, Ingesting
  <2>2. InFlight(w) = {} /\ InFlight(w)' = {}
    BY <2>1 DEF InFlight
  <2>3. QED
    BY <2>1, <2>2 DEF WorkerInv, Placed, Private, SoundCopy, Ingesting, Tracked
<1>2. CASE CopyEvents(w)
  <2>1. /\ pc[w] = "ready" /\ pc'[w] = "listing" /\ ledger' = ledger /\ files' = files
        /\ copied'[w] = {} /\ todo'[w] = {} /\ copied[w] = {}
    BY <1>2, <1>a DEF CopyEvents, Goto, TypeOK, WorkerShape, Ingesting
  <2>2. snap' = [snap EXCEPT ![w].events = Recorded]
    BY <1>2 DEF CopyEvents
  <2>3. snap'[w].events = Recorded /\ Recorded' = Recorded
    BY <2>1, <2>2, <1>a DEF TypeOK, Recorded
  <2>4. InFlight(w) = {} /\ InFlight(w)' = {}
    BY <2>1 DEF InFlight
  <2>5. QED
    BY <2>1, <2>3, <2>4 DEF WorkerInv, Placed, Private, SoundCopy, Ingesting, Tracked
<1>3. CASE ListEvidence(w)
  <2>1. /\ pc[w] = "listing" /\ pc'[w] = "walking" /\ ledger' = ledger /\ files' = files
        /\ copied'[w] = {} /\ todo'[w] = {} /\ copied[w] = {}
    BY <1>3, <1>a DEF ListEvidence, Goto, TypeOK, WorkerShape, Ingesting
  <2>2. /\ snap'[w].listed = {p \in Paths : files[p] # Absent}
        /\ snap'[w].events = snap[w].events /\ Recorded' = Recorded
    BY <1>3, <1>a, <2>1 DEF ListEvidence, TypeOK, Recorded
  <2>3. SoundCopy(w)'
    <3>1. ASSUME NEW r \in snap[w].events PROVE r[1] \in snap'[w].listed
      <4>1. r \in Recorded
        BY <1>a, <2>1 DEF WorkerInv, SoundCopy
      <4>2. r[1] \in Paths /\ files[r[1]] # Absent
        BY <1>a, <4>1, RecordedWhole, RecordedType DEF RecordedPaths
      <4>3. QED
        BY <2>2, <4>2
    <3>2. QED
      BY <1>a, <2>1, <2>2, <3>1 DEF WorkerInv, SoundCopy
  <2>4. InFlight(w) = {} /\ InFlight(w)' = {}
    BY <2>1 DEF InFlight
  <2>5. QED
    BY <2>1, <2>3, <2>4 DEF WorkerInv, Placed, Private, Ingesting, Tracked
<1>3a. CASE CopyEvidence(w)
  <2>1. /\ pc[w] = "walking" /\ ledger' = ledger /\ files' = files /\ snap[w].listed # {}
        /\ InFlight(w) = {}
    BY <1>3a, <1>a, InFlightShape DEF CopyEvidence, Ingesting
  <2>2. Tracked(w)
    BY <2>1 DEF Tracked
  <2>3. PICK p : p = Least(snap[w].listed)
    OBVIOUS
  <2>4. CASE Leave(w)
    BY <2>2, <2>4, LeaveInv
  <2>5. CASE /\ snap' = [snap EXCEPT ![w].evidence[p] = files[p], ![w].listed = @ \ {p}]
             /\ UNCHANGED <<pc, bundle, todo, copied>>
    <3>1. p \in Paths
      BY <1>a, <2>1, <2>3, LeastIn DEF TypeOK
    <3>2. /\ snap'[w].events = snap[w].events
          /\ snap'[w].listed = snap[w].listed \ {p}
          /\ snap'[w].evidence[p] = files[p]
          /\ \A q \in Paths : q # p => snap'[w].evidence[q] = snap[w].evidence[q]
      BY <1>a, <2>5, <3>1 DEF TypeOK
    <3>3. ASSUME NEW r \in snap[w].events
          PROVE  snap'[w].evidence[r[1]] = r[2] \/ r[1] \in snap'[w].listed
      <4>1. r \in Recorded /\ (snap[w].evidence[r[1]] = r[2] \/ r[1] \in snap[w].listed)
        BY <1>a, <2>1 DEF WorkerInv, SoundCopy
      <4>2. r[1] \in Paths /\ files[r[1]] = r[2]
        BY <1>a, <4>1, RecordedType, IntactRecords DEF RecordedIntact
      <4>3. QED
        BY <3>2, <4>1, <4>2
    <3>4. Recorded' = Recorded /\ RecordedPaths' = RecordedPaths /\ InFlight(w)' = {}
      BY <2>1, <2>5 DEF Recorded, RecordedPaths, InFlight, Current
    <3>5. SoundCopy(w)'
      BY <1>a, <2>1, <2>5, <3>2, <3>3, <3>4 DEF WorkerInv, SoundCopy
    <3>6. QED
      BY <2>1, <2>2, <2>5, <3>4, <3>5 DEF WorkerInv, Placed, Private, Ingesting
  <2>6. QED
    BY <1>3a, <2>3, <2>4, <2>5 DEF CopyEvidence
<1>3b. CASE EndWalk(w)
  <2>1. /\ pc[w] = "walking" /\ pc'[w] = "verifying" /\ ledger' = ledger /\ files' = files
        /\ snap' = snap /\ snap[w].listed = {}
        /\ copied'[w] = {} /\ todo'[w] = {} /\ copied[w] = {}
    BY <1>3b, <1>a DEF EndWalk, Goto, TypeOK, WorkerShape, Ingesting
  <2>2. InFlight(w) = {} /\ InFlight(w)' = {}
    BY <2>1 DEF InFlight
  <2>3. QED
    BY <1>a, <2>1, <2>2 DEF WorkerInv, Placed, Private, SoundCopy, Ingesting, Tracked
<1>4. CASE Verify(w)
  <2>1. /\ pc[w] = "verifying" /\ ledger' = ledger /\ files' = files
        /\ InFlight(w) = {}
    BY <1>4, <1>a, InFlightShape DEF Verify, Ingesting
  <2>2. Tracked(w)
    BY <2>1 DEF Tracked
  <2>3. CASE Leave(w)
    BY <2>2, <2>3, LeaveInv
  <2>4. CASE Appendable(w) /\ Goto(w, "checking") /\ UNCHANGED <<bundle, todo, copied>>
    <3>1. pc'[w] = "checking" /\ copied'[w] = {} /\ (Appendable(w)' <=> Appendable(w))
      BY <1>a, <2>1, <2>4
      DEF Goto, TypeOK, WorkerShape, Ingesting, Appendable, Completed
    <3>2. InFlight(w)' = {}
      BY <3>1 DEF InFlight
    <3>3. QED
      BY <2>2, <2>4, <3>1, <3>2 DEF WorkerInv, Placed, Private, SoundCopy, Ingesting
  <2>5. QED
    BY <1>4, <2>3, <2>4 DEF Verify
<1>5. CASE CheckTargets(w)
  <2>1. /\ pc[w] = "checking" /\ ledger' = ledger /\ files' = files
        /\ InFlight(w) = {}
    BY <1>5, <1>a, InFlightShape DEF CheckTargets, Ingesting
  <2>2. Tracked(w)
    BY <2>1 DEF Tracked
  <2>3. CASE Leave(w)
    BY <2>2, <2>3, LeaveInv
  <2>4. CASE /\ todo' = [todo EXCEPT ![w] = DOMAIN bundle[w].arts]
             /\ Goto(w, "copying") /\ UNCHANGED <<bundle, copied>>
    <3>1. /\ pc'[w] = "copying" /\ copied'[w] = {} /\ (Appendable(w)' <=> Appendable(w))
          /\ todo'[w] = DOMAIN bundle[w].arts
      BY <1>a, <2>1, <2>4
      DEF Goto, TypeOK, WorkerShape, Ingesting, Appendable, Completed
    <3>2. InFlight(w)' = {}
      BY <3>1 DEF InFlight
    <3>3. QED
      BY <1>a, <2>1, <2>2, <2>4, <3>1, <3>2
      DEF WorkerInv, Placed, Private, SoundCopy, Ingesting
  <2>5. QED
    BY <1>5, <2>3, <2>4 DEF CheckTargets
<1>6. CASE CopyArtifact(w)
  <2>1. /\ pc[w] = "copying" /\ ledger' = ledger /\ files' = files
        /\ InFlight(w) = copied[w]
    BY <1>6, InFlightShape DEF CopyArtifact
  <2>2. CASE files[Current(w)] = bundle[w].arts[Current(w)] /\ Skip(w)
    BY <1>a, <2>1, <2>2, SkipInv DEF Tracked
  <2>3. CASE Fail(w)
    BY <1>a, <2>1, <2>3, FailInv DEF Tracked
  <2>4. CASE Goto(w, "creating") /\ UNCHANGED <<bundle, todo, copied>>
    BY <1>a, <2>1, <2>4, MoveInv DEF Tracked
  <2>5. QED
    BY <1>6, <2>2, <2>3, <2>4 DEF CopyArtifact
<1>7. CASE Create(w)
  <2>1. /\ pc[w] = "creating" /\ ledger' = ledger /\ todo[w] # {}
        /\ InFlight(w) = copied[w]
    BY <1>7, <1>a, InFlightShape DEF Create, WorkerShape
  <2>2. PICK c \in Paths : c = Current(w) /\ c \in todo[w] /\ c \in DOMAIN bundle[w].arts
    BY <2>1, CurrentIn
  <2>3. CASE /\ files[c] = Absent /\ files' = [files EXCEPT ![c] = Torn]
             /\ Goto(w, "filling") /\ UNCHANGED <<bundle, todo, copied>>
    <3>1. pc'[w] = "filling"
      BY <1>a, <2>3 DEF Goto, TypeOK
    <3>2. InFlight(w)' = copied[w] \cup {c}
      BY <2>2, <2>3, <3>1 DEF InFlight, Current
    <3>3. c \notin RecordedPaths
      BY <1>a, <2>3, RecordedWhole
    <3>4. c \in Own[w]
      BY <1>a, <2>1, <2>2, <3>3, OwnOrRecorded
    <3>5. RecordedPaths' = RecordedPaths /\ (Appendable(w)' <=> Appendable(w))
      BY <2>1, <2>3 DEF RecordedPaths, Recorded, Appendable, Completed
    <3>6. \A p \in Paths : p # c => files'[p] = files[p]
      BY <1>a, <2>3 DEF TypeOK
    <3>7. Placed(w)'
      <4>1. ASSUME NEW p \in DOMAIN bundle[w].arts \ todo[w]
            PROVE  files'[p] = bundle[w].arts[p]
        <5>1. p \in Paths /\ p # c
          BY <2>1, <2>2, OwnBundle
        <5>2. QED
          BY <1>a, <2>1, <3>6, <5>1 DEF WorkerInv, Placed, Ingesting
      <4>2. QED
        BY <1>a, <2>1, <2>3, <3>1, <3>5, <4>1 DEF WorkerInv, Placed, Ingesting
    <3>8. Private(w)'
      BY <1>a, <2>1, <3>1, <3>2, <3>3, <3>4, <3>5 DEF WorkerInv, Private
    <3>9. Tracked(w)
      BY <2>1, <3>2, <3>6 DEF Tracked
    <3>10. QED
      BY <3>1, <3>7, <3>8, <3>9 DEF WorkerInv, SoundCopy
  <2>4. CASE files[c] = bundle[w].arts[c] /\ Skip(w) /\ UNCHANGED files
    BY <1>a, <2>1, <2>2, <2>4, SkipInv DEF Tracked
  <2>5. CASE Fail(w) /\ UNCHANGED files
    BY <1>a, <2>1, <2>5, FailInv DEF Tracked
  <2>6. QED
    BY <1>7, <2>2, <2>3, <2>4, <2>5 DEF Create
<1>8. CASE Fill(w)
  <2>1. /\ pc[w] = "filling" /\ ledger' = ledger /\ todo[w] # {}
    BY <1>8, <1>a DEF Fill, WorkerShape
  <2>2. PICK c \in Paths : c = Current(w) /\ c \in todo[w] /\ c \in DOMAIN bundle[w].arts
    BY <2>1, CurrentIn
  <2>3. InFlight(w) = copied[w] \cup {c}
    BY <2>1, <2>2, InFlightShape
  <2>4. CASE /\ files' = [files EXCEPT ![c] = bundle[w].arts[c]]
             /\ copied' = [copied EXCEPT ![w] = @ \cup {c}]
             /\ todo' = [todo EXCEPT ![w] = @ \ {c}]
             /\ Goto(w, "copying") /\ UNCHANGED bundle
    <3>1. /\ pc'[w] = "copying" /\ copied'[w] = copied[w] \cup {c}
          /\ todo'[w] = todo[w] \ {c}
      BY <1>a, <2>4 DEF Goto, TypeOK
    <3>2. InFlight(w)' = copied[w] \cup {c}
      BY <3>1 DEF InFlight
    <3>3. RecordedPaths' = RecordedPaths /\ (Appendable(w)' <=> Appendable(w))
      BY <2>1, <2>4 DEF RecordedPaths, Recorded, Appendable, Completed
    <3>4. files'[c] = bundle[w].arts[c] /\ \A p \in Paths : p # c => files'[p] = files[p]
      BY <1>a, <2>4 DEF TypeOK
    <3>5. Placed(w)'
      <4>1. ASSUME NEW p \in DOMAIN bundle[w].arts \ (todo[w] \ {c})
            PROVE  files'[p] = bundle[w].arts[p]
        <5>1. p \in Paths
          BY <2>1, OwnBundle
        <5>2. QED
          BY <1>a, <2>1, <3>4, <5>1 DEF WorkerInv, Placed, Ingesting
      <4>2. QED
        BY <1>a, <2>1, <2>4, <3>1, <3>3, <4>1 DEF WorkerInv, Placed, Ingesting
    <3>6. Private(w)'
      BY <1>a, <2>3, <3>1, <3>2, <3>3 DEF WorkerInv, Private
    <3>7. Tracked(w)
      BY <2>3, <3>2, <3>4 DEF Tracked
    <3>8. QED
      BY <3>1, <3>5, <3>6, <3>7 DEF WorkerInv, SoundCopy
  <2>5. CASE files' = [files EXCEPT ![c] = Absent] /\ Fail(w)
    <3>1. WorkerInv(w)' /\ InFlight(w)' = copied[w]
      BY <1>a, <2>1, <2>5, FailInv
    <3>2. files'[c] = Absent /\ \A p \in Paths : p # c => files'[p] = files[p]
      BY <1>a, <2>5 DEF TypeOK
    <3>3. QED
      BY <2>3, <3>1, <3>2 DEF Tracked
  <2>6. QED
    BY <1>8, <2>2, <2>4, <2>5 DEF Fill
<1>9. CASE Remove(w)
  <2>1. /\ pc[w] = "rolling" /\ ledger' = ledger
        /\ InFlight(w) = copied[w] \cup todo[w]
    BY <1>9, InFlightShape DEF Remove
  <2>2. CASE todo[w] = {} /\ Leave(w) /\ UNCHANGED files
    <3>1. \A p \in copied[w] : files[p] = Absent
      BY <1>a, <2>1, <2>2 DEF WorkerInv, Private
    <3>2. QED
      BY <2>1, <2>2, <3>1, LeaveInv DEF Tracked
  <2>3. CASE /\ todo[w] # {}
             /\ files' = [files EXCEPT ![Current(w)] = Absent]
             /\ todo' = [todo EXCEPT ![w] = @ \ {Current(w)}]
             /\ UNCHANGED <<pc, bundle, copied>>
    <3>1. PICK c \in Paths : c = Current(w) /\ c \in todo[w]
      BY <2>3, CurrentIn
    <3>2. todo'[w] = todo[w] \ {c}
      BY <1>a, <2>3, <3>1 DEF TypeOK
    <3>3. files'[c] = Absent /\ \A p \in Paths : p # c => files'[p] = files[p]
      BY <1>a, <2>3, <3>1 DEF TypeOK
    <3>4. InFlight(w)' = copied[w] \cup (todo[w] \ {c})
      BY <2>1, <2>3, <3>2 DEF InFlight
    <3>5. RecordedPaths' = RecordedPaths
      BY <2>1 DEF RecordedPaths, Recorded
    <3>6. copied[w] \subseteq Paths
      BY <1>a DEF TypeOK
    <3>7. Private(w)'
      BY <1>a, <2>1, <2>3, <3>2, <3>3, <3>4, <3>5, <3>6 DEF WorkerInv, Private
    <3>8. Tracked(w)
      BY <2>1, <3>3, <3>4 DEF Tracked
    <3>9. QED
      BY <2>1, <2>3, <3>7, <3>8 DEF WorkerInv, Placed, SoundCopy, Ingesting
  <2>4. QED
    BY <1>9, <2>2, <2>3 DEF Remove
<1>10. CASE ValidateReports(w)
  <2>1. /\ pc[w] = "copying" /\ ledger' = ledger /\ files' = files
        /\ InFlight(w) = copied[w]
    BY <1>10, InFlightShape DEF ValidateReports
  <2>2. CASE Fail(w)
    BY <1>a, <2>1, <2>2, FailInv DEF Tracked
  <2>3. CASE Goto(w, "appending") /\ UNCHANGED <<bundle, todo, copied>>
    BY <1>a, <2>1, <2>3, MoveInv DEF Tracked
  <2>4. QED
    BY <1>10, <2>2, <2>3 DEF ValidateReports
<1>11. CASE LockLedger(w)
  BY <1>11, <1>a, InFlightShape, MoveInv DEF LockLedger, Tracked
<1>12. CASE LockTimeout(w)
  <2>1. WorkerInv(w)'
    BY <1>12, LeaveInv DEF LockTimeout
  <2>2. appendFaults' # 0
    BY <1>12, <1>a DEF LockTimeout, AppendFault, TypeOK
  <2>3. QED
    BY <2>1, <2>2
<1>13. CASE RequireIngested(w)
  <2>1. /\ pc[w] = "locked" /\ ledger' = ledger /\ files' = files /\ todo[w] = {}
    BY <1>13, <1>a DEF RequireIngested, WorkerShape
  <2>2. \A p \in DOMAIN bundle[w].arts : files[p] = bundle[w].arts[p]
    BY <1>a, <2>1 DEF WorkerInv, Placed, Ingesting
  <2>3. Goto(w, "checked") /\ UNCHANGED <<bundle, todo, copied>>
    BY <1>13, <2>2 DEF RequireIngested
  <2>4. QED
    BY <1>a, <2>1, <2>3, InFlightShape, MoveInv DEF Tracked
<1>14. CASE AppendEvents(w)
  <2>1. pc[w] = "checked" /\ files' = files /\ Leave(w)
    BY <1>14 DEF AppendEvents
  <2>2. WorkerInv(w)'
    BY <2>1, LeaveInv
  <2>3. ASSUME appendFaults' = 0 PROVE Tracked(w)
    <3>1. Appendable(w)
      BY <1>a, <2>1 DEF WorkerInv, Placed, Ingesting
    <3>2. ~ AppendFault
      BY <1>a, <2>3 DEF AppendFault, TypeOK
    <3>3. ledger' = ledger \cup {bundle[w]}
      BY <1>14, <3>1, <3>2 DEF AppendEvents
    <3>4. copied[w] \subseteq RecordedPaths'
      BY <1>a, <3>3, RecordedMembersNext DEF WorkerShape
    <3>5. QED
      BY <2>1, <3>4, InFlightShape DEF Tracked
  <2>4. QED
    BY <2>2, <2>3
<1>15. QED
  BY <1>1, <1>2, <1>3, <1>3a, <1>3b, <1>4, <1>5, <1>6, <1>7, <1>8, <1>9, <1>10, <1>11, <1>12,
     <1>13, <1>14
  DEF Step
-----------------------------------------------------------------------------
(* The invariant, step by step.                                            *)

\* Every artifact keeps a record or a worker that knows it.
LEMMA OrphanStep ==
    ASSUME ExclusiveOwn, Shape, IInv, NEW w \in Workers, Begin(w) \/ Step(w)
    PROVE  OrphansOnlyFromAppend'
<1>1. SUFFICES ASSUME appendFaults' = 0, crashes' = 0,
                      NEW p \in Paths, files'[p] # Absent
               PROVE  p \in RecordedPaths' \/ \E v \in Workers : p \in InFlight(v)'
  BY DEF OrphansOnlyFromAppend, NoOrphans
<1>2. appendFaults = 0 /\ crashes = 0
  <2>1. /\ appendFaults' = appendFaults \/ appendFaults' = appendFaults + 1
        /\ crashes' = crashes
    BY DEF Step, Begin, CopyEvents, ListEvidence, CopyEvidence, EndWalk, Verify, CheckTargets, CopyArtifact, Create,
           Fill, Remove, ValidateReports, LockLedger, LockTimeout, RequireIngested,
           AppendEvents, AppendFault
  <2>2. QED
    BY <1>1, <2>1 DEF Shape, TypeOK
<1>3. Tracked(w)
  BY <1>1, OwnInv
<1>4. CASE files[p] = Absent \/ p \in InFlight(w)
  BY <1>1, <1>3, <1>4 DEF Tracked
<1>5. CASE files[p] # Absent /\ p \notin InFlight(w)
  <2>1. p \in RecordedPaths \/ \E v \in Workers : p \in InFlight(v)
    BY <1>2, <1>5 DEF IInv, OrphansOnlyFromAppend, NoOrphans
  <2>2. CASE p \in RecordedPaths
    BY <2>2, LedgerGrows
  <2>3. ASSUME NEW v \in Workers, p \in InFlight(v) PROVE p \in InFlight(v)'
    <3>1. v # w
      BY <1>5, <2>3
    <3>2. QED
      BY <2>3, <3>1, StepIsLocal DEF OthersStay, Shape, InFlight, Current
  <2>4. QED
    BY <2>1, <2>2, <2>3
<1>6. QED
  BY <1>4, <1>5

LEMMA InitIInv == Init => IInv
<1> SUFFICES ASSUME Init PROVE IInv
  OBVIOUS
<1>1. Before \in ledger /\ LedgerIntact
  BY IngestAssumption, BeforeShape DEF Init, LedgerIntact
<1>2. ASSUME NEW w \in Workers PROVE WorkerInv(w)
  BY DEF Init, WorkerInv, Placed, Private, SoundCopy, InFlight, Ingesting
<1>3. NoOrphans
  <2>1. ASSUME NEW p \in Paths, files[p] # Absent PROVE p \in RecordedPaths
    <3>1. p \in DOMAIN Before.arts
      BY <2>1, BeforeShape DEF Init
    <3>2. QED
      BY <1>1, <3>1, RecordedMembers
  <2>2. QED
    BY <2>1 DEF NoOrphans
<1>4. QED
  BY <1>1, <1>2, <1>3 DEF IInv, OrphansOnlyFromAppend

\* A crash leaves artifacts behind, and loses nothing the ledger names.
LEMMA CrashIInv ==
    ASSUME Shape, IInv, Crash
    PROVE  IInv'
<1>1. Before \in ledger' /\ LedgerIntact'
  BY DEF Crash, IInv, LedgerIntact
<1>2. ASSUME NEW w \in Workers PROVE WorkerInv(w)'
  BY DEF Crash, WorkerInv, Placed, Private, SoundCopy, InFlight, Ingesting
<1>3. OrphansOnlyFromAppend'
  BY DEF Crash, Shape, TypeOK, OrphansOnlyFromAppend
<1>4. QED
  BY <1>1, <1>2, <1>3 DEF IInv

LEMMA IInvStep ==
    ASSUME ExclusiveOwn, Shape, IInv, [Next]_vars
    PROVE  IInv'
<1>1. CASE Crash
  BY <1>1, CrashIInv
<1>2. ASSUME NEW w \in Workers, Begin(w) \/ Step(w)
      PROVE  IInv'
  <2>1. Before \in ledger' /\ LedgerIntact'
    BY <1>2, IntactStep
  <2>2. \A v \in Workers : WorkerInv(v)'
    BY <1>2, OwnInv, OthersInv
  <2>3. OrphansOnlyFromAppend'
    BY <1>2, OrphanStep
  <2>4. QED
    BY <2>1, <2>2, <2>3 DEF IInv
<1>3. CASE UNCHANGED vars
  BY <1>3 DEF vars, IInv, LedgerIntact, WorkerInv, Placed, Private, SoundCopy, InFlight, Current,
              Appendable, Completed, Recorded, RecordedPaths, OrphansOnlyFromAppend, NoOrphans
<1>4. QED
  BY <1>1, <1>2, <1>3 DEF Next

LEMMA AlwaysIInv ==
    ASSUME ExclusiveOwn
    PROVE  Spec => []IInv
<1>1. Shape /\ IInv /\ [Next]_vars => IInv'
  BY IInvStep
<1>2. QED
  BY <1>1, InitIInv, AlwaysShape, PTL DEF Spec

-----------------------------------------------------------------------------
\* When no two agents choose the same new path, what the ledger names stays in
\* the run directory, whole and unchanged, whatever other ingests copy, remove
\* or leave behind, and whatever fails or crashes.
THEOREM EvidenceStaysIntact ==
    ASSUME ExclusiveOwn
    PROVE  Spec => []RecordedIntact
<1>1. IInv => RecordedIntact
  BY IntactRecords DEF IInv
<1>2. QED
  BY <1>1, AlwaysIInv, PTL

\* The unlocked copy a bundle is verified in holds all evidence its events name,
\* and while it is being made, what it does not hold yet is listed and there.
THEOREM CopyIsSound ==
    ASSUME ExclusiveOwn
    PROVE  Spec => []VerifiedOnSoundCopy
<1>1. IInv => VerifiedOnSoundCopy
  <2>1. SUFFICES ASSUME IInv, NEW w \in Workers, NEW r \in snap[w].events
                 PROVE  /\ pc[w] = "verifying" => snap[w].evidence[r[1]] = r[2]
                        /\ pc[w] = "walking" =>
                              \/ snap[w].evidence[r[1]] = r[2]
                              \/ r[1] \in snap[w].listed /\ files[r[1]] = r[2]
    BY DEF VerifiedOnSoundCopy
  <2>2. SoundCopy(w) /\ RecordedIntact
    BY <2>1, IntactRecords DEF IInv, WorkerInv
  <2>3. QED
    BY <2>2 DEF SoundCopy, RecordedIntact
<1>2. QED
  BY <1>1, AlwaysIInv, PTL

\* Unless an append failed or the runner crashed, every artifact in the run
\* directory is recorded or being ingested.
THEOREM NoOrphanWithoutFailedAppend ==
    ASSUME ExclusiveOwn
    PROVE  Spec => []OrphansOnlyFromAppend
<1>1. IInv => OrphansOnlyFromAppend
  BY DEF IInv
<1>2. QED
  BY <1>1, AlwaysIInv, PTL
=============================================================================
