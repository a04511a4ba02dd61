------------------------- MODULE TaskSession_proofs -------------------------
(***************************************************************************)
(* Proofs about TaskSession, for any tasks, ledgers, files and bounds.     *)
(***************************************************************************)
EXTENDS TaskSession, TLAPS

\* What holds of an event when its command is past its checks, and ever after.
Checked(e) ==
    /\ PhaseAllows(e)
    /\ e.path # None /\ e.path \notin edited => FileSound(e)
    /\ e.path = None => e.type # "evidence.added"
    /\ e.type = "task.completed" => e = TaskCompleted
    /\ e.note = "Task handoff, checked" =>
          e.type = "evidence.added" /\ ReadableAs(e, e.digest)

CompletedOnce ==
    \A i, k \in 1..Len(bundle) :
       bundle[i].type = "task.completed" /\ bundle[k].type = "task.completed" => i = k

\* The inductive invariant.
IInv ==
    /\ TypeOK
    /\ \A e \in Elements(bundle) : Checked(e)
    /\ \A e \in pending : Checked(e) /\ e.type # "task.completed" /\ e.path # None
    /\ CompletedOnce
    /\ pc = "accepted" => ValidBundle
-----------------------------------------------------------------------------
\* Every constructor of the module gives an event of this type.
LEMMA EventType ==
    ASSUME NEW t \in Types, NEW id \in Objects, NEW o \in Objects,
           NEW p \in Paths \cup {None}, NEW c \in Contents, NEW n \in Notes
    PROVE  Event(t, id, o, p, c, n) \in Events
BY DEF Event, Events

\* The contents that the commands write are contents.
LEMMA ContentTypes ==
    /\ Content("none") \in Contents
    /\ Content("blank") \in Contents
    /\ Content("text") \in Contents
    /\ \A o \in Objects : HandoffFor(o) \in Contents
BY DEF Contents

\* An empty or absent file is blank, and a handoff is not.
LEMMA Blanks ==
    /\ Blank(Content("none")) /\ ~ Blank(Content("text"))
    /\ \A o : ~ Blank(HandoffFor(o))
BY DEF Blank, Content, HandoffFor
-----------------------------------------------------------------------------
\* The elements of a sequence over a set are in the set.
LEMMA ElementsTyped ==
    ASSUME NEW S, NEW s \in Seq(S)
    PROVE  Elements(s) \subseteq S
BY DEF Elements

\* The elements of a sequence with one more.
LEMMA ElementsOfAppend ==
    ASSUME NEW S, NEW s \in Seq(S), NEW e \in S
    PROVE  /\ Elements(Append(s, e)) = Elements(s) \cup {e}
           /\ Append(s, e) \in Seq(S)
<1>1. Len(Append(s, e)) = Len(s) + 1 /\ Len(s) \in Nat
  OBVIOUS
<1>2. \A i \in 1..Len(s) : Append(s, e)[i] = s[i]
  OBVIOUS
<1>3. Append(s, e)[Len(s) + 1] = e /\ Append(s, e) \in Seq(S)
  OBVIOUS
<1>4. ASSUME NEW x \in Elements(Append(s, e)) PROVE x \in Elements(s) \cup {e}
  <2>1. PICK i \in 1..Len(Append(s, e)) : x = Append(s, e)[i]
    BY DEF Elements
  <2>2. i \in 1..Len(s) \/ i = Len(s) + 1
    BY <1>1
  <2> QED BY <1>2, <1>3, <2>1, <2>2 DEF Elements
<1>5. ASSUME NEW x \in Elements(s) \cup {e} PROVE x \in Elements(Append(s, e))
  <2>1. \A i \in 1..Len(s) : i \in 1..Len(Append(s, e))
    BY <1>1
  <2>2. Len(s) + 1 \in 1..Len(Append(s, e))
    BY <1>1
  <2> QED BY <1>2, <1>3, <2>1, <2>2 DEF Elements
<1> QED BY <1>3, <1>4, <1>5

\* What a step may add to the bundle: a checked event that is no second completion.
LEMMA AppendChecked ==
    ASSUME IInv, NEW e \in Events, pc = "agent",
           bundle' \in {bundle, Append(bundle, e)}, task' = task, pc' = pc,
           \A x \in Elements(bundle) \cup {e} : Checked(x)',
           e.type = "task.completed" => \A x \in Elements(bundle) : x.type # "task.completed"
    PROVE  /\ bundle' \in Seq(Events')
           /\ \A x \in Elements(bundle') : Checked(x)'
           /\ CompletedOnce'
           /\ (pc = "accepted" => ValidBundle)'
<1>1. bundle \in Seq(Events) /\ Events' = Events
  BY DEF IInv, TypeOK, Events
<1>2. Elements(bundle') \subseteq Elements(bundle) \cup {e} /\ bundle' \in Seq(Events)
  <2>1. CASE bundle' = bundle
    BY <1>1, <2>1
  <2>2. CASE bundle' = Append(bundle, e)
    <3>1. Elements(Append(bundle, e)) = Elements(bundle) \cup {e} /\ Append(bundle, e) \in Seq(Events)
      BY <1>1, ElementsOfAppend
    <3> QED BY <2>2, <3>1
  <2> QED BY <2>1, <2>2
<1>3. CompletedOnce'
  <2>1. CASE bundle' = bundle
    BY <2>1 DEF IInv, CompletedOnce
  <2>2. CASE bundle' = Append(bundle, e)
    <3>1. Len(bundle') = Len(bundle) + 1 /\ Len(bundle) \in Nat
      BY <1>1, <2>2
    <3>2. /\ \A i \in 1..Len(bundle) : bundle'[i] = bundle[i] /\ bundle[i] \in Elements(bundle)
          /\ bundle'[Len(bundle) + 1] = e
      BY <1>1, <2>2 DEF Elements
    <3>3. \A i \in 1..Len(bundle') : i \in 1..Len(bundle) \/ i = Len(bundle) + 1
      BY <3>1
    <3> QED BY <3>2, <3>3 DEF IInv, CompletedOnce
  <2> QED BY <2>1, <2>2
<1> QED BY <1>1, <1>2, <1>3
-----------------------------------------------------------------------------
\* What is checked stays so while the file does or is no longer trusted.
LEMMA CheckedStays ==
    ASSUME NEW e, Checked(e), task' = task, edited \subseteq edited',
           e.path # None /\ e.path \notin edited' => files'[e.path] = files[e.path]
    PROVE  Checked(e)'
<1>1. PhaseAllows(e)' /\ TaskCompleted' = TaskCompleted
  BY DEF Checked, PhaseAllows, TaskCompleted, Event
<1>2. e.path # None /\ e.path \notin edited' => FileSound(e)'
  BY DEF Checked, FileSound
<1> QED BY <1>1, <1>2 DEF Checked

\* The events that the commands make are checked by their guards.
LEMMA CheckedLeadCreated ==
    ASSUME IInv, NEW l \in Leads, NEW p \in Paths, task.phase \in {"recon", "investigate"},
           ~ Blank(files[p])
    PROVE  /\ LeadCreated(l, p) \in Events /\ Checked(LeadCreated(l, p))
           /\ LeadCreated(l, p).type # "task.completed" /\ LeadCreated(l, p).path # None
<1>1. LeadCreated(l, p) \in Events
  <2>1. /\ "lead.created" \in Types /\ l \in Objects /\ None \in Objects
        /\ p \in Paths \cup {None} /\ Content("none") \in Contents /\ "open" \in Notes
    BY ContentTypes DEF Notes, Types, Objects
  <2> QED BY <2>1, EventType DEF LeadCreated
<1> QED
  BY <1>1, SessionAssumption DEF LeadCreated, Event, Checked, PhaseAllows, FileSound

LEMMA CheckedFindingCreated ==
    ASSUME IInv, NEW f \in Findings, NEW l \in Leads \cup {None}, NEW p \in Paths,
           task.phase = "investigate", ~ Blank(files[p])
    PROVE  /\ FindingCreated(f, l, p) \in Events /\ Checked(FindingCreated(f, l, p))
           /\ FindingCreated(f, l, p).type # "task.completed"
           /\ FindingCreated(f, l, p).path # None
<1>1. FindingCreated(f, l, p) \in Events
  <2>1. /\ "finding.created" \in Types /\ f \in Objects /\ l \in Objects
        /\ p \in Paths \cup {None} /\ Content("none") \in Contents /\ "" \in Notes
    BY ContentTypes DEF Notes, Types, Objects
  <2> QED BY <2>1, EventType DEF FindingCreated
<1> QED
  BY <1>1, SessionAssumption DEF FindingCreated, Event, Checked, PhaseAllows, FileSound

LEMMA CheckedEvidenceAdded ==
    ASSUME IInv, NEW o \in Objects, NEW p \in Paths, NEW c \in Contents, NEW n \in Notes,
           OwnerAllowed(o), n = "Task handoff, checked" => ReadableAs(EvidenceAdded(o, p, c, n), c)
    PROVE  /\ EvidenceAdded(o, p, c, n) \in Events
           /\ ~ Blank(c) /\ files[p] = c => Checked(EvidenceAdded(o, p, c, n))
           /\ EvidenceAdded(o, p, c, n).type # "task.completed"
           /\ EvidenceAdded(o, p, c, n).path # None
<1>1. EvidenceAdded(o, p, c, n) \in Events
  BY EventType DEF EvidenceAdded, Types, Objects
<1>2. PhaseAllows(EvidenceAdded(o, p, c, n))
  BY SessionAssumption DEF EvidenceAdded, Event, PhaseAllows, OwnerAllowed, Objects
<1> QED
  BY <1>1, <1>2, SessionAssumption DEF EvidenceAdded, Event, Checked, FileSound
-----------------------------------------------------------------------------
\* The beginning of a command keeps the invariant if its event is checked.
LEMMA StartKeeps ==
    ASSUME IInv, NEW e \in Events, NEW p \in Paths, Checked(e), e.type # "task.completed",
           e.path # None, Start(e, p)
    PROVE  IInv'
<1>1. UNCHANGED <<task, snapshot, bundle, files, pc, edited, edits>> /\ pending' = pending \cup {e}
  BY DEF Start
<1>2. TypeOK'
  BY <1>1 DEF IInv, TypeOK, Events
<1>3. \A x \in Elements(bundle) \cup pending' : Checked(x)'
  BY <1>1, CheckedStays DEF IInv
<1>4. CompletedOnce' /\ (pc = "accepted" => ValidBundle)'
  BY <1>1 DEF IInv, Start, CompletedOnce
<1> QED BY <1>1, <1>2, <1>3, <1>4 DEF IInv

\* A written file is new, or is what it was.
LEMMA WriteKeeps ==
    ASSUME IInv, NEW o \in Objects, NEW p \in Paths, NEW c \in Contents, NEW n \in Notes,
           OwnerAllowed(o), ~ Blank(c),
           n = "Task handoff, checked" => ReadableAs(EvidenceAdded(o, p, c, n), c),
           WriteAndRegister(o, p, c, n)
    PROVE  IInv'
<1>0. PICK e : e = EvidenceAdded(o, p, c, n)
  OBVIOUS
<1>1. /\ UNCHANGED <<task, snapshot, pending, pc, edited, edits>>
      /\ pc = "agent"
      /\ files' = [files EXCEPT ![p] = c] /\ files[p] \in {Content("none"), c}
      /\ bundle' \in {bundle, Append(bundle, e)}
  BY <1>0 DEF WriteAndRegister, Recorded
<1>2. files \in [Paths -> Contents] /\ files' \in [Paths -> Contents] /\ files'[p] = c
  BY <1>1 DEF IInv, TypeOK
<1>3. e \in Events /\ e.type # "task.completed"
  BY <1>0, CheckedEvidenceAdded
<1>4. Checked(e)'
  <2>2. PhaseAllows(e)
    BY <1>0, SessionAssumption DEF EvidenceAdded, Event, PhaseAllows, OwnerAllowed, Objects
  <2> QED
    BY <1>0, <1>1, <1>2, <2>2, SessionAssumption
    DEF EvidenceAdded, Event, Checked, FileSound, PhaseAllows, Blank, ReadableAs
<1>5. \A x \in Elements(bundle) \cup pending : Checked(x)'
  <2> SUFFICES ASSUME NEW x \in Elements(bundle) \cup pending PROVE Checked(x)'
    OBVIOUS
  <2>1. Checked(x) /\ x \in Events
    <3>1. Checked(x) /\ bundle \in Seq(Events) /\ pending \subseteq Events
      BY DEF IInv, TypeOK
    <3>2. CASE x \in pending
      BY <3>1, <3>2
    <3>3. Elements(bundle) \subseteq Events
      BY <3>1, ElementsTyped
    <3> QED BY <3>1, <3>2, <3>3
  <2>2. CASE x.path = p /\ x.path \notin edited
    <3>1. ~ Blank(files[p])
      BY <2>1, <2>2, SessionAssumption DEF Checked, FileSound
    <3>2. files' = files
      BY <1>1, <1>2, <3>1, Blanks
    <3> QED BY <1>1, <2>1, <3>2, CheckedStays
  <2>3. CASE ~ (x.path = p /\ x.path \notin edited)
    <3>1. x.path # None /\ x.path \notin edited' => files'[x.path] = files[x.path]
      BY <1>1, <1>2, <2>1, <2>3 DEF Events
    <3> QED BY <1>1, <2>1, <3>1, CheckedStays
  <2> QED BY <2>2, <2>3
<1>6. /\ bundle' \in Seq(Events') /\ \A x \in Elements(bundle') : Checked(x)'
      /\ CompletedOnce' /\ (pc = "accepted" => ValidBundle)'
  <2>1. \A x \in Elements(bundle) \cup {e} : Checked(x)'
    BY <1>4, <1>5
  <2> QED BY <1>1, <1>3, <2>1, AppendChecked
<1>7. TypeOK'
  BY <1>1, <1>2, <1>6 DEF IInv, TypeOK, Events
<1> QED BY <1>1, <1>5, <1>6, <1>7 DEF IInv

\* So does a command that records e and touches no file.
LEMMA RecordKeeps ==
    ASSUME IInv, NEW e \in Events, pc = "agent", Checked(e),
           e.type = "task.completed" => \A x \in Elements(bundle) : x.type # "task.completed",
           bundle' \in {bundle, Append(bundle, e)}, pending' \subseteq pending,
           UNCHANGED <<task, snapshot, files, pc, edited, edits>>
    PROVE  IInv'
<1>1. \A x \in Elements(bundle) \cup {e} \cup pending : Checked(x)'
  BY CheckedStays DEF IInv
<1>2. /\ bundle' \in Seq(Events') /\ \A x \in Elements(bundle') : Checked(x)'
      /\ CompletedOnce' /\ (pc = "accepted" => ValidBundle)'
  BY <1>1, AppendChecked
<1>3. TypeOK'
  BY <1>2 DEF IInv, TypeOK, Events
<1> QED BY <1>1, <1>2, <1>3 DEF IInv
-----------------------------------------------------------------------------
THEOREM InitIInv == Init => IInv
<1> SUFFICES ASSUME Init PROVE IInv
  OBVIOUS
<1> DEFINE log == EvidenceAdded(None, SetupPath, Content("text"), "Setup hook log")
<1>1. log \in Events
  <2>1. /\ "evidence.added" \in Types /\ None \in Objects /\ SetupPath \in Paths \cup {None}
        /\ Content("text") \in Contents /\ "Setup hook log" \in Notes
    BY SessionAssumption, ContentTypes DEF Notes, Types, Objects
  <2> QED BY <2>1, EventType DEF EvidenceAdded
<1>2. bundle = <<>> \/ bundle = <<log>>
  BY DEF Init
<1>3. Elements(bundle) \subseteq {log} /\ bundle \in Seq(Events) /\ (Len(bundle) = 0 \/ Len(bundle) = 1)
  <2>1. CASE bundle = <<>>
    BY <2>1 DEF Elements
  <2>2. CASE bundle = <<log>>
    <3> HIDE DEF log
    <3>1. Len(bundle) = 1 /\ bundle[1] = log /\ bundle \in Seq(Events)
      BY <1>1, <2>2
    <3> QED BY <3>1 DEF Elements
  <2> QED BY <1>2, <2>1, <2>2
<1>4. TypeOK
  <2>1. files \in [Paths -> Contents]
    BY ContentTypes DEF Init
  <2>2. \E s \in Sessions : task = s.task /\ snapshot = s.snapshot
    BY DEF Init
  <2>3. pending = {} /\ pc = "agent" /\ edited = {} /\ edits = 0
    BY DEF Init
  <2>4. 0 \in 0..MaxEdits
    BY SessionAssumption
  <2> HIDE DEF log
  <2> QED BY <1>3, <2>1, <2>2, <2>3, <2>4 DEF TypeOK
<1>5. ASSUME bundle = <<log>> PROVE Checked(log)
  <2>1. files[SetupPath] = Content("text")
    BY <1>5, SessionAssumption DEF Init
  <2> QED
    BY <2>1, Blanks, SessionAssumption
    DEF Checked, PhaseAllows, FileSound, EvidenceAdded, Event
<1>6. \A e \in Elements(bundle) : Checked(e)
  <2>1. bundle = <<>> => Elements(bundle) = {}
    BY DEF Elements
  <2> HIDE DEF log
  <2> QED BY <1>2, <1>3, <1>5, <2>1
<1>7. CompletedOnce
  <2> HIDE DEF log
  <2>1. PICK n : n = Len(bundle) /\ (n = 0 \/ n = 1)
    BY <1>3
  <2>2. \A i, k \in 1..n : i = k
    BY <2>1
  <2> QED BY <2>1, <2>2 DEF CompletedOnce
<1> QED BY <1>4, <1>6, <1>7 DEF IInv, Init

\* Every action of the agent keeps the invariant.
LEMMA EditKeeps ==
    ASSUME IInv, NEW p \in Paths, NEW c \in Texts, Edit(p, c)
    PROVE  IInv'
<1>1. TypeOK'
  BY SessionAssumption DEF IInv, TypeOK, Edit, Events
<1>2. \A x \in Elements(bundle) \cup pending : Checked(x)'
  <2> SUFFICES ASSUME NEW x \in Elements(bundle) \cup pending PROVE Checked(x)'
    OBVIOUS
  <2>1. Checked(x)
    BY DEF IInv
  <2>2. x.path = p => p \in edited'
    BY DEF Edit, Named
  <2>3. x.path # None /\ x.path \notin edited' => files'[x.path] = files[x.path]
    <3>1. x \in Events
      BY ElementsTyped DEF IInv, TypeOK
    <3> QED BY <2>2, <3>1 DEF IInv, TypeOK, Edit, Events
  <2> QED BY <2>1, <2>3, CheckedStays DEF Edit
<1>3. CompletedOnce' /\ pc' = "agent"
  BY DEF Edit, IInv, CompletedOnce
<1> QED BY <1>1, <1>2, <1>3 DEF Edit, IInv

LEMMA CommandKeeps ==
    ASSUME IInv, NEW p \in Paths, Commands(p)
    PROVE  IInv'
<1>1. ASSUME NEW l \in Leads, LeadCreate(l, p) PROVE IInv'
  <2>1. PICK e : e = LeadCreated(l, p)
    OBVIOUS
  <2>2. e \in Events /\ Checked(e) /\ e.type # "task.completed" /\ e.path # None
    BY <1>1, <2>1, CheckedLeadCreated DEF LeadCreate, Start
  <2> QED BY <1>1, <2>1, <2>2, StartKeeps DEF LeadCreate
<1>2. ASSUME NEW f \in Findings, NEW l \in Leads \cup {None}, FindingCreate(f, l, p) PROVE IInv'
  <2>1. PICK e : e = FindingCreated(f, l, p)
    OBVIOUS
  <2>2. e \in Events /\ Checked(e) /\ e.type # "task.completed" /\ e.path # None
    BY <1>2, <2>1, CheckedFindingCreated DEF FindingCreate, Start
  <2> QED BY <1>2, <2>1, <2>2, StartKeeps DEF FindingCreate
<1>3. ASSUME NEW o \in Objects, NEW n \in Titles, EvidenceAdd(o, p, n) PROVE IInv'
  <2>1. PICK e : e = EvidenceAdded(o, p, files[p], n)
    OBVIOUS
  <2>2. PICK c \in Contents : c = files[p]
    BY DEF IInv, TypeOK
  <2>3. n \in Notes /\ n # "Task handoff, checked"
    BY DEF Notes, Titles
  <2>4. e \in Events /\ Checked(e) /\ e.type # "task.completed" /\ e.path # None
    BY <1>3, <2>1, <2>2, <2>3, CheckedEvidenceAdded DEF EvidenceAdd, Start
  <2> QED BY <1>3, <2>1, <2>4, StartKeeps DEF EvidenceAdd
<1>4. ASSUME NEW o \in Objects, NEW n \in Titles, NEW c \in Texts, EvidenceWrite(o, p, c, n)
      PROVE  IInv'
  <2>1. n \in Notes /\ n # "Task handoff, checked" /\ c \in Contents
    BY SessionAssumption DEF Notes, Titles
  <2> QED BY <1>4, <2>1, WriteKeeps DEF EvidenceWrite
<1>5. ASSUME NEW o \in Objects, NEW n \in HandoffTitles, HandoffWrite(o, p, n) PROVE IInv'
  <2>1. n \in Notes /\ HandoffFor(o) \in Contents /\ ~ Blank(HandoffFor(o))
    BY Blanks, ContentTypes DEF Notes, HandoffTitles
  <2>2. OwnerAllowed(o)
    BY <1>5, SessionAssumption DEF HandoffWrite, HandoffOwner, OwnerAllowed, Objects
  <2>3. ReadableAs(EvidenceAdded(o, p, HandoffFor(o), n), HandoffFor(o))
    BY DEF ReadableAs, EvidenceAdded, Event, HandoffFor
  <2> QED BY <1>5, <2>1, <2>2, <2>3, WriteKeeps DEF HandoffWrite
<1> QED BY <1>1, <1>2, <1>3, <1>4, <1>5 DEF Commands

LEMMA FinishKeeps ==
    ASSUME IInv, NEW e \in pending, Finish(e)
    PROVE  IInv'
<1>1. e \in Events /\ Checked(e) /\ e.type # "task.completed"
  BY DEF IInv, TypeOK
<1>2. bundle' \in {bundle, Append(bundle, e)}
  BY DEF Finish, Recorded
<1> QED BY <1>1, <1>2, RecordKeeps DEF Finish

LEMMA LeadCloseKeeps ==
    ASSUME IInv, NEW l \in Leads,
           NEW n \in Statuses,
           LeadClose(l, n)
    PROVE  IInv'
<1>1. PICK e : e = LeadClosed(l, n)
  OBVIOUS
<1>2. e \in Events
  <2>1. /\ "lead.closed" \in Types /\ l \in Objects /\ None \in Objects
        /\ None \in Paths \cup {None} /\ Content("none") \in Contents /\ n \in Notes
    BY ContentTypes DEF Notes, Types, Objects
  <2> QED BY <1>1, <2>1, EventType DEF LeadClosed
<1>3. Checked(e) /\ e.type # "task.completed"
  BY <1>1 DEF LeadClose, LeadClosed, Event, Checked, PhaseAllows, Statuses
<1> QED BY <1>1, <1>2, <1>3, RecordKeeps DEF LeadClose

LEMMA VerdictRecordKeeps ==
    ASSUME IInv, NEW f \in Findings, NEW v, VerdictRecord(f, v)
    PROVE  IInv'
<1>1. PICK e : e = VerdictRecorded(f, v)
  OBVIOUS
<1>2. v \in Notes /\ v \in Values[task.phase] /\ v # "Task handoff, checked"
  <2>1. task.phase \in {"review", "deduplicate", "validate"}
    BY DEF VerdictRecord, Values
  <2>2. v \in Values[task.phase]
    BY DEF VerdictRecord
  <2>3. v \in UNION {Values[x] : x \in DOMAIN Values}
    <3>1. task.phase \in DOMAIN Values
      BY DEF VerdictRecord
    <3> QED BY <2>2, <3>1
  <2>4. v \in {"accepted", "rejected", "canonical", "proven", "failed", "inconclusive"}
    <3>1. /\ Values["review"] = {"accepted", "rejected"}
          /\ Values["deduplicate"] = {"canonical"}
          /\ Values["validate"] = {"proven", "failed", "inconclusive"}
      BY DEF Values
    <3> QED BY <2>1, <2>2, <3>1
  <2> QED BY <2>2, <2>3, <2>4 DEF Notes
<1>3. e \in Events
  <2>1. /\ "verdict.recorded" \in Types /\ f \in Objects /\ None \in Objects
        /\ None \in Paths \cup {None} /\ Content("none") \in Contents
    BY ContentTypes DEF Types, Objects
  <2> QED BY <1>1, <1>2, <2>1, EventType DEF VerdictRecorded
<1>4. Checked(e) /\ e.type # "task.completed"
  <2> QED BY <1>1, <1>2 DEF VerdictRecorded, Event, Checked, PhaseAllows
<1> QED BY <1>1, <1>3, <1>4, RecordKeeps DEF VerdictRecord

LEMMA TaskCompleteKeeps ==
    ASSUME IInv, TaskComplete
    PROVE  IInv'
<1>1. PICK e : e = TaskCompleted
  OBVIOUS
<1>2. e \in Events
  <2>1. /\ "task.completed" \in Types /\ None \in Objects
        /\ None \in Paths \cup {None} /\ Content("none") \in Contents /\ "" \in Notes
    BY ContentTypes DEF Notes, Types, Objects
  <2> QED BY <1>1, <2>1, EventType DEF TaskCompleted
<1>3. Checked(e)
  BY <1>1 DEF TaskCompleted, Event, Checked, PhaseAllows
<1>4. \A x \in Elements(bundle) : x.type # "task.completed"
  BY DEF IInv, Checked, TaskComplete
<1> QED BY <1>1, <1>2, <1>3, <1>4, RecordKeeps DEF TaskComplete

LEMMA SubmitKeeps ==
    ASSUME IInv, Submit
    PROVE  IInv'
<1>1. TypeOK'
  BY DEF IInv, TypeOK, Submit, Events
<1>2. \A x \in Elements(bundle) : Checked(x)'
  BY CheckedStays DEF IInv, Submit
<1>3. CompletedOnce'
  BY DEF IInv, CompletedOnce, Submit
<1>4. pc' = "accepted" => ValidBundle'
  BY DEF Submit, ValidBundle, PhaseAllows, FileSound
<1> QED BY <1>1, <1>2, <1>3, <1>4 DEF IInv, Submit

\* Every step keeps the invariant.
THEOREM StepIInv == IInv /\ [Next]_vars => IInv'
<1> SUFFICES ASSUME IInv, [Next]_vars PROVE IInv'
  OBVIOUS
<1>1. ASSUME NEW p \in Paths, Commands(p) PROVE IInv'
  BY <1>1, CommandKeeps
<1>2. ASSUME NEW p \in Paths, NEW c \in Texts, Edit(p, c) PROVE IInv'
  BY <1>2, EditKeeps
<1>3. ASSUME NEW e \in pending, Finish(e) PROVE IInv'
  BY <1>3, FinishKeeps
<1>4. ASSUME NEW l \in Leads,
             NEW n \in Statuses,
             LeadClose(l, n)
      PROVE  IInv'
  BY <1>4, LeadCloseKeeps
<1>5. ASSUME NEW f \in Findings, NEW v, VerdictRecord(f, v) PROVE IInv'
  BY <1>5, VerdictRecordKeeps
<1>6. CASE TaskComplete
  BY <1>6, TaskCompleteKeeps
<1>7. CASE Submit
  BY <1>7, SubmitKeeps
<1>8. CASE UNCHANGED vars
  <2>1. \A x \in Elements(bundle) \cup pending : Checked(x)'
    BY <1>8, CheckedStays DEF IInv, vars
  <2>2. TypeOK' /\ CompletedOnce' /\ (pc = "accepted" => ValidBundle)'
    BY <1>8 DEF vars, IInv, TypeOK, Events, CompletedOnce, ValidBundle, PhaseAllows, FileSound
  <2> QED BY <1>8, <2>1, <2>2 DEF IInv, vars
<1> QED BY <1>1, <1>2, <1>3, <1>4, <1>5, <1>6, <1>7, <1>8 DEF Next

\* The inductive invariant holds in every reachable state.
THEOREM Inductive == Spec => []IInv
BY InitIInv, StepIInv, PTL DEF Spec
-----------------------------------------------------------------------------
\* Every variable of a session keeps its type.
THEOREM TypeCorrect == Spec => []TypeOK
<1>1. IInv => TypeOK
  BY DEF IInv
<1> QED BY <1>1, Inductive, PTL

\* The commands record nothing that the host refuses, unless the agent edits a
\* file that a command has read, or goes on after its task complete.
THEOREM CommandsAgree == Spec => []CommandsObeyHost
<1>1. IInv => CommandsObeyHost
  <2> SUFFICES ASSUME IInv, edited = {}, bundle # <<>>,
                      bundle[Len(bundle)].type = "task.completed"
               PROVE  ValidBundle
    BY DEF IInv, CompletedOnce, CommandsObeyHost
  <2>1. bundle \in Seq(Events) /\ Len(bundle) \in Nat /\ Len(bundle) \in 1..Len(bundle)
    BY DEF IInv, TypeOK
  <2> SUFFICES ASSUME NEW i \in 1..Len(bundle)
               PROVE  /\ bundle[i].task = task /\ PhaseAllows(bundle[i]) /\ FileSound(bundle[i])
                      /\ bundle[i].type = "task.completed" <=> i = Len(bundle)
    BY DEF ValidBundle
  <2>2. Checked(bundle[i]) /\ bundle[i] \in Events
    BY <2>1 DEF IInv, Elements
  <2>3. FileSound(bundle[i])
    BY <2>2 DEF Checked, FileSound
  <2> QED BY <2>1, <2>2, <2>3 DEF IInv, CompletedOnce, Checked, Events
<1> QED BY <1>1, Inductive, PTL

\* A handoff that a command has checked is one when the host accepts the bundle.
THEOREM CheckedHandoffs == Spec => []HandoffsReadable
<1>1. IInv => HandoffsReadable
  <2> SUFFICES ASSUME IInv, pc = "accepted", NEW e \in Elements(bundle),
                      e.note = "Task handoff, checked"
               PROVE  ReadableAs(e, files[e.path])
    BY DEF HandoffsReadable
  <2>1. e.type = "evidence.added" /\ ReadableAs(e, e.digest)
    BY DEF IInv, Checked
  <2>2. FileSound(e)
    BY DEF IInv, ValidBundle, Elements
  <2> QED BY <2>1, <2>2 DEF FileSound
<1> QED BY <1>1, Inductive, PTL
=============================================================================
