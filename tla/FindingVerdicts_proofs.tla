----------------------- MODULE FindingVerdicts_proofs -----------------------
(***************************************************************************)
(* Proofs about FindingVerdicts, for any findings, workers, calls and      *)
(* failures.  A ledger only grows by whole bundles, each of a task that    *)
(* had recorded nothing; so the complete verdicts of a ledger are those of *)
(* its bundles, and what is read from it changes by one bundle at a time.  *)
(* All of it is for any choice of the tasks whose agents also judge the    *)
(* findings of other tasks.                                                *)
(***************************************************************************)
EXTENDS FindingVerdicts, SequenceTheorems, FiniteSetTheorems, TLAPS

\* The complete verdicts of the events s.
Complete(s) == {i \in 1..Len(s) : VerdictComplete(s, i)}

Same(e, g) == e.task.phase = g.task.phase /\ e.finding = g.finding

\* A phase has one complete verdict on a finding.
Unique(s) == \A i, k \in Complete(s) : Same(s[i], s[k]) => i = k

\* Every event is followed by the completion of its task, or is one.
Whole(s) == \A i \in 1..Len(s) : s[i] = Completion(s[i].task) \/ CompletedAfter(s, s[i].task, i)

\* A verdict as the commands let it be.
Legal(e) ==
    /\ e.task.phase \in Phases
    /\ e.task.phase = "review" => e.value \in {"accepted", "rejected"} /\ e.canonical = None
    /\ e.task.phase = "validate" =>
          e.value \in {"proven", "failed", "inconclusive"} /\ e.canonical = None
    /\ e.task.phase = "deduplicate" =>
          /\ e.value \in {"canonical", "duplicate"}
          /\ e.value = "duplicate" <=> e.canonical # None

\* A part of a bundle of t with verdicts on the findings of F, one on each.
Piece(p, t, F) ==
    /\ p \in Seq(LedgerEvents)
    /\ \A k \in 1..Len(p) :
          /\ p[k].task = t
          /\ p[k].type = "verdict" => p[k].finding \in F /\ Legal(p[k])
    /\ \A k, l \in 1..Len(p) :
          /\ p[k].type = "verdict" /\ p[l].type = "verdict" /\ p[k].finding = p[l].finding
          => k = l

\* No two tasks of a phase have notes on the same thing, one in s, one in b.
Apart(s, b) ==
    \A i \in 1..Len(s), j \in 1..Len(b) :
        s[i].type = "evidence" /\ b[j].type = "evidence" => ~ Same(s[i], b[j])

\* A whole bundle.
BundleOf(b, t, F) == Piece(b, t, F) /\ Len(b) > 0 /\ b[Len(b)] = Completion(t)

\* What the ledger reads.
V == Verdicts(events)

\* The ledger is made of bundles, with notes that only one task has.
Recorded ==
    /\ Whole(events) /\ Unique(events)
    /\ \A i \in 1..Len(events) :
          /\ events[i].type = "verdict" => Legal(events[i])
          /\ events[i].type = "evidence" =>
                /\ events[i].task.phase \in Phases
                /\ notes[<<events[i].task.phase, events[i].finding>>] = events[i].task

\* What is judged of one finding fits together with what is judged of others.
Settled(v) ==
    \A f \in Findings :
        /\ Value(v, "deduplicate", f) # "none" => f \in Accepted(v)
        /\ Value(v, "validate", f) # "none" =>
              Value(v, "review", f) = "rejected" \/ Value(v, "deduplicate", f) # "none"
        /\ LET c == v["deduplicate"][f].canonical
           IN  c # None => c \in Findings /\ Value(v, "deduplicate", c) = "canonical"

\* A validation that is read has its proof or its blocker, if its own task made it.
Supported(s, v) ==
    \A f \in Findings :
        LET ruling == v["validate"][f]
        IN  ruling.value # "none" /\ ruling.task = Task("validate", f) =>
               Backed(s, ruling, ruling.task)

Active == todo \cup {r[1] : r \in running}

\* The tasks that are left are of the phase, and while none has failed they are
\* all that is pending.
Working ==
    /\ \A t \in Active : t.phase = pc
    /\ ~ failed => Pending(pc) \subseteq Active

\* A phase begins when the ones before it have nothing pending.
Reached ==
    /\ pc \in {"deduplicate", "validate", "finalize"} => Unreviewed(V) = {}
    /\ pc \in {"validate", "finalize"} => Undeduplicated(V) = {}
    /\ pc = "finalize" => Unvalidated(V) = {}

\* Nothing is left to do after the report.
Decided ==
    TaskCompleted(events, Finalize) =>
        /\ Unreviewed(V) = {} /\ Undeduplicated(V) = {} /\ Unvalidated(V) = {}
        /\ Active \subseteq {Finalize}
        /\ report = [f \in Findings |-> Bucket(V, f)]

IInv ==
    TypeOK /\ Recorded /\ Settled(V) /\ Supported(events, V) /\ Working /\ Reached /\ Decided
-----------------------------------------------------------------------------
(* Bundles.                                                                *)

\* The events of the constructors.
LEMMA EventTypes ==
    ASSUME NEW t \in Tasks, NEW f \in Findings \cup {None}
    PROVE  /\ Evidence(t, f) \in LedgerEvents /\ ProofEvent(t, f) \in LedgerEvents
           /\ Completion(t) \in LedgerEvents
           /\ \A blocked \in BOOLEAN : Handoff(t, blocked) \in LedgerEvents
           /\ \A v \in {"accepted", "rejected", "canonical", "duplicate", "proven", "failed",
                        "inconclusive"}, c \in Findings \cup {None} :
                 VerdictEvent(t, f, v, c) \in LedgerEvents
<1>1. t.finding \in Findings \cup {None}
  BY DEF Tasks, Task, Deduplicate, Finalize
<1>2. QED
  BY <1>1 DEF Evidence, ProofEvent, Completion, Handoff, VerdictEvent, LedgerEvents

LEMMA NoPiece == ASSUME NEW t PROVE Piece(<<>>, t, {})
BY EmptySeq DEF Piece

\* A part of one event.
LEMMA OnePiece ==
    ASSUME NEW e \in LedgerEvents, NEW F,
           e.type = "verdict" => e.finding \in F /\ Legal(e)
    PROVE  Piece(<<e>>, e.task, F) /\ Len(<<e>>) = 1 /\ <<e>>[1] = e
BY DEF Piece

\* Two parts on different findings make one.
LEMMA TwoPieces ==
    ASSUME NEW p, NEW q, NEW t, NEW F, NEW G, Piece(p, t, F), Piece(q, t, G), F \cap G = {}
    PROVE  Piece(p \o q, t, F \cup G)
<1> DEFINE d == p \o q
<1>1. /\ d \in Seq(LedgerEvents) /\ Len(d) = Len(p) + Len(q)
      /\ \A i \in 1..Len(p) + Len(q) : d[i] = IF i <= Len(p) THEN p[i] ELSE q[i - Len(p)]
  BY ConcatProperties DEF Piece
<1>2. Len(p) \in Nat /\ Len(q) \in Nat
  BY LenProperties DEF Piece
<1> HIDE DEF d
<1>3. \A i \in 1..Len(d) : \/ i \in 1..Len(p) /\ d[i] = p[i]
                           \/ i - Len(p) \in 1..Len(q) /\ d[i] = q[i - Len(p)]
  BY <1>1, <1>2
<1>4. ASSUME NEW k \in 1..Len(d)
      PROVE  d[k].task = t /\ (d[k].type = "verdict" => d[k].finding \in F \cup G /\ Legal(d[k]))
  BY <1>3, <1>4 DEF Piece
<1>5. ASSUME NEW k \in 1..Len(d), NEW l \in 1..Len(d),
             d[k].type = "verdict", d[l].type = "verdict", d[k].finding = d[l].finding
      PROVE  k = l
  <2>1. CASE k \in 1..Len(p) /\ d[k] = p[k] /\ l \in 1..Len(p) /\ d[l] = p[l]
    BY <1>5, <2>1 DEF Piece
  <2>2. CASE /\ k - Len(p) \in 1..Len(q) /\ d[k] = q[k - Len(p)]
             /\ l - Len(p) \in 1..Len(q) /\ d[l] = q[l - Len(p)]
    <3>1. k - Len(p) = l - Len(p)
      BY <1>5, <2>2 DEF Piece
    <3>2. QED
      BY <3>1, <1>2
  <2>3. CASE /\ k \in 1..Len(p) /\ d[k] = p[k]
             /\ l - Len(p) \in 1..Len(q) /\ d[l] = q[l - Len(p)]
    BY <1>5, <2>3 DEF Piece
  <2>4. CASE /\ l \in 1..Len(p) /\ d[l] = p[l]
             /\ k - Len(p) \in 1..Len(q) /\ d[k] = q[k - Len(p)]
    BY <1>5, <2>4 DEF Piece
  <2>5. QED
    BY <1>3, <2>1, <2>2, <2>3, <2>4
<1>6. QED
  BY <1>1, <1>4, <1>5 DEF Piece, d

\* Events that are no verdicts.
LEMMA OtherPieces ==
    ASSUME NEW t \in Tasks, NEW f \in Findings \cup {None}
    PROVE  /\ Piece(<<Evidence(t, f)>>, t, {})
           /\ Piece(<<ProofEvent(t, f)>>, t, {})
           /\ Piece(<<Completion(t)>>, t, {})
           /\ \A h \in Handoffs(t) : Piece(h, t, {})
<1>1. ASSUME NEW e \in LedgerEvents, e.task = t, e.type # "verdict" PROVE Piece(<<e>>, t, {})
  BY <1>1, OnePiece
<1>2. /\ Evidence(t, f).task = t /\ Evidence(t, f).type # "verdict"
      /\ ProofEvent(t, f).task = t /\ ProofEvent(t, f).type # "verdict"
      /\ Completion(t).task = t /\ Completion(t).type # "verdict"
      /\ \A blocked \in BOOLEAN : Handoff(t, blocked).task = t /\ Handoff(t, blocked).type # "verdict"
  BY DEF Evidence, ProofEvent, Completion, Handoff
<1>3. \A blocked \in BOOLEAN : Piece(<<Handoff(t, blocked)>>, t, {})
  BY <1>1, <1>2, EventTypes
<1>4. \A h \in Handoffs(t) : Piece(h, t, {})
  BY <1>3, NoPiece DEF Handoffs
<1>5. QED
  BY <1>1, <1>2, <1>4, EventTypes

LEMMA PairConcat == ASSUME NEW a, NEW c PROVE <<a>> \o <<c>> = <<a, c>>
<1> DEFINE S == {a, c}
<1>1. <<a>> \in Seq(S) /\ <<c>> \in Seq(S) /\ <<a, c>> \in Seq(S)
  OBVIOUS
<1>2. Len(<<a>>) = 1 /\ Len(<<c>>) = 1 /\ Len(<<a, c>>) = 2
      /\ <<a>>[1] = a /\ <<c>>[1] = c /\ <<a, c>>[1] = a /\ <<a, c>>[2] = c
  OBVIOUS
<1> HIDE DEF S
<1>3. PICK p, q : p = <<a>> /\ q = <<c>>
  OBVIOUS
<1>4. p \in Seq(S) /\ q \in Seq(S) /\ Len(p) = 1 /\ Len(q) = 1 /\ p[1] = a /\ q[1] = c
  BY <1>1, <1>2, <1>3
<1>5. /\ p \o q \in Seq(S) /\ Len(p \o q) = Len(p) + Len(q)
      /\ \A i \in 1..Len(p) + Len(q) : (p \o q)[i] = IF i <= Len(p) THEN p[i] ELSE q[i - Len(p)]
  BY <1>4, ConcatProperties
<1>6. Len(p \o q) = 2 /\ (p \o q)[1] = a /\ (p \o q)[2] = c
  BY <1>4, <1>5
<1>7. \A i \in 1..Len(p \o q) : (p \o q)[i] = <<a, c>>[i]
  BY <1>2, <1>6
<1>8. p \o q = <<a, c>>
  BY <1>1, <1>2, <1>5, <1>6, <1>7, SeqEqual
<1>9. QED
  BY <1>3, <1>8

\* What a reviewer or a validator records of one finding.
LEMMA PartsPiece ==
    ASSUME NEW t \in Tasks, t.phase \in {"review", "validate"}, NEW f \in Findings,
           NEW p \in Parts(t, f)
    PROVE  Piece(p, t, {f})
<1> DEFINE note == <<Evidence(t, f)>>
           proof == <<ProofEvent(t, f)>>
<1>1. Piece(note, t, {}) /\ Piece(proof, t, {}) /\ Piece(<<>>, t, {})
  BY OtherPieces, NoPiece
<1>2. \A q : Piece(q, t, {}) => Piece(q, t, {f})
  BY DEF Piece
<1>3. CASE p = note
  BY <1>1, <1>2, <1>3
<1>4. ASSUME NEW v \in Values(t.phase), p \in Verdict(t, f, v)
      PROVE  Piece(p, t, {f})
  <2> DEFINE e == VerdictEvent(t, f, v, None)
             ruling == <<e>>
  <2>1. Piece(ruling, t, {f})
    <3>1. v \in {"accepted", "rejected", "proven", "failed", "inconclusive"}
          /\ (t.phase = "review" => v \in {"accepted", "rejected"})
          /\ (t.phase = "validate" => v \in {"proven", "failed", "inconclusive"})
      BY VerdictsAssumption DEF Values
    <3>2. e \in LedgerEvents
      BY <3>1, EventTypes
    <3>3. e.task = t /\ e.finding = f /\ Legal(e)
      BY <3>1 DEF VerdictEvent, Legal, Phases
    <3>4. QED
      BY <3>2, <3>3, OnePiece
  <2> HIDE DEF e
  <2>2. Piece(note \o ruling, t, {f}) /\ Piece(ruling \o note, t, {f})
    <3>1. {} \cup {f} = {f} /\ {f} \cup {} = {f} /\ {} \cap {f} = {} /\ {f} \cap {} = {}
      OBVIOUS
    <3> HIDE DEF note, ruling
    <3>2. Piece(note \o ruling, t, {} \cup {f}) /\ Piece(ruling \o note, t, {f} \cup {})
      BY <1>1, <2>1, <3>1, TwoPieces
    <3>3. QED
      BY <3>1, <3>2
  <2>3. note \o ruling = <<Evidence(t, f), e>> /\ ruling \o note = <<e, Evidence(t, f)>>
    BY PairConcat
  <2> DEFINE unproved == {<<Evidence(t, f), e>>, <<e, Evidence(t, f)>>, <<e>>}
  <2>4. p \in unproved \/ \E q \in unproved : p = proof \o q
    BY <1>4 DEF Verdict, e
  <2>5. \A q \in unproved : Piece(q, t, {f})
    BY <2>1, <2>2, <2>3
  <2> HIDE DEF unproved, proof
  <2>6. \A q \in unproved : Piece(proof \o q, t, {} \cup {f})
    BY <1>1, <2>5, TwoPieces
  <2>7. QED
    BY <2>4, <2>5, <2>6
<1>5. QED
  BY <1>3, <1>4 DEF Parts

\* A set of findings put in order.
LEMMA OrderOf ==
    ASSUME NEW S, IsFiniteSet(S)
    PROVE  LET order == SetToSeq(S)
           IN  /\ order \in Seq(S)
               /\ \A i, k \in 1..Len(order) : order[i] = order[k] => i = k
<1> DEFINE n == Cardinality(S)
<1>1. n \in Nat /\ ExistsBijection(1..n, S)
  BY FS_CardinalityType
<1>2. \E f \in [1..n -> S] : IsInjective(f)
  BY <1>1 DEF ExistsBijection, Bijection, Injection, IsInjective
<1>3. SetToSeq(S) \in [1..n -> S] /\ IsInjective(SetToSeq(S))
  BY <1>2 DEF SetToSeq
<1>4. QED
  BY <1>1, <1>3 DEF IsInjective

\* The verdicts of a deduplication.
LEMMA DedupPiece ==
    ASSUME NEW S \in SUBSET Findings, NEW C \in SUBSET Findings, NEW canon \in [S -> C]
    PROVE  Piece(DedupEvents(canon), Deduplicate, S)
<1>1. IsFiniteSet(S)
  BY FS_Subset, VerdictsAssumption
<1>2. PICK order : order = SetToSeq(S)
  OBVIOUS
<1>3. order \in Seq(S) /\ \A i, k \in 1..Len(order) : order[i] = order[k] => i = k
  BY <1>1, <1>2, OrderOf
<1>4. Deduplicate \in Tasks /\ Deduplicate.phase = "deduplicate"
  BY DEF Tasks, Deduplicate, Task
<1>5. \A f \in S : LET e == DedupVerdict(f, canon[f])
                   IN  /\ e \in LedgerEvents /\ e.task = Deduplicate /\ e.finding = f
                       /\ e.type = "verdict" /\ Legal(e)
  <2> SUFFICES ASSUME NEW f \in S
               PROVE  LET e == DedupVerdict(f, canon[f])
                      IN  /\ e \in LedgerEvents /\ e.task = Deduplicate /\ e.finding = f
                          /\ e.type = "verdict" /\ Legal(e)
    OBVIOUS
  <2>1. canon[f] \in Findings /\ f \in Findings
    OBVIOUS
  <2>2. DedupVerdict(f, canon[f]) \in LedgerEvents
    BY <1>4, <2>1, EventTypes DEF DedupVerdict
  <2>3. QED
    BY <1>4, <2>1, <2>2, VerdictsAssumption DEF DedupVerdict, VerdictEvent, Legal, Phases
<1>6. PICK d : d = DedupEvents(canon)
  OBVIOUS
<1>7. d = [i \in 1..Len(order) |-> DedupVerdict(order[i], canon[order[i]])]
  BY <1>2, <1>6 DEF DedupEvents
<1>8. Len(order) \in Nat /\ \A i \in 1..Len(order) : order[i] \in S
  BY <1>3, LenProperties, ElementOfSeq
<1>9. d \in Seq(LedgerEvents) /\ Len(d) = Len(order)
      /\ \A i \in 1..Len(d) : d[i] = DedupVerdict(order[i], canon[order[i]])
  BY <1>5, <1>7, <1>8
<1>10. QED
  BY <1>3, <1>5, <1>6, <1>8, <1>9 DEF Piece

\* A part followed by the completion is a bundle.
LEMMA Completed ==
    ASSUME NEW t \in Tasks, NEW F, NEW p, Piece(p, t, F)
    PROVE  BundleOf(p \o <<Completion(t)>>, t, F)
<1>1. PICK e : e = Completion(t)
  OBVIOUS
<1>2. e \in LedgerEvents /\ Piece(<<e>>, t, {}) /\ Len(<<e>>) = 1 /\ <<e>>[1] = e
  <2>1. \E f \in Findings \cup {None} : TRUE
    OBVIOUS
  <2>2. QED
    BY <1>1, <2>1, EventTypes, OtherPieces
<1>3. PICK q : q = <<e>>
  OBVIOUS
<1>4. Piece(p \o q, t, F \cup {})
  BY <1>2, <1>3, TwoPieces
<1>5. p \in Seq(LedgerEvents) /\ q \in Seq(LedgerEvents) /\ Len(q) = 1 /\ q[1] = e
  BY <1>2, <1>3 DEF Piece
<1>6. /\ Len(p) \in Nat /\ Len(p \o q) = Len(p) + Len(q)
      /\ \A i \in 1..Len(p) + Len(q) : (p \o q)[i] = IF i <= Len(p) THEN p[i] ELSE q[i - Len(p)]
  BY <1>5, ConcatProperties, LenProperties
<1>7. Len(p \o q) > 0 /\ (p \o q)[Len(p \o q)] = e
  BY <1>5, <1>6
<1>8. F \cup {} = F
  OBVIOUS
<1>9. QED
  BY <1>1, <1>3, <1>4, <1>7, <1>8 DEF BundleOf

\* What is in a bundle of each phase.
LEMMA BundleShape ==
    ASSUME NEW t \in Tasks, NEW judged, NEW b \in Bundles(t, judged)
    PROVE  \E F \in SUBSET Findings :
              /\ BundleOf(b, t, F)
              /\ t.phase = "deduplicate" => F \subseteq Undeduplicated(Verdicts(events))
              /\ t.phase = "finalize" => F = {} /\ b = <<Completion(t)>>
<1> DEFINE done == <<Completion(t)>>
<1>1. Piece(<<>>, t, {}) /\ Piece(<<Evidence(t, None)>>, t, {}) /\ \A h \in Handoffs(t) : Piece(h, t, {})
  BY NoPiece, OtherPieces
<1>2. CASE t.phase = "finalize"
  <2>1. b = done
    BY <1>2 DEF Bundles
  <2>2. BundleOf(<<>> \o done, t, {})
    BY <1>1, Completed
  <2>3. Completion(t) \in LedgerEvents
    <3>1. \E f \in Findings \cup {None} : TRUE
      OBVIOUS
    <3>2. QED
      BY <3>1, EventTypes
  <2>4. <<>> \o done = done
    BY <2>3, ConcatEmptySeq
  <2>5. QED
    BY <1>2, <2>1, <2>2, <2>4
<1>3. CASE t.phase = "deduplicate"
  <2> DEFINE v == Verdicts(events)
             M == Deduplications(v)
  <2>1. t = Deduplicate
    BY <1>3 DEF Tasks, Task, Deduplicate, Finalize
  <2>2. b \in DedupBundles(t)
    BY <1>3 DEF Bundles
  <2>3. PICK canon \in M, h \in Handoffs(t) :
            b = <<Evidence(t, None)>> \o DedupEvents(canon) \o h \o <<Completion(t)>>
    BY <2>2, SMT DEF DedupBundles
  <2>4. Accepted(v) \subseteq Findings /\ Undeduplicated(v) \subseteq Accepted(v)
    BY DEF Accepted, Undeduplicated, Without
  <2>5. PICK S \in SUBSET Undeduplicated(v) : canon \in [S -> Accepted(v)]
    BY <2>3 DEF Deduplications
  <2> HIDE DEF v
  <2>6. Piece(DedupEvents(canon), t, S)
    BY <2>1, <2>4, <2>5, DedupPiece
  <2>7. Piece(<<Evidence(t, None)>> \o DedupEvents(canon), t, {} \cup S)
    BY <1>1, <2>6, TwoPieces
  <2>8. Piece(<<Evidence(t, None)>> \o DedupEvents(canon) \o h, t, ({} \cup S) \cup {})
    BY <1>1, <2>3, <2>7, TwoPieces
  <2>9. ({} \cup S) \cup {} = S
    OBVIOUS
  <2>10. BundleOf(b, t, S)
    BY <2>3, <2>8, <2>9, Completed
  <2>11. QED
    BY <1>3, <2>4, <2>5, <2>10 DEF v
<1>4. CASE t.phase \in {"review", "validate"}
  <2> DEFINE A == {<<>>} \cup Parts(t, t.finding)
             B == CrossParts(t, judged)
             H == Handoffs(t)
  <2>1. b \in JudgeBundles(t, judged)
    BY <1>4 DEF Bundles
  <2>2. PICK own \in A, other \in B, h \in H : b = own \o other \o h \o <<Completion(t)>>
    BY <2>1, SMT DEF JudgeBundles
  <2> HIDE DEF A, B, H
  <2>3. t.finding \in Findings
    BY <1>4 DEF Tasks, Task, Deduplicate, Finalize
  <2>4. Piece(own, t, {t.finding})
    <3>1. CASE own = <<>>
      BY <1>1, <3>1 DEF Piece
    <3>2. CASE own \in Parts(t, t.finding)
      BY <1>4, <2>3, <3>2, PartsPiece
    <3>3. QED
      BY <2>2, <3>1, <3>2 DEF A
  <2>5. PICK G \in SUBSET Findings : Piece(other, t, G) /\ t.finding \notin G
    <3>1. CASE other = <<>>
      BY <1>1, <3>1
    <3>2. CASE other # <<>>
      <4>1. PICK g \in Findings \ {t.finding} : other \in Parts(t, g)
        BY <2>2, <3>2 DEF B, CrossParts
      <4>2. Piece(other, t, {g})
        BY <1>4, <4>1, PartsPiece
      <4>3. QED
        BY <4>1, <4>2
    <3>3. QED
      BY <3>1, <3>2
  <2>6. Piece(own \o other, t, {t.finding} \cup G)
    BY <2>4, <2>5, TwoPieces
  <2>7. Piece(own \o other \o h, t, ({t.finding} \cup G) \cup {})
    BY <1>1, <2>2, <2>6, TwoPieces DEF H
  <2>8. ({t.finding} \cup G) \cup {} = {t.finding} \cup G
    OBVIOUS
  <2>9. BundleOf(b, t, {t.finding} \cup G)
    BY <2>2, <2>7, <2>8, Completed
  <2>10. QED
    BY <1>4, <2>3, <2>5, <2>9
<1>5. QED
  BY <1>2, <1>3, <1>4 DEF Tasks, Task, Deduplicate, Finalize
-----------------------------------------------------------------------------
(* What is read from a ledger, and how a bundle changes it.                *)

\* A complete verdict is the one that is read, if there is no other.
LEMMA VerdictAt ==
    ASSUME NEW s \in Seq(LedgerEvents), Unique(s), NEW p \in Phases, NEW f \in Findings
    PROVE  /\ \A i \in Complete(s) :
                 s[i].task.phase = p /\ s[i].finding = f => Verdicts(s)[p][f] = s[i]
           /\ \/ \E i \in Complete(s) :
                    s[i].task.phase = p /\ s[i].finding = f /\ Verdicts(s)[p][f] = s[i]
              \/ Verdicts(s)[p][f] = NoVerdict
<1> DEFINE these == {i \in Complete(s) : s[i].task.phase = p /\ s[i].finding = f}
<1>1. Verdicts(s)[p][f] = IF these = {} THEN NoVerdict
                          ELSE s[CHOOSE i \in these : \A k \in these : k <= i]
  BY DEF Verdicts, Complete
<1>2. ASSUME NEW i \in these PROVE these = {i}
  BY <1>2 DEF Unique, Same
<1>3. \A i \in these : i \in Nat
  BY LenProperties DEF Complete
<1> HIDE DEF these
<1>4. ASSUME NEW i \in these PROVE Verdicts(s)[p][f] = s[i]
  <2>1. these = {i} /\ i <= i
    BY <1>2, <1>3
  <2>2. (CHOOSE k \in these : \A l \in these : l <= k) = i
    BY <2>1
  <2>3. QED
    BY <1>1, <2>1, <2>2
<1>5. these = {} => Verdicts(s)[p][f] = NoVerdict
  BY <1>1
<1>6. QED
  BY <1>4, <1>5 DEF these

\* The events d are s and a bundle b of t.
Appended(s, t, b, d) ==
    /\ d \in Seq(LedgerEvents) /\ Len(s) \in Nat /\ Len(b) \in Nat
    /\ Len(d) = Len(s) + Len(b)
    /\ \A i \in 1..Len(s) : d[i] = s[i]
    /\ \A k \in 1..Len(b) : d[Len(s) + k] = b[k]
    /\ Whole(d)
    /\ \A i \in 1..Len(s) : i \in Complete(d) <=> i \in Complete(s)
    /\ \A k \in 1..Len(b) :
          Len(s) + k \in Complete(d) <=>
             /\ b[k].type = "verdict"
             /\ \E j \in 1..k - 1 : b[j] = Evidence(t, NotesOf(t, b[k].finding))

\* A bundle leaves the events before it as complete as they were, and its own
\* verdicts are complete when their notes come first.
LEMMA AppendBundle ==
    ASSUME NEW s \in Seq(LedgerEvents), NEW t \in Tasks, NEW F, NEW b, BundleOf(b, t, F), Whole(s),
           \A i \in 1..Len(s) : s[i].task # t,
           NEW d, d = s \o b
    PROVE  Appended(s, t, b, d)
<1>1. b \in Seq(LedgerEvents) /\ (\A k \in 1..Len(b) : b[k].task = t)
      /\ Len(b) > 0 /\ b[Len(b)] = Completion(t)
  BY DEF BundleOf, Piece
<1>2. Len(s) \in Nat /\ Len(b) \in Nat
  BY <1>1, LenProperties
<1>3. /\ d \in Seq(LedgerEvents) /\ Len(d) = Len(s) + Len(b)
      /\ \A i \in 1..Len(s) + Len(b) : d[i] = IF i <= Len(s) THEN s[i] ELSE b[i - Len(s)]
  BY <1>1, ConcatProperties
<1>4. PICK m, n \in Nat : m = Len(s) /\ n = Len(b)
  BY <1>2
<1>5. /\ \A i \in 1..m : d[i] = s[i]
      /\ \A k \in 1..n : d[m + k] = b[k]
      /\ \A i \in 1..m + n : i \in 1..m \/ \E k \in 1..n : i = m + k
  <2>1. \A i \in 1..m : i \in 1..m + n /\ i <= m
    OBVIOUS
  <2>2. \A k \in 1..n : m + k \in 1..m + n /\ ~ (m + k <= m) /\ (m + k) - m = k
    OBVIOUS
  <2>3. \A i \in 1..m + n : i \in 1..m \/ (i - m \in 1..n /\ i = m + (i - m))
    OBVIOUS
  <2>4. QED
    BY <1>3, <1>4, <2>1, <2>2, <2>3
<1>6. d[m + n] = Completion(t) /\ n \in 1..n /\ Len(d) = m + n
  BY <1>1, <1>3, <1>4, <1>5
<1>7. \A f : Completion(t).task = t /\ Evidence(t, f).task = t
  BY DEF Completion, Evidence
<1>8. Whole(d)
  <2>1. ASSUME NEW i \in 1..m PROVE d[i] = Completion(d[i].task) \/ CompletedAfter(d, d[i].task, i)
    <3>1. CASE s[i] = Completion(s[i].task)
      BY <1>5, <3>1
    <3>2. CASE CompletedAfter(s, s[i].task, i)
      <4>1. PICK k \in i + 1..m : s[k] = Completion(s[i].task)
        BY <1>4, <3>2 DEF CompletedAfter
      <4>2. k \in 1..m /\ k \in i + 1..m + n
        OBVIOUS
      <4>3. QED
        BY <1>5, <1>6, <4>1, <4>2 DEF CompletedAfter
    <3>3. QED
      BY <1>4, <3>1, <3>2 DEF Whole
  <2>2. ASSUME NEW k \in 1..n
        PROVE  d[m + k] = Completion(d[m + k].task) \/ CompletedAfter(d, d[m + k].task, m + k)
    <3>1. d[m + k].task = t
      BY <1>1, <1>4, <1>5
    <3>2. CASE k = n
      BY <1>6, <3>1, <3>2
    <3>3. CASE k # n
      <4>1. m + n \in (m + k) + 1 .. Len(d)
        BY <1>6, <3>3
      <4>2. d[m + n] = Completion(d[m + k].task)
        BY <1>6, <3>1
      <4>3. QED
        BY <4>1, <4>2 DEF CompletedAfter
    <3>4. QED
      BY <3>2, <3>3
  <2>3. QED
    BY <1>5, <1>6, <2>1, <2>2 DEF Whole
<1>9. ASSUME NEW i \in 1..m PROVE i \in Complete(d) <=> i \in Complete(s)
  <2>1. d[i] = s[i] /\ i \in 1..Len(d) /\ i \in 1..Len(s)
    BY <1>4, <1>5, <1>6
  <2>2. NotesBefore(d, i) <=> NotesBefore(s, i)
    <3>1. \A k \in 1..i - 1 : k \in 1..m
      OBVIOUS
    <3>2. \A k \in 1..i - 1 : d[k] = s[k]
      BY <1>5, <3>1
    <3>3. QED
      BY <2>1, <3>2 DEF NotesBefore
  <2>3. s[i].type = "verdict" => CompletedAfter(d, d[i].task, i) /\ CompletedAfter(s, s[i].task, i)
    <3>1. ASSUME s[i].type = "verdict" PROVE s[i] # Completion(s[i].task)
      BY <3>1 DEF Completion
    <3>2. QED
      BY <1>8, <2>1, <3>1 DEF Whole
  <2>4. QED
    BY <2>1, <2>2, <2>3 DEF Complete, VerdictComplete
<1>10. ASSUME NEW k \in 1..n
       PROVE  m + k \in Complete(d) <=>
                 /\ b[k].type = "verdict"
                 /\ \E j \in 1..k - 1 : b[j] = Evidence(t, NotesOf(t, b[k].finding))
  <2>1. d[m + k] = b[k] /\ b[k].task = t /\ m + k \in 1..Len(d)
    BY <1>1, <1>4, <1>5, <1>6
  <2>2. NotesBefore(d, m + k) <=> \E j \in 1..k - 1 : b[j] = Evidence(t, NotesOf(t, b[k].finding))
    <3>1. ASSUME NEW i \in 1..m PROVE d[i] # Evidence(t, NotesOf(t, b[k].finding))
      <4>1. d[i] = s[i] /\ s[i].task # t
        BY <1>4, <1>5
      <4>2. Evidence(t, NotesOf(t, b[k].finding)).task = t
        BY <1>7
      <4>3. QED
        BY <4>1, <4>2
    <3>2. ASSUME NEW i \in 1..(m + k) - 1, d[i] = Evidence(t, NotesOf(t, b[k].finding))
          PROVE  \E j \in 1..k - 1 : b[j] = Evidence(t, NotesOf(t, b[k].finding))
      <4>1. i \notin 1..m
        BY <3>1, <3>2
      <4>2. PICK j \in Int : j = i - m
        OBVIOUS
      <4>3. j \in 1..k - 1 /\ j \in 1..n /\ i = m + j
        BY <4>1, <4>2
      <4>4. d[i] = b[j]
        BY <1>5, <4>3
      <4>5. QED
        BY <3>2, <4>3, <4>4
    <3>3. ASSUME NEW j \in 1..k - 1, b[j] = Evidence(t, NotesOf(t, b[k].finding))
          PROVE  \E i \in 1..(m + k) - 1 : d[i] = Evidence(t, NotesOf(t, b[k].finding))
      <4>1. j \in 1..n /\ m + j \in 1..(m + k) - 1
        OBVIOUS
      <4>2. QED
        BY <1>5, <3>3, <4>1
    <3>4. QED
      BY <2>1, <3>2, <3>3 DEF NotesBefore
  <2>3. b[k].type = "verdict" => CompletedAfter(d, d[m + k].task, m + k)
    <3>1. ASSUME b[k].type = "verdict" PROVE b[k] # Completion(b[k].task)
      BY <3>1 DEF Completion
    <3>2. QED
      BY <1>8, <2>1, <3>1 DEF Whole
  <2>4. QED
    BY <2>1, <2>2, <2>3 DEF Complete, VerdictComplete
<1>11. QED
  BY <1>2, <1>3, <1>4, <1>5, <1>8, <1>9, <1>10 DEF Appended

\* The verdicts v become w with the bundle b of t.
Answered(v, w, t, b) ==
    \A p \in Phases, f \in Findings :
        /\ v[p][f] # NoVerdict => w[p][f] = v[p][f]
        /\ v[p][f] = NoVerdict =>
              \/ w[p][f] = NoVerdict
              \/ /\ p = t.phase
                 /\ \E k \in 1..Len(b) :
                       b[k].type = "verdict" /\ b[k].finding = f /\ w[p][f] = b[k]

\* A verdict that is read stays the same, and a new one is in the bundle.
LEMMA Answers ==
    ASSUME NEW s \in Seq(LedgerEvents), NEW t \in Tasks, NEW F, NEW b, BundleOf(b, t, F), Whole(s),
           \A i \in 1..Len(s) : s[i].task # t,
           NEW d, d = s \o b, Unique(s), Apart(s, b)
    PROVE  Unique(d) /\ Answered(Verdicts(s), Verdicts(d), t, b)
<1> DEFINE m == Len(s)
           n == Len(b)
<1>1. m \in Nat /\ n \in Nat /\ m = Len(s) /\ n = Len(b)
  BY LenProperties DEF BundleOf, Piece
<1>2. /\ d \in Seq(LedgerEvents) /\ Len(d) = m + n
      /\ \A i \in 1..m : d[i] = s[i]
      /\ \A k \in 1..n : d[m + k] = b[k]
      /\ \A i \in 1..m : i \in Complete(d) <=> i \in Complete(s)
      /\ \A k \in 1..n :
            m + k \in Complete(d) <=>
               /\ b[k].type = "verdict"
               /\ \E j \in 1..k - 1 : b[j] = Evidence(t, NotesOf(t, b[k].finding))
  <2>1. Appended(s, t, b, d)
    BY AppendBundle, Zenon
  <2>2. QED
    BY <2>1 DEF Appended
<1> HIDE DEF m, n
<1>3. \A k \in 1..n : b[k].task = t
  BY <1>1 DEF BundleOf, Piece
<1>4. ASSUME NEW i \in Complete(d)
      PROVE  \/ i \in 1..m /\ i \in Complete(s) /\ d[i] = s[i]
             \/ \E k \in 1..n :
                   /\ i = m + k /\ d[i] = b[k] /\ b[k].type = "verdict"
                   /\ \E j \in 1..k - 1 : b[j] = Evidence(t, NotesOf(t, b[k].finding))
  <2>1. i \in 1..m + n
    BY <1>2 DEF Complete
  <2>2. CASE i \in 1..m
    BY <1>2, <2>2
  <2>3. CASE i \notin 1..m
    <3>1. PICK k \in 1..n : i = m + k
      <4>1. i - m \in 1..n /\ i = m + (i - m)
        BY <1>1, <2>1, <2>3
      <4>2. QED
        BY <4>1
    <3>2. QED
      BY <1>2, <3>1
  <2>4. QED
    BY <2>2, <2>3
<1>5. \A i \in Complete(s) : i \in 1..m
  BY <1>1 DEF Complete
<1>6. ASSUME NEW i \in Complete(s), NEW k \in 1..n, NEW j \in 1..k - 1,
             b[j] = Evidence(t, NotesOf(t, b[k].finding))
      PROVE  ~ Same(s[i], b[k])
  <2>1. PICK l \in 1..i - 1 : s[l] = Evidence(s[i].task, NotesOf(s[i].task, s[i].finding))
    BY DEF Complete, VerdictComplete, NotesBefore
  <2>2. l \in 1..Len(s) /\ j \in 1..Len(b)
    BY <1>1, <1>5
  <2>3. ~ Same(s[l], b[j])
    BY <1>6, <2>1, <2>2 DEF Apart, Evidence
  <2>4. Same(s[i], b[k]) => Same(s[l], b[j])
    BY <1>3, <1>6, <2>1 DEF Same, Evidence, NotesOf
  <2>5. QED
    BY <2>3, <2>4
<1>7. ASSUME NEW k \in 1..n, NEW l \in 1..n, b[k].type = "verdict", b[l].type = "verdict",
             Same(b[k], b[l])
      PROVE  k = l
  BY <1>1, <1>7 DEF BundleOf, Piece, Same
<1>8. Unique(d)
  <2>1. SUFFICES ASSUME NEW i \in Complete(d), NEW k \in Complete(d), Same(d[i], d[k]) PROVE i = k
    BY DEF Unique
  <2>2. CASE i \in Complete(s) /\ d[i] = s[i]
    BY <1>4, <1>6, <2>1, <2>2 DEF Unique
  <2>3. CASE k \in Complete(s) /\ d[k] = s[k]
    <3>1. Same(d[k], d[i])
      BY <2>1 DEF Same
    <3>2. QED
      BY <1>4, <1>6, <2>1, <2>3, <3>1 DEF Unique
  <2>4. CASE ~ (i \in Complete(s) /\ d[i] = s[i]) /\ ~ (k \in Complete(s) /\ d[k] = s[k])
    <3>1. PICK x \in 1..n : i = m + x /\ d[i] = b[x] /\ b[x].type = "verdict"
      BY <1>4, <2>4
    <3>2. PICK y \in 1..n : k = m + y /\ d[k] = b[y] /\ b[y].type = "verdict"
      BY <1>4, <2>4
    <3>3. x = y
      BY <1>7, <2>1, <3>1, <3>2
    <3>4. QED
      BY <3>1, <3>2, <3>3
  <2>5. QED
    BY <2>2, <2>3, <2>4
<1>9. ASSUME NEW p \in Phases, NEW f \in Findings, Verdicts(s)[p][f] # NoVerdict
      PROVE  Verdicts(d)[p][f] = Verdicts(s)[p][f]
  <2>1. PICK i \in Complete(s) : s[i].task.phase = p /\ s[i].finding = f /\ Verdicts(s)[p][f] = s[i]
    BY <1>9, VerdictAt
  <2>2. i \in Complete(d) /\ d[i] = s[i]
    BY <1>2, <1>5
  <2>3. QED
    BY <1>2, <1>8, <2>1, <2>2, VerdictAt
<1>10. ASSUME NEW p \in Phases, NEW f \in Findings, Verdicts(s)[p][f] = NoVerdict,
              Verdicts(d)[p][f] # NoVerdict
       PROVE  /\ p = t.phase
              /\ \E k \in 1..Len(b) : /\ b[k].type = "verdict" /\ b[k].finding = f
                                      /\ Verdicts(d)[p][f] = b[k]
  <2>1. PICK i \in Complete(d) : d[i].task.phase = p /\ d[i].finding = f /\ Verdicts(d)[p][f] = d[i]
    BY <1>2, <1>8, <1>10, VerdictAt
  <2>2. CASE i \in Complete(s) /\ d[i] = s[i]
    <3>1. Verdicts(s)[p][f] = s[i]
      BY <2>1, <2>2, VerdictAt
    <3>2. QED
      BY <1>10, <2>1, <2>2, <3>1
  <2>3. CASE ~ (i \in Complete(s) /\ d[i] = s[i])
    BY <1>1, <1>3, <1>4, <2>1, <2>3
  <2>4. QED
    BY <2>2, <2>3
<1>11. QED
  BY <1>8, <1>9, <1>10 DEF Answered
-----------------------------------------------------------------------------
(* The ledger and the verdicts after an ingest.                            *)

\* What the verdicts v that are read of a ledger can be.
Kinds(v) ==
    /\ \A p \in Phases, f \in Findings :
          /\ v[p][f].value = "none" <=> v[p][f] = NoVerdict
          /\ v[p][f] # NoVerdict => v[p][f].task.phase = p /\ v[p][f].task \in Tasks
                                    /\ v[p][f].finding = f
    /\ \A f \in Findings :
          /\ v["review"][f].value \in {"none", "accepted", "rejected"}
          /\ v["deduplicate"][f].value \in {"none", "canonical", "duplicate"}
          /\ v["deduplicate"][f].canonical \in Findings \cup {None}
          /\ v["deduplicate"][f].value = "duplicate" <=> v["deduplicate"][f].canonical # None
          /\ v["validate"][f].value \in {"none", "proven", "failed", "inconclusive"}

\* Verdicts v grow to w by verdicts of t on findings of F.
Grows(v, w, t, F) ==
    \A p \in Phases, f \in Findings :
        /\ v[p][f] # NoVerdict => w[p][f] = v[p][f]
        /\ v[p][f] = NoVerdict => \/ w[p][f] = NoVerdict
                                  \/ p = t.phase /\ f \in F /\ w[p][f].task = t

LEMMA Readings ==
    ASSUME NEW s \in Seq(LedgerEvents), Unique(s),
           \A i \in 1..Len(s) : s[i].type = "verdict" => Legal(s[i])
    PROVE  Kinds(Verdicts(s))
<1>1. ASSUME NEW p \in Phases, NEW f \in Findings
      PROVE  \/ Verdicts(s)[p][f] = NoVerdict
             \/ \E e \in LedgerEvents :
                   Verdicts(s)[p][f] = e /\ e.task.phase = p /\ e.finding = f /\ Legal(e)
  <2>1. CASE Verdicts(s)[p][f] # NoVerdict
    <3>1. PICK i \in Complete(s) :
              s[i].task.phase = p /\ s[i].finding = f /\ Verdicts(s)[p][f] = s[i]
      BY <2>1, VerdictAt
    <3>2. i \in 1..Len(s) /\ s[i].type = "verdict"
      BY DEF Complete, VerdictComplete
    <3>3. s[i] \in LedgerEvents /\ Legal(s[i])
      BY <3>2, ElementOfSeq
    <3>4. QED
      BY <3>1, <3>3
  <2>2. QED
    BY <2>1
<1>2. /\ NoVerdict.value = "none" /\ NoVerdict.canonical = None
      /\ \A e \in LedgerEvents : Legal(e) => e.value # "none" /\ e.task \in Tasks
                                  /\ e.canonical \in Findings \cup {None}
  BY DEF NoVerdict, Legal, LedgerEvents, Phases
<1> DEFINE v == Verdicts(s)
<1>3. PICK w : w = v
  OBVIOUS
<1>4. \A p \in Phases, f \in Findings :
         \/ w[p][f] = NoVerdict
         \/ \E e \in LedgerEvents : w[p][f] = e /\ e.task.phase = p /\ e.finding = f /\ Legal(e)
  BY <1>1, <1>3
<1>5. \A p \in Phases, f \in Findings :
         /\ w[p][f].value = "none" <=> w[p][f] = NoVerdict
         /\ w[p][f] # NoVerdict => w[p][f].task.phase = p /\ w[p][f].task \in Tasks
                                   /\ w[p][f].finding = f
  BY <1>2, <1>4
<1>6. \A f \in Findings :
          /\ w["review"][f].value \in {"none", "accepted", "rejected"}
          /\ w["deduplicate"][f].value \in {"none", "canonical", "duplicate"}
          /\ w["deduplicate"][f].canonical \in Findings \cup {None}
          /\ w["deduplicate"][f].value = "duplicate" <=> w["deduplicate"][f].canonical # None
          /\ w["validate"][f].value \in {"none", "proven", "failed", "inconclusive"}
  BY <1>2, <1>4 DEF Legal, Phases
<1>7. QED
  BY <1>3, <1>5, <1>6 DEF Kinds

LEMMA EventFields ==
    \A e \in LedgerEvents : e.task \in Tasks /\ e.finding \in Findings \cup {None}
BY DEF LedgerEvents

\* The ledger that an ingest leaves.
LEMMA IngestLedger ==
    ASSUME TypeOK, Recorded, NEW t \in Tasks, NEW judged,
           NEW b \in Bundles(t, judged), ~ TaskCompleted(events, t), Fits(t, b),
           events' = events \o b,
           notes' = [n \in DOMAIN notes |-> IF n \in NotesIn(b) THEN t ELSE notes[n]],
           NEW F \in SUBSET Findings, BundleOf(b, t, F),
           t.phase = "finalize" => b = <<Completion(t)>>
    PROVE  /\ events' \in Seq(LedgerEvents) /\ notes' \in [NoteNames -> Tasks \cup {None}]
           /\ Recorded'
           /\ Grows(V, V', t, F)
           /\ \A u \in Tasks : TaskCompleted(events', u) <=> TaskCompleted(events, u) \/ u = t
           /\ Appended(events, t, b, events')
<1>1. PICK s \in Seq(LedgerEvents) : s = events
  BY DEF TypeOK
<1>2. PICK d : d = events'
  OBVIOUS
<1>3. Whole(s) /\ Unique(s) /\ notes \in [NoteNames -> Tasks \cup {None}]
  BY <1>1 DEF Recorded, TypeOK
<1>4. \A i \in 1..Len(s) :
         /\ s[i] \in LedgerEvents /\ s[i].task \in Tasks /\ s[i].finding \in Findings \cup {None}
         /\ s[i].type = "verdict" => Legal(s[i])
         /\ s[i].type = "evidence" => /\ s[i].task.phase \in Phases
                                      /\ notes[<<s[i].task.phase, s[i].finding>>] = s[i].task
  <2>1. \A i \in 1..Len(s) : s[i] \in LedgerEvents
    BY ElementOfSeq
  <2>2. QED
    BY <1>1, <2>1, EventFields DEF Recorded
<1>5. \A i \in 1..Len(s) : s[i].task # t
  <2>1. SUFFICES ASSUME NEW i \in 1..Len(s), s[i].task = t PROVE FALSE
    OBVIOUS
  <2>2. Len(s) \in Nat
    BY LenProperties
  <2>3. \E k \in 1..Len(s) : s[k] = Completion(t)
    BY <1>3, <2>1, <2>2 DEF Whole, CompletedAfter
  <2>4. QED
    BY <1>1, <2>3 DEF TaskCompleted
<1>6. \A k \in 1..Len(b) :
         /\ b[k] \in LedgerEvents /\ b[k].task = t /\ b[k].finding \in Findings \cup {None}
         /\ b[k].type = "verdict" => Legal(b[k]) /\ b[k].finding \in F
         /\ b[k].type = "evidence" => t.phase \in Phases
  <2>1. ASSUME NEW k \in 1..Len(b), b[k].type = "evidence" PROVE t.phase # "finalize"
    <3>1. ASSUME t.phase = "finalize" PROVE FALSE
      <4>1. Len(b) = 1 /\ b[1] = Completion(t)
        BY <3>1
      <4>2. b[k] = Completion(t)
        BY <4>1
      <4>3. QED
        BY <2>1, <4>2 DEF Completion
    <3>2. QED
      BY <3>1
  <2>2. t.phase # "finalize" => t.phase \in Phases
    BY DEF Tasks, Task, Deduplicate, Finalize, Phases
  <2>3. QED
    <3>1. \A k \in 1..Len(b) : b[k] \in LedgerEvents
      BY ElementOfSeq DEF BundleOf, Piece
    <3>2. QED
      BY <2>1, <2>2, <3>1, EventFields DEF BundleOf, Piece
<1>7. ASSUME NEW j \in 1..Len(b), b[j].type = "evidence"
      PROVE  <<b[j].task.phase, b[j].finding>> \in NotesIn(b)
             /\ <<b[j].task.phase, b[j].finding>> \in NoteNames
  BY <1>6, <1>7 DEF NotesIn, NoteNames
<1>8. ASSUME NEW i \in 1..Len(s), s[i].type = "evidence"
      PROVE  <<s[i].task.phase, s[i].finding>> \notin NotesIn(b)
  BY <1>4, <1>5, <1>8, NoTask DEF Fits
<1>9. Apart(s, b)
  BY <1>7, <1>8 DEF Apart, Same
<1>10. Appended(s, t, b, d)
  BY <1>1, <1>2, <1>3, <1>5, AppendBundle
<1>11. Unique(d) /\ Grows(Verdicts(s), Verdicts(d), t, F)
  <2>1. Unique(d) /\ Answered(Verdicts(s), Verdicts(d), t, b)
    BY <1>1, <1>2, <1>3, <1>5, <1>9, Answers
  <2>2. QED
    BY <1>6, <2>1 DEF Grows, Answered
<1>12. /\ d \in Seq(LedgerEvents) /\ Whole(d)
       /\ \A i \in 1..Len(d) : \/ i \in 1..Len(s) /\ d[i] = s[i]
                               \/ \E k \in 1..Len(b) : i = Len(s) + k /\ d[i] = b[k]
  <2>1. \A i \in 1..Len(s) + Len(b) : i \in 1..Len(s) \/ (i - Len(s) \in 1..Len(b) /\ i = Len(s) + (i - Len(s)))
    BY <1>10 DEF Appended
  <2>2. d \in Seq(LedgerEvents) /\ Whole(d) /\ Len(d) = Len(s) + Len(b)
        /\ (\A i \in 1..Len(s) : d[i] = s[i])
        /\ \A k \in 1..Len(b) : d[Len(s) + k] = b[k]
    BY <1>10 DEF Appended
  <2>3. ASSUME NEW i \in 1..Len(d), i \notin 1..Len(s)
        PROVE  \E k \in 1..Len(b) : i = Len(s) + k /\ d[i] = b[k]
    <3>1. PICK k \in 1..Len(b) : i = Len(s) + k
      BY <2>1, <2>2, <2>3
    <3>2. QED
      BY <2>2, <3>1
  <2>4. QED
    BY <2>2, <2>3
<1>13. notes' \in [NoteNames -> Tasks \cup {None}]
  BY <1>3
<1>14. ASSUME NEW i \in 1..Len(d)
       PROVE  /\ d[i].type = "verdict" => Legal(d[i])
              /\ d[i].type = "evidence" => /\ d[i].task.phase \in Phases
                                           /\ notes'[<<d[i].task.phase, d[i].finding>>] = d[i].task
  <2>1. CASE i \in 1..Len(s) /\ d[i] = s[i]
    <3>1. ASSUME s[i].type = "evidence"
          PROVE  notes'[<<s[i].task.phase, s[i].finding>>] = s[i].task
      <4>1. <<s[i].task.phase, s[i].finding>> \in NoteNames
        BY <1>4, <2>1, <3>1 DEF NoteNames
      <4>2. QED
        BY <1>3, <1>4, <1>8, <2>1, <3>1, <4>1
    <3>2. QED
      BY <1>4, <2>1, <3>1
  <2>2. CASE \E k \in 1..Len(b) : i = Len(s) + k /\ d[i] = b[k]
    <3>1. PICK k \in 1..Len(b) : d[i] = b[k]
      BY <2>2
    <3>2. b[k].type = "evidence" => notes'[<<b[k].task.phase, b[k].finding>>] = t
      BY <1>3, <1>7
    <3>3. QED
      BY <1>6, <3>1, <3>2
  <2>3. QED
    BY <1>12, <2>1, <2>2
<1>15. Recorded'
  <2>1. Whole(events') /\ Unique(events')
    BY <1>2, <1>11, <1>12, Zenon
  <2>2. \A i \in 1..Len(events') :
           /\ events'[i].type = "verdict" => Legal(events'[i])
           /\ events'[i].type = "evidence" =>
                 /\ events'[i].task.phase \in Phases
                 /\ notes'[<<events'[i].task.phase, events'[i].finding>>] = events'[i].task
    BY <1>2, <1>14, Zenon
  <2>3. QED
    BY <2>1, <2>2, Zenon DEF Recorded
<1>16. ASSUME NEW u \in Tasks
       PROVE  TaskCompleted(d, u) <=> TaskCompleted(s, u) \/ u = t
  <2>1. ASSUME TaskCompleted(d, u), u # t PROVE TaskCompleted(s, u)
    <3>1. PICK i \in 1..Len(d) : d[i] = Completion(u)
      BY <2>1 DEF TaskCompleted
    <3>2. Completion(u).task = u
      BY DEF Completion
    <3>3. i \in 1..Len(s) /\ d[i] = s[i]
      <4>1. ASSUME NEW k \in 1..Len(b) PROVE d[i] # b[k]
        BY <1>6, <2>1, <3>1, <3>2, <4>1
      <4>2. QED
        BY <1>12, <4>1
    <3>4. QED
      BY <3>1, <3>3 DEF TaskCompleted
  <2>2. ASSUME NEW i \in 1..Len(s), s[i] = Completion(u) PROVE TaskCompleted(d, u)
    <3>1. i \in 1..Len(d) /\ d[i] = s[i]
      BY <1>10 DEF Appended
    <3>2. QED
      BY <2>2, <3>1 DEF TaskCompleted
  <2>3. TaskCompleted(d, t)
    <3>1. /\ Len(b) \in 1..Len(b) /\ b[Len(b)] = Completion(t)
          /\ Len(s) + Len(b) \in 1..Len(d)
      BY <1>10 DEF BundleOf, Appended
    <3>2. d[Len(s) + Len(b)] = Completion(t)
      BY <1>10, <3>1 DEF Appended
    <3>3. QED
      BY <3>1, <3>2 DEF TaskCompleted
  <2>4. QED
    BY <2>1, <2>2, <2>3 DEF TaskCompleted
<1>17. QED
  BY <1>1, <1>2, <1>10, <1>11, <1>12, <1>13, <1>15, <1>16 DEF V
-----------------------------------------------------------------------------
(* What the verdicts say of each other.                                    *)

\* What was read stays, and only t has judged anything else.
LEMMA GrowsValues ==
    ASSUME NEW v, NEW w, NEW t, NEW F, Kinds(v), Kinds(w), Grows(v, w, t, F),
           NEW p \in Phases, NEW f \in Findings
    PROVE  /\ Value(v, p, f) # "none" => w[p][f] = v[p][f]
           /\ w[p][f] # v[p][f] => Value(v, p, f) = "none"
           /\ Value(v, p, f) = "none" /\ Value(w, p, f) # "none" =>
                 p = t.phase /\ f \in F /\ w[p][f].task = t
           /\ p # t.phase => w[p][f] = v[p][f]
BY DEF Kinds, Grows, Value

\* The verdicts still fit together.
LEMMA SettledStep ==
    ASSUME NEW v, NEW w, NEW t \in Tasks, NEW F \in SUBSET Findings, Kinds(v), Kinds(w),
           Grows(v, w, t, F), Settled(v),
           t.phase = "deduplicate" =>
              F \subseteq Undeduplicated(v) /\ GraphValid(w, Undeduplicated(v)),
           t.phase = "validate" => Unreviewed(v) = {} /\ Undeduplicated(v) = {}
    PROVE  Settled(w)
<1>1. \A p \in Phases, f \in Findings :
         /\ Value(v, p, f) # "none" => w[p][f] = v[p][f]
         /\ Value(v, p, f) = "none" /\ Value(w, p, f) # "none" => p = t.phase /\ f \in F
         /\ p # t.phase => w[p][f] = v[p][f]
  BY GrowsValues
<1>2. \A p \in Phases, f \in Findings : Value(v, p, f) # "none" => Value(w, p, f) = Value(v, p, f)
  BY <1>1 DEF Value
<1>3. "review" \in Phases /\ "deduplicate" \in Phases /\ "validate" \in Phases
  BY DEF Phases
<1>4. Accepted(v) \subseteq Accepted(w)
  BY <1>2, <1>3 DEF Accepted
<1>5. SUFFICES ASSUME NEW f \in Findings
               PROVE  /\ Value(w, "deduplicate", f) # "none" => f \in Accepted(w)
                      /\ Value(w, "validate", f) # "none" =>
                            \/ Value(w, "review", f) = "rejected"
                            \/ Value(w, "deduplicate", f) # "none"
                      /\ LET c == w["deduplicate"][f].canonical
                         IN  c # None => c \in Findings /\ Value(w, "deduplicate", c) = "canonical"
  BY DEF Settled
<1>6. ASSUME Value(w, "deduplicate", f) # "none", Value(v, "deduplicate", f) = "none"
      PROVE  f \in Undeduplicated(v) /\ GraphValid(w, Undeduplicated(v))
  BY <1>1, <1>3, <1>6
<1>7. Value(w, "deduplicate", f) # "none" => f \in Accepted(w)
  BY <1>4, <1>6 DEF Settled, Undeduplicated, Without
<1>8. ASSUME Value(w, "validate", f) # "none"
      PROVE  Value(w, "review", f) = "rejected" \/ Value(w, "deduplicate", f) # "none"
  <2>1. Value(v, "review", f) = "rejected" \/ Value(v, "deduplicate", f) # "none"
    <3>1. CASE Value(v, "validate", f) # "none"
      BY <3>1 DEF Settled
    <3>2. CASE Value(v, "validate", f) = "none"
      <4>1. Unreviewed(v) = {} /\ Undeduplicated(v) = {}
        BY <1>1, <1>3, <1>8, <3>2
      <4>2. Value(v, "review", f) \in {"accepted", "rejected"}
        BY <4>1 DEF Kinds, Unreviewed, Without, Value
      <4>3. f \in Accepted(v) => Value(v, "deduplicate", f) # "none"
        BY <4>1 DEF Undeduplicated, Without
      <4>4. QED
        BY <4>2, <4>3 DEF Accepted
    <3>3. QED
      BY <3>1, <3>2
  <2>2. QED
    BY <1>2, <1>3, <2>1
<1>9. ASSUME w["deduplicate"][f].canonical # None
      PROVE  /\ w["deduplicate"][f].canonical \in Findings
             /\ Value(w, "deduplicate", w["deduplicate"][f].canonical) = "canonical"
  <2>1. Value(w, "deduplicate", f) = "duplicate"
    BY <1>9 DEF Kinds, Value
  <2>2. CASE Value(v, "deduplicate", f) # "none"
    <3>1. w["deduplicate"][f] = v["deduplicate"][f]
      BY <1>1, <1>3, <2>2
    <3>2. /\ v["deduplicate"][f].canonical \in Findings
          /\ Value(v, "deduplicate", v["deduplicate"][f].canonical) = "canonical"
      BY <1>9, <3>1 DEF Settled
    <3>3. QED
      BY <1>2, <1>3, <3>1, <3>2
  <2>3. CASE Value(v, "deduplicate", f) = "none"
    <3>1. f \in Undeduplicated(v) /\ GraphValid(w, Undeduplicated(v))
      BY <1>6, <2>1, <2>3
    <3>2. QED
      BY <2>1, <3>1 DEF GraphValid, Accepted
  <2>4. QED
    BY <2>2, <2>3
<1>10. QED
  BY <1>7, <1>8, <1>9

\* Proofs and blockers stay in the ledger.
LEMMA SupportedStep ==
    ASSUME NEW v, NEW w, NEW t \in Tasks, NEW F \in SUBSET Findings, Kinds(v), Kinds(w),
           Grows(v, w, t, F), NEW s, NEW b, NEW d, Appended(s, t, b, d), Supported(s, v),
           t.phase = "validate" => Backed(d, w["validate"][t.finding], t)
    PROVE  Supported(d, w)
<1>1. Len(s) \in Nat /\ Len(d) \in Nat /\ Len(s) <= Len(d) /\ \A i \in 1..Len(s) : d[i] = s[i]
  BY DEF Appended
<1>2. \A i \in 1..Len(s) : i \in 1..Len(d)
  BY <1>1
<1>3. ASSUME NEW x, NEW u, Backed(s, x, u) PROVE Backed(d, x, u)
  <2>1. Proved(d, x, u)
    BY <1>1, <1>2, <1>3 DEF Backed, Proved
  <2>2. Blocked(d, x, u)
    BY <1>1, <1>2, <1>3 DEF Backed, Blocked
  <2>3. QED
    BY <2>1, <2>2 DEF Backed
<1>4. SUFFICES ASSUME NEW f \in Findings, w["validate"][f].value # "none",
                      w["validate"][f].task = Task("validate", f)
               PROVE  Backed(d, w["validate"][f], w["validate"][f].task)
  BY DEF Supported
<1>5. CASE Value(v, "validate", f) # "none"
  <2>1. w["validate"][f] = v["validate"][f]
    BY <1>5, GrowsValues DEF Phases
  <2>2. QED
    BY <1>3, <1>4, <1>5, <2>1 DEF Supported, Value
<1>6. CASE Value(v, "validate", f) = "none"
  <2>1. t.phase = "validate" /\ w["validate"][f].task = t
    BY <1>4, <1>6, GrowsValues DEF Phases, Value
  <2>2. t.finding = f
    BY <1>4, <2>1 DEF Task
  <2>3. QED
    BY <2>1, <2>2
<1>7. QED
  BY <1>5, <1>6

BoardOf(v) ==
    [f \in Findings |-> [review |-> Value(v, "review", f),
                         deduplicate |-> Value(v, "deduplicate", f),
                         canonical |-> v["deduplicate"][f].canonical,
                         validate |-> Value(v, "validate", f)]]

\* What is on the board stays there.
LEMMA VerdictsStay ==
    ASSUME NEW v, NEW w, NEW t, NEW F, Kinds(v), Kinds(w), Grows(v, w, t, F), NEW f \in Findings
    PROVE  Abstract!Stands(BoardOf(v)[f], BoardOf(w)[f])
<1>1. \A p \in Phases : Value(v, p, f) # "none" => w[p][f] = v[p][f]
  BY GrowsValues
<1>2. QED
  BY <1>1 DEF BoardOf, Abstract!Stands, Value, Phases

\* A step of the verdicts is a step of the board.
LEMMA BoardStep ==
    ASSUME NEW v, NEW w, NEW t, NEW F, Kinds(v), Kinds(w), Grows(v, w, t, F), Settled(w)
    PROVE  Abstract!Step(BoardOf(v), BoardOf(w))
<1>1. BoardOf(w) \in [Findings -> Abstract!Verdicts]
  BY DEF BoardOf, Abstract!Verdicts, Kinds, Value
<1>2. ASSUME NEW f \in Findings PROVE Abstract!Stands(BoardOf(v)[f], BoardOf(w)[f])
  BY VerdictsStay
<1>3. Abstract!Sound(BoardOf(w))
  <2>1. SUFFICES ASSUME NEW f \in Findings
                 PROVE  /\ Abstract!Fits(BoardOf(w)[f])
                        /\ BoardOf(w)[f].canonical # None =>
                              BoardOf(w)[BoardOf(w)[f].canonical].deduplicate = "canonical"
    BY DEF Abstract!Sound
  <2>2. Abstract!Fits(BoardOf(w)[f])
    BY DEF Abstract!Fits, BoardOf, Settled, Accepted, Kinds, Value
  <2>3. QED
    BY <2>2 DEF BoardOf, Settled
<1>4. QED
  BY <1>1, <1>2, <1>3 DEF Abstract!Step
-----------------------------------------------------------------------------
(* The steps.                                                              *)

LEMMA KindsV == TypeOK /\ Recorded => Kinds(V)
BY Readings DEF TypeOK, Recorded, V

\* The tasks of a phase.
LEMMA PendingTasks ==
    ASSUME NEW q
    PROVE  /\ Pending(q) \subseteq Tasks
           /\ \A t \in Pending(q) :
                 /\ t.phase = q
                 /\ q = "review" => t.finding \in Unreviewed(V) /\ t = Task("review", t.finding)
                 /\ q = "deduplicate" => t = Deduplicate /\ Undeduplicated(V) # {}
                 /\ q = "validate" => t.finding \in Unvalidated(V) /\ t = Task("validate", t.finding)
                 /\ q = "finalize" => t = Finalize /\ ~ TaskCompleted(events, Finalize)
<1>1. Unreviewed(V) \subseteq Findings /\ Unvalidated(V) \subseteq Findings
  BY DEF Unreviewed, Unvalidated, Without, Accepted
<1>2. Pending(q) = CASE q = "review" -> {Task("review", f) : f \in Unreviewed(V)}
                     [] q = "deduplicate" -> IF Undeduplicated(V) = {} THEN {} ELSE {Deduplicate}
                     [] q = "validate" -> {Task("validate", f) : f \in Unvalidated(V)}
                     [] q = "finalize" -> IF TaskCompleted(events, Finalize) THEN {} ELSE {Finalize}
                     [] OTHER -> {}
  BY DEF Pending, PendingIn, V
<1>3. CASE q = "review"
  BY <1>1, <1>2, <1>3 DEF Task, Tasks
<1>4. CASE q = "validate"
  BY <1>1, <1>2, <1>4 DEF Task, Tasks
<1>5. CASE q = "deduplicate"
  BY <1>2, <1>5 DEF Deduplicate, Task, Tasks
<1>6. CASE q = "finalize"
  BY <1>2, <1>6 DEF Finalize, Task, Tasks
<1>7. CASE q \notin {"review", "deduplicate", "validate", "finalize"}
  BY <1>2, <1>7
<1>8. QED
  BY <1>3, <1>4, <1>5, <1>6, <1>7

\* Nothing that is read changes with the ledger as it is.
LEMMA SameLedger ==
    ASSUME TypeOK, Recorded, Settled(V), Supported(events, V), UNCHANGED <<events, notes>>
    PROVE  /\ Recorded' /\ Settled(V)' /\ Supported(events, V)' /\ V' = V
           /\ \A q : Pending(q)' = Pending(q)
BY DEF Recorded, V, Settled, Supported, Pending, PendingIn

\* A phase begins, or a call ends.
LEMMA BeginStep ==
    ASSUME IInv, NEW q \in {"out", "review", "deduplicate", "validate", "finalize"}, Begin(q),
           UNCHANGED <<events, notes, report>>,
           q \in {"deduplicate", "validate", "finalize"} => Unreviewed(V) = {},
           q \in {"validate", "finalize"} => Undeduplicated(V) = {},
           q = "finalize" => Unvalidated(V) = {},
           calls' \in 0..MaxCalls, failures' \in 0..MaxFailures
    PROVE  IInv'
<1> USE DEF IInv
<1>1. /\ Recorded' /\ Settled(V)' /\ Supported(events, V)' /\ V' = V
      /\ \A x : Pending(x)' = Pending(x)
  BY SameLedger
<1>2. pc' = q /\ todo' = Pending(q) /\ running' = {} /\ failed' = FALSE
  BY DEF Begin
<1>3. Active' = Pending(q)
  BY <1>2 DEF Active
<1>4. TypeOK'
  BY <1>2, PendingTasks DEF TypeOK
<1>5. Working'
  <2>1. \A t \in Active' : t.phase = q
    BY <1>3, PendingTasks
  <2>2. Pending(pc)' \subseteq Active'
    BY <1>1, <1>2, <1>3
  <2>3. QED
    BY <1>2, <2>1, <2>2 DEF Working
<1>6. Reached'
  BY <1>1, <1>2 DEF Reached
<1>7. Decided'
  <2>1. TaskCompleted(events, Finalize)' <=> TaskCompleted(events, Finalize)
    OBVIOUS
  <2>2. TaskCompleted(events, Finalize) => Pending(q) \subseteq {Finalize}
    BY PendingTasks DEF Decided, Pending, PendingIn
  <2>3. QED
    BY <1>1, <1>3, <2>1, <2>2 DEF Decided
<1>8. QED
  BY <1>1, <1>4, <1>5, <1>6, <1>7

\* Tasks that start, start again, or fail.
LEMMA PoolStep ==
    ASSUME IInv, UNCHANGED <<events, notes, pc, report>>, TypeOK',
           Active' \subseteq Active, failed' \/ (Active' = Active /\ failed' = failed)
    PROVE  IInv'
<1> USE DEF IInv
<1>1. /\ Recorded' /\ Settled(V)' /\ Supported(events, V)' /\ V' = V
      /\ \A x : Pending(x)' = Pending(x)
  BY SameLedger
<1>2. Working' /\ Reached' /\ Decided'
  <2>1. TaskCompleted(events, Finalize)' <=> TaskCompleted(events, Finalize)
    OBVIOUS
  <2>2. Pending(pc)' = Pending(pc)
    BY <1>1
  <2>3. QED
    BY <1>1, <2>1, <2>2 DEF Working, Reached, Decided
<1>3. QED
  BY <1>1, <1>2

\* What is pending when t has completed its part.
LEMMA PendingLeft ==
    ASSUME NEW v, NEW w, NEW t \in Tasks, NEW F \in SUBSET Findings, Kinds(v), Kinds(w),
           Grows(v, w, t, F)
    PROVE  /\ Unreviewed(w) \subseteq Unreviewed(v)
           /\ t.phase # "review" => Undeduplicated(w) \subseteq Undeduplicated(v)
           /\ t.phase \notin {"review", "deduplicate"} => Unvalidated(w) \subseteq Unvalidated(v)
           /\ t.phase = "finalize" => /\ \A p \in Phases, f \in Findings : w[p][f] = v[p][f]
                                      /\ \A f \in Findings : Bucket(w, f) = Bucket(v, f)
<1>1. \A p \in Phases, f \in Findings :
         /\ Value(v, p, f) # "none" => w[p][f] = v[p][f]
         /\ p # t.phase => w[p][f] = v[p][f]
  BY GrowsValues
<1>2. "review" \in Phases /\ "deduplicate" \in Phases /\ "validate" \in Phases /\ "finalize" \notin Phases
  BY DEF Phases
<1>3. /\ \A p \in Phases, f \in Findings : Value(w, p, f) = "none" => Value(v, p, f) = "none"
      /\ \A p \in Phases, f \in Findings : p # t.phase => Value(w, p, f) = Value(v, p, f)
  BY <1>1 DEF Value
<1>4. Unreviewed(w) \subseteq Unreviewed(v)
  BY <1>3, <1>2 DEF Unreviewed, Without
<1>5. t.phase # "review" => Accepted(w) = Accepted(v)
  BY <1>3, <1>2 DEF Accepted
<1>6. Accepted(v) \subseteq Findings
  BY DEF Accepted
<1>7. t.phase # "review" => Undeduplicated(w) \subseteq Undeduplicated(v)
  BY <1>3, <1>6, <1>2, <1>5 DEF Undeduplicated, Without
<1>8. t.phase \notin {"review", "deduplicate"} => Unvalidated(w) \subseteq Unvalidated(v)
  BY <1>3, <1>6, <1>2, <1>5 DEF Unvalidated, Without
<1>9. t.phase = "finalize" => \A p \in Phases, f \in Findings : w[p][f] = v[p][f]
  BY <1>1, <1>2
<1>10. t.phase = "finalize" => \A f \in Findings : Bucket(w, f) = Bucket(v, f)
  BY <1>2, <1>5, <1>9 DEF Bucket, Value
<1>11. QED
  BY <1>4, <1>7, <1>8, <1>9, <1>10

\* With nothing pending every finding has a bucket of its own.
LEMMA Buckets ==
    ASSUME NEW v, Kinds(v), NEW f \in Findings
    PROVE  /\ Bucket(v, f) \in {"proven", "inconclusive", "failed", "rejected", "duplicate",
                                "unvalidated"}
           /\ Unreviewed(v) = {} /\ Undeduplicated(v) = {} /\ Unvalidated(v) = {} =>
                 Bucket(v, f) # "unvalidated"
<1>1. Bucket(v, f) \in {"proven", "inconclusive", "failed", "rejected", "duplicate", "unvalidated"}
  BY DEF Bucket, Kinds, Value
<1>2. ASSUME Unreviewed(v) = {}, Undeduplicated(v) = {}, Unvalidated(v) = {}
      PROVE  Bucket(v, f) # "unvalidated"
  <2>1. Value(v, "review", f) \in {"accepted", "rejected"}
    BY <1>2 DEF Kinds, Unreviewed, Without, Value
  <2>2. CASE Value(v, "review", f) = "rejected"
    BY <2>2 DEF Bucket
  <2>3. CASE Value(v, "review", f) = "accepted"
    <3>1. f \in Accepted(v) /\ Value(v, "deduplicate", f) \in {"canonical", "duplicate"}
      BY <1>2, <2>3 DEF Kinds, Accepted, Undeduplicated, Without, Value
    <3>2. CASE Value(v, "deduplicate", f) = "duplicate"
      BY <2>3, <3>2 DEF Bucket
    <3>3. CASE Value(v, "deduplicate", f) = "canonical"
      <4>1. Value(v, "validate", f) \in {"proven", "failed", "inconclusive"}
        BY <1>2, <3>1, <3>3 DEF Kinds, Unvalidated, Without, Value
      <4>2. QED
        BY <2>3, <3>1, <3>3, <4>1 DEF Bucket
    <3>4. QED
      BY <3>1, <3>2, <3>3
  <2>4. QED
    BY <2>1, <2>2, <2>3
<1>3. QED
  BY <1>1, <1>2

\* What an ingest does to the ledger, and what is read of it then.
LEMMA IngestReads ==
    ASSUME IInv, NEW t, NEW judged, Ingest(t, judged)
    PROVE  \E b, F, w :
              /\ F \in SUBSET Findings
              /\ t \in Tasks /\ t \in Active /\ t.phase = pc /\ w = V' /\ w = Verdicts(events')
              /\ t.phase = "deduplicate" => F \subseteq Undeduplicated(V)
              /\ events' \in Seq(LedgerEvents) /\ notes' \in [NoteNames -> Tasks \cup {None}]
              /\ Recorded' /\ Appended(events, t, b, events')
              /\ \A u \in Tasks : TaskCompleted(events', u) <=> TaskCompleted(events, u) \/ u = t
              /\ Kinds(V) /\ Kinds(w) /\ Grows(V, w, t, F)
              /\ t.phase \in {"review", "validate"} => Value(w, t.phase, t.finding) # "none"
              /\ t.phase = "validate" => Backed(events', w["validate"][t.finding], t)
              /\ t.phase = "deduplicate" => GraphValid(w, Undeduplicated(V)) /\ Undeduplicated(w) = {}
              /\ Unreviewed(w) \subseteq Unreviewed(V)
              /\ t.phase # "review" => Undeduplicated(w) \subseteq Undeduplicated(V)
              /\ t.phase \notin {"review", "deduplicate"} => Unvalidated(w) \subseteq Unvalidated(V)
              /\ t.phase = "finalize" => /\ \A p \in Phases, f \in Findings : w[p][f] = V[p][f]
                                         /\ \A f \in Findings : Bucket(w, f) = Bucket(V, f)
<1> USE DEF IInv
<1>1. <<t, judged>> \in running /\ ~ TaskCompleted(events, t)
  BY DEF Ingest
<1>2. PICK b \in Bundles(t, judged) :
          /\ Fits(t, b) /\ Verify(t, events \o b) /\ events' = events \o b
          /\ notes' = [n \in DOMAIN notes |-> IF n \in NotesIn(b) THEN t ELSE notes[n]]
  BY DEF Ingest
<1>3. t \in Tasks /\ t \in Active /\ t.phase = pc
  BY <1>1 DEF TypeOK, Active, Working
<1>4. PICK F \in SUBSET Findings :
          /\ BundleOf(b, t, F)
          /\ t.phase = "deduplicate" => F \subseteq Undeduplicated(V)
          /\ t.phase = "finalize" => F = {} /\ b = <<Completion(t)>>
  BY <1>2, <1>3, BundleShape DEF V
<1>5. /\ events' \in Seq(LedgerEvents) /\ notes' \in [NoteNames -> Tasks \cup {None}]
      /\ Recorded' /\ Grows(V, V', t, F) /\ Appended(events, t, b, events')
      /\ \A u \in Tasks : TaskCompleted(events', u) <=> TaskCompleted(events, u) \/ u = t
  BY <1>1, <1>2, <1>3, <1>4, IngestLedger
<1>6. Verify(t, events')
  BY <1>2
<1>7. PICK w : w = V'
  OBVIOUS
<1>8. w = Verdicts(events')
  BY <1>7 DEF V
<1>9. Kinds(V) /\ Kinds(w) /\ Grows(V, w, t, F)
  <2>1. Kinds(Verdicts(events'))
    BY <1>5, Readings DEF Recorded
  <2>2. QED
    BY <1>5, <1>7, <1>8, <2>1, KindsV
<1>10. /\ t.phase \in {"review", "validate"} => Value(w, t.phase, t.finding) # "none"
       /\ t.phase = "validate" => Backed(events', w["validate"][t.finding], t)
       /\ t.phase = "deduplicate" => GraphValid(w, Undeduplicated(V)) /\ Undeduplicated(w) = {}
  BY <1>6, <1>8 DEF Verify, VerifyGraph, V
<1>11. /\ Unreviewed(w) \subseteq Unreviewed(V)
       /\ t.phase # "review" => Undeduplicated(w) \subseteq Undeduplicated(V)
       /\ t.phase \notin {"review", "deduplicate"} => Unvalidated(w) \subseteq Unvalidated(V)
       /\ t.phase = "finalize" => /\ \A p \in Phases, f \in Findings : w[p][f] = V[p][f]
                                  /\ \A f \in Findings : Bucket(w, f) = Bucket(V, f)
  BY <1>3, <1>9, PendingLeft
<1>12. QED
  BY <1>3, <1>4, <1>5, <1>7, <1>8, <1>9, <1>10, <1>11

\* An attempt is verified and ingested.
LEMMA IngestStep ==
    ASSUME IInv, NEW t, NEW judged, Ingest(t, judged)
    PROVE  IInv' /\ Abstract!Step(BoardOf(V), BoardOf(V'))
<1> USE DEF IInv
<1>1. /\ <<t, judged>> \in running /\ ~ TaskCompleted(events, t)
      /\ report' = IF t # Finalize THEN report ELSE [f \in Findings |-> Bucket(V, f)]
      /\ running' = running \ {<<t, judged>>}
      /\ \/ UNCHANGED <<failed, failures>>
         \/ failures < MaxFailures /\ failures' = failures + 1 /\ failed' = TRUE
      /\ UNCHANGED <<pc, todo, calls>>
  BY DEF Ingest, V
<1>2. PICK b, F, w :
          /\ F \in SUBSET Findings
          /\ t \in Tasks /\ t \in Active /\ t.phase = pc /\ w = V' /\ w = Verdicts(events')
          /\ t.phase = "deduplicate" => F \subseteq Undeduplicated(V)
          /\ events' \in Seq(LedgerEvents) /\ notes' \in [NoteNames -> Tasks \cup {None}]
          /\ Recorded' /\ Appended(events, t, b, events')
          /\ \A u \in Tasks : TaskCompleted(events', u) <=> TaskCompleted(events, u) \/ u = t
          /\ Kinds(V) /\ Kinds(w) /\ Grows(V, w, t, F)
          /\ t.phase \in {"review", "validate"} => Value(w, t.phase, t.finding) # "none"
          /\ t.phase = "validate" => Backed(events', w["validate"][t.finding], t)
          /\ t.phase = "deduplicate" => GraphValid(w, Undeduplicated(V)) /\ Undeduplicated(w) = {}
          /\ Unreviewed(w) \subseteq Unreviewed(V)
          /\ t.phase # "review" => Undeduplicated(w) \subseteq Undeduplicated(V)
          /\ t.phase \notin {"review", "deduplicate"} => Unvalidated(w) \subseteq Unvalidated(V)
          /\ t.phase = "finalize" => /\ \A p \in Phases, f \in Findings : w[p][f] = V[p][f]
                                     /\ \A f \in Findings : Bucket(w, f) = Bucket(V, f)
  BY IngestReads
<1>3. Settled(w)
  BY <1>2, SettledStep DEF Reached
<1>4. Supported(events', w)
  BY <1>2, SupportedStep
<1>5. Abstract!Step(BoardOf(V), BoardOf(w))
  BY <1>2, <1>3, BoardStep
<1>6. Active' \subseteq Active /\ Active \subseteq Active' \cup {t}
  <2>1. \A r \in running : r[1] \in Active' \cup {t}
    BY <1>1 DEF Active
  <2>2. QED
    BY <1>1, <2>1 DEF Active
<1>7. TypeOK'
  <2>1. report' \in [Findings -> {"none", "proven", "inconclusive", "failed", "rejected",
                                  "duplicate", "unvalidated"}]
    BY <1>1, <1>2, Buckets DEF TypeOK
  <2>2. failed' \in BOOLEAN /\ failures' \in 0..MaxFailures
    <3>1. CASE UNCHANGED <<failed, failures>>
      BY <3>1 DEF TypeOK
    <3>2. CASE failures < MaxFailures /\ failures' = failures + 1 /\ failed' = TRUE
      <4>1. failures \in 0..MaxFailures /\ MaxFailures \in Nat
        BY VerdictsAssumption DEF TypeOK
      <4>2. QED
        BY <3>2, <4>1
    <3>3. QED
      BY <1>1, <3>1, <3>2
  <2>3. QED
    BY <1>1, <1>2, <2>1, <2>2 DEF TypeOK
<1>8. Working'
  <2>1. \A u \in Active' : u.phase = pc
    BY <1>6 DEF Working
  <2>2. ASSUME ~ failed' PROVE Pending(pc)' \subseteq Active'
    <3>1. SUFFICES ASSUME NEW u \in Pending(pc)' PROVE u \in Active /\ u # t
      BY <1>6
    <3>2. Pending(pc) \subseteq Active /\ pc' = pc
      BY <1>1, <2>2 DEF Working
    <3>3. Pending(pc)' =
             CASE pc = "review" -> {Task("review", f) : f \in Unreviewed(w)}
               [] pc = "deduplicate" -> IF Undeduplicated(w) = {} THEN {} ELSE {Deduplicate}
               [] pc = "validate" -> {Task("validate", f) : f \in Unvalidated(w)}
               [] pc = "finalize" -> IF TaskCompleted(events', Finalize) THEN {} ELSE {Finalize}
               [] OTHER -> {}
      BY <1>2, <3>2 DEF Pending, PendingIn
    <3>4. Pending(pc) =
             CASE pc = "review" -> {Task("review", f) : f \in Unreviewed(V)}
               [] pc = "deduplicate" -> IF Undeduplicated(V) = {} THEN {} ELSE {Deduplicate}
               [] pc = "validate" -> {Task("validate", f) : f \in Unvalidated(V)}
               [] pc = "finalize" -> IF TaskCompleted(events, Finalize) THEN {} ELSE {Finalize}
               [] OTHER -> {}
      BY DEF Pending, PendingIn, V
    <3>5. CASE pc = "review"
      <4>1. PICK f \in Unreviewed(w) : u = Task("review", f)
        BY <3>1, <3>3, <3>5
      <4>2. u \in Pending(pc)
        BY <1>2, <3>4, <3>5, <4>1
      <4>3. u # t
        BY <1>2, <3>5, <4>1 DEF Unreviewed, Without, Task
      <4>4. QED
        BY <3>2, <4>2, <4>3
    <3>6. CASE pc = "validate"
      <4>1. PICK f \in Unvalidated(w) : u = Task("validate", f)
        BY <3>1, <3>3, <3>6
      <4>2. u \in Pending(pc)
        BY <1>2, <3>4, <3>6, <4>1
      <4>3. u # t
        BY <1>2, <3>6, <4>1 DEF Unvalidated, Without, Task
      <4>4. QED
        BY <3>2, <4>2, <4>3
    <3>7. CASE pc = "deduplicate"
      BY <1>2, <3>1, <3>3, <3>7
    <3>8. CASE pc = "finalize"
      <4>1. t = Finalize
        BY <1>2, <3>8 DEF Tasks, Task, Deduplicate, Finalize
      <4>2. TaskCompleted(events', Finalize)
        BY <1>2, <4>1
      <4>3. QED
        BY <3>1, <3>3, <3>8, <4>2
    <3>9. QED
      BY <3>1, <3>3, <3>5, <3>6, <3>7, <3>8
  <2>3. QED
    BY <1>1, <1>2, <2>1, <2>2 DEF Working
<1>9. Reached'
  BY <1>1, <1>2 DEF Reached
<1>10. Decided'
  <2>1. SUFFICES ASSUME TaskCompleted(events', Finalize)
                 PROVE  /\ Unreviewed(w) = {} /\ Undeduplicated(w) = {} /\ Unvalidated(w) = {}
                        /\ Active' \subseteq {Finalize}
                        /\ report' = [f \in Findings |-> Bucket(w, f)]
    BY <1>2 DEF Decided
  <2>2. t = Finalize
    <3>1. Finalize \in Tasks
      BY DEF Tasks
    <3>2. TaskCompleted(events, Finalize) \/ Finalize = t
      BY <1>2, <2>1, <3>1
    <3>3. QED
      BY <1>2, <3>2 DEF Decided
  <2>3. t.phase = "finalize" /\ pc = "finalize"
    BY <1>2, <2>2 DEF Finalize, Task
  <2>4. Unreviewed(w) = {} /\ Undeduplicated(w) = {} /\ Unvalidated(w) = {}
    BY <1>2, <2>3 DEF Reached
  <2>5. Active' \subseteq {Finalize}
    <3>1. \A u \in Tasks : u.phase = "finalize" => u = Finalize
      BY DEF Tasks, Task, Deduplicate, Finalize
    <3>2. \A u \in Active' : u \in Tasks /\ u.phase = "finalize"
      BY <1>6, <2>3 DEF Working, Active, TypeOK
    <3>3. QED
      BY <3>1, <3>2
  <2>6. report' = [f \in Findings |-> Bucket(w, f)]
    BY <1>1, <1>2, <2>2, <2>3
  <2>7. QED
    BY <2>4, <2>5, <2>6
<1>11. QED
  BY <1>2, <1>3, <1>4, <1>5, <1>7, <1>8, <1>9, <1>10

\* Nothing is read of an empty ledger.
LEMMA NothingRead ==
    /\ <<>> \in Seq(LedgerEvents) /\ Whole(<<>>) /\ Unique(<<>>)
    /\ \A p \in Phases, f \in Findings : Verdicts(<<>>)[p][f] = NoVerdict
    /\ \A t : ~ TaskCompleted(<<>>, t)
<1>1. PICK s \in Seq(LedgerEvents) : s = <<>>
  BY EmptySeq
<1>2. 1..Len(s) = {}
  BY <1>1, EmptySeq
<1>3. Complete(s) = {} /\ Unique(s) /\ Whole(s) /\ \A t : ~ TaskCompleted(s, t)
  BY <1>2 DEF Complete, Unique, Whole, TaskCompleted
<1>4. \A p \in Phases, f \in Findings : Verdicts(s)[p][f] = NoVerdict
  BY <1>3, VerdictAt
<1>5. QED
  BY <1>1, <1>3, <1>4

LEMMA InitIInv == Init => IInv /\ BoardOf(V) = [f \in Findings |-> Abstract!Blank]
<1>1. SUFFICES ASSUME Init PROVE IInv /\ BoardOf(V) = [f \in Findings |-> Abstract!Blank]
  OBVIOUS
<1>2. events = <<>> /\ Active = {} /\ pc = "out" /\ failed = FALSE
  BY <1>1 DEF Init, Active
<1>3. 1..Len(events) = {}
  BY <1>2, EmptySeq
<1>4. /\ Whole(events) /\ Unique(events) /\ events \in Seq(LedgerEvents)
      /\ ~ TaskCompleted(events, Finalize)
      /\ \A p \in Phases, f \in Findings : V[p][f] = NoVerdict
  BY <1>2, NothingRead DEF V
<1>5. TypeOK
  <2>1. /\ notes \in [NoteNames -> Tasks \cup {None}]
        /\ report \in [Findings -> {"none", "proven", "inconclusive", "failed", "rejected",
                                    "duplicate", "unvalidated"}]
    BY <1>1 DEF Init
  <2>2. calls \in 0..MaxCalls /\ failures \in 0..MaxFailures
    BY <1>1, VerdictsAssumption DEF Init
  <2>3. todo = {} /\ running = {}
    BY <1>1 DEF Init
  <2>4. QED
    BY <1>2, <1>4, <2>1, <2>2, <2>3 DEF TypeOK
<1>6. Recorded
  BY <1>3, <1>4 DEF Recorded
<1>7. \A f \in Findings :
         /\ \A p \in Phases : Value(V, p, f) = "none"
         /\ V["deduplicate"][f].canonical = None /\ V["validate"][f].value = "none"
  BY <1>4 DEF Value, NoVerdict, Phases
<1>8. Settled(V) /\ Supported(events, V)
  BY <1>7 DEF Settled, Supported, Phases
<1>9. Working /\ Reached /\ Decided
  <2>1. Pending("out") = {}
    BY DEF Pending, PendingIn
  <2>2. QED
    BY <1>2, <1>4, <2>1 DEF Working, Reached, Decided
<1>10. BoardOf(V) = [f \in Findings |-> Abstract!Blank]
  BY <1>7 DEF BoardOf, Abstract!Blank, Phases
<1>11. QED
  BY <1>5, <1>6, <1>8, <1>9, <1>10 DEF IInv

\* The end of a phase.
LEMMA EndPhaseStep == ASSUME IInv, EndPhase PROVE IInv'
<1> USE DEF IInv
<1>1. /\ pc # "out" /\ todo = {} /\ running = {}
      /\ Begin(IF failed THEN "out" ELSE After[pc])
      /\ UNCHANGED <<events, notes, report, calls, failures>>
  BY DEF EndPhase
<1>2. calls' \in 0..MaxCalls /\ failures' \in 0..MaxFailures
  BY <1>1 DEF TypeOK
<1>3. CASE failed
  <2>1. Begin("out")
    BY <1>1, <1>3
  <2>2. QED
    BY <1>1, <1>2, <2>1, BeginStep
<1>4. CASE ~ failed
  <2>1. pc \in {"review", "deduplicate", "validate", "finalize"} /\ Pending(pc) = {}
    BY <1>1, <1>4 DEF TypeOK, Working, Active
  <2>2. Pending(pc) = CASE pc = "review" -> {Task("review", f) : f \in Unreviewed(V)}
                        [] pc = "deduplicate" -> IF Undeduplicated(V) = {} THEN {} ELSE {Deduplicate}
                        [] pc = "validate" -> {Task("validate", f) : f \in Unvalidated(V)}
                        [] pc = "finalize" -> IF TaskCompleted(events, Finalize) THEN {} ELSE {Finalize}
                        [] OTHER -> {}
    BY DEF Pending, PendingIn, V
  <2>3. CASE pc = "review"
    <3>1. Unreviewed(V) = {} /\ Begin("deduplicate")
      BY <1>1, <1>4, <2>1, <2>2, <2>3 DEF After
    <3>2. QED
      BY <1>1, <1>2, <3>1, BeginStep
  <2>4. CASE pc = "deduplicate"
    <3>1. Unreviewed(V) = {} /\ Undeduplicated(V) = {} /\ Begin("validate")
      BY <1>1, <1>4, <2>1, <2>2, <2>4 DEF After, Reached
    <3>2. QED
      BY <1>1, <1>2, <3>1, BeginStep
  <2>5. CASE pc = "validate"
    <3>1. Unreviewed(V) = {} /\ Undeduplicated(V) = {} /\ Unvalidated(V) = {} /\ Begin("finalize")
      BY <1>1, <1>4, <2>1, <2>2, <2>5 DEF After, Reached
    <3>2. QED
      BY <1>1, <1>2, <3>1, BeginStep
  <2>6. CASE pc = "finalize"
    <3>1. Begin("out")
      BY <1>1, <1>4, <2>6 DEF After
    <3>2. QED
      BY <1>1, <1>2, <3>1, BeginStep
  <2>7. QED
    BY <2>1, <2>3, <2>4, <2>5, <2>6
<1>5. QED
  BY <1>3, <1>4

\* A step keeps the invariant, and is a step of the board or leaves it alone.
LEMMA IInvStep ==
    ASSUME IInv, [Next]_vars
    PROVE  IInv' /\ (Abstract!Step(BoardOf(V), BoardOf(V')) \/ V' = V)
<1> USE DEF IInv
<1>1. CASE Enter \/ Crash
  <2>1. PICK q \in {"out", "review"} :
            /\ Begin(q) /\ UNCHANGED <<events, notes, report>>
            /\ calls' \in 0..MaxCalls /\ failures' \in 0..MaxFailures
    <3>1. CASE Enter
      BY <3>1, VerdictsAssumption DEF Enter, TypeOK
    <3>2. CASE Crash
      BY <3>2, VerdictsAssumption DEF Crash, TypeOK
    <3>3. QED
      BY <1>1, <3>1, <3>2
  <2>2. IInv'
    BY <2>1, BeginStep
  <2>3. QED
    BY <2>1, <2>2 DEF V
<1>2. CASE EndPhase
  <2>1. IInv'
    BY <1>2, EndPhaseStep
  <2>2. QED
    BY <1>2, <2>1 DEF EndPhase, V
<1>3. ASSUME NEW t \in todo, StartTask(t) PROVE IInv' /\ V' = V
  <2>1. /\ todo' = todo \ {t} /\ running' = running \cup {<<t, Judged(t)>>}
        /\ UNCHANGED <<events, notes, pc, failed, report, calls, failures>>
    BY <1>3 DEF StartTask
  <2>2. Judged(t) \subseteq Findings /\ t \in Tasks
    BY DEF Judged, TypeOK
  <2>3. TypeOK'
    BY <2>1, <2>2 DEF TypeOK
  <2>4. Active' = Active
    <3>1. {r[1] : r \in running'} = {r[1] : r \in running} \cup {t}
      <4> DEFINE new == <<t, Judged(t)>>
      <4>1. new[1] = t
        OBVIOUS
      <4>2. running' = running \cup {new}
        BY <2>1
      <4> HIDE DEF new
      <4>3. QED
        BY <4>1, <4>2
    <3>2. QED
      BY <1>3, <2>1, <3>1 DEF Active
  <2>5. QED
    BY <2>1, <2>3, <2>4, PoolStep DEF V
<1>4. ASSUME NEW r \in running, Retry(r[1], r[2]) PROVE IInv' /\ V' = V
  <2>1. /\ <<r[1], r[2]>> \in running
        /\ running' = (running \ {<<r[1], r[2]>>}) \cup {<<r[1], Judged(r[1])>>}
        /\ UNCHANGED <<events, notes, pc, todo, failed, report, calls, failures>>
    BY <1>4 DEF Retry
  <2>2. Judged(r[1]) \subseteq Findings /\ r[1] \in Tasks
    BY DEF Judged, TypeOK
  <2>3. TypeOK'
    BY <2>1, <2>2 DEF TypeOK
  <2>4. Active' = Active
    <3>1. {q[1] : q \in running'} = {q[1] : q \in running}
      <4> DEFINE old == <<r[1], r[2]>>
                 new == <<r[1], Judged(r[1])>>
      <4>1. old[1] = r[1] /\ new[1] = r[1]
        OBVIOUS
      <4>2. old \in running /\ running' = (running \ {old}) \cup {new}
        BY <2>1
      <4> HIDE DEF old, new
      <4>3. QED
        BY <4>1, <4>2
    <3>2. QED
      BY <2>1, <3>1 DEF Active
  <2>5. QED
    BY <2>1, <2>3, <2>4, PoolStep DEF V
<1>5. ASSUME NEW r \in running, Fail(r[1], r[2]) PROVE IInv' /\ V' = V
  <2>1. /\ running' = running \ {<<r[1], r[2]>>} /\ failed' = TRUE /\ todo' \in {todo, {}}
        /\ failures < MaxFailures /\ failures' = failures + 1
        /\ UNCHANGED <<events, notes, pc, report, calls>>
    BY <1>5 DEF Fail
  <2>2. failures' \in 0..MaxFailures
    BY <2>1, VerdictsAssumption DEF TypeOK
  <2>3. TypeOK'
    BY <2>1, <2>2 DEF TypeOK
  <2>4. Active' \subseteq Active
    BY <2>1 DEF Active
  <2>5. QED
    BY <2>1, <2>3, <2>4, PoolStep DEF V
<1>6. ASSUME NEW r \in running, Ingest(r[1], r[2])
      PROVE  IInv' /\ Abstract!Step(BoardOf(V), BoardOf(V'))
  BY <1>6, IngestStep
<1>7. CASE UNCHANGED vars
  <2>1. Active' = Active
    BY <1>7 DEF vars, Active
  <2>2. TypeOK'
    BY <1>7 DEF vars, TypeOK
  <2>3. QED
    BY <1>7, <2>1, <2>2, PoolStep DEF vars, V
<1>8. QED
  BY <1>1, <1>2, <1>3, <1>4, <1>5, <1>6, <1>7 DEF Next

LEMMA AlwaysIInv == Spec => []IInv
<1>1. IInv /\ [Next]_vars => IInv'
  BY IInvStep
<1>2. QED
  BY InitIInv, <1>1, PTL DEF Spec

\* Every variable keeps its type, for any findings, workers, calls and failures
\* (phase_review.go, phase_deduplicate.go, phase_validate.go).
THEOREM TypeCorrect == Spec => []TypeOK
<1>1. IInv => TypeOK
  BY DEF IInv
<1>2. QED
  BY <1>1, AlwaysIInv, PTL

\* However many tasks and calls failed before, a report that is finalized has a
\* bucket other than unvalidated for every finding, and it stays what the ledger
\* says (reportBucketForFinding, validateFinalizedReport).
THEOREM ReportIsDecided == Spec => []ReportDecided
<1>1. IInv => ReportDecided
  <2>1. SUFFICES ASSUME IInv, TaskCompleted(events, Finalize), NEW f \in Findings
                 PROVE  report[f] # "unvalidated" /\ report[f] = Bucket(V, f)
    BY DEF ReportDecided, V
  <2>2. Kinds(V)
    BY <2>1, KindsV DEF IInv
  <2>3. QED
    BY <2>1, <2>2, Buckets DEF IInv, Decided
<1>2. QED
  BY <1>1, AlwaysIInv, PTL

\* When the report's turn comes, every finding that its own task found proven has
\* a proof of that task, every one it found inconclusive a blocker, whoever else has
\* judged what (validateReportFindingItem, VerifyTaskBundle's postconditions).
THEOREM ReportIsPossible == Spec => []ReportPossible
<1>1. IInv => ReportPossible
  <2>1. SUFFICES ASSUME IInv, NEW f \in Findings,
                        V["validate"][f].task \in {None, Task("validate", f)},
                        Bucket(V, f) = V["validate"][f].value
                 PROVE  Backed(events, V["validate"][f], V["validate"][f].task)
    BY DEF ReportPossible, Reportable, V
  <2>2. Kinds(V) /\ V["validate"][f].value # "none"
    BY <2>1, KindsV, Buckets DEF IInv
  <2>3. V["validate"][f].task \in Tasks
    BY <2>2 DEF Kinds, NoVerdict, Phases
  <2>4. V["validate"][f].task = Task("validate", f)
    BY <2>1, <2>3, NoTask
  <2>5. QED
    BY <2>1, <2>2, <2>4 DEF IInv, Supported
<1>2. QED
  BY <1>1, AlwaysIInv, PTL

\* The complete verdicts of the ledger implement the board that is written once:
\* none changes, only accepted findings are deduplicated, no duplicate points at
\* a duplicate, and a finding is validated after it was reviewed and deduplicated,
\* although tasks run concurrently on snapshots and agents judge each other's
\* findings (ledgerVerdictCompleteFromEvents and its readers).
THEOREM VerdictsImplementBoard == Spec => BoardSpec
<1>1. Board = BoardOf(V)
  BY DEF Board, BoardOf, V
<1>2. Init => Abstract!Init
  BY <1>1, InitIInv DEF Abstract!Init
<1>3. IInv /\ [Next]_vars => [Abstract!Record]_Board
  <2>1. SUFFICES ASSUME IInv, [Next]_vars PROVE [Abstract!Record]_Board
    OBVIOUS
  <2>2. Board' = BoardOf(V')
    BY DEF Board, BoardOf, V
  <2>3. CASE V' = V
    BY <1>1, <2>2, <2>3
  <2>4. CASE Abstract!Step(BoardOf(V), BoardOf(V'))
    BY <1>1, <2>2, <2>4 DEF Abstract!Record
  <2>5. QED
    BY <2>1, <2>3, <2>4, IInvStep
<1>4. QED
  BY <1>2, <1>3, AlwaysIInv, PTL DEF Spec, BoardSpec, Abstract!Spec
-----------------------------------------------------------------------------
(* The contract of the phases with their tasks.                            *)

Called == {r[1] : r \in running}

Done == {t \in Tasks : TaskCompleted(events, t)}

\* A task is sent once, and runs once at a time.
Once ==
    /\ \A t \in todo : t \notin Called
    /\ \A q, r \in running : q[1] = r[1] => q = r

\* What is still to be done is not recorded, and a deduplication has its findings.
Undone ==
    /\ \A t \in Active : ~ TaskCompleted(events, t)
    /\ Deduplicate \in Active => Undeduplicated(V) # {}

\* What is recorded is read, and stays so: a task that is completed has left
\* nothing behind that its phase would find pending.
Lasting ==
    /\ \A t \in Done : t.phase \in {"review", "validate"} => Value(V, t.phase, t.finding) # "none"
    /\ TaskCompleted(events, Deduplicate) =>
          /\ Unreviewed(V) = {} /\ Undeduplicated(V) = {}
          /\ \A t \in Active : t.phase # "review"

KInv == IInv /\ Once /\ Undone /\ Lasting

\* The task of a verdict that is read is completed, and does not run.
LEMMA CountedIsDone == KInv => Counted \subseteq Done \ Called
<1>1. SUFFICES ASSUME KInv, NEW p \in Phases, NEW f \in Findings, V[p][f].task # None
               PROVE  V[p][f].task \in Done \ Called
  BY DEF Counted, V
<1>2. events \in Seq(LedgerEvents) /\ Unique(events)
  BY <1>1 DEF KInv, IInv, TypeOK, Recorded
<1>3. V[p][f] # NoVerdict
  BY <1>1 DEF NoVerdict
<1>4. PICK i \in Complete(events) : V[p][f] = events[i]
  BY <1>2, <1>3, VerdictAt DEF V
<1>5. i \in 1..Len(events) /\ CompletedAfter(events, events[i].task, i)
  BY <1>4 DEF Complete, VerdictComplete
<1>6. events[i].task \in Tasks
  <2>1. events[i] \in LedgerEvents
    BY <1>2, <1>5, ElementOfSeq
  <2>2. QED
    BY <2>1 DEF LedgerEvents
<1>7. TaskCompleted(events, events[i].task)
  BY <1>2, <1>5, LenProperties DEF CompletedAfter, TaskCompleted
<1>8. QED
  BY <1>1, <1>4, <1>6, <1>7 DEF KInv, Undone, Active, Called, Done

LEMMA InitKInv == Init => KInv /\ Called = {} /\ Done = {} /\ Counted = {}
<1>1. SUFFICES ASSUME Init PROVE KInv /\ Called = {} /\ Done = {}
  BY CountedIsDone
<1>2. events = <<>> /\ todo = {} /\ running = {}
  BY <1>1 DEF Init
<1>3. \A t : ~ TaskCompleted(events, t)
  BY <1>2, NothingRead
<1>4. QED
  BY <1>1, <1>2, <1>3, InitIInv DEF KInv, Once, Undone, Lasting, Called, Done, Active

\* A phase begins with tasks that are not completed.
LEMMA BeginKeeps ==
    ASSUME KInv, NEW q, Begin(q), UNCHANGED events
    PROVE  Once' /\ Undone' /\ Lasting' /\ Called' = {} /\ Done' = Done
<1>1. todo' = Pending(q) /\ running' = {} /\ Called' = {}
  BY DEF Begin, Called
<1>2. Active' = Pending(q) /\ V' = V /\ Done' = Done
  BY <1>1 DEF Active, V, Done
<1>3. Once'
  BY <1>1 DEF Once
<1>4. ASSUME NEW t \in Pending(q) PROVE ~ TaskCompleted(events, t)
  <2>1. t \in Tasks /\ t.phase = q
    BY PendingTasks
  <2>2. CASE q \in {"review", "validate"}
    <3>1. Value(V, t.phase, t.finding) = "none"
      BY <2>1, <2>2, PendingTasks DEF Unreviewed, Unvalidated, Without
    <3>2. QED
      BY <2>1, <2>2, <3>1 DEF KInv, Lasting, Done
  <2>3. CASE q = "deduplicate"
    BY <2>3, PendingTasks DEF KInv, Lasting
  <2>4. CASE q = "finalize"
    BY <2>4, PendingTasks
  <2>5. QED
    BY <2>1, <2>2, <2>3, <2>4 DEF Tasks, Task, Deduplicate, Finalize
<1>5. Undone'
  <2>1. Deduplicate \in Pending(q) => Undeduplicated(V) # {}
    BY PendingTasks DEF Deduplicate, Task
  <2>2. QED
    BY <1>2, <1>4, <2>1 DEF Undone
<1>6. TaskCompleted(events, Deduplicate) => \A t \in Pending(q) : t.phase # "review"
  BY PendingTasks DEF KInv, Lasting
<1>7. Lasting'
  BY <1>2, <1>6 DEF KInv, Lasting
<1>8. QED
  BY <1>1, <1>2, <1>3, <1>5, <1>7

\* Tasks that start, start again or fail are called while nothing else changes.
LEMMA PoolKeeps ==
    ASSUME KInv, UNCHANGED events, Active' \subseteq Active, Once'
    PROVE  Undone' /\ Lasting' /\ Called' \subseteq Active /\ Done' = Done
<1>1. V' = V /\ Done' = Done
  BY DEF V, Done
<1>2. Undone' /\ Lasting'
  BY <1>1 DEF KInv, Undone, Lasting
<1>3. QED
  BY <1>1, <1>2 DEF Called, Active

\* An ingest completes the task, and what it leaves pending is no work of its own.
LEMMA IngestKeeps ==
    ASSUME KInv, NEW t, NEW judged, Ingest(t, judged)
    PROVE  /\ Once' /\ Undone' /\ Lasting'
           /\ Called' \subseteq Called /\ t \in Called /\ Done' = Done \cup {t}
<1>1. <<t, judged>> \in running /\ running' = running \ {<<t, judged>>} /\ todo' = todo /\ pc' = pc
  BY DEF Ingest
<1>2. Called' \subseteq Called /\ t \in Called /\ t \notin todo /\ t \notin Called'
  <2> DEFINE old == <<t, judged>>
  <2>1. old[1] = t /\ old \in running /\ running' = running \ {old}
    BY <1>1
  <2> HIDE DEF old
  <2>2. QED
    BY <1>1, <2>1 DEF Called, KInv, Once
<1>3. PICK b, F, w :
          /\ F \in SUBSET Findings
          /\ t \in Tasks /\ t \in Active /\ t.phase = pc /\ w = V' /\ w = Verdicts(events')
          /\ \A u \in Tasks : TaskCompleted(events', u) <=> TaskCompleted(events, u) \/ u = t
          /\ Kinds(V) /\ Kinds(w) /\ Grows(V, w, t, F)
          /\ t.phase \in {"review", "validate"} => Value(w, t.phase, t.finding) # "none"
          /\ t.phase = "deduplicate" => Undeduplicated(w) = {}
          /\ Unreviewed(w) \subseteq Unreviewed(V)
          /\ t.phase # "review" => Undeduplicated(w) \subseteq Undeduplicated(V)
  BY IngestReads DEF KInv
<1>4. Done' = Done \cup {t}
  BY <1>3 DEF Done
<1>5. Active' \subseteq Active \ {t}
  BY <1>1, <1>2 DEF Active, Called
<1>6. Once'
  BY <1>1, <1>2 DEF Once, KInv
<1>7. Active \subseteq Tasks
  BY DEF KInv, IInv, TypeOK, Active
<1>8. Undone'
  <2>1. Deduplicate \notin Active'
    <3>1. SUFFICES ASSUME Deduplicate \in Active' PROVE FALSE
      OBVIOUS
    <3>2. Deduplicate \in Active /\ Deduplicate # t /\ pc = "deduplicate"
      BY <1>5, <3>1 DEF KInv, IInv, Working, Deduplicate, Task
    <3>3. t = Deduplicate
      BY <1>3, <3>2 DEF Tasks, Task, Deduplicate, Finalize
    <3>4. QED
      BY <3>2, <3>3
  <2>2. QED
    BY <1>3, <1>5, <1>7, <2>1 DEF KInv, Undone
<1>9. ASSUME NEW u \in Done', u.phase \in {"review", "validate"}
      PROVE  Value(w, u.phase, u.finding) # "none"
  <2>1. CASE u = t
    BY <1>3, <1>9, <2>1
  <2>2. CASE u \in Done
    <3>1. u.finding \in Findings /\ u.phase \in Phases
      BY <1>9, <2>2 DEF Done, Tasks, Task, Deduplicate, Finalize, Phases
    <3>2. Value(V, u.phase, u.finding) # "none"
      BY <1>9, <2>2 DEF KInv, Lasting
    <3>3. QED
      BY <1>3, <3>1, <3>2, GrowsValues DEF Value
  <2>3. QED
    BY <1>4, <1>9, <2>1, <2>2
<1>10. ASSUME TaskCompleted(events', Deduplicate)
       PROVE  /\ Unreviewed(w) = {} /\ Undeduplicated(w) = {}
              /\ \A u \in Active' : u.phase # "review"
  <2>1. Deduplicate \in Tasks
    BY DEF Tasks
  <2>2. CASE TaskCompleted(events, Deduplicate)
    BY <1>3, <1>5, <2>2 DEF KInv, Lasting
  <2>3. CASE t = Deduplicate
    <3>1. pc = "deduplicate"
      BY <1>3, <2>3 DEF Deduplicate, Task
    <3>2. Unreviewed(V) = {} /\ \A u \in Active : u.phase = "deduplicate"
      BY <3>1 DEF KInv, IInv, Reached, Working
    <3>3. QED
      BY <1>3, <1>5, <3>1, <3>2
  <2>4. QED
    BY <1>3, <1>10, <2>1, <2>2, <2>3
<1>11. Lasting'
  BY <1>3, <1>9, <1>10 DEF Lasting, Done
<1>12. QED
  BY <1>2, <1>4, <1>6, <1>8, <1>11

\* What a step does to the tasks that run and those that are completed.
CalledAndDone ==
    /\ Called' \subseteq Active
    /\ Done \subseteq Done' /\ Done' \subseteq Done \cup Called

LEMMA KInvStep ==
    ASSUME KInv, [Next]_vars
    PROVE  KInv' /\ CalledAndDone
<1>1. IInv'
  BY IInvStep DEF KInv
<1>2. CASE Enter \/ EndPhase \/ Crash
  <2>1. PICK q : Begin(q) /\ UNCHANGED events
    BY <1>2 DEF Enter, EndPhase, Crash
  <2>2. QED
    BY <1>1, <2>1, BeginKeeps DEF KInv, CalledAndDone
<1>3. ASSUME NEW t \in todo, StartTask(t) PROVE KInv' /\ CalledAndDone
  <2> DEFINE new == <<t, Judged(t)>>
  <2>1. new[1] = t /\ todo' = todo \ {t} /\ running' = running \cup {new} /\ UNCHANGED events
    BY <1>3 DEF StartTask
  <2> HIDE DEF new
  <2>2. Called' = Called \cup {t} /\ Active' \subseteq Active
    BY <1>3, <2>1 DEF Called, Active
  <2>3. t \notin Called
    BY <1>3 DEF KInv, Once
  <2>4. Once'
    BY <2>1, <2>2, <2>3 DEF KInv, Once, Called
  <2>5. QED
    BY <1>1, <2>1, <2>2, <2>4, PoolKeeps DEF KInv, CalledAndDone
<1>4. ASSUME NEW r \in running, Retry(r[1], r[2]) PROVE KInv' /\ CalledAndDone
  <2> DEFINE old == <<r[1], r[2]>>
             new == <<r[1], Judged(r[1])>>
  <2>1. /\ old[1] = r[1] /\ new[1] = r[1] /\ old \in running
        /\ todo' = todo /\ running' = (running \ {old}) \cup {new} /\ UNCHANGED events
    BY <1>4 DEF Retry
  <2> HIDE DEF old, new
  <2>2. old = r
    BY <2>1 DEF KInv, Once
  <2>3. Called' = Called /\ Active' \subseteq Active
    BY <2>1 DEF Called, Active
  <2>4. Once'
    BY <2>1, <2>2, <2>3 DEF KInv, Once
  <2>5. QED
    BY <1>1, <2>1, <2>3, <2>4, PoolKeeps DEF KInv, CalledAndDone
<1>5. ASSUME NEW r \in running, Fail(r[1], r[2]) PROVE KInv' /\ CalledAndDone
  <2>1. running' \subseteq running /\ todo' \subseteq todo /\ UNCHANGED events
    BY <1>5 DEF Fail
  <2>2. Called' \subseteq Called /\ Active' \subseteq Active
    BY <2>1 DEF Called, Active
  <2>3. Once'
    BY <2>1, <2>2 DEF KInv, Once
  <2>4. QED
    BY <1>1, <2>1, <2>2, <2>3, PoolKeeps DEF KInv, CalledAndDone
<1>6. ASSUME NEW r \in running, Ingest(r[1], r[2]) PROVE KInv' /\ CalledAndDone
  BY <1>1, <1>6, IngestKeeps DEF KInv, CalledAndDone, Called, Active
<1>7. CASE UNCHANGED vars
  <2>1. UNCHANGED <<events, todo, running>>
    BY <1>7 DEF vars
  <2>2. Active' = Active /\ Once'
    BY <2>1 DEF Active, KInv, Once, Called
  <2>3. QED
    BY <1>1, <2>1, <2>2, PoolKeeps DEF KInv, CalledAndDone
<1>8. QED
  BY <1>2, <1>3, <1>4, <1>5, <1>6, <1>7 DEF Next

LEMMA AlwaysKInv == Spec => []KInv
<1>1. KInv /\ [Next]_vars => KInv'
  BY KInvStep
<1>2. QED
  BY InitKInv, <1>1, PTL DEF Spec

\* Review, Deduplicate, Validate and Finalize keep to the contract with their tasks:
\* no call of the pipeline, however the ones before it failed or crashed, runs a task
\* again whose bundle the ledger has, and no verdict is read whose task may still fail
\* (unreviewedLedgerFindings, undeduplicatedLedgerFindings, unvalidatedCanonicalFindings
\* and ledgerTaskCompletedAfterFromEvents of ledger_state.go).
THEOREM KeepsContract == Spec => ContractSpec
<1>1. Spec => []KInv
  BY AlwaysKInv
<1>2. Init => Contract!Init
  BY InitKInv DEF Contract!Init, Called, Done
<1>3. KInv' => (Counted \subseteq Done \ Called)'
  BY CountedIsDone, PTL
<1>4. ASSUME KInv, KInv', [Next]_vars PROVE [Contract!Next]_<<Called, Done, Counted>>
  <2>1. Called' \subseteq Tasks
    BY <1>4 DEF KInv, IInv, TypeOK, Called
  <2>2. (Called' \ Called) \cap Done = {}
    BY <1>4, KInvStep DEF KInv, Undone, CalledAndDone, Done
  <2>3. Done \subseteq Done' /\ Done' \subseteq Done \cup Called
    BY <1>4, KInvStep DEF CalledAndDone
  <2>4. QED
    BY <1>3, <1>4, <2>1, <2>2, <2>3
       DEF Contract!Next, Contract!Call, Contract!Record, Contract!Count, Called, Done
<1>5. KInv /\ KInv' /\ [Next]_vars =>
        [Contract!Next]_<<{r[1] : r \in running}, {t \in Tasks : TaskCompleted(events, t)}, Counted>>
  BY <1>4 DEF Called, Done
<1>6. QED
  BY <1>1, <1>2, <1>5, PTL DEF Spec, ContractSpec, Contract!Spec
-----------------------------------------------------------------------------
(* The order of the phases.                                                *)

OverPhases == {t.phase : t \in {u \in {Deduplicate, Finalize} : TaskCompleted(events, u)}}

\* What it is for a phase to be open, or over.
LEMMA OpenMeans ==
    /\ OpenPhases \subseteq {"review", "deduplicate", "validate", "finalize"}
    /\ "review" \in OpenPhases <=> Unreviewed(V) # {}
    /\ "deduplicate" \in OpenPhases <=> Undeduplicated(V) # {}
    /\ "validate" \in OpenPhases <=> Unvalidated(V) # {}
    /\ "finalize" \in OpenPhases <=> ~ TaskCompleted(events, Finalize)
    /\ OverPhases \subseteq {"deduplicate", "finalize"}
    /\ "deduplicate" \in OverPhases <=> TaskCompleted(events, Deduplicate)
    /\ "finalize" \in OverPhases <=> TaskCompleted(events, Finalize)
<1>1. /\ OpenPhases \subseteq {"review", "deduplicate", "validate", "finalize"}
      /\ \A p \in {"review", "deduplicate", "validate", "finalize"} :
            p \in OpenPhases <=> PendingIn(V, p) # {}
  BY DEF OpenPhases, V
<1>2. /\ PendingIn(V, "review") = {Task("review", f) : f \in Unreviewed(V)}
      /\ PendingIn(V, "deduplicate") = IF Undeduplicated(V) = {} THEN {} ELSE {Deduplicate}
      /\ PendingIn(V, "validate") = {Task("validate", f) : f \in Unvalidated(V)}
      /\ PendingIn(V, "finalize") = IF TaskCompleted(events, Finalize) THEN {} ELSE {Finalize}
  BY DEF PendingIn
<1>3. \A p, S : {Task(p, f) : f \in S} # {} <=> S # {}
  OBVIOUS
<1>4. Deduplicate.phase = "deduplicate" /\ Finalize.phase = "finalize"
  BY DEF Deduplicate, Finalize, Task
<1>5. /\ OverPhases \subseteq {"deduplicate", "finalize"}
      /\ "deduplicate" \in OverPhases <=> TaskCompleted(events, Deduplicate)
      /\ "finalize" \in OverPhases <=> TaskCompleted(events, Finalize)
  BY <1>4 DEF OverPhases
<1>6. QED
  BY <1>1, <1>2, <1>3, <1>5

\* The same after a step.
LEMMA OpenMeansNext ==
    ASSUME NEW w, w = V'
    PROVE  /\ OpenPhases' \subseteq {"review", "deduplicate", "validate", "finalize"}
           /\ "review" \in OpenPhases' <=> Unreviewed(w) # {}
           /\ "deduplicate" \in OpenPhases' <=> Undeduplicated(w) # {}
           /\ "validate" \in OpenPhases' <=> Unvalidated(w) # {}
           /\ "finalize" \in OpenPhases' <=> ~ TaskCompleted(events', Finalize)
           /\ OverPhases' \subseteq {"deduplicate", "finalize"}
           /\ "deduplicate" \in OverPhases' <=> TaskCompleted(events', Deduplicate)
           /\ "finalize" \in OverPhases' <=> TaskCompleted(events', Finalize)
<1>1. OpenPhases' = {p \in {"review", "deduplicate", "validate", "finalize"} : PendingIn(w, p)' # {}}
  BY DEF OpenPhases, V
<1>2. /\ PendingIn(w, "review")' = {Task("review", f) : f \in Unreviewed(w)}
      /\ PendingIn(w, "deduplicate")' = IF Undeduplicated(w) = {} THEN {} ELSE {Deduplicate}
      /\ PendingIn(w, "validate")' = {Task("validate", f) : f \in Unvalidated(w)}
      /\ PendingIn(w, "finalize")' = IF TaskCompleted(events', Finalize) THEN {} ELSE {Finalize}
  BY DEF PendingIn
<1>3. \A p, S : {Task(p, f) : f \in S} # {} <=> S # {}
  OBVIOUS
<1>4. Deduplicate.phase = "deduplicate" /\ Finalize.phase = "finalize"
  BY DEF Deduplicate, Finalize, Task
<1>5. /\ OverPhases' \subseteq {"deduplicate", "finalize"}
      /\ "deduplicate" \in OverPhases' <=> TaskCompleted(events', Deduplicate)
      /\ "finalize" \in OverPhases' <=> TaskCompleted(events', Finalize)
  BY <1>4 DEF OverPhases
<1>6. /\ OpenPhases' \subseteq {"review", "deduplicate", "validate", "finalize"}
      /\ \A p \in {"review", "deduplicate", "validate", "finalize"} :
            p \in OpenPhases' <=> PendingIn(w, p)' # {}
  BY <1>1
<1>7. QED
  BY <1>2, <1>3, <1>5, <1>6

\* What a bundle leaves open: a phase gives work to the next phase at most.
LEMMA OpenLeft ==
    ASSUME NEW v, NEW w, NEW t \in Tasks, NEW F \in SUBSET Findings, Kinds(v), Kinds(w),
           Grows(v, w, t, F), Settled(v)
    PROVE  /\ t.phase # "review" => Unreviewed(w) = Unreviewed(v)
           /\ t.phase = "review" => /\ Unvalidated(w) = Unvalidated(v)
                                    /\ Undeduplicated(v) \subseteq Undeduplicated(w)
           /\ t.phase = "review" /\ Unreviewed(v) = {} => Undeduplicated(w) = Undeduplicated(v)
           /\ t.phase = "deduplicate" => Unvalidated(v) \subseteq Unvalidated(w)
           /\ t.phase \in {"validate", "finalize"} => Undeduplicated(w) = Undeduplicated(v)
           /\ t.phase = "finalize" => Unvalidated(w) = Unvalidated(v)
<1>1. "review" \in Phases /\ "deduplicate" \in Phases /\ "validate" \in Phases
  BY DEF Phases
<1>2. /\ \A p \in Phases, f \in Findings : Value(v, p, f) # "none" => Value(w, p, f) = Value(v, p, f)
      /\ \A p \in Phases, f \in Findings : p # t.phase => Value(w, p, f) = Value(v, p, f)
  BY GrowsValues DEF Value
<1>3. t.phase # "review" => Unreviewed(w) = Unreviewed(v) /\ Accepted(w) = Accepted(v)
  BY <1>1, <1>2 DEF Unreviewed, Without, Accepted
<1>4. Accepted(v) \subseteq Accepted(w) /\ Accepted(w) \subseteq Findings
  BY <1>1, <1>2 DEF Accepted
<1>5. Unreviewed(v) = {} => Accepted(w) = Accepted(v)
  BY <1>1, <1>2 DEF Unreviewed, Without, Accepted
<1>6. CASE t.phase = "review"
  <2>1. \A f \in Findings : /\ Value(w, "deduplicate", f) = Value(v, "deduplicate", f)
                            /\ Value(w, "validate", f) = Value(v, "validate", f)
    BY <1>1, <1>2, <1>6
  <2>2. Undeduplicated(v) \subseteq Undeduplicated(w)
        /\ (Unreviewed(v) = {} => Undeduplicated(w) = Undeduplicated(v))
    BY <1>4, <1>5, <2>1 DEF Undeduplicated, Without
  <2>3. \A f \in Findings : Value(v, "deduplicate", f) = "canonical" => f \in Accepted(v)
    BY DEF Settled
  <2>4. Unvalidated(w) = Unvalidated(v)
    BY <1>4, <2>1, <2>3 DEF Unvalidated, Without
  <2>5. QED
    BY <1>6, <2>2, <2>4
<1>7. CASE t.phase = "deduplicate"
  BY <1>1, <1>2, <1>3, <1>4, <1>7 DEF Unvalidated, Without
<1>8. CASE t.phase \in {"validate", "finalize"}
  BY <1>1, <1>2, <1>3, <1>4, <1>8 DEF Undeduplicated, Unvalidated, Without
<1>9. QED
  BY <1>3, <1>6, <1>7, <1>8 DEF Tasks, Task, Deduplicate, Finalize

\* A step that does no work keeps the order of the phases.
LEMMA NoWork ==
    ASSUME OpenPhases' = OpenPhases, OverPhases' = OverPhases,
           \/ pc' \in {pc, "out"}
           \/ pc = "out" /\ pc' = "review"
           \/ pc # "out" /\ pc' = Order!After[pc] /\ pc \notin OpenPhases
    PROVE  Order!Next
<1>1. CASE pc = "out"
  <2>1. Order!Outside(OpenPhases, OpenPhases')
    BY <1>1 DEF Order!Outside, OverPhases
  <2>2. QED
    BY <2>1 DEF Order!Next, Order!Outside
<1>2. CASE pc # "out"
  <2>1. Order!Work(OpenPhases, OpenPhases')
    <3>1. \E done \in SUBSET ({pc} \cap OpenPhases), new \in SUBSET Order!Gives[pc] :
              done = {} /\ new = {}
      OBVIOUS
    <3>2. QED
      BY <3>1 DEF Order!Work, OverPhases
  <2>2. Order!Inside(OpenPhases, OpenPhases')
    BY <1>2, <2>1 DEF Order!Inside
  <2>3. QED
    BY <2>2 DEF Order!Next, Order!Inside, Order!Work
<1>3. QED
  BY <1>1, <1>2

\* An ingest closes the phase of its task at most, and opens the next at most.
LEMMA IngestInOrder ==
    ASSUME KInv, NEW t, NEW judged, Ingest(t, judged)
    PROVE  Order!Next
<1>1. PICK b, F, w :
          /\ F \in SUBSET Findings
          /\ t \in Tasks /\ t \in Active /\ t.phase = pc /\ w = V' /\ w = Verdicts(events')
          /\ \A u \in Tasks : TaskCompleted(events', u) <=> TaskCompleted(events, u) \/ u = t
          /\ Kinds(V) /\ Kinds(w) /\ Grows(V, w, t, F)
          /\ t.phase = "deduplicate" => Undeduplicated(w) = {}
          /\ Unreviewed(w) \subseteq Unreviewed(V)
          /\ t.phase \notin {"review", "deduplicate"} => Unvalidated(w) \subseteq Unvalidated(V)
  BY IngestReads DEF KInv
<1>2. pc' = pc /\ pc \in {"review", "deduplicate", "validate", "finalize"} /\ pc # "out"
  BY <1>1 DEF Ingest, Tasks, Task, Deduplicate, Finalize
<1>3. /\ pc # "review" => Unreviewed(w) = Unreviewed(V)
      /\ pc = "review" => /\ Unvalidated(w) = Unvalidated(V)
                          /\ Undeduplicated(V) \subseteq Undeduplicated(w)
      /\ pc = "review" /\ Unreviewed(V) = {} => Undeduplicated(w) = Undeduplicated(V)
      /\ pc = "deduplicate" => Unvalidated(V) \subseteq Unvalidated(w)
      /\ pc \in {"validate", "finalize"} => Undeduplicated(w) = Undeduplicated(V)
      /\ pc = "finalize" => Unvalidated(w) = Unvalidated(V)
  BY <1>1, OpenLeft DEF KInv, IInv
<1>4. /\ pc = "deduplicate" <=> t = Deduplicate
      /\ pc = "finalize" <=> t = Finalize
      /\ Deduplicate \in Tasks /\ Finalize \in Tasks
  BY <1>1 DEF Tasks, Task, Deduplicate, Finalize
<1>5. ~ TaskCompleted(events, t) /\ (t = Deduplicate => Undeduplicated(V) # {})
  BY <1>1 DEF KInv, Undone
<1>6. /\ OpenPhases' \subseteq {"review", "deduplicate", "validate", "finalize"}
      /\ "review" \in OpenPhases' <=> Unreviewed(w) # {}
      /\ "deduplicate" \in OpenPhases' <=> Undeduplicated(w) # {}
      /\ "validate" \in OpenPhases' <=> Unvalidated(w) # {}
      /\ "finalize" \in OpenPhases' <=> ~ TaskCompleted(events', Finalize)
      /\ OverPhases' \subseteq {"deduplicate", "finalize"}
      /\ "deduplicate" \in OverPhases' <=> TaskCompleted(events', Deduplicate)
      /\ "finalize" \in OverPhases' <=> TaskCompleted(events', Finalize)
  BY <1>1, OpenMeansNext
<1> DEFINE done == ({pc} \cap OpenPhases) \ OpenPhases'
           new == OpenPhases' \ OpenPhases
<1>7. PICK o, n, x, y : o = OpenPhases /\ n = OpenPhases' /\ x = OverPhases /\ y = OverPhases'
  OBVIOUS
<1>8. n = (o \ done) \cup new
  <2>1. o \ n \subseteq {pc}
    BY <1>1, <1>2, <1>3, <1>4, <1>6, <1>7, OpenMeans
  <2>2. QED
    BY <1>7, <2>1
<1>9. new \subseteq Order!Gives[pc] /\ (new # {} => pc \in o)
  <2>1. CASE pc = "review"
    <3>1. new \subseteq {"deduplicate"}
      BY <1>1, <1>3, <1>4, <1>6, <1>7, <2>1, OpenMeans
    <3>2. "deduplicate" \in new => "review" \in o
      BY <1>3, <1>6, <1>7, <2>1, OpenMeans
    <3>3. QED
      BY <2>1, <3>1, <3>2 DEF Order!Gives
  <2>2. CASE pc = "deduplicate"
    <3>1. new \subseteq {"validate"} /\ "deduplicate" \in o
      BY <1>1, <1>3, <1>4, <1>5, <1>6, <1>7, <2>2, OpenMeans
    <3>2. QED
      BY <2>2, <3>1 DEF Order!Gives
  <2>3. CASE pc \in {"validate", "finalize"}
    <3>1. new = {}
      BY <1>1, <1>3, <1>4, <1>6, <1>7, <2>3, OpenMeans
    <3>2. QED
      BY <3>1
  <2>4. QED
    BY <1>2, <2>1, <2>2, <2>3
<1>10. pc \in Order!Once => done = {pc}
  BY <1>1, <1>4, <1>5, <1>6, <1>7, OpenMeans DEF Order!Once
<1>11. y = x \cup (done \cap Order!Once) /\ done \cap x = {}
  <2>1. \A p \in {"deduplicate", "finalize"} : p \in y <=> p \in x \/ p = pc
    BY <1>1, <1>4, <1>6, <1>7, OpenMeans
  <2>2. x \subseteq {"deduplicate", "finalize"} /\ y \subseteq {"deduplicate", "finalize"}
    BY <1>6, <1>7, OpenMeans
  <2>3. pc \notin x
    BY <1>4, <1>5, <1>7, OpenMeans
  <2>4. QED
    BY <1>10, <2>1, <2>2, <2>3 DEF Order!Once
<1>12. Order!Work(OpenPhases, OpenPhases')
  <2>1. done \in SUBSET ({pc} \cap o) /\ new \in SUBSET Order!Gives[pc]
    BY <1>7, <1>9
  <2>2. new # {} /\ pc \in Order!Once => pc \in done
    BY <1>10
  <2> HIDE DEF done, new
  <2>3. QED
    BY <1>7, <1>8, <1>9, <1>11, <2>1, <2>2 DEF Order!Work, Order!Once, OverPhases
<1>13. Order!Inside(OpenPhases, OpenPhases')
  BY <1>2, <1>12 DEF Order!Inside
<1>14. QED
  BY <1>13 DEF Order!Next, Order!Inside, Order!Work

LEMMA OrderStep == ASSUME KInv, [Next]_vars PROVE Order!Next
<1>1. ASSUME UNCHANGED events PROVE OpenPhases' = OpenPhases /\ OverPhases' = OverPhases
  BY <1>1 DEF OpenPhases, PendingIn, OverPhases
<1>2. CASE Enter \/ Crash \/ UNCHANGED vars
  <2>1. UNCHANGED events /\ (pc' \in {pc, "out"} \/ (pc = "out" /\ pc' = "review"))
    BY <1>2 DEF Enter, Crash, vars, Begin
  <2>2. QED
    BY <1>1, <2>1, NoWork
<1>3. CASE EndPhase
  <2>1. /\ UNCHANGED events /\ pc # "out" /\ todo = {} /\ running = {}
        /\ pc' = IF failed THEN "out" ELSE After[pc]
    BY <1>3 DEF EndPhase, Begin
  <2>2. CASE failed
    BY <1>1, <2>1, <2>2, NoWork
  <2>3. CASE ~ failed
    <3>1. Pending(pc) = {}
      BY <2>1, <2>3 DEF KInv, IInv, Working, Active
    <3>2. pc \notin OpenPhases
      BY <3>1 DEF OpenPhases, Pending
    <3>3. pc' = Order!After[pc]
      BY <2>1, <2>3 DEF After, Order!After
    <3>4. QED
      BY <1>1, <2>1, <3>2, <3>3, NoWork
  <2>4. QED
    BY <2>2, <2>3
<1>4. ASSUME NEW t \in todo, StartTask(t) PROVE Order!Next
  BY <1>1, <1>4, NoWork DEF StartTask
<1>5. ASSUME NEW r \in running, Retry(r[1], r[2]) \/ Fail(r[1], r[2]) PROVE Order!Next
  BY <1>1, <1>5, NoWork DEF Retry, Fail
<1>6. ASSUME NEW r \in running, Ingest(r[1], r[2]) PROVE Order!Next
  BY <1>6, IngestInOrder
<1>7. QED
  BY <1>2, <1>3, <1>4, <1>5, <1>6 DEF Next

\* The phases, with tasks that overlap, fail, are lost and judge each other's findings,
\* keep the same order that the runner keeps with phases as a whole: a phase closes
\* its own work only, gives work to the next phase only and is left behind when the
\* ledger has no work for it; the deduplication and the report take place once
\* (run...PhaseWithAttemptRunnerContext, runPhases).
THEOREM PhasesKeepOrder == Spec => OrderSpec
<1>1. Init => Order!Init
  <2>1. SUFFICES ASSUME Init PROVE Order!Init
    OBVIOUS
  <2>2. pc = "out" /\ \A t : ~ TaskCompleted(events, t)
    BY <2>1, NothingRead DEF Init
  <2>3. \A p \in Phases, f \in Findings : V[p][f] = NoVerdict
    BY <2>1, NothingRead DEF Init, V
  <2>4. Accepted(V) = {}
    BY <2>3 DEF Accepted, Value, NoVerdict, Phases
  <2>5. Undeduplicated(V) = {} /\ Unvalidated(V) = {}
    BY <2>4 DEF Undeduplicated, Unvalidated, Without
  <2>6. PICK o : o = OpenPhases
    OBVIOUS
  <2>7. o = {"finalize"} \/ o = {"review", "finalize"}
    BY <2>2, <2>5, <2>6, OpenMeans
  <2>8. OverPhases = {}
    BY <2>2 DEF OverPhases
  <2>9. QED
    BY <2>2, <2>6, <2>7, <2>8 DEF Order!Init, OverPhases
<1>2. KInv /\ [Next]_vars => Order!Next
  BY OrderStep
<1>3. QED
  BY <1>1, <1>2, AlwaysKInv, PTL DEF Spec, OrderSpec, Order!Spec, OverPhases
-----------------------------------------------------------------------------
(* The phases run out of steps.                                            *)

\* A task that goes on was told of nothing that the ledger does not say now.
Told == \A r \in running : r[2] \subseteq Judged(r[1])

LEMMA JudgedGrows ==
    ASSUME KInv, NEW t, NEW judged, Ingest(t, judged), NEW u
    PROVE  Judged(u) \subseteq Judged(u)'
<1>1. PICK F, w :
          /\ F \in SUBSET Findings
          /\ t \in Tasks /\ w = V' /\ Kinds(V) /\ Kinds(w) /\ Grows(V, w, t, F)
  BY IngestReads DEF KInv
<1>2. \A p \in Phases, f \in Findings : Value(V, p, f) # "none" => Value(w, p, f) # "none"
  BY <1>1, GrowsValues DEF Value
<1>3. CASE u \in Cross
  <2>1. u.phase \in Phases
    BY <1>3, CrossAssumption DEF Phases, Task
  <2>2. Judged(u) = Findings \ Without(V, u.phase, Findings)
    BY <1>3 DEF Judged, V
  <2>3. Judged(u)' = Findings \ Without(w, u.phase, Findings)
    BY <1>1, <1>3 DEF Judged, V
  <2>4. QED
    BY <1>2, <2>1, <2>2, <2>3 DEF Without
<1>4. CASE u \notin Cross
  BY <1>4 DEF Judged
<1>5. QED
  BY <1>3, <1>4

LEMMA ToldStep == ASSUME KInv, Told, [Next]_vars PROVE Told'
<1>1. ASSUME UNCHANGED events PROVE \A u : Judged(u)' = Judged(u)
  BY <1>1 DEF Judged
<1>2. CASE UNCHANGED vars
  BY <1>1, <1>2 DEF Told, vars
<1>3. CASE Enter \/ EndPhase \/ Crash
  BY <1>3 DEF Enter, EndPhase, Crash, Begin, Told
<1>4. ASSUME NEW t \in todo, StartTask(t) PROVE Told'
  BY <1>1, <1>4 DEF StartTask, Told
<1>5. ASSUME NEW r \in running, Retry(r[1], r[2]) \/ Fail(r[1], r[2]) PROVE Told'
  BY <1>1, <1>5 DEF Retry, Fail, Told
<1>6. ASSUME NEW r \in running, Ingest(r[1], r[2]) PROVE Told'
  <2>1. running' \subseteq running
    BY <1>6 DEF Ingest
  <2>2. \A q \in running : Judged(q[1]) \subseteq Judged(q[1])'
    BY <1>6, JudgedGrows
  <2>3. QED
    BY <2>1, <2>2 DEF Told
<1>7. QED
  BY <1>2, <1>3, <1>4, <1>5, <1>6 DEF Next

\* The phase that follows is ahead.
LEMMA PhasesAhead ==
    ASSUME NEW p \in {"review", "deduplicate", "validate", "finalize"}
    PROVE  /\ After[p] # p /\ Ahead[After[p]] \subseteq Ahead[p]
           /\ p # "out" /\ Ahead["out"] \subseteq Ahead[p]
BY DEF After, Ahead

LEMMA EveryStepShrinks ==
    ASSUME KInv, Told, Next
    PROVE  StepShrinks
<1>1. /\ pc \in {"out", "review", "deduplicate", "validate", "finalize"}
      /\ running \subseteq Tasks \X SUBSET Findings
      /\ calls \in Nat
  BY VerdictsAssumption DEF KInv, IInv, TypeOK
<1>2. CASE Enter
  BY <1>1, <1>2 DEF Enter, StepShrinks
<1>3. CASE EndPhase \/ Crash
  BY <1>1, <1>3, PhasesAhead DEF EndPhase, Crash, Begin, StepShrinks
<1>4. ASSUME NEW t \in todo, StartTask(t) PROVE StepShrinks
  BY <1>4 DEF StartTask, StepShrinks
<1>5. ASSUME NEW r \in running, Ingest(r[1], r[2]) PROVE StepShrinks
  <2>1. running' \subseteq running /\ running' # running
    BY <1>5 DEF Ingest
  <2>2. UNCHANGED <<pc, todo, calls>>
    BY <1>5 DEF Ingest
  <2>3. QED
    BY <2>1, <2>2 DEF StepShrinks
<1>6. ASSUME NEW r \in running, Fail(r[1], r[2]) PROVE StepShrinks
  <2>1. running' \subseteq running /\ running' # running
    BY <1>6 DEF Fail
  <2>2. UNCHANGED <<pc, calls>> /\ todo' \in {todo, {}}
    BY <1>6 DEF Fail
  <2>3. QED
    BY <2>1, <2>2 DEF StepShrinks
<1>7. ASSUME NEW r \in running, Retry(r[1], r[2]) PROVE StepShrinks
  <2>1. PICK old, new : old = <<r[1], r[2]>> /\ new = <<r[1], Judged(r[1])>>
    OBVIOUS
  <2>2. /\ old \in running /\ r[2] # Judged(r[1])
        /\ running' = (running \ {old}) \cup {new}
        /\ UNCHANGED <<pc, todo, calls>>
    BY <1>7, <2>1 DEF Retry
  <2>3. old = r
    BY <1>1, <2>1
  <2>4. old # new /\ old[1] = new[1] /\ old[2] \subseteq new[2]
    BY <2>1, <2>2, <2>3 DEF Told
  <2>5. old \notin running'
    BY <2>2, <2>4
  <2>6. Richer(running, running')
    <3>1. running # running'
      BY <2>2, <2>5
    <3>2. ASSUME NEW q \in running
          PROVE  \E s \in running' : s[1] = q[1] /\ q[2] \subseteq s[2]
      BY <2>2, <2>4
    <3>3. ASSUME NEW s \in running'
          PROVE  \E q \in running : s[1] = q[1] /\ q[2] \subseteq s[2]
      BY <2>2, <2>4
    <3>4. QED
      BY <3>1, <3>2, <3>3 DEF Richer
  <2>7. QED
    BY <2>2, <2>6 DEF StepShrinks
<1>8. QED
  BY <1>2, <1>3, <1>4, <1>5, <1>6, <1>7 DEF Next

\* No call of the verdict phases goes on for ever: between two calls every step ends a
\* phase, sends a task, ends one, or starts it again with a snapshot that tells it more
\* (runReviewBatchWithAttemptRunnerContext and its like in the other phases, and the
\* attempts of runner.go).
THEOREM StepsAlwaysRunOut == Spec => StepsRunOut
<1>1. Init => Told
  BY DEF Init, Told
<1>2. ASSUME KInv, Told, [Next]_vars PROVE [StepShrinks]_vars
  BY <1>2, EveryStepShrinks
<1>3. KInv /\ Told /\ [Next]_vars => Told'
  BY ToldStep
<1>4. KInv /\ Told /\ [Next]_vars => [StepShrinks]_vars
  BY <1>2
<1>5. QED
  BY <1>1, <1>3, <1>4, AlwaysKInv, PTL DEF Spec, StepsRunOut
=============================================================================
