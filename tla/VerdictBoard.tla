---------------------------- MODULE VerdictBoard ----------------------------
(***************************************************************************)
(* What the verdict phases promise of the findings of a run: a board with  *)
(* one place per finding and phase, each written once.  Only an accepted   *)
(* finding is deduplicated, a duplicate points at a canonical finding, and *)
(* a finding is validated only when all is said of it in the phases before *)
(* (it may be rejected or a duplicate: any agent of Validate can judge it).*)
(***************************************************************************)

CONSTANTS Findings, None

VARIABLE board

Verdicts == [review : {"none", "accepted", "rejected"},
             deduplicate : {"none", "canonical", "duplicate"},
             canonical : Findings \cup {None},
             validate : {"none", "proven", "failed", "inconclusive"}]

Blank == [review |-> "none", deduplicate |-> "none", canonical |-> None, validate |-> "none"]

\* What is written of one finding fits together.
Fits(v) ==
    /\ v.deduplicate # "none" => v.review = "accepted"
    /\ v.deduplicate = "duplicate" <=> v.canonical # None
    /\ v.validate # "none" => v.review = "rejected" \/ v.deduplicate # "none"

\* A board is sound when, besides, no duplicate points at a duplicate.
Sound(b) ==
    \A f \in Findings :
        LET v == b[f]
        IN  /\ Fits(v)
            /\ v.canonical # None => b[v.canonical].deduplicate = "canonical"

\* What was written as v of a finding stands in w.
Stands(v, w) ==
    /\ v.review # "none" => w.review = v.review
    /\ v.deduplicate # "none" => w.deduplicate = v.deduplicate /\ w.canonical = v.canonical
    /\ v.validate # "none" => w.validate = v.validate

Init == board = [f \in Findings |-> Blank]

\* One task records its verdicts, all at once, and b becomes c.
Step(b, c) ==
    /\ c \in [Findings -> Verdicts]
    /\ \A f \in Findings : Stands(b[f], c[f])
    /\ Sound(c)

\* The boards are bound, so that a board that is computed is computed once.
Record == \E b \in {board}, c \in {board'} : Step(b, c)

Spec == Init /\ [][Record]_board
-----------------------------------------------------------------------------
\* The board has its type.
TypeOK == board \in [Findings -> Verdicts]

\* No finding is validated before it is reviewed and deduplicated, and no
\* duplicate points at a duplicate.
BoardSound == Sound(board)
=============================================================================
