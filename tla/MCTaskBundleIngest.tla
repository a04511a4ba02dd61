------------------------- MODULE MCTaskBundleIngest -------------------------
(* Constants of the runs of TaskBundleIngest. *)
EXTENDS TaskBundleIngest

CONSTANTS w1, w2, a, b

OwnDisjoint == [w \in {w1, w2} |-> IF w = w1 THEN {2, 3} ELSE {4}]
OwnShared == [w \in {w1, w2} |-> {1, 2}]
KnownOne == [p \in {1} |-> a]
KnownNone == [p \in {} |-> a]
=============================================================================
