----------------------------- MODULE PhaseOrder -----------------------------
(***************************************************************************)
(* What the verdict phases make of their work, whoever runs them and in    *)
(* however many calls: a phase closes nothing but its own work and leaves  *)
(* work to the next one only, the next phase begins when nothing of this   *)
(* one is left, and the tasks that take place once are not done again.     *)
(***************************************************************************)

VARIABLES phase,  \* the phase, "out" between calls and in other phases
          open,   \* the phases that have work left
          over    \* those with a single task, that is completed

After == [review |-> "deduplicate", deduplicate |-> "validate", validate |-> "finalize",
          finalize |-> "out"]

Gives == [review |-> {"deduplicate"}, deduplicate |-> {"validate"}, validate |-> {},
          finalize |-> {}]

Once == {"deduplicate", "finalize"}

Init ==
    /\ phase = "out"
    /\ open \in {{"finalize"}, {"review", "finalize"}}
    /\ over = {}

\* Findings are made before Review, and in later calls again.
Outside(o, n) ==
    /\ phase = "out"
    /\ phase' \in {"out", "review"}
    /\ n \in {o, o \cup {"review"}}
    /\ over' = over

\* Tasks of the phase do their work, or some of it; the deduplication does all
\* of it or nothing.
Work(o, n) ==
    \E done \in SUBSET ({phase} \cap o), new \in SUBSET Gives[phase] :
        /\ n = (o \ done) \cup new
        /\ over' = over \cup (done \cap Once)
        /\ done \cap over = {}
        /\ new # {} => phase \in o
        /\ new # {} /\ phase \in Once => phase \in done

Inside(o, n) ==
    /\ phase # "out"
    /\ Work(o, n)
    /\ \/ phase' \in {phase, "out"}
       \/ phase' = After[phase] /\ phase \notin n

\* The work is bound before and after, so that it is computed once.
Next == \E o \in {open}, n \in {open'} : Outside(o, n) \/ Inside(o, n)

Spec == Init /\ [][Next]_<<phase, open, over>>
=============================================================================
