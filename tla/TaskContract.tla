----------------------------- MODULE TaskContract -----------------------------
(***************************************************************************)
(* What a phase and its tasks promise each other.  The phase does not call *)
(* a task again whose work is recorded, and counts a task as done only     *)
(* when its work is recorded and its call is over.  A task records its     *)
(* work only while it is called, and what is recorded stays, unless it is  *)
(* work that can be lost between two calls (recon's evidence).  A call may *)
(* end without any work, or with an error after its work was recorded.     *)
(***************************************************************************)

CONSTANTS Tasks,
          Lossy  \* the tasks that notice when their work is lost

VARIABLES called,    \* the tasks that are called
          recorded,  \* those whose work the ledger has
          counted    \* those the phase takes for done

Init == called \subseteq Tasks /\ recorded = {} /\ counted = {}

\* Calls begin and end; nothing is called again.
Call == (called' \ called) \cap recorded = {}

\* Work is recorded by a call, for good unless it is lost while no call is on.
Record ==
    /\ recorded' \subseteq recorded \cup called
    /\ recorded \ recorded' \subseteq Lossy \ called

\* Nothing counts that may still fail or was lost.
Count == counted' \subseteq recorded' \ called'

Next == called' \subseteq Tasks /\ Call /\ Record /\ Count

Spec == Init /\ [][Next]_<<called, recorded, counted>>
=============================================================================
