-------------------------- MODULE MCFindingVerdicts --------------------------
(* Constants of the run of FindingVerdicts.  The findings are not declared    *)
(* symmetric: SetToSeq orders them by CHOOSE.                                  *)
EXTENDS FindingVerdicts

CONSTANTS f1, f2

\* The agents of one finding's review and of its validation also judge the other.
CrossTasks == {Task("review", f1), Task("validate", f1)}
=============================================================================
