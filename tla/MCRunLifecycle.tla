--------------------------- MODULE MCRunLifecycle ---------------------------
(* The module of the runs of RunLifecycle; the cfgs give the constants. *)
EXTENDS RunLifecycle
=============================================================================
