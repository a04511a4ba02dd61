----------------------------- MODULE MCPipeline -----------------------------
(* Constants of the runs of Pipeline. *)
EXTENDS Pipeline
=============================================================================
