------------------------- MODULE MCInvestigatePhase -------------------------
(* The module of the runs of InvestigatePhase; the cfgs give the constants. *)
EXTENDS InvestigatePhase

Machine(cpus, memory, disk) ==
    [x \in Resources |-> IF x = "cpus" THEN cpus ELSE IF x = "memory" THEN memory ELSE disk]

\* A pool pinned to two machines, and one left to the host.
MCConfigs == {[parallel |-> n, need |-> Machine(2, 1, 1)] : n \in {0, 2}}

\* The free disk holds two machines or part of one, or is not known.
MCHosts == {Machine(4, 5, disk) : disk \in {0, 1, 4}}
=============================================================================
