---------------------------- MODULE HostCapacity ----------------------------
(***************************************************************************)
(* How many task machines a run starts at once (config.go), and whether    *)
(* the host can hold them (lima_runner.go).  A request r says what one     *)
(* machine gets and, unless it is 0, how many there may be; a reading h    *)
(* says what the host has.  CPUs are counted; memory and disk are asked    *)
(* for in GiB and read in bytes.  Requests are far below 2^34 GiB, so no   *)
(* product leaves 64 bits.                                                 *)
(***************************************************************************)
EXTENDS Naturals, FiniteSetsExt

CONSTANT BytesPerGiB

ASSUME GiBAssumption == BytesPerGiB \in Nat \ {0}

Resources == {"cpus", "memory", "disk"}

\* validateConfig refuses requests that are not positive, and negative counts.
Requests == [parallel : Nat, need : [Resources -> Nat \ {0}]]

\* What a detector found; 0 where it found nothing.
Readings == [Resources -> Nat]

\* What k machines take of a resource, in the unit the host reports it in.
Demand(r, x, k) == r.need[x] * k * (IF x = "cpus" THEN 1 ELSE BytesPerGiB)

\* Mutant: the free disk is forgotten.
LimitsNoDisk(r, h) == {h[x] \div Demand(r, x, 1) : x \in {y \in Resources \ {"disk"} : h[y] > 0}}

\* How many machines each resource that was detected is enough for.
Limits(r, h) == {h[x] \div Demand(r, x, 1) : x \in {y \in Resources : h[y] > 0}}

\* effectiveParallelTasks, for a host of which nothing is known.
EffectiveParallelTasks(r) ==
    IF r.parallel > 0 THEN r.parallel ELSE IF r.need["cpus"] > 1 THEN 2 ELSE 1

\* The least of the limits, but one machine at least.
EffectiveParallelTasksForResources(r, h) ==
    IF r.parallel > 0 THEN r.parallel
    ELSE IF Limits(r, h) = {} THEN EffectiveParallelTasks(r)
    ELSE IF Min(Limits(r, h)) < 1 THEN 1 ELSE Min(Limits(r, h))

Fits(r, h, k) == \A x \in Resources : Demand(r, x, k) <= h[x]

\* validateHostResources; a resource that was not detected refuses the run.
ValidHost(r, h) ==
    /\ \A x \in Resources : h[x] > 0
    /\ Fits(r, h, EffectiveParallelTasksForResources(r, h))
=============================================================================
