----------------------- MODULE InvestigatePhase_proofs -----------------------
(***************************************************************************)
(* Proofs about InvestigatePhase, for any number of leads, workers, calls  *)
(* and faults, any limit, and any host and request.  The inductive         *)
(* invariant has a part for each of the things the phase relies on: the    *)
(* pool, what the ledger says of the leads, who works at what, and how     *)
(* many leads were started.                                                *)
(***************************************************************************)
EXTENDS InvestigatePhase, FiniteSetTheorems, FunctionTheorems, WellFoundedInduction, TLAPS

Busy == {"begin", "attempt", "agent", "transcript"}

\* Workers exist in a batch only, have a lead when they are busy, and are not
\* more than the pool has.
Staffed ==
    /\ pc \in {"out", "scan"} =>
          /\ \A w \in Workers : wpc[w] = "gone"
          /\ batch = {} /\ queue = {}
    /\ \A w \in Workers : job[w] # None <=> wpc[w] \in Busy
    /\ \A w \in Workers : wpc[w] # "gone" => w <= PoolSize
    /\ pc # "out" /\ config.parallel > 0 => ValidHost(config, host)

\* What the ledger says of the leads: their numbers have no gap, an attempt's
\* snapshot names only leads that exist, a completed lead is closed, and a lead
\* closed by nobody else's task was closed by its own.
Told ==
    /\ \E n \in 0..MaxLeads : Known = 1..n
    /\ \A w \in Workers : \A l \in Leads : view[w][l] # "none" => l \in Known
    /\ \A l \in done : Closed(status, l)
    /\ \A l \in Leads : Closed(status, l) /\ l \notin foreign =>
          l \in done /\ (status[l] = "promoted" => l \in findings)

\* Each lead of the batch waits to be sent, has one worker, is done, or failed.
Assigned ==
    /\ queue \subseteq batch /\ batch \subseteq Known
    /\ processed \subseteq done
    /\ \A l \in queue : l \notin done
    /\ \A w \in Workers : job[w] # None =>
          /\ job[w] \in batch \ queue
          /\ \A v \in Workers \ {w} : job[v] # job[w]
          /\ job[w] \in done <=> wpc[w] = "transcript"
    /\ failed \/ \A l \in batch :
          l \in queue \/ l \in done \/ \E w \in Workers : job[w] = l
    /\ pc = "wait" => failed \/ queue = {}

\* A result stands between calls only.
Answered == (pc # "out" => result = "none") /\ NoLeadForgotten

\* The open leads before l.
Before(l) == {k \in Leads : Open(k) /\ k < l}

\* The started leads exist; they are counted or in the batch, which leaves out no
\* earlier open lead; when no batch runs, every started lead that is still open is among
\* the first that the next call will take.
Counted ==
    /\ started \subseteq Known
    /\ Cardinality(started) <= Limit
    /\ pc \in {"send", "wait"} =>
          /\ started \subseteq processed \cup batch
          /\ Cardinality(processed \cup batch) <= Limit
          /\ \A l \in batch : Before(l) \subseteq batch
    /\ pc \in {"out", "scan"} =>
          \A l \in started : Open(l) => Cardinality(Before(l) \cup Processed) < Limit
    /\ pc = "scan" => started \subseteq processed \/ (processed = Processed /\ InvalidClosed = {})

IInv == TypeOK /\ Staffed /\ Told /\ Assigned /\ Answered /\ Counted

-----------------------------------------------------------------------------
(* The pool and the host.                                                  *)

\* Of at most three numbers one is the least.
LEMMA LeastOfThree ==
    ASSUME NEW a \in Nat, NEW b \in Nat, NEW c \in Nat, NEW S \in SUBSET {a, b, c}, S # {}
    PROVE  Min(S) \in S /\ \A y \in S : Min(S) <= y
<1>1. \E m \in S : \A y \in S : m <= y
  <2>1. CASE a \in S /\ (b \in S => a <= b) /\ (c \in S => a <= c)
    BY <2>1
  <2>2. CASE b \in S /\ (a \in S => b <= a) /\ (c \in S => b <= c)
    BY <2>2
  <2>3. CASE c \in S /\ (a \in S => c <= a) /\ (b \in S => c <= b)
    BY <2>3
  <2>4. a \in S \/ b \in S \/ c \in S
    OBVIOUS
  <2>5. \/ a \in S /\ (b \in S => a <= b) /\ (c \in S => a <= c)
        \/ b \in S /\ (a \in S => b <= a) /\ (c \in S => b <= c)
        \/ c \in S /\ (a \in S => c <= a) /\ (b \in S => c <= b)
    BY <2>4, SMT
  <2>6. QED
    BY <2>1, <2>2, <2>3, <2>5
<1>2. QED
  BY <1>1 DEF Min

\* What is divided by a and rounded down is enough for as many as a each.
LEMMA Quotient ==
    ASSUME NEW a \in Nat \ {0}, NEW h \in Nat, NEW k \in Nat, k <= h \div a
    PROVE  a * k <= h
<1>1. PICK q : q = h \div a
  OBVIOUS
<1>2. q \in Nat /\ a * q <= h
  BY <1>1
<1>3. a * k <= a * q
  BY <1>1, <1>2
<1>4. QED
  BY <1>2, <1>3

\* The limits are numbers, one for each resource that was detected.
LEMMA LimitsShape ==
    ASSUME NEW r \in Requests, NEW h \in Readings
    PROVE  /\ \A x \in Resources : Demand(r, x, 1) \in Nat \ {0} /\ h[x] \in Nat
           /\ \A x \in Resources : h[x] \div Demand(r, x, 1) \in Nat
           /\ Limits(r, h) # {} =>
                 /\ Min(Limits(r, h)) \in Limits(r, h)
                 /\ Min(Limits(r, h)) \in Nat
                 /\ \A y \in Limits(r, h) : Min(Limits(r, h)) <= y
<1>1. ASSUME NEW x \in Resources PROVE Demand(r, x, 1) \in Nat \ {0} /\ h[x] \in Nat
  <2>1. PICK n \in Nat \ {0} : n = r.need[x]
    BY DEF Requests
  <2>2. PICK u \in Nat \ {0} : u = (IF x = "cpus" THEN 1 ELSE BytesPerGiB)
    BY GiBAssumption
  <2>3. Demand(r, x, 1) = n * u
    BY <2>1, <2>2 DEF Demand
  <2>4. n * u \in Nat \ {0}
    BY <2>1, <2>2
  <2>5. QED
    BY <2>3, <2>4 DEF Readings
<1>2. ASSUME NEW x \in Resources PROVE h[x] \div Demand(r, x, 1) \in Nat
  BY <1>1
<1>3. PICK a \in Nat, b \in Nat, c \in Nat :
          /\ a = h["cpus"] \div Demand(r, "cpus", 1)
          /\ b = h["memory"] \div Demand(r, "memory", 1)
          /\ c = h["disk"] \div Demand(r, "disk", 1)
  BY <1>2 DEF Resources
<1>4. Limits(r, h) \subseteq {a, b, c}
  BY <1>3 DEF Limits, Resources
<1>5. Limits(r, h) \subseteq Nat
  BY <1>3, <1>4
<1>6. QED
  BY <1>1, <1>2, <1>4, <1>5, LeastOfThree

\* The size of a pool is a positive number.
LEMMA PoolSizePositive ==
    ASSUME NEW r \in Requests, NEW h \in Readings
    PROVE  EffectiveParallelTasksForResources(r, h) \in Nat \ {0}
<1>1. r.parallel \in Nat
  BY DEF Requests
<1>2. EffectiveParallelTasks(r) \in Nat \ {0}
  BY <1>1 DEF EffectiveParallelTasks
<1>3. QED
  BY <1>1, <1>2, LimitsShape DEF EffectiveParallelTasksForResources

\* Workers have numbers, from 1 to the size of the pool.
LEMMA WorkersNumbered ==
    /\ Workers \subseteq Nat \ {0}
    /\ config \in Configs /\ host \in Hosts => 1 \in Workers /\ 1..PoolSize \subseteq Workers
<1>1. ASSUME NEW c \in Configs, NEW h \in Hosts
      PROVE  EffectiveParallelTasksForResources(c, h) \in Nat \ {0}
  BY PoolSizePositive, InvestigateAssumption
<1>2. ASSUME NEW c \in Configs, NEW h \in Hosts,
             NEW w \in 1..EffectiveParallelTasksForResources(c, h)
      PROVE  w \in Nat \ {0}
  <2>1. PICK n \in Nat \ {0} : n = EffectiveParallelTasksForResources(c, h)
    BY <1>1
  <2>2. w \in 1..n
    BY <2>1
  <2>3. QED
    BY <2>2
<1> DEFINE PoolOf(c, h) == 1..EffectiveParallelTasksForResources(c, h)
           Pools == {PoolOf(c, h) : c \in Configs, h \in Hosts}
<1>a. \A c \in Configs, h \in Hosts : PoolOf(c, h) \in Pools
  OBVIOUS
<1>b. \A s \in Pools : \E c \in Configs, h \in Hosts : s = PoolOf(c, h)
  OBVIOUS
<1>c. Workers = UNION Pools
  BY DEF Workers
<1> HIDE DEF Pools
<1>3. Workers \subseteq Nat \ {0}
  BY <1>2, <1>b, <1>c, Zenon
<1>4. ASSUME config \in Configs, host \in Hosts
      PROVE  1 \in Workers /\ 1..PoolSize \subseteq Workers
  <2>1. PICK n \in Nat \ {0} : n = PoolSize
    BY <1>1, <1>4 DEF PoolSize
  <2>2. 1..PoolSize \subseteq Workers
    BY <1>4, <1>a, <1>c, Zenon DEF PoolSize
  <2>3. 1 \in 1..n
    BY <2>1
  <2>4. QED
    BY <2>1, <2>2, <2>3
<1>5. QED
  BY <1>3, <1>4

\* What several machines take grows with their number.
LEMMA DemandGrows ==
    ASSUME NEW r \in Requests, NEW x \in Resources, NEW k \in Nat, NEW m \in Nat, k <= m
    PROVE  Demand(r, x, k) <= Demand(r, x, m) /\ Demand(r, x, k) = Demand(r, x, 1) * k
<1>1. PICK n \in Nat \ {0} : n = r.need[x]
  BY DEF Requests
<1>2. PICK u \in Nat \ {0} : u = (IF x = "cpus" THEN 1 ELSE BytesPerGiB)
  BY GiBAssumption
<1>3. /\ Demand(r, x, k) = n * k * u
      /\ Demand(r, x, m) = n * m * u
      /\ Demand(r, x, 1) = n * 1 * u
  BY <1>1, <1>2 DEF Demand
<1>4. n * k <= n * m
  BY <1>1
<1>5. PICK i \in Nat, j \in Nat : i = n * k /\ j = n * m
  BY <1>1
<1>6. i * u <= j * u
  <2>1. PICK d \in Nat : j = i + d
    BY <1>4, <1>5
  <2>2. j * u = i * u + d * u /\ i * u \in Nat /\ d * u \in Nat
    BY <1>2, <2>1
  <2>3. QED
    BY <2>2
<1>7. n * k * u = (n * 1 * u) * k
  BY <1>1, <1>2
<1>8. QED
  BY <1>3, <1>5, <1>6, <1>7

\* More than one machine of a pool that was sized from a reading fit it.
LEMMA SizedFits ==
    ASSUME NEW r \in Requests, NEW h \in Readings, r.parallel > 0 => ValidHost(r, h),
           NEW k \in Nat, k > 1, k <= EffectiveParallelTasksForResources(r, h),
           NEW x \in Resources, h[x] > 0
    PROVE  Demand(r, x, k) <= h[x]
<1>1. r.parallel \in Nat
  BY DEF Requests
<1>2. CASE r.parallel > 0
  <2>1. Demand(r, x, r.parallel) <= h[x] /\ k <= r.parallel
    BY <1>2 DEF ValidHost, Fits, EffectiveParallelTasksForResources
  <2>2. Demand(r, x, k) <= Demand(r, x, r.parallel)
    BY <1>1, <2>1, DemandGrows
  <2>3. Demand(r, x, k) \in Nat /\ Demand(r, x, r.parallel) \in Nat /\ h[x] \in Nat
    <3>1. Demand(r, x, 1) \in Nat /\ h[x] \in Nat
      BY LimitsShape
    <3>2. Demand(r, x, k) = Demand(r, x, 1) * k
          /\ Demand(r, x, r.parallel) = Demand(r, x, 1) * r.parallel
      BY <1>1, DemandGrows
    <3>3. QED
      BY <1>1, <3>1, <3>2
  <2>4. QED
    BY <2>1, <2>2, <2>3
<1>3. CASE ~ r.parallel > 0
  <2>1. h[x] \div Demand(r, x, 1) \in Limits(r, h)
    BY DEF Limits
  <2>2. /\ Min(Limits(r, h)) \in Nat
        /\ Min(Limits(r, h)) <= h[x] \div Demand(r, x, 1)
    BY <2>1, LimitsShape
  <2>3. k <= Min(Limits(r, h))
    BY <1>3, <2>1, <2>2 DEF EffectiveParallelTasksForResources
  <2>4. k <= h[x] \div Demand(r, x, 1)
    BY <2>2, <2>3, LimitsShape
  <2>5. Demand(r, x, 1) * k <= h[x]
    BY <2>4, LimitsShape, Quotient
  <2>6. QED
    BY <2>5, DemandGrows
<1>4. QED
  BY <1>2, <1>3

\* As many as a each in h are at most what h divided by a and rounded down is.
LEMMA QuotientLargest ==
    ASSUME NEW a \in Nat \ {0}, NEW h \in Nat, NEW k \in Nat, a * k <= h
    PROVE  k <= h \div a
<1>1. PICK q \in Nat : q = h \div a
  OBVIOUS
<1>2. h < a * q + a
  BY <1>1
<1>3. ASSUME k >= q + 1 PROVE FALSE
  <2>1. PICK d \in Nat : k = q + 1 + d
    BY <1>1, <1>3
  <2>2. a * k = a * q + a + a * d /\ a * d \in Nat
    BY <1>1, <2>1
  <2>3. QED
    BY <1>1, <1>2, <2>2
<1>4. QED
  BY <1>1, <1>3

\* A pool that the host sizes is neither too large nor too small: more than one machine
\* fit a host that was read completely if and only if the pool has as many
\* (effectiveParallelTasksForResources of config.go against validateHostResources of
\* lima_runner.go).
THEOREM PoolIsLargest ==
    ASSUME NEW r \in Requests, NEW h \in Readings, r.parallel = 0,
           \A x \in Resources : h[x] > 0, NEW k \in Nat, k > 1
    PROVE  Fits(r, h, k) <=> k <= EffectiveParallelTasksForResources(r, h)
<1>1. \A x \in Resources : h[x] \div Demand(r, x, 1) \in Limits(r, h)
  BY DEF Limits
<1>2. Limits(r, h) # {}
  BY <1>1 DEF Resources
<1>3. PICK m \in Nat : m = Min(Limits(r, h)) /\ m \in Limits(r, h)
  BY <1>2, LimitsShape
<1>4. EffectiveParallelTasksForResources(r, h) = IF m < 1 THEN 1 ELSE m
  BY <1>2, <1>3 DEF EffectiveParallelTasksForResources
<1>5. k <= EffectiveParallelTasksForResources(r, h) <=> k <= m
  BY <1>3, <1>4
<1>6. ASSUME Fits(r, h, k) PROVE k <= m
  <2>1. PICK x \in Resources : m = h[x] \div Demand(r, x, 1)
    BY <1>3 DEF Limits
  <2>2. Demand(r, x, 1) * k <= h[x]
    BY <1>6, DemandGrows DEF Fits
  <2>3. QED
    BY <2>1, <2>2, LimitsShape, QuotientLargest
<1>7. ASSUME k <= m PROVE Fits(r, h, k)
  <2>1. r.parallel > 0 => ValidHost(r, h)
    OBVIOUS
  <2>2. k <= EffectiveParallelTasksForResources(r, h)
    BY <1>5, <1>7
  <2>3. QED
    BY <2>1, <2>2, SizedFits DEF Fits
<1>8. QED
  BY <1>5, <1>6, <1>7

\* The machines that run are not more than the pool has, and so fit the host.
LEMMA StaffedFits == TypeOK /\ Staffed => TasksFitHost
<1> DEFINE machines == {w \in Workers : wpc[w] \in {"attempt", "agent"}}
           k == Cardinality(machines)
<1> SUFFICES ASSUME TypeOK, Staffed, k > 1,
                    NEW x \in Resources, host[x] > 0
             PROVE  Demand(config, x, k) <= host[x]
  BY DEF TasksFitHost
<1>1. config \in Requests /\ host \in Readings
  BY InvestigateAssumption DEF TypeOK
<1>2. PoolSize \in Nat \ {0}
  BY <1>1, PoolSizePositive DEF PoolSize
<1>3. machines \subseteq 1..PoolSize
  <2>1. PICK n \in Nat : n = PoolSize
    BY <1>2
  <2>2. \A w \in machines : w \in Nat \ {0} /\ w <= n
    BY <2>1, WorkersNumbered DEF Staffed
  <2>3. QED
    BY <2>1, <2>2
<1>4. k \in Nat /\ k <= PoolSize
  <2>1. IsFiniteSet(1..PoolSize) /\ Cardinality(1..PoolSize) = PoolSize
    BY <1>2, FS_Interval
  <2>2. QED
    BY <1>3, <2>1, FS_Subset, FS_CardinalityType
<1>5. machines # {}
  BY FS_EmptySet
<1>6. pc # "out"
  BY <1>5 DEF Staffed
<1>7. config.parallel > 0 => ValidHost(config, host)
  BY <1>6 DEF Staffed
<1>8. QED
  BY <1>1, <1>4, <1>7, SizedFits DEF PoolSize
-----------------------------------------------------------------------------
(* Facts about leads.                                                      *)

LEMMA LeadsFinite ==
    /\ IsFiniteSet(Leads)
    /\ \A S \in SUBSET Leads : IsFiniteSet(S) /\ Cardinality(S) \in Nat
    /\ Leads \subseteq Nat
    /\ None \notin Leads
<1>1. IsFiniteSet(Leads)
  BY FS_Interval, InvestigateAssumption DEF Leads
<1>2. \A S \in SUBSET Leads : IsFiniteSet(S) /\ Cardinality(S) \in Nat
  BY <1>1, FS_Subset, FS_CardinalityType
<1>3. QED
  BY <1>1, <1>2, InvestigateAssumption DEF Leads

\* The first n of a set of leads are n at most: each has its own number of
\* leads before it.
LEMMA FirstBounded ==
    ASSUME NEW S \in SUBSET Leads, NEW n \in Nat
    PROVE  First(S, n) \subseteq S /\ Cardinality(First(S, n)) <= n
<1> DEFINE below(l) == {k \in S : k < l}
           rank == [l \in First(S, n) |-> Cardinality(below(l))]
<1>1. \A l \in S : IsFiniteSet(below(l)) /\ Cardinality(below(l)) \in Nat
  BY LeadsFinite
<1>2. First(S, n) = {l \in S : Cardinality(below(l)) < n}
  BY DEF First
<1>3. \A l, m \in S : l < m => Cardinality(below(l)) < Cardinality(below(m))
  <2>1. SUFFICES ASSUME NEW l \in S, NEW m \in S, l < m
                 PROVE  Cardinality(below(l)) < Cardinality(below(m))
    OBVIOUS
  <2>2. below(l) \cup {l} \subseteq below(m)
    <3>1. S \subseteq Nat
      BY LeadsFinite
    <3>2. \A k \in S : k < l => k < m
      BY <2>1, <3>1
    <3>3. QED
      BY <2>1, <3>2
  <2>3. l \notin below(l)
    BY LeadsFinite
  <2>4. Cardinality(below(l) \cup {l}) = Cardinality(below(l)) + 1
    BY <1>1, <2>3, FS_AddElement
  <2>5. Cardinality(below(l) \cup {l}) <= Cardinality(below(m))
    BY <1>1, <2>2, FS_Subset
  <2>6. QED
    BY <1>1, <2>4, <2>5
<1>4. rank \in Injection(First(S, n), 0..(n - 1))
  <2>1. rank \in [First(S, n) -> 0..(n - 1)]
    <3>1. ASSUME NEW l \in First(S, n) PROVE Cardinality(below(l)) \in 0..(n - 1)
      <4>1. l \in S /\ Cardinality(below(l)) < n
        BY <1>2
      <4>2. QED
        BY <1>1, <4>1
    <3>2. QED
      BY <3>1
  <2>2. ASSUME NEW l \in First(S, n), NEW m \in First(S, n), l # m
        PROVE  rank[l] # rank[m]
    <3>1. l \in S /\ m \in S
      BY <1>2
    <3>2. l < m \/ m < l
      BY <2>2, <3>1, LeadsFinite
    <3>3. Cardinality(below(l)) # Cardinality(below(m))
      BY <1>1, <1>3, <3>1, <3>2
    <3>4. QED
      BY <3>3
  <2>3. IsInjective(rank)
    BY <2>2 DEF IsInjective
  <2>4. QED
    BY <2>1, <2>3 DEF Injection
<1>5. IsFiniteSet(0..(n - 1)) /\ Cardinality(0..(n - 1)) = n
  BY FS_Interval
<1>6. Cardinality(First(S, n)) <= n
  BY <1>4, <1>5, FS_Injection
<1>7. QED
  BY <1>2, <1>6

\* What is derived from the ledger stays with it.
LEMMA LedgerSame ==
    ASSUME UNCHANGED <<status, findings, done>>
    PROVE  /\ Known' = Known
           /\ \A l : Open(l)' <=> Open(l)
           /\ \A l : Before(l)' = Before(l)
           /\ \A l : Complete(l)' <=> Complete(l)
           /\ started' = started => Processed' = Processed /\ InvalidClosed' = InvalidClosed
BY DEF Known, Open, Before, Complete, Closed, Processed, InvalidClosed
-----------------------------------------------------------------------------
(* The type.                                                               *)

\* A busy worker has a lead.
LEMMA BusyHasLead ==
    ASSUME TypeOK, Staffed, NEW w \in Workers, wpc[w] \in Busy
    PROVE  job[w] \in Leads /\ job[w] # None
BY DEF TypeOK, Staffed

\* What a bundle makes of the leads.
LEMMA AfterBundleType ==
    ASSUME TypeOK, NEW S \in SUBSET Leads, NEW closed \in [S -> {"dismissed", "promoted"}], NEW n
    PROVE  AfterBundle(closed, n) \in [Leads -> States]
BY DEF TypeOK, AfterBundle, States

LEMMA MainType ==
    ASSUME TypeOK, Staffed, Enter \/ Cancel \/ Crash \/ Main
    PROVE  TypeOK'
<1> USE DEF TypeOK, States
<1>1. CASE Enter
  <2>1. host' \in Hosts /\ config' = config
    BY <1>1 DEF Enter, Size
  <2>2. calls' \in 0..MaxCalls
    BY <1>1, InvestigateAssumption DEF Enter
  <2>3. Processed \subseteq Leads
    BY DEF Processed
  <2>4. CASE Return("invalid")
    BY <1>1, <2>1, <2>2, <2>4 DEF Enter, Return, ledger, pool
  <2>5. CASE /\ pc' = "scan" /\ result' = "none" /\ processed' = Processed
             /\ UNCHANGED <<batch, queue, failed>>
    BY <1>1, <2>1, <2>2, <2>3, <2>5 DEF Enter, ledger, pool
  <2>6. QED
    BY <1>1, <2>4, <2>5 DEF Enter
<1>2. CASE Cancel
  BY <1>2 DEF Cancel, sizing, ledger, main, pool, history
<1>3. CASE Crash
  <2>1. faults' \in 0..MaxFaults
    BY <1>3, InvestigateAssumption DEF Crash, Fault
  <2>2. NoView \in [Leads -> States]
    BY DEF NoView
  <2>3. QED
    BY <1>3, <2>1, <2>2 DEF Crash, Return, sizing, ledger
<1>4. CASE Scan
  <2>1. faults' \in 0..MaxFaults
    BY <1>4, InvestigateAssumption DEF Scan, Fault
  <2>2. {l \in Leads : Open(l)} \subseteq Leads
    OBVIOUS
  <2>3. First(Pending, Remaining) \subseteq Leads
    BY DEF First, Pending
  <2>4. CASE \E r \in {"cancelled", "ok", "error"} :
                Return(r) /\ wpc' = wpc /\ limitOpen' \in {limitOpen, {l \in Leads : Open(l)}}
    BY <1>4, <2>1, <2>2, <2>4 DEF Scan, Return, sizing
  <2>5. CASE /\ batch' = First(Pending, Remaining) /\ queue' = batch' /\ pc' = "send"
             /\ Spawn /\ UNCHANGED <<processed, failed, result, limitOpen, faults>>
    BY <1>4, <2>1, <2>3, <2>5 DEF Scan, Spawn, sizing
  <2>6. QED
    BY <1>4, <2>4, <2>5 DEF Scan
<1>5. ASSUME NEW w \in Workers, Send(w) PROVE TypeOK'
  <2>1. PICK l \in First(queue, 1) :
            job' = [job EXCEPT ![w] = l] /\ queue' = queue \ {l}
    BY <1>5 DEF Send
  <2>2. l \in Leads
    BY DEF First
  <2>3. QED
    BY <1>5, <2>1, <2>2 DEF Send, sizing, ledger, history
<1>6. CASE CloseJobs
  BY <1>6 DEF CloseJobs, sizing, ledger, pool, history
<1>7. CASE WaitPool
  BY <1>7 DEF WaitPool, Return, sizing, ledger, pool, history
<1>8. QED
  BY <1>1, <1>2, <1>3, <1>4, <1>5, <1>6, <1>7 DEF Main

LEMMA WorkerType ==
    ASSUME TypeOK, Staffed, NEW w \in Workers, Worker(w) \/ Retry(w)
    PROVE  TypeOK'
<1> USE DEF TypeOK, States
<1>a. NoView \in [Leads -> States]
  BY DEF NoView
<1>1. CASE Leave(w)
  BY <1>1 DEF Leave, sizing, ledger, main, history
<1>2. CASE BeginTask(w)
  <2>1. job[w] \in Leads
    BY <1>2, BusyHasLead DEF BeginTask, Busy
  <2>2. QED
    BY <1>2, <2>1 DEF BeginTask, Fail, NextJob, main, sizing, history
<1>3. CASE Attempt(w)
  BY <1>3 DEF Attempt, sizing, ledger, main, history
<1>4. CASE Retry(w)
  BY <1>4, <1>a DEF Retry, DropView, sizing, ledger, main, history
<1>5. CASE Ingest(w)
  <2>1. job[w] \in Leads
    BY <1>5, BusyHasLead DEF Ingest, Busy
  <2>2. PICK S \in SUBSET Closable(w) : \E closed \in [S -> {"dismissed", "promoted"}] :
            \E n \in 0..MaxLeads - Cardinality(Known) :
               /\ status' = AfterBundle(closed, n)
               /\ foreign' = foreign \cup (S \ {job[w]})
               /\ findings' \in {findings, findings \cup {job[w]}}
    BY <1>5 DEF Ingest
  <2>3. S \subseteq Leads
    BY DEF Closable
  <2>4. status' \in [Leads -> States]
    <3>1. PICK closed \in [S -> {"dismissed", "promoted"}],
               n \in 0..MaxLeads - Cardinality(Known) : status' = AfterBundle(closed, n)
      BY <2>2
    <3>2. AfterBundle(closed, n) \in [Leads -> States]
      BY <2>3, AfterBundleType
    <3>3. QED
      BY <3>1, <3>2
  <2>5. QED
    BY <1>5, <1>a, <2>1, <2>2, <2>3, <2>4 DEF Ingest, DropView, sizing, main, history
<1>6. CASE AttemptsFail(w)
  BY <1>6, <1>a DEF AttemptsFail, Fail, NextJob, DropView, sizing, ledger, main, history
<1>7. CASE RegisterTranscript(w)
  <2>1. faults' \in 0..MaxFaults
    BY <1>7, InvestigateAssumption DEF RegisterTranscript, Fault
  <2>2. QED
    BY <1>7, <2>1 DEF RegisterTranscript, Fail, NextJob, sizing, ledger, main
<1>8. QED
  BY <1>1, <1>2, <1>3, <1>4, <1>5, <1>6, <1>7 DEF Worker, Finish
-----------------------------------------------------------------------------
(* The pool.                                                               *)

LEMMA MainStaffed ==
    ASSUME TypeOK, Staffed, Enter \/ Cancel \/ Crash \/ Main
    PROVE  Staffed'
<1> USE DEF TypeOK, Staffed, Busy
<1>1. CASE Enter
  <2>1. config' = config /\ (config.parallel > 0 => ValidHost(config, host'))
    BY <1>1 DEF Enter, Size
  <2>2. /\ pc = "out" /\ wpc' = wpc /\ job' = job
        /\ \A w \in Workers : wpc'[w] = "gone" /\ job'[w] = None
        /\ pc' \in {"out", "scan"} /\ batch' = {} /\ queue' = {}
    BY <1>1 DEF Enter, Return, pool
  <2>3. pc' # "out" /\ config'.parallel > 0 => ValidHost(config', host')
    BY <2>1 DEF ValidHost, Fits, Demand, EffectiveParallelTasksForResources, Limits,
                EffectiveParallelTasks
  <2>4. QED
    BY <2>1, <2>2, <2>3
<1>2. CASE Cancel
  BY <1>2 DEF Cancel, sizing, main, pool, PoolSize
<1>3. CASE Crash
  BY <1>3 DEF Crash, Return, sizing
<1>4. CASE Scan
  <2>1. \A w \in Workers : wpc[w] = "gone" /\ job'[w] = None
    BY <1>4 DEF Scan
  <2>2. config' = config /\ host' = host /\ pc = "scan"
    BY <1>4 DEF Scan, sizing
  <2>3. PoolSize' = PoolSize
    BY <2>2 DEF PoolSize
  <2>4. CASE \E r \in {"cancelled", "ok", "error"} : Return(r) /\ wpc' = wpc
    BY <2>1, <2>4 DEF Return
  <2>5. CASE Spawn /\ pc' = "send"
    <3>1. \A w \in Workers : wpc'[w] \in {"idle", "gone"} /\ (wpc'[w] # "gone" => w <= PoolSize)
      BY <2>5 DEF Spawn
    <3>2. config.parallel > 0 => ValidHost(config', host')
      BY <2>2
    <3>3. QED
      BY <2>1, <2>2, <2>3, <2>5, <3>1, <3>2
  <2>6. QED
    BY <1>4, <2>4, <2>5 DEF Scan
<1>5. ASSUME NEW w \in Workers, Send(w) PROVE Staffed'
  <2>1. PICK l \in First(queue, 1) : job' = [job EXCEPT ![w] = l]
    BY <1>5 DEF Send
  <2>2. l # None
    BY LeadsFinite DEF First
  <2>3. PoolSize' = PoolSize
    BY <1>5 DEF Send, sizing, PoolSize
  <2>4. QED
    BY <1>5, <2>1, <2>2, <2>3 DEF Send, sizing
<1>6. CASE CloseJobs
  BY <1>6 DEF CloseJobs, sizing, pool, PoolSize
<1>7. CASE WaitPool
  BY <1>7 DEF WaitPool, Return, sizing, pool, PoolSize
<1>8. QED
  BY <1>1, <1>2, <1>3, <1>4, <1>5, <1>6, <1>7 DEF Main

LEMMA WorkerStaffed ==
    ASSUME TypeOK, Staffed, NEW w \in Workers, Worker(w) \/ Retry(w)
    PROVE  Staffed'
<1>1. /\ sizing' = sizing /\ pc' = pc /\ batch' = batch /\ queue' = queue
      /\ PoolSize' = PoolSize
  BY DEF Worker, Finish, Leave, BeginTask, Attempt, Retry, Ingest, AttemptsFail,
         RegisterTranscript, main, sizing, PoolSize
<1>2. PICK q \in {"idle", "begin", "attempt", "agent", "transcript", "gone"} :
          /\ wpc' = [wpc EXCEPT ![w] = q] /\ wpc[w] # "gone"
          /\ \/ q \in Busy /\ wpc[w] \in Busy /\ job' = job
             \/ q = "idle" /\ wpc[w] \in Busy /\ job' = [job EXCEPT ![w] = None]
             \/ q = "gone" /\ wpc[w] = "idle" /\ job' = job
  BY DEF Worker, Finish, Leave, BeginTask, Attempt, Retry, Ingest, AttemptsFail,
         RegisterTranscript, Fail, NextJob, Busy
<1>3. pc \notin {"out", "scan"}
  BY <1>2 DEF Staffed
<1>4. \A v \in Workers : /\ job'[v] # None <=> wpc'[v] \in Busy
                         /\ wpc'[v] # "gone" => v <= PoolSize
  BY <1>2 DEF TypeOK, Staffed, Busy
<1>5. config' = config /\ host' = host
  BY <1>1 DEF sizing
<1>6. QED
  BY <1>1, <1>3, <1>4, <1>5 DEF Staffed
-----------------------------------------------------------------------------
(* What the ledger says of the leads.                                      *)

\* All that a bundle changes, and all that it leaves alone.
LEMMA IngestShape ==
    ASSUME TypeOK, Staffed, Told, NEW w \in Workers, Ingest(w)
    PROVE  /\ Known \subseteq Known' /\ \E n \in 0..MaxLeads : Known' = 1..n
           /\ \A l \in Leads : Closed(status, l) => Closed(status', l)
           /\ \A l \in Known : Open(l)' => Open(l)
           /\ \A l \in Leads : Closed(status', l) /\ l \notin foreign' /\ l # job[w] =>
                 status'[l] = status[l]
           /\ job[w] \in Leads /\ done' = done \cup {job[w]}
           /\ Closed(status', job[w])
           /\ status'[job[w]] = "promoted" => job[w] \in findings'
           /\ foreign \subseteq foreign' /\ findings \subseteq findings'
<1>1. PICK S \in SUBSET Closable(w) : \E closed \in [S -> {"dismissed", "promoted"}] :
          \E n \in 0..MaxLeads - Cardinality(Known) :
             /\ status' = AfterBundle(closed, n)
             /\ foreign' = foreign \cup (S \ {job[w]})
             /\ findings' \in {findings, findings \cup {job[w]}}
             /\ Closed(status', job[w])
             /\ status'[job[w]] = "promoted" => job[w] \in findings'
  BY DEF Ingest
<1>2. PICK closed \in [S -> {"dismissed", "promoted"}], n \in 0..MaxLeads - Cardinality(Known) :
          status' = AfterBundle(closed, n)
  BY <1>1
<1>3. PICK m \in 0..MaxLeads : Known = 1..m
  BY DEF Told
<1>4. Cardinality(Known) = m
  BY <1>3, FS_Interval
<1>5. n \in 0..(MaxLeads - m)
  BY <1>2, <1>4
<1>6. FollowUps(n) = {l \in Leads : m < l /\ l <= m + n}
  BY <1>4 DEF FollowUps
<1>7. S \subseteq Leads /\ S \subseteq Known
  BY DEF Closable, Told
<1>8. \A l \in Leads : status'[l] = IF l \in S THEN closed[l]
                                    ELSE IF m < l /\ l <= m + n THEN "open" ELSE status[l]
  BY <1>2, <1>6 DEF AfterBundle
<1>9. \A l \in Leads : l \in Known <=> status[l] # "none"
  BY DEF Known
<1>10. \A l \in Leads : l \in S => closed[l] \in {"dismissed", "promoted"}
  BY <1>2
<1>11. Known' = 1..(m + n)
  <2>1. Known' = {l \in Leads : status'[l] # "none"}
    BY DEF Known
  <2>2. \A l \in Leads : status'[l] # "none" <=> l \in S \/ (m < l /\ l <= m + n) \/ l \in Known
    BY <1>8, <1>9, <1>10
  <2>3. \A l \in Leads : status'[l] # "none" <=> l <= m + n
    BY <1>3, <1>5, <1>7, <2>2, LeadsFinite, InvestigateAssumption DEF Leads
  <2>4. QED
    BY <1>5, <2>1, <2>3, InvestigateAssumption DEF Leads
<1>12. m + n \in 0..MaxLeads
  BY <1>3, <1>5, InvestigateAssumption
<1>13. \A l \in Leads : Closed(status, l) => Closed(status', l)
  <2>1. ASSUME NEW l \in Leads, Closed(status, l) PROVE Closed(status', l)
    <3>1. l \in Known
      BY <2>1, <1>9 DEF Closed
    <3>2. l <= m
      BY <1>3, <3>1
    <3>3. ~ (m < l)
      BY <1>3, <3>2, LeadsFinite
    <3>4. QED
      BY <1>8, <1>10, <2>1, <3>3 DEF Closed
  <2>2. QED
    BY <2>1
<1>14. \A l \in Known : Open(l)' => Open(l)
  <2>1. ASSUME NEW l \in Known, status'[l] = "open" PROVE status[l] = "open"
    <3>1. l \in Leads
      BY DEF Known
    <3>2. ~ (m < l)
      BY <1>3
    <3>3. l \notin S
      BY <1>8, <1>10, <2>1, <3>1
    <3>4. QED
      BY <1>8, <2>1, <3>1, <3>2, <3>3
  <2>2. QED
    BY <2>1 DEF Open
<1>15. \A l \in Leads : Closed(status', l) /\ l \notin foreign' /\ l # job[w] =>
          status'[l] = status[l]
  <2>1. ASSUME NEW l \in Leads, Closed(status', l), l \notin foreign', l # job[w]
        PROVE  status'[l] = status[l]
    <3>1. l \notin S
      BY <1>1, <2>1
    <3>2. status'[l] # "open"
      BY <2>1 DEF Closed
    <3>3. QED
      BY <1>8, <3>1, <3>2
  <2>2. QED
    BY <2>1
<1>16. job[w] \in Leads
  BY BusyHasLead DEF Ingest, Busy
<1>17. done' = done \cup {job[w]}
  BY DEF Ingest
<1>18. Known \subseteq Known'
  BY <1>3, <1>5, <1>11
<1>19. QED
  BY <1>1, <1>11, <1>12, <1>13, <1>14, <1>15, <1>16, <1>17, <1>18

LEMMA ToldStep ==
    ASSUME TypeOK, Staffed, Told, Next
    PROVE  Told'
<1>1. ASSUME NEW w \in Workers, Ingest(w) PROVE Told'
  <2>1. \A v \in Workers : view'[v] = view[v] \/ view'[v] = NoView
    BY <1>1 DEF Ingest, DropView, TypeOK
  <2>2. \A v \in Workers : \A l \in Leads : view'[v][l] # "none" => l \in Known'
    BY <1>1, <2>1, IngestShape DEF Told, NoView
  <2>3. \A l \in done' : Closed(status', l)
    <3>1. done \subseteq Leads
      BY DEF TypeOK
    <3>2. QED
      BY <1>1, <3>1, IngestShape DEF Told
  <2>4. ASSUME NEW l \in Leads, Closed(status', l), l \notin foreign'
        PROVE  l \in done' /\ (status'[l] = "promoted" => l \in findings')
    <3>1. CASE l = job[w]
      BY <1>1, <3>1, IngestShape
    <3>2. CASE l # job[w]
      <4>1. status'[l] = status[l] /\ l \notin foreign
        BY <1>1, <2>4, <3>2, IngestShape
      <4>2. Closed(status, l)
        BY <2>4, <4>1 DEF Closed
      <4>3. l \in done /\ (status[l] = "promoted" => l \in findings)
        BY <4>1, <4>2 DEF Told
      <4>4. QED
        BY <1>1, <4>1, <4>3, IngestShape
    <3>3. QED
      BY <3>1, <3>2
  <2>5. QED
    BY <1>1, <2>2, <2>3, <2>4, IngestShape DEF Told
<1>2. CASE \A w \in Workers : ~ Ingest(w)
  <2>1. UNCHANGED <<status, findings, done, foreign>>
    BY <1>2 DEF Next, Enter, Cancel, Crash, Main, Scan, Send, CloseJobs, WaitPool, Worker, Finish,
                Leave, BeginTask, Attempt, Retry, AttemptsFail, RegisterTranscript, ledger
  <2>2. \A v \in Workers : view'[v] \in {view[v], NoView, status}
    BY <1>2 DEF TypeOK, Next, Enter, Cancel, Crash, Main, Scan, Send, CloseJobs, WaitPool, Worker,
                Finish, Leave, BeginTask, Attempt, Retry, AttemptsFail, RegisterTranscript,
                DropView, pool
  <2>3. \A v \in Workers : \A l \in Leads : view'[v][l] # "none" => l \in Known
    BY <2>2 DEF Told, NoView, Known
  <2>4. Known' = Known
    BY <2>1, LedgerSame
  <2>5. QED
    BY <2>1, <2>3, <2>4 DEF Told
<1>3. QED
  BY <1>1, <1>2
-----------------------------------------------------------------------------
(* Who works at what.                                                      *)

LEMMA MainAssigned ==
    ASSUME TypeOK, Staffed, Told, Assigned, Enter \/ Cancel \/ Crash \/ Main
    PROVE  Assigned'
<1> USE DEF Staffed, Busy
<1>1. CASE Enter
  <2>1. /\ batch' = {} /\ queue' = {} /\ pc' # "wait" /\ job' = job /\ done' = done
        /\ \A w \in Workers : job'[w] = None
    BY <1>1 DEF Enter, Return, pool, ledger
  <2>2. processed' \subseteq done'
    BY <1>1, <2>1 DEF Enter, Return, Processed, Complete
  <2>3. QED
    BY <2>1, <2>2 DEF Assigned
<1>2. CASE Cancel
  BY <1>2, LedgerSame DEF Cancel, Assigned, main, pool, ledger
<1>3. CASE Crash
  BY <1>3 DEF Crash, Return, Assigned
<1>4. CASE Scan
  <2>1. /\ pc = "scan" /\ \A w \in Workers : job'[w] = None
        /\ UNCHANGED <<status, findings, done>>
    BY <1>4 DEF Scan
  <2>2. CASE \E r \in {"cancelled", "ok", "error"} : Return(r)
    BY <2>1, <2>2 DEF Return, Assigned
  <2>3. CASE /\ batch' = First(Pending, Remaining) /\ queue' = batch' /\ pc' = "send"
             /\ processed' = processed
    <3>1. batch' \subseteq Pending
      BY <2>3 DEF First
    <3>2. \A l \in Pending : l \in Known /\ l \notin done
      BY DEF Pending, Known, Told, Open, Closed
    <3>3. Known' = Known
      BY <2>1, LedgerSame
    <3>4. QED
      BY <2>1, <2>3, <3>1, <3>2, <3>3 DEF Assigned
  <2>4. QED
    BY <1>4, <2>2, <2>3 DEF Scan
<1>5. ASSUME NEW w \in Workers, Send(w) PROVE Assigned'
  <2>1. PICK l \in First(queue, 1) : job' = [job EXCEPT ![w] = l] /\ queue' = queue \ {l}
    BY <1>5 DEF Send
  <2>2. l \in queue /\ l # None
    BY <2>1, LeadsFinite DEF First, TypeOK
  <2>3. /\ job[w] = None /\ job'[w] = l /\ wpc'[w] = "begin"
        /\ \A v \in Workers \ {w} : job'[v] = job[v] /\ wpc'[v] = wpc[v]
    BY <1>5, <2>1 DEF Send, TypeOK
  <2>4. /\ batch' = batch /\ processed' = processed /\ failed' = failed /\ pc' = pc
        /\ done' = done /\ Known' = Known /\ pc = "send"
    BY <1>5, LedgerSame DEF Send, ledger
  <2>5. l \in batch /\ l \notin done
    BY <2>2 DEF Assigned
  <2>6. \A v \in Workers \ {w} : job[v] # l
    BY <2>2 DEF Assigned
  <2>7. ASSUME NEW v \in Workers, job'[v] # None
        PROVE  /\ job'[v] \in batch \ queue'
               /\ \A x \in Workers \ {v} : job'[x] # job'[v]
               /\ job'[v] \in done <=> wpc'[v] = "transcript"
    <3>1. CASE v = w
      BY <2>1, <2>3, <2>5, <2>6, <3>1
    <3>2. CASE v # w
      BY <2>1, <2>3, <2>6, <2>7, <3>2 DEF Assigned
    <3>3. QED
      BY <3>1, <3>2
  <2>8. failed \/ \A k \in batch : k \in queue' \/ k \in done \/ \E v \in Workers : job'[v] = k
    <3>1. ASSUME ~ failed, NEW k \in batch, k \notin queue', k \notin done
          PROVE  \E v \in Workers : job'[v] = k
      <4>1. CASE k = l
        BY <2>3, <4>1
      <4>2. CASE k # l
        <5>1. k \notin queue
          BY <2>1, <3>1, <4>2
        <5>2. PICK v \in Workers : job[v] = k
          BY <3>1, <5>1 DEF Assigned
        <5>3. v # w
          BY <2>3, <5>2, <3>1, LeadsFinite DEF TypeOK
        <5>4. QED
          BY <2>3, <5>2, <5>3
      <4>3. QED
        BY <4>1, <4>2
    <3>2. QED
      BY <3>1
  <2>9. QED
    BY <2>1, <2>4, <2>7, <2>8 DEF Assigned
<1>6. CASE CloseJobs
  BY <1>6, LedgerSame DEF CloseJobs, Assigned, pool, ledger
<1>7. CASE WaitPool
  <2>1. \A w \in Workers : job'[w] = None /\ job[w] = None
    BY <1>7 DEF WaitPool, pool
  <2>2. batch' = {} /\ queue' = {} /\ pc' # "wait" /\ done' = done
    BY <1>7 DEF WaitPool, Return, ledger
  <2>3. processed' \subseteq done
    <3>1. CASE failed
      BY <1>7, <3>1 DEF WaitPool, Return
    <3>2. CASE ~ failed
      <4>1. processed' = processed \cup batch /\ pc = "wait"
        BY <1>7, <3>2 DEF WaitPool
      <4>2. queue = {}
        BY <3>2, <4>1 DEF Assigned
      <4>3. \A l \in batch : l # None
        BY LeadsFinite DEF TypeOK
      <4>4. batch \subseteq done
        BY <2>1, <3>2, <4>2, <4>3 DEF Assigned
      <4>5. QED
        BY <4>1, <4>4 DEF Assigned
    <3>3. QED
      BY <3>1, <3>2
  <2>4. QED
    BY <2>1, <2>2, <2>3 DEF Assigned
<1>8. QED
  BY <1>1, <1>2, <1>3, <1>4, <1>5, <1>6, <1>7 DEF Main

\* A worker that gives its lead up has done it or failed.
LEMMA NextJobAssigned ==
    ASSUME TypeOK, Staffed, Assigned, NEW w \in Workers, NextJob(w), wpc[w] \in Busy,
           UNCHANGED <<main, status, findings, done>>,
           failed' \/ (failed' = failed /\ job[w] \in done)
    PROVE  Assigned'
<1>1. /\ job'[w] = None /\ \A v \in Workers \ {w} : job'[v] = job[v] /\ wpc'[v] = wpc[v]
  BY DEF NextJob, TypeOK
<1>2. /\ batch' = batch /\ queue' = queue /\ processed' = processed /\ pc' = pc
      /\ Known' = Known
  BY LedgerSame DEF main
<1>3. failed => failed'
  OBVIOUS
<1>4. failed' \/ \A l \in batch : l \in queue \/ l \in done \/ \E v \in Workers : job'[v] = l
  BY <1>1 DEF Assigned
<1>5. ASSUME NEW v \in Workers, job'[v] # None
      PROVE  /\ job'[v] \in batch \ queue
             /\ \A x \in Workers \ {v} : job'[x] # job'[v]
             /\ job'[v] \in done <=> wpc'[v] = "transcript"
  BY <1>1, <1>5 DEF Assigned
<1>6. QED
  BY <1>2, <1>3, <1>4, <1>5 DEF Assigned

LEMMA WorkerAssigned ==
    ASSUME TypeOK, Staffed, Told, Assigned, NEW w \in Workers, Worker(w) \/ Retry(w)
    PROVE  Assigned'
<1> USE DEF Busy
<1>1. ASSUME UNCHANGED <<main, failed, job, status, findings, done>>,
             NEW q, wpc' = [wpc EXCEPT ![w] = q], q # "transcript", wpc[w] # "transcript"
      PROVE  Assigned'
  <2>1. Known' = Known
    BY <1>1, LedgerSame
  <2>2. \A v \in Workers : wpc'[v] = "transcript" <=> wpc[v] = "transcript"
    BY <1>1 DEF TypeOK
  <2>3. QED
    BY <1>1, <2>1, <2>2 DEF Assigned, main
<1>2. CASE Leave(w) \/ Attempt(w) \/ Retry(w)
  BY <1>1, <1>2 DEF Leave, Attempt, Retry, ledger
<1>3. CASE BeginTask(w)
  <2>1. wpc[w] = "begin" /\ UNCHANGED <<main, status, findings, done>>
    BY <1>3 DEF BeginTask
  <2>2. CASE Fail(w)
    BY <2>1, <2>2, NextJobAssigned DEF Fail
  <2>3. CASE wpc' = [wpc EXCEPT ![w] = "attempt"] /\ UNCHANGED <<failed, job>>
    BY <1>1, <2>1, <2>3
  <2>4. QED
    BY <1>3, <2>2, <2>3 DEF BeginTask
<1>4. CASE AttemptsFail(w)
  BY <1>4, NextJobAssigned DEF AttemptsFail, Fail, ledger
<1>5. CASE RegisterTranscript(w)
  <2>1. wpc[w] = "transcript" /\ UNCHANGED <<main, status, findings, done>> /\ NextJob(w)
    BY <1>5 DEF RegisterTranscript, ledger, Fail
  <2>2. job[w] \in done
    BY <2>1, BusyHasLead DEF Assigned
  <2>3. failed' \/ failed' = failed
    BY <1>5 DEF RegisterTranscript, Fail
  <2>4. QED
    BY <2>1, <2>2, <2>3, NextJobAssigned
<1>6. CASE Ingest(w)
  <2>1. /\ UNCHANGED <<pc, processed, batch, queue, failed, job>>
        /\ wpc[w] = "agent" /\ wpc'[w] = "transcript" /\ done' = done \cup {job[w]}
        /\ \A v \in Workers \ {w} : wpc'[v] = wpc[v]
    BY <1>6 DEF Ingest, main, TypeOK
  <2>2. Known \subseteq Known'
    BY <1>6, IngestShape
  <2>3. job[w] # None
    BY <2>1, BusyHasLead
  <2>4. job[w] \notin queue
    BY <2>3 DEF Assigned
  <2>5. ASSUME NEW v \in Workers, job[v] # None
        PROVE  job[v] \in done' <=> wpc'[v] = "transcript"
    <3>1. CASE v = w
      BY <2>1, <3>1
    <3>2. CASE v # w
      BY <2>1, <2>5, <3>2 DEF Assigned
    <3>3. QED
      BY <3>1, <3>2
  <2>6. QED
    BY <2>1, <2>2, <2>4, <2>5 DEF Assigned
<1>7. QED
  BY <1>2, <1>3, <1>4, <1>5, <1>6 DEF Worker, Finish
-----------------------------------------------------------------------------
(* What a call answers.                                                    *)

\* A worker works during a batch only.
LEMMA WorkerInBatch ==
    ASSUME Staffed, NEW w \in Workers, Worker(w) \/ Retry(w)
    PROVE  pc \notin {"out", "scan"}
BY DEF Staffed, Worker, Retry, Finish, Leave, BeginTask, Attempt, Ingest, AttemptsFail,
       RegisterTranscript

\* A success is answered by the scan alone.
LEMMA AnsweredStep ==
    ASSUME TypeOK, Staffed, Told, Assigned, Answered, Next
    PROVE  Answered'
<1> USE DEF Answered, NoLeadForgotten
<1>1. CASE Enter
  BY <1>1 DEF Enter, Return
<1>2. CASE Scan
  <2>1. /\ pc = "scan" /\ result = "none"
        /\ UNCHANGED <<status, findings, done>>
        /\ Known' = Known /\ \A l : Open(l)' <=> Open(l)
    BY <1>2, LedgerSame DEF Scan
  <2>2. \A l \in processed : ~ Open(l)
    BY DEF Assigned, Told, Closed, Open
  <2>3. Known = {l \in Leads : status[l] # "none"}
    BY DEF Known
  <2>4. CASE Pending = {} /\ Return("ok")
    <3>1. \A l \in Known : ~ Open(l)
      BY <2>2, <2>3, <2>4 DEF Pending
    <3>2. QED
      BY <2>1, <2>4, <3>1 DEF Return
  <2>5. CASE /\ Remaining = 0 /\ limitOpen' = {l \in Leads : Open(l)} /\ Return("ok")
    <3>1. {l \in Leads : Open(l)} = {l \in Known : Open(l)}
      BY <2>3 DEF Open
    <3>2. Cardinality(processed) \in Nat /\ Cardinality(processed) >= Limit
      BY <2>5, LeadsFinite, InvestigateAssumption DEF Remaining, TypeOK
    <3>3. Cardinality(processed) <= Cardinality(done) /\ Cardinality(done) \in Nat
      BY LeadsFinite, FS_Subset DEF TypeOK, Assigned
    <3>4. Cardinality(done) >= Limit
      BY <3>2, <3>3, InvestigateAssumption
    <3>5. {l \in Known' : Open(l)'} = limitOpen'
      BY <2>1, <2>5, <3>1
    <3>6. QED
      BY <2>1, <2>5, <3>4, <3>5 DEF Return
  <2>6. CASE Return("cancelled") \/ Return("error")
    BY <2>6 DEF Return
  <2>7. CASE pc' = "send" /\ result' = result
    BY <2>1, <2>7
  <2>8. QED
    BY <1>2, <2>4, <2>5, <2>6, <2>7 DEF Scan
<1>3. CASE Cancel \/ CloseJobs \/ \E w \in Workers : Send(w)
  <2>1. pc # "out" /\ result' = result
    BY <1>3 DEF Cancel, CloseJobs, Send
  <2>2. QED
    BY <2>1
<1>4. CASE WaitPool \/ Crash
  <2>1. pc # "out" /\ (result' = result \/ (result' # "ok" /\ pc' = "out"))
    BY <1>4 DEF WaitPool, Crash, Return
  <2>2. QED
    BY <2>1
<1>5. ASSUME NEW w \in Workers, Worker(w) \/ Retry(w) PROVE Answered'
  <2>1. pc # "out"
    BY <1>5, WorkerInBatch
  <2>2. result' = result
    BY <1>5 DEF Worker, Retry, Finish, Leave, BeginTask, Attempt, Ingest, AttemptsFail,
                RegisterTranscript
  <2>3. QED
    BY <2>1, <2>2
<1>6. QED
  BY <1>1, <1>2, <1>3, <1>4, <1>5 DEF Next, Main
-----------------------------------------------------------------------------
(* How many leads are started.                                             *)

LEMMA SubsetCardinality ==
    ASSUME NEW S \in SUBSET Leads, NEW T \in SUBSET S
    PROVE  Cardinality(T) \in Nat /\ Cardinality(S) \in Nat /\ Cardinality(T) <= Cardinality(S)
BY LeadsFinite, FS_Subset

LEMMA DisjointCardinality ==
    ASSUME NEW S \in SUBSET Leads, NEW T \in SUBSET Leads, S \cap T = {}
    PROVE  Cardinality(S \cup T) = Cardinality(S) + Cardinality(T)
<1>1. IsFiniteSet(S) /\ IsFiniteSet(T) /\ Cardinality(S) \in Nat /\ Cardinality(T) \in Nat
  BY LeadsFinite
<1>2. Cardinality(S \cap T) = 0
  BY FS_EmptySet
<1>3. Cardinality(S \cup T) = Cardinality(S) + Cardinality(T) - Cardinality(S \cap T)
  BY <1>1, FS_Union
<1>4. QED
  BY <1>1, <1>2, <1>3

\* Whatever ends a batch early, a started lead that is still open is among those
\* that the next call takes first.
LEMMA StartedEarly ==
    ASSUME TypeOK, Told, Assigned, Counted, pc \in {"send", "wait"},
           NEW l \in started, Open(l)
    PROVE  Cardinality(Before(l) \cup Processed) < Limit
<1> DEFINE all == processed \cup batch
           rest == all \ {l}
<1>1. started \subseteq all /\ Cardinality(all) <= Limit /\ \A k \in batch : Before(k) \subseteq batch
  BY DEF Counted
<1>2. l \notin done
  BY DEF Told, Closed, Open
<1>3. l \in batch
  BY <1>1, <1>2 DEF Assigned
<1>4. l \notin Before(l)
  BY <1>3, LeadsFinite DEF Before, TypeOK
<1>5. Processed \subseteq started /\ l \notin Processed
  BY <1>2 DEF Processed, Complete
<1>6. Before(l) \cup Processed \subseteq rest
  BY <1>1, <1>3, <1>4, <1>5
<1>7. all \subseteq Leads /\ IsFiniteSet(all)
  BY LeadsFinite DEF TypeOK
<1>8. Cardinality(rest) = Cardinality(all) - 1 /\ Cardinality(all) \in Nat
  BY <1>3, <1>7, FS_RemoveElement, LeadsFinite
<1>9. Cardinality(Before(l) \cup Processed) <= Cardinality(rest)
      /\ Cardinality(Before(l) \cup Processed) \in Nat
  <2>1. rest \in SUBSET Leads /\ Before(l) \cup Processed \in SUBSET rest
    BY <1>6, <1>7
  <2>2. QED
    BY <2>1, SubsetCardinality
<1>10. QED
  BY <1>1, <1>8, <1>9, InvestigateAssumption

\* The next batch takes every started lead that is not counted.
LEMMA BatchTakesStarted ==
    ASSUME TypeOK, Told, Assigned, Counted, pc = "scan", Remaining # 0
    PROVE  /\ started \subseteq processed \cup First(Pending, Remaining)
           /\ Cardinality(processed \cup First(Pending, Remaining)) <= Limit
           /\ \A l \in First(Pending, Remaining) : Before(l) \subseteq First(Pending, Remaining)
<1> DEFINE next == First(Pending, Remaining)
           below(l) == {k \in Pending : k < l}
<1>1. /\ processed \subseteq Leads /\ IsFiniteSet(processed) /\ Cardinality(processed) \in Nat
      /\ started \subseteq Leads
  BY LeadsFinite DEF TypeOK
<1>2. Limit \in Nat /\ Remaining = Limit - Cardinality(processed) /\ Remaining \in Nat
  BY <1>1, InvestigateAssumption DEF Remaining
<1>3. Pending \subseteq Leads /\ Pending \cap processed = {}
  BY DEF Pending
<1>4. \A l \in processed : ~ Open(l)
  BY DEF Assigned, Told, Closed, Open
<1>5. \A l \in Leads : Before(l) = below(l)
  BY <1>4 DEF Before, Pending
<1>6. next = {l \in Pending : Cardinality(below(l)) < Remaining}
  BY DEF First
<1>7. \A l \in Leads : /\ IsFiniteSet(below(l)) /\ Cardinality(below(l)) \in Nat
                       /\ below(l) \cap processed = {}
  BY <1>3, LeadsFinite
<1>8. started \subseteq processed \cup next
  <2>1. CASE started \subseteq processed
    BY <2>1
  <2>2. CASE processed = Processed /\ InvalidClosed = {}
    <3>1. SUFFICES ASSUME NEW l \in started, l \notin processed PROVE l \in next
      OBVIOUS
    <3>2. l \in Leads /\ Open(l) /\ l \in Pending
      BY <1>1, <2>2, <3>1 DEF InvalidClosed, Processed, Pending
    <3>3. Cardinality(below(l) \cup processed) < Limit
      BY <1>5, <2>2, <3>2 DEF Counted
    <3>4. Cardinality(below(l) \cup processed) = Cardinality(below(l)) + Cardinality(processed)
      <4>1. below(l) \cap processed = {} /\ below(l) \in SUBSET Leads
        BY <1>3, <1>7, <3>2
      <4>2. QED
        BY <1>1, <4>1, DisjointCardinality
    <3>5. Cardinality(below(l)) < Remaining
      <4>1. PICK b \in Nat, c \in Nat : b = Cardinality(below(l)) /\ c = Cardinality(processed)
        BY <1>1, <1>7, <3>2
      <4>2. b + c < Limit
        BY <3>3, <3>4, <4>1
      <4>3. QED
        BY <1>2, <4>1, <4>2
    <3>6. QED
      BY <1>6, <3>2, <3>5
  <2>3. QED
    BY <2>1, <2>2 DEF Counted
<1>9. Cardinality(processed \cup next) <= Limit
  <2>1. next \subseteq Pending /\ Cardinality(next) <= Remaining
    BY <1>2, <1>3, FirstBounded
  <2>2. IsFiniteSet(next) /\ Cardinality(next) \in Nat /\ next \cap processed = {}
    BY <1>3, <2>1, LeadsFinite
  <2>3. Cardinality(processed \cup next) = Cardinality(processed) + Cardinality(next)
    <3>1. next \in SUBSET Leads /\ processed \in SUBSET Leads /\ processed \cap next = {}
      BY <1>1, <1>3, <2>1, <2>2
    <3>2. QED
      BY <3>1, DisjointCardinality
  <2>4. QED
    BY <1>1, <1>2, <2>1, <2>2, <2>3
<1>10. ASSUME NEW l \in next PROVE Before(l) \subseteq next
  <2>1. l \in Pending /\ l \in Leads /\ Cardinality(below(l)) < Remaining
    BY <1>3, <1>6
  <2>2. SUFFICES ASSUME NEW k \in below(l) PROVE k \in next
    BY <1>5, <2>1
  <2>3. k \in Pending /\ k \in Leads /\ k < l
    BY <1>3
  <2>4. below(k) \subseteq below(l)
    <3>1. \A j \in Pending : j < k => j < l
      BY <1>3, <2>1, <2>3, LeadsFinite
    <3>2. QED
      BY <3>1
  <2>5. Cardinality(below(k)) <= Cardinality(below(l))
    <3>1. below(l) \in SUBSET Leads /\ below(k) \in SUBSET below(l)
      BY <1>3, <2>4
    <3>2. QED
      BY <3>1, SubsetCardinality
  <2>6. Cardinality(below(k)) < Remaining
    <3>1. PICK a \in Nat, b \in Nat : a = Cardinality(below(k)) /\ b = Cardinality(below(l))
      BY <1>7, <2>1, <2>3
    <3>2. a <= b /\ b < Remaining
      BY <2>1, <2>5, <3>1
    <3>3. QED
      BY <1>2, <3>1, <3>2
  <2>7. QED
    BY <1>6, <2>3, <2>6
<1>11. QED
  BY <1>8, <1>9, <1>10

\* What a step of the phase itself does to the count.
LEMMA MainCounted ==
    ASSUME TypeOK, Staffed, Told, Assigned, Counted, Assigned', Told',
           Enter \/ Cancel \/ Crash \/ Main
    PROVE  Counted'
<1>1. /\ UNCHANGED <<status, findings, done, started>>
      /\ Processed' = Processed /\ InvalidClosed' = InvalidClosed /\ Known' = Known
      /\ \A l : (Open(l)' <=> Open(l)) /\ Before(l)' = Before(l)
  <2>1. UNCHANGED <<status, findings, done, started>>
    BY DEF Enter, Cancel, Crash, Main, Scan, Send, CloseJobs, WaitPool, ledger
  <2>2. QED
    BY <2>1, LedgerSame
<1>2. started' \subseteq Known' /\ Cardinality(started') <= Limit
  BY <1>1 DEF Counted
<1>3. ASSUME pc \in {"send", "wait"}
      PROVE  \A l \in started : Open(l) => Cardinality(Before(l) \cup Processed) < Limit
  BY <1>3, StartedEarly
<1>4. ASSUME pc' = "out" PROVE Counted'
  <2>1. \A l \in started : Open(l) => Cardinality(Before(l) \cup Processed) < Limit
    BY <1>3 DEF TypeOK, Counted
  <2>2. QED
    BY <1>1, <1>2, <1>4, <2>1 DEF Counted
<1>5. ASSUME UNCHANGED <<processed, batch>>,
             pc' = pc \/ (pc' = "wait" /\ pc = "send")
      PROVE  Counted'
  BY <1>1, <1>2, <1>5 DEF Counted
<1>6. CASE Enter
  <2>1. pc = "out" /\ (pc' = "out" \/ (pc' = "scan" /\ processed' = Processed /\ InvalidClosed = {}))
    BY <1>6 DEF Enter, Return
  <2>2. QED
    BY <1>1, <1>2, <1>4, <2>1 DEF Counted
<1>7. CASE Cancel \/ CloseJobs \/ \E w \in Workers : Send(w)
  BY <1>5, <1>7 DEF Cancel, CloseJobs, Send, main
<1>8. CASE Crash
  BY <1>4, <1>8 DEF Crash, Return
<1>9. CASE Scan
  <2>1. CASE pc' = "out"
    BY <1>4, <2>1
  <2>2. CASE /\ pc = "scan" /\ Remaining # 0 /\ batch' = First(Pending, Remaining)
             /\ pc' = "send" /\ processed' = processed
    BY <1>1, <1>2, <2>2, BatchTakesStarted DEF Counted
  <2>3. QED
    BY <1>9, <2>1, <2>2 DEF Scan, Return
<1>10. CASE WaitPool
  <2>1. CASE pc' = "out"
    BY <1>4, <2>1
  <2>2. CASE pc = "wait" /\ pc' = "scan" /\ processed' = processed \cup batch
    <3>1. started \subseteq processed'
      BY <2>2 DEF Counted
    <3>2. \A l \in started : ~ Open(l)
      BY <1>1, <3>1 DEF Assigned, Told, Closed, Open
    <3>3. QED
      BY <1>1, <1>2, <2>2, <3>1, <3>2 DEF Counted
  <2>3. QED
    BY <1>10, <2>1, <2>2 DEF WaitPool, Return
<1>11. QED
  BY <1>6, <1>7, <1>8, <1>9, <1>10 DEF Main

\* What a worker does to the count: it starts leads of the batch alone, and the
\* leads that it adds come after those of the batch.
LEMMA WorkerCounted ==
    ASSUME TypeOK, Staffed, Told, Assigned, Counted, NEW w \in Workers, Worker(w) \/ Retry(w)
    PROVE  Counted'
<1>1. pc \in {"send", "wait"} /\ UNCHANGED <<pc, processed, batch>>
  <2>1. pc \notin {"out", "scan"}
    BY WorkerInBatch
  <2>2. UNCHANGED main
    BY DEF Worker, Retry, Finish, Leave, BeginTask, Attempt, Ingest, AttemptsFail,
           RegisterTranscript
  <2>3. QED
    BY <2>1, <2>2 DEF TypeOK, main
<1>2. started' \subseteq processed \cup batch
  <2>1. started \subseteq processed \cup batch
    BY <1>1 DEF Counted
  <2>2. CASE BeginTask(w)
    <3>1. job[w] \in batch
      BY <2>2, BusyHasLead DEF BeginTask, Busy, Assigned
    <3>2. QED
      BY <2>1, <2>2, <3>1 DEF BeginTask
  <2>3. CASE started' = started
    BY <2>1, <2>3
  <2>4. QED
    BY <2>2, <2>3 DEF Worker, Retry, Finish, Leave, Attempt, Ingest, AttemptsFail,
                      RegisterTranscript, ledger
<1>3. processed \cup batch \in SUBSET Leads /\ Cardinality(processed \cup batch) <= Limit
  BY <1>1 DEF TypeOK, Counted
<1>4. Cardinality(started') <= Limit
  <2>1. /\ Cardinality(started') <= Cardinality(processed \cup batch)
        /\ Cardinality(started') \in Nat /\ Cardinality(processed \cup batch) \in Nat
    BY <1>2, <1>3, SubsetCardinality
  <2>2. QED
    BY <1>3, <2>1, InvestigateAssumption
<1>5. \A l \in batch : Before(l)' \subseteq Before(l)
  <2>1. CASE Ingest(w)
    <3>1. SUFFICES ASSUME NEW l \in batch, NEW k \in Leads, Open(k)', k < l
                   PROVE  Open(k)
      BY DEF Before
    <3>2. PICK n \in 0..MaxLeads : Known = 1..n
      BY DEF Told
    <3>3. l \in 1..n
      BY <3>2 DEF Assigned
    <3>4. k \in 1..n
      BY <3>1, <3>3, LeadsFinite, InvestigateAssumption DEF Leads
    <3>5. QED
      BY <2>1, <3>1, <3>2, <3>4, IngestShape
  <2>2. CASE status' = status
    BY <2>2 DEF Before, Open
  <2>3. QED
    BY <2>1, <2>2 DEF Worker, Retry, Finish, Leave, BeginTask, Attempt, AttemptsFail,
                      RegisterTranscript, ledger
<1>6. \A l \in batch : Before(l)' \subseteq batch
  BY <1>1, <1>5 DEF Counted
<1>7. started' \subseteq Known'
  <2>1. Known \subseteq Known'
    <3>1. CASE Ingest(w)
      BY <3>1, IngestShape
    <3>2. CASE status' = status
      BY <3>2 DEF Known
    <3>3. QED
      BY <3>1, <3>2 DEF Worker, Retry, Finish, Leave, BeginTask, Attempt, AttemptsFail,
                        RegisterTranscript, ledger
  <2>2. started \subseteq Known /\ batch \subseteq Known
    BY DEF Counted, Assigned
  <2>3. started' \subseteq started \cup batch
    <3>1. CASE BeginTask(w)
      <4>1. job[w] \in batch
        BY <3>1, BusyHasLead DEF BeginTask, Busy, Assigned
      <4>2. QED
        BY <3>1, <4>1 DEF BeginTask
    <3>2. CASE started' = started
      BY <3>2
    <3>3. QED
      BY <3>1, <3>2 DEF Worker, Retry, Finish, Leave, Attempt, Ingest, AttemptsFail,
                        RegisterTranscript, ledger
  <2>4. QED
    BY <2>1, <2>2, <2>3
<1>8. QED
  BY <1>1, <1>2, <1>3, <1>4, <1>6, <1>7 DEF Counted
-----------------------------------------------------------------------------
(* The invariant and what follows from it.                                 *)

LEMMA InitIInv == Init => IInv
<1> SUFFICES ASSUME Init PROVE IInv
  OBVIOUS
<1> USE DEF Init
<1>1. TypeOK
  <2>1. status \in [Leads -> States]
    BY DEF States
  <2>2. view \in [Workers -> [Leads -> States]]
    BY DEF NoView, States
  <2>3. /\ wpc \in [Workers -> {"idle", "begin", "attempt", "agent", "transcript", "gone"}]
        /\ job \in [Workers -> Leads \cup {None}]
    OBVIOUS
  <2>4. calls \in 0..MaxCalls /\ faults \in 0..MaxFaults
    BY InvestigateAssumption
  <2>5. QED
    BY <2>1, <2>2, <2>3, <2>4 DEF TypeOK
<1>2. Staffed
  BY DEF Staffed, Busy
<1>3. Told
  <2>1. Known = 1..Initial
    BY InvestigateAssumption DEF Known, Leads
  <2>2. Initial \in 0..MaxLeads
    BY InvestigateAssumption
  <2>3. \A l \in Leads : ~ Closed(status, l)
    BY DEF Closed
  <2>4. QED
    BY <2>1, <2>2, <2>3 DEF Told, NoView
<1>4. Assigned
  BY DEF Assigned
<1>5. Answered
  BY DEF Answered, NoLeadForgotten
<1>6. Counted
  <2>1. Cardinality({}) = 0
    BY FS_EmptySet
  <2>2. QED
    BY <2>1, InvestigateAssumption DEF Counted
<1>7. QED
  BY <1>1, <1>2, <1>3, <1>4, <1>5, <1>6 DEF IInv

LEMMA IInvStep == IInv /\ [Next]_vars => IInv'
<1> SUFFICES ASSUME IInv, [Next]_vars PROVE IInv'
  OBVIOUS
<1> USE DEF IInv
<1>1. CASE Next
  <2>1. Told'
    BY <1>1, ToldStep
  <2>2. Answered'
    BY <1>1, AnsweredStep
  <2>3. CASE Enter \/ Cancel \/ Crash \/ Main
    BY <2>1, <2>2, <2>3, MainType, MainStaffed, MainAssigned, MainCounted
  <2>4. ASSUME NEW w \in Workers, Worker(w) \/ Retry(w) PROVE IInv'
    BY <2>1, <2>2, <2>4, WorkerType, WorkerStaffed, WorkerAssigned, WorkerCounted
  <2>5. QED
    BY <1>1, <2>3, <2>4 DEF Next
<1>2. CASE UNCHANGED vars
  <2>1. UNCHANGED <<config, host, foreign, status, findings, started, done, limitOpen,
                    pc, processed, batch, queue, failed, wpc, job, view, cancelled,
                    result, calls, faults>>
    BY <1>2 DEF vars, sizing, ledger, main, pool, history
  <2>2. TypeOK'
    BY <2>1 DEF TypeOK
  <2>3. Staffed'
    BY <2>1 DEF Staffed, PoolSize
  <2>4. Known' = Known /\ Processed' = Processed /\ InvalidClosed' = InvalidClosed
        /\ \A l : (Open(l)' <=> Open(l)) /\ Before(l)' = Before(l)
    BY <2>1, LedgerSame
  <2>5. Told' /\ Assigned'
    BY <2>1, <2>4 DEF Told, Assigned
  <2>6. Answered' /\ Counted'
    BY <2>1, <2>4 DEF Answered, NoLeadForgotten, Counted
  <2>7. QED
    BY <2>2, <2>3, <2>5, <2>6
<1>3. QED
  BY <1>1, <1>2

LEMMA AlwaysIInv == Spec => []IInv
<1>1. QED
  BY InitIInv, IInvStep, PTL DEF Spec

\* Every variable of the phase keeps its type, whatever the instance
\* (RunLoop of phase_investigate.go and its pool).
THEOREM TypeCorrect == Spec => []TypeOK
<1>1. IInv => TypeOK
  BY DEF IInv
<1>2. QED
  BY <1>1, AlwaysIInv, PTL

\* The machines of a pool fit the host it was sized by
\* (EffectiveParallelTasksForResources of config.go, the pool of the phase).
THEOREM PoolFitsHost == Spec => []TasksFitHost
<1>1. IInv => TasksFitHost
  BY StaffedFits DEF IInv
<1>2. QED
  BY <1>1, AlwaysIInv, PTL

\* No sequence of calls, failures and crashes investigates more leads than the
\* limit, although each call counts the completed ones only
\* (completedInvestigationLeads and the truncation of pending leads).
THEOREM InvestigationsStayBounded == Spec => []InvestigationsBounded
<1>1. IInv => InvestigationsBounded
  BY DEF IInv, Counted, InvestigationsBounded
<1>2. QED
  BY <1>1, AlwaysIInv, PTL

\* A call that succeeds leaves no lead open but those named in
\* investigate.limit_reached, and then the limit is used up.
THEOREM NothingForgotten == Spec => []NoLeadForgotten
<1>1. IInv => NoLeadForgotten
  BY DEF IInv, Answered
<1>2. QED
  BY <1>1, AlwaysIInv, PTL

\* No two workers have the same lead, and none works at a completed one, in any
\* order of channel receives, bundles of other leads and resumes.
THEOREM NeverTwice == Spec => []InvestigatedOnce
<1>1. IInv => InvestigatedOnce
  BY DEF IInv, Assigned, InvestigatedOnce
<1>2. QED
  BY <1>1, AlwaysIInv, PTL

\* A lead that no other lead's task has closed never stops a resume
\* (investigationTaskComplete and the refusal at the start of the phase).
THEOREM ResumeFindsRepairable == Spec => []ResumeNotBlocked
<1>1. IInv => ResumeNotBlocked
  <2>1. SUFFICES ASSUME IInv, NEW l \in InvalidClosed, l \notin foreign PROVE FALSE
    BY DEF ResumeNotBlocked
  <2>2. l \in Leads /\ status[l] # "open" /\ ~ Complete(l) /\ l \in started
    BY <2>1 DEF InvalidClosed, IInv, TypeOK, Open
  <2>3. Closed(status, l)
    BY <2>1, <2>2 DEF IInv, TypeOK, States, Closed, Counted, Known
  <2>4. QED
    BY <2>1, <2>2, <2>3 DEF IInv, Told, Complete
<1>2. QED
  BY <1>1, AlwaysIInv, PTL
-----------------------------------------------------------------------------
(* The rounds of a call: they are never empty, they count new leads only,  *)
(* and they always have a worker to send to.                               *)

\* The least of a set of leads.
LEMMA LeastLead ==
    ASSUME NEW S \in SUBSET Leads, S # {}
    PROVE  \E l \in S : \A k \in S : ~ (k < l)
<1>1. S \subseteq Nat
  BY LeadsFinite
<1>2. PICK l \in S : \A k \in S : ~ (<<k, l>> \in OpToRel(<, Nat))
  BY <1>1, NatLessThanWellFounded, WFMin
<1>3. ASSUME NEW k \in S, k < l PROVE FALSE
  <2>1. <<k, l>> \in OpToRel(<, Nat)
    BY <1>1, <1>3 DEF OpToRel
  <2>2. QED
    BY <1>2, <2>1
<1>4. QED
  BY <1>3

\* The batch is made of leads that are not counted yet; a round has one.
Fresh ==
    /\ batch \cap processed = {}
    /\ pc \in {"send", "wait"} => batch # {}

RInv == IInv /\ Fresh /\ SenderHeard

LEMMA NextBatchFresh ==
    ASSUME TypeOK, Pending # {}, Remaining # 0
    PROVE  /\ First(Pending, Remaining) # {}
           /\ First(Pending, Remaining) \cap processed = {}
<1>1. Pending \in SUBSET Leads /\ Pending \cap processed = {}
  BY DEF Pending
<1>2. PICK l \in Pending : \A k \in Pending : ~ (k < l)
  BY <1>1, LeastLead
<1>3. {k \in Pending : k < l} = {}
  BY <1>2
<1>4. Cardinality({k \in Pending : k < l}) = 0
  BY <1>3, FS_EmptySet
<1>5. Remaining \in Nat \ {0}
  BY LeadsFinite, InvestigateAssumption DEF TypeOK, Remaining
<1>6. l \in First(Pending, Remaining)
  BY <1>2, <1>4, <1>5 DEF First
<1>7. QED
  BY <1>1, <1>6 DEF First

\* What a worker does leaves the round alone.
LEMMA WorkerInRound ==
    ASSUME TypeOK, Staffed, NEW w \in Workers, Worker(w) \/ Retry(w)
    PROVE  pc \in {"send", "wait"} /\ UNCHANGED <<pc, processed, batch, queue>>
<1>1. UNCHANGED main
  BY DEF Worker, Retry, Finish, Leave, BeginTask, Attempt, Ingest, AttemptsFail,
         RegisterTranscript
<1>2. QED
  BY <1>1, WorkerInBatch DEF main, TypeOK

LEMMA FreshStep ==
    ASSUME TypeOK, Staffed, Fresh, Next
    PROVE  Fresh'
<1> USE DEF Fresh
<1>1. CASE Scan
  <2>1. CASE \E r \in {"cancelled", "ok", "error"} : Return(r)
    BY <2>1 DEF Return
  <2>2. CASE /\ Pending # {} /\ Remaining # 0 /\ batch' = First(Pending, Remaining)
             /\ processed' = processed
    BY <2>2, NextBatchFresh
  <2>3. QED
    BY <1>1, <2>1, <2>2 DEF Scan
<1>2. CASE Enter \/ Crash \/ WaitPool
  <2>1. batch' = {} /\ pc' \in {"out", "scan"}
    BY <1>2 DEF Enter, Crash, WaitPool, Return, Staffed
  <2>2. QED
    BY <2>1
<1>3. CASE Cancel \/ CloseJobs \/ \E w \in Workers : Send(w)
  BY <1>3 DEF Cancel, CloseJobs, Send, main
<1>4. ASSUME NEW w \in Workers, Worker(w) \/ Retry(w) PROVE Fresh'
  BY <1>4, WorkerInRound
<1>5. QED
  BY <1>1, <1>2, <1>3, <1>4 DEF Next, Main

\* The channel is only closed, and left by the workers, when nothing is sent any more.
LEMMA HeardStep ==
    ASSUME TypeOK, Staffed, SenderHeard, Next
    PROVE  SenderHeard'
<1>1. CASE Scan
  <2>1. CASE pc' = "out"
    BY <2>1 DEF SenderHeard
  <2>2. CASE Spawn
    <3>1. config \in Configs /\ host \in Hosts
      BY DEF TypeOK
    <3>2. 1 \in Workers /\ PoolSize \in Nat \ {0}
      BY <3>1, WorkersNumbered, PoolSizePositive, InvestigateAssumption DEF PoolSize
    <3>3. PICK n \in Nat \ {0} : n = PoolSize
      BY <3>2
    <3>4. 1 <= PoolSize
      BY <3>3
    <3>5. wpc'[1] = "idle"
      BY <2>2, <3>2, <3>4 DEF Spawn
    <3>6. QED
      BY <3>2, <3>5 DEF SenderHeard
  <2>3. QED
    BY <1>1, <2>1, <2>2 DEF Scan, Return
<1>2. CASE Enter \/ Crash \/ WaitPool \/ CloseJobs
  <2>1. pc' # "send"
    BY <1>2 DEF Enter, Crash, WaitPool, CloseJobs, Return
  <2>2. QED
    BY <2>1 DEF SenderHeard
<1>3. CASE Cancel
  BY <1>3 DEF Cancel, SenderHeard, main, pool
<1>4. ASSUME NEW w \in Workers, Send(w) PROVE SenderHeard'
  <2>1. wpc'[w] = "begin"
    BY <1>4 DEF Send, TypeOK
  <2>2. QED
    BY <2>1 DEF SenderHeard
<1>5. ASSUME NEW w \in Workers, Worker(w) \/ Retry(w), pc' = "send" PROVE SenderHeard'
  <2>1. pc = "send"
    BY <1>5, WorkerInRound
  <2>2. wpc'[w] # "gone"
    BY <1>5, <2>1 DEF Worker, Retry, Finish, Leave, BeginTask, Attempt, Ingest, AttemptsFail,
                      RegisterTranscript, Fail, NextJob, TypeOK
  <2>3. QED
    BY <2>2 DEF SenderHeard
<1>6. QED
  BY <1>1, <1>2, <1>3, <1>4, <1>5 DEF Next, Main, SenderHeard

LEMMA RInvStep == RInv /\ [Next]_vars => RInv'
<1> SUFFICES ASSUME RInv, [Next]_vars PROVE RInv'
  OBVIOUS
<1> USE DEF RInv
<1>1. IInv'
  BY IInvStep
<1>2. TypeOK /\ Staffed
  BY DEF IInv
<1>3. CASE Next
  BY <1>1, <1>2, <1>3, FreshStep, HeardStep
<1>4. CASE UNCHANGED vars
  BY <1>1, <1>4 DEF vars, main, pool, Fresh, SenderHeard
<1>5. QED
  BY <1>3, <1>4

LEMMA AlwaysRInv == Spec => []RInv
<1>1. Init => RInv
  BY InitIInv DEF Init, RInv, Fresh, SenderHeard
<1>2. QED
  BY <1>1, RInvStep, PTL DEF Spec

\* A round that counted its leads counted new ones, and the rounds together no more
\* than the limit.
LEMMA RoundCounts ==
    ASSUME RInv, WaitPool, pc' # "out"
    PROVE  /\ processed \subseteq processed' /\ processed' # processed
           /\ Cardinality(processed') <= Limit
<1>1. pc = "wait" /\ processed' = processed \cup batch
  BY DEF WaitPool, Return
<1>2. batch # {} /\ batch \cap processed = {}
  BY <1>1 DEF RInv, Fresh
<1>3. Cardinality(processed \cup batch) <= Limit
  BY <1>1 DEF RInv, IInv, Counted
<1>4. QED
  BY <1>1, <1>2, <1>3

\* While a lead is still to be sent there is a worker that can take it, now or after
\* its task: the workers stay until the channel is closed, whatever fails
\* (runInvestigateBatchWithAttemptRunnerContext of phase_investigate.go).
THEOREM SenderIsHeard == Spec => []SenderHeard
<1>1. RInv => SenderHeard
  BY DEF RInv
<1>2. QED
  BY <1>1, AlwaysRInv, PTL

\* The loop over the rounds makes progress each time it comes round, and only so often
\* as there are leads below the limit, however many follow-up leads the tasks create.
THEOREM RoundsStayBounded == Spec => RoundsBounded
<1>1. RInv /\ [Next]_vars =>
        [pc = "wait" /\ pc' = "scan" =>
            /\ processed \subseteq processed' /\ processed' # processed
            /\ Cardinality(processed') <= Limit]_vars
  <2>1. SUFFICES ASSUME RInv, Next, pc = "wait", pc' = "scan"
                 PROVE  /\ processed \subseteq processed' /\ processed' # processed
                        /\ Cardinality(processed') <= Limit
    OBVIOUS
  <2>2. TypeOK /\ Staffed
    BY <2>1 DEF RInv, IInv
  <2>3. \A w \in Workers : ~ (Worker(w) \/ Retry(w))
    BY <2>1, <2>2, WorkerInRound
  <2>4. WaitPool
    BY <2>1, <2>3 DEF Next, Main, Enter, Cancel, Crash, Scan, Send, CloseJobs, Return, main
  <2>5. QED
    BY <2>1, <2>4, RoundCounts
<1>2. QED
  BY <1>1, AlwaysRInv, PTL DEF Spec, RoundsBounded
-----------------------------------------------------------------------------
(* What is left of a round.                                                *)

\* The steps that a worker has left with its lead.
StepsOf(w) == CASE wpc[w] = "begin" -> 3
                [] wpc[w] \in {"attempt", "agent"} -> 2
                [] OTHER -> 1

\* The steps of the leads and the workers that are there.
LeadsLeft == IF pc = "scan" THEN Leads \X (1..4) ELSE {s \in Leads \X (1..4) : s[2] \in LeadLeft(s[1])}

PoolLeft == IF pc = "scan" THEN Workers ELSE {w \in Workers : wpc[w] # "gone"}

MainLeft == CASE pc = "scan" -> {"scan", "send", "wait"}
              [] pc = "send" -> {"send", "wait"}
              [] OTHER -> {pc}

LEMMA LeadLeftIs ==
    ASSUME NEW l, NEW i
    PROVE  i \in LeadLeft(l) <=>
             /\ i \in 1..4
             /\ l \in queue \/ \E w \in Workers : job[w] = l /\ i <= StepsOf(w)
BY DEF LeadLeft, StepsOf

\* Less is left of the round when one of its parts has become smaller.
LEMMA RoundSmaller ==
    ASSUME MainLeft' \subseteq MainLeft, LeadsLeft' \subseteq LeadsLeft, PoolLeft' \subseteq PoolLeft,
           MainLeft' # MainLeft \/ LeadsLeft' # LeadsLeft \/ PoolLeft' # PoolLeft
    PROVE  /\ \A part \in DOMAIN RoundLeft : RoundLeft'[part] \subseteq RoundLeft[part]
           /\ RoundLeft' # RoundLeft
<1>1. RoundLeft = [main |-> MainLeft, leads |-> LeadsLeft, pool |-> PoolLeft]
  BY DEF RoundLeft, MainLeft, LeadsLeft, PoolLeft
<1>2. RoundLeft' = [main |-> MainLeft', leads |-> LeadsLeft', pool |-> PoolLeft']
  BY DEF RoundLeft, MainLeft, LeadsLeft, PoolLeft
<1>3. QED
  BY <1>1, <1>2

\* Sending a lead gives it to the one worker that has it.
LEMMA SendShrinks ==
    ASSUME RInv, NEW w \in Workers, Send(w)
    PROVE  /\ LeadsLeft' \subseteq LeadsLeft /\ LeadsLeft' # LeadsLeft
           /\ UNCHANGED <<processed, MainLeft, PoolLeft>>
<1>1. TypeOK /\ Staffed /\ Assigned
  BY DEF RInv, IInv
<1>2. PICK l \in First(queue, 1) : job' = [job EXCEPT ![w] = l] /\ queue' = queue \ {l}
  BY DEF Send
<1>3. l \in queue /\ l \in Leads
  BY <1>1, <1>2 DEF First, TypeOK
<1>4. /\ pc = "send" /\ pc' = pc /\ processed' = processed
      /\ wpc[w] = "idle" /\ wpc' = [wpc EXCEPT ![w] = "begin"]
  BY DEF Send
<1>5. /\ job[w] = None /\ job'[w] = l /\ StepsOf(w)' = 3
      /\ \A v \in Workers \ {w} : job'[v] = job[v] /\ StepsOf(v)' = StepsOf(v)
  BY <1>1, <1>2, <1>4 DEF TypeOK, Staffed, Busy, StepsOf
<1>6. \A v \in Workers : job[v] # l
  BY <1>1, <1>3, LeadsFinite DEF Assigned
<1>7. ASSUME NEW k \in Leads, NEW i, i \in LeadLeft(k)' PROVE i \in LeadLeft(k)
  <2>1. /\ i \in 1..4
        /\ k \in queue' \/ \E v \in Workers : job'[v] = k /\ i <= StepsOf(v)'
    BY <1>7 DEF LeadLeft, StepsOf
  <2>2. k \in queue \/ \E v \in Workers : job[v] = k /\ i <= StepsOf(v)
    BY <1>2, <1>3, <1>5, <2>1
  <2>3. QED
    BY <2>1, <2>2, LeadLeftIs
<1>8. 4 \in LeadLeft(l)
  BY <1>3, LeadLeftIs
<1>9. 4 \notin LeadLeft(l)'
  <2>1. l \notin queue'
    BY <1>2
  <2>2. \A v \in Workers : job'[v] = l => StepsOf(v)' = 3
    BY <1>5, <1>6
  <2>3. QED
    BY <2>1, <2>2 DEF LeadLeft, StepsOf
<1>10. /\ LeadsLeft = {s \in Leads \X (1..4) : s[2] \in LeadLeft(s[1])}
       /\ LeadsLeft' = {s \in Leads \X (1..4) : s[2] \in LeadLeft(s[1])'}
  BY <1>4 DEF LeadsLeft
<1>11. LeadsLeft' \subseteq LeadsLeft
  BY <1>7, <1>10
<1>12. <<l, 4>> \in LeadsLeft /\ <<l, 4>> \notin LeadsLeft'
  BY <1>3, <1>8, <1>9, <1>10
<1>13. PoolLeft' = PoolLeft
  BY <1>1, <1>4 DEF PoolLeft, TypeOK
<1>14. QED
  BY <1>4, <1>11, <1>12, <1>13 DEF MainLeft

\* A worker that does not begin an attempt again has less left of its lead, gives it
\* up, or leaves.
LEMMA WorkerAdvances ==
    ASSUME TypeOK, Staffed, NEW w \in Workers, Worker(w), ~ Attempt(w)
    PROVE  /\ \A v \in Workers \ {w} : job'[v] = job[v] /\ wpc'[v] = wpc[v]
           /\ \/ wpc[w] \in Busy /\ job'[w] = job[w] /\ wpc'[w] \in Busy /\ StepsOf(w)' < StepsOf(w)
              \/ wpc[w] \in Busy /\ job'[w] = None /\ wpc'[w] = "idle"
              \/ wpc[w] = "idle" /\ wpc'[w] = "gone" /\ job' = job
<1> USE DEF TypeOK, Staffed, Busy, StepsOf
<1>1. CASE Leave(w)
  BY <1>1 DEF Leave
<1>2. CASE BeginTask(w)
  BY <1>2 DEF BeginTask, Fail, NextJob
<1>3. CASE Ingest(w)
  BY <1>3 DEF Ingest
<1>4. CASE AttemptsFail(w)
  BY <1>4 DEF AttemptsFail, Fail, NextJob
<1>5. CASE RegisterTranscript(w)
  BY <1>5 DEF RegisterTranscript, Fail, NextJob
<1>6. QED
  BY <1>1, <1>2, <1>3, <1>4, <1>5 DEF Worker, Finish

LEMMA WorkerShrinks ==
    ASSUME RInv, NEW w \in Workers, Worker(w), ~ Attempt(w)
    PROVE  /\ LeadsLeft' \subseteq LeadsLeft /\ PoolLeft' \subseteq PoolLeft
           /\ LeadsLeft' # LeadsLeft \/ PoolLeft' # PoolLeft
           /\ UNCHANGED <<processed, MainLeft>>
<1>1. TypeOK /\ Staffed /\ Assigned
  BY DEF RInv, IInv
<1>2. /\ pc \in {"send", "wait"} /\ pc' = pc /\ processed' = processed /\ queue' = queue
  BY <1>1, WorkerInRound
<1>3. \A v \in Workers \ {w} : job'[v] = job[v] /\ wpc'[v] = wpc[v] /\ StepsOf(v)' = StepsOf(v)
  BY <1>1, WorkerAdvances DEF StepsOf
<1>4. /\ LeadsLeft = {s \in Leads \X (1..4) : s[2] \in LeadLeft(s[1])}
      /\ LeadsLeft' = {s \in Leads \X (1..4) : s[2] \in LeadLeft(s[1])'}
      /\ PoolLeft = {v \in Workers : wpc[v] # "gone"}
      /\ PoolLeft' = {v \in Workers : wpc'[v] # "gone"}
  BY <1>2 DEF LeadsLeft, PoolLeft
<1>5. wpc[w] # "gone" /\ PoolLeft' \subseteq PoolLeft
  BY <1>1, <1>3, <1>4, WorkerAdvances DEF Busy
<1>6. \A v \in Workers : StepsOf(v) \in 1..3 /\ StepsOf(v)' \in 1..3
  BY DEF StepsOf
<1>7. \A v \in Workers, l \in Leads : job'[v] = l => job[v] = l /\ StepsOf(v)' <= StepsOf(v)
  BY <1>1, <1>3, <1>6, WorkerAdvances, LeadsFinite DEF Staffed, Busy
<1>8. LeadsLeft' \subseteq LeadsLeft
  <2>1. ASSUME NEW k \in Leads, NEW i \in 1..4, i \in LeadLeft(k)' PROVE i \in LeadLeft(k)
    <3>1. k \in queue \/ \E v \in Workers : job'[v] = k /\ i <= StepsOf(v)'
      BY <1>2, <2>1 DEF LeadLeft, StepsOf
    <3>2. k \in queue \/ \E v \in Workers : job[v] = k /\ i <= StepsOf(v)
      BY <1>6, <1>7, <2>1, <3>1
    <3>3. QED
      BY <2>1, <3>2, LeadLeftIs
  <2>2. QED
    BY <1>4, <2>1
<1>9. CASE wpc[w] = "idle"
  BY <1>1, <1>2, <1>4, <1>5, <1>8, <1>9, WorkerAdvances DEF Busy, MainLeft
<1>10. CASE wpc[w] \in Busy
  <2>1. PICK l \in Leads, i \in 1..3 : l = job[w] /\ i = StepsOf(w)
    BY <1>1, <1>6, <1>10, BusyHasLead
  <2>2. l \notin queue /\ \A v \in Workers \ {w} : job[v] # l
    BY <1>1, <2>1, LeadsFinite DEF Assigned
  <2>3. i \in LeadLeft(l)
    BY <2>1, LeadLeftIs
  <2>4. i \notin LeadLeft(l)'
    <3>1. job'[w] = l => StepsOf(w)' < i
      BY <1>1, <1>10, <2>1, LeadsFinite, WorkerAdvances DEF Busy
    <3>2. ~ \E v \in Workers : job'[v] = l /\ i <= StepsOf(v)'
      BY <1>3, <1>6, <2>1, <2>2, <3>1
    <3>3. QED
      BY <1>2, <2>2, <3>2 DEF LeadLeft, StepsOf
  <2>5. <<l, i>> \in LeadsLeft /\ <<l, i>> \notin LeadsLeft'
    BY <1>4, <2>3, <2>4
  <2>6. QED
    BY <1>2, <1>5, <1>8, <2>5 DEF MainLeft
<1>11. QED
  BY <1>1, <1>9, <1>10, WorkerAdvances

\* The phase itself: a scan opens a round, a round that is over counts its leads.
LEMMA MainShrinks ==
    ASSUME RInv, Scan \/ CloseJobs \/ WaitPool
    PROVE  \/ pc' = "out"
           \/ processed \subseteq processed' /\ processed' # processed
           \/ /\ UNCHANGED processed
              /\ MainLeft' \subseteq MainLeft /\ MainLeft' # MainLeft
              /\ LeadsLeft' \subseteq LeadsLeft /\ PoolLeft' \subseteq PoolLeft
<1>1. CASE Scan /\ pc' # "out"
  <2>1. pc = "scan" /\ pc' = "send" /\ processed' = processed
    BY <1>1 DEF Scan, Return
  <2>2. LeadsLeft' \subseteq LeadsLeft /\ PoolLeft' \subseteq PoolLeft
    BY <2>1 DEF LeadsLeft, PoolLeft
  <2>3. QED
    BY <2>1, <2>2 DEF MainLeft
<1>2. CASE CloseJobs
  <2>1. pc = "send" /\ pc' = "wait" /\ processed' = processed /\ UNCHANGED <<queue, wpc, job>>
    BY <1>2 DEF CloseJobs, pool
  <2>2. LeadsLeft' = LeadsLeft /\ PoolLeft' = PoolLeft
    BY <2>1 DEF LeadsLeft, PoolLeft, LeadLeft
  <2>3. QED
    BY <2>1, <2>2 DEF MainLeft
<1>3. CASE WaitPool
  BY <1>3, RoundCounts
<1>4. QED
  BY <1>1, <1>2, <1>3

\* Between two retries of the attempts the pool, its channel and the loop can take so
\* many steps as there are left of the round, and so many rounds as there are new leads
\* to count: none of them is ever undone (the worker pool and RunLoop of
\* phase_investigate.go).
THEOREM StepsAlwaysRunOut == Spec => StepsRunOut
<1> DEFINE Less == /\ \A part \in DOMAIN RoundLeft : RoundLeft'[part] \subseteq RoundLeft[part]
                   /\ RoundLeft' # RoundLeft
           Counts == processed \subseteq processed' /\ processed' # processed
<1>1. ASSUME RInv, Main PROVE pc' = "out" \/ Counts \/ (UNCHANGED processed /\ Less)
  <2>1. CASE Scan \/ CloseJobs \/ WaitPool
    BY <1>1, <2>1, MainShrinks, RoundSmaller
  <2>2. CASE \E w \in Workers : Send(w)
    BY <1>1, <2>2, SendShrinks, RoundSmaller
  <2>3. QED
    BY <1>1, <2>1, <2>2 DEF Main
<1>2. ASSUME RInv, NEW w \in Workers, Worker(w), ~ Attempt(w) PROVE UNCHANGED processed /\ Less
  BY <1>2, WorkerShrinks, RoundSmaller
<1>3. RInv /\ [Next]_vars =>
        [Main \/ (\E w \in Workers : Worker(w) /\ ~ Attempt(w)) =>
            pc' = "out" \/ Counts \/ (UNCHANGED processed /\ Less)]_vars
  BY <1>1, <1>2
<1>4. QED
  BY <1>3, AlwaysRInv, PTL DEF Spec, StepsRunOut
-----------------------------------------------------------------------------
(* The contract with the tasks.                                            *)

Called == {l \in Leads : \E w \in Workers : job[w] = l}

\* Who has a lead is in the batch, so nothing that counts is still called.
LEMMA CountedIsOver == RInv => processed \subseteq done \ Called
<1> SUFFICES ASSUME RInv, NEW l \in processed, l \in Called PROVE FALSE
  BY DEF RInv, IInv, Assigned
<1>1. PICK w \in Workers : job[w] = l /\ l \in Leads
  BY DEF Called
<1>2. l \in batch
  BY <1>1, LeadsFinite DEF RInv, IInv, Assigned
<1>3. QED
  BY <1>2 DEF RInv, Fresh

\* Only the channel gives a worker a lead, and only a lead that is not done.
LEMMA CallStep ==
    ASSUME RInv, Next
    PROVE  (Called' \ Called) \cap done = {}
<1>1. TypeOK /\ Staffed /\ Assigned
  BY DEF RInv, IInv
<1>2. SUFFICES ASSUME NEW l \in Leads, NEW w \in Workers, job'[w] = l, l \notin Called
               PROVE  l \notin done
  BY DEF Called
<1>3. job[w] # l
  BY <1>2 DEF Called
<1>4. CASE \E v \in Workers : Send(v)
  <2>1. PICK v \in Workers, k \in First(queue, 1) : job' = [job EXCEPT ![v] = k]
    BY <1>4 DEF Send
  <2>2. l = k
    BY <1>1, <1>2, <1>3, <2>1 DEF TypeOK
  <2>3. QED
    BY <1>1, <2>2 DEF First, Assigned
<1>5. CASE ~ \E v \in Workers : Send(v)
  <2>1. job'[w] \in {job[w], None}
    BY <1>1, <1>5 DEF TypeOK, Next, Main, Enter, Cancel, Crash, Scan, CloseJobs, WaitPool, Worker,
          Finish, Leave, BeginTask, Attempt, Retry, Ingest, AttemptsFail, RegisterTranscript, Fail,
          NextJob, pool
  <2>2. QED
    BY <1>2, <1>3, <2>1, LeadsFinite
<1>6. QED
  BY <1>4, <1>5

\* Only a worker that has the lead records its work.
LEMMA RecordStep ==
    ASSUME RInv, Next
    PROVE  done \subseteq done' /\ done' \subseteq done \cup Called
<1>1. TypeOK /\ Staffed
  BY DEF RInv, IInv
<1>2. CASE \E w \in Workers : Ingest(w)
  <2>1. PICK w \in Workers : Ingest(w)
    BY <1>2
  <2>2. done' = done \cup {job[w]} /\ job[w] \in Leads
    BY <1>1, <2>1, BusyHasLead DEF Ingest, Busy
  <2>3. QED
    BY <2>2 DEF Called
<1>3. CASE ~ \E w \in Workers : Ingest(w)
  BY <1>3 DEF Next, Main, Enter, Cancel, Crash, Scan, Send, CloseJobs, WaitPool, Worker, Finish,
              Leave, BeginTask, Attempt, Retry, AttemptsFail, RegisterTranscript, ledger
<1>4. QED
  BY <1>2, <1>3

\* The phase implements what TaskContract asks of a caller of tasks: in any interleaving
\* of workers, failures, crashes and resumes no lead is given out whose work is recorded,
\* and none counts as investigated whose work is not recorded or whose task is still
\* running (runInvestigateTaskWithAttemptRunnerContext, the batch and
\* completedInvestigationLeads of phase_investigate.go).
THEOREM KeepsContract == Spec => ContractSpec
<1>1. Init => Contract!Init
  BY DEF Init, Contract!Init
<1>2. RInv' => (processed \subseteq done \ Called)'
  BY CountedIsOver, PTL
<1>3. ASSUME RInv, RInv', [Next]_vars
      PROVE  [Contract!Next]_<<Called, done, processed>>
  <2>1. CASE Next
    <3>1. Called' \subseteq Leads
      BY DEF Called
    <3>2. (Called' \ Called) \cap done = {} /\ processed' \subseteq done' \ Called'
      BY <1>2, <1>3, <2>1, CallStep
    <3>3. QED
      BY <2>1, <1>3, <3>1, <3>2, RecordStep
         DEF Contract!Next, Contract!Call, Contract!Record, Contract!Count, Called
  <2>2. CASE UNCHANGED vars
    BY <2>2 DEF vars, ledger, main, pool, Called
  <2>3. QED
    BY <1>3, <2>1, <2>2
<1>4. RInv /\ RInv' /\ [Next]_vars =>
        [Contract!Next]_<<{l \in Leads : \E w \in Workers : job[w] = l}, done, processed>>
  BY <1>3 DEF Called
<1>5. QED
  BY <1>1, <1>4, AlwaysRInv, PTL DEF Spec, ContractSpec, Contract!Spec

=============================================================================
