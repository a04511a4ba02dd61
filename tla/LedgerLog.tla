----------------------------- MODULE LedgerLog -----------------------------
(***************************************************************************)
(* What the run ledger (events.jsonl) promises to everybody who appends:   *)
(* a log that only grows, by whole batches.  A key stands for what can be  *)
(* settled: the completion of a task, the closing of a lead, the lead a    *)
(* task opened from one body file, the registration of a piece of          *)
(* evidence, a verdict.  A command settles an open key; the bundle of a    *)
(* task ends in its completion and is taken while that is open, and again  *)
(* only in a recovery; events that settle nothing (a finding, a runner     *)
(* event, a retry notice) have the key NoKey and may repeat.               *)
(***************************************************************************)
EXTENDS Sequences

CONSTANTS Batches,   \* the non-empty sequences of events a command may append
          NoKey      \* the key of an event that settles nothing

VARIABLE log

Settled(k) == \E i \in DOMAIN log : log[i].key = k

Init == log = << >>

AppendFree(batch) ==
    /\ batch[1].by = "command"
    /\ \A i \in DOMAIN batch : batch[i].key = NoKey
    /\ log' = log \o batch

AppendOnce(batch) ==
    /\ batch[1].by = "command"
    /\ Len(batch) = 1
    /\ batch[1].key # NoKey
    /\ ~ Settled(batch[1].key)
    /\ log' = log \o batch

AppendBundle(batch) ==
    /\ batch[1].by = "bundle"
    /\ ~ Settled(batch[Len(batch)].key)
    /\ log' = log \o batch

AppendRecovered(batch) ==
    /\ batch[1].by = "recovery"
    /\ log' = log \o batch

Next ==
    \E batch \in Batches :
        \/ AppendFree(batch) \/ AppendOnce(batch)
        \/ AppendBundle(batch) \/ AppendRecovered(batch)

Spec == Init /\ [][Next]_log
=============================================================================
