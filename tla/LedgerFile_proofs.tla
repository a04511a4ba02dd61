-------------------------- MODULE LedgerFile_proofs --------------------------
(***************************************************************************)
(* Proofs about LedgerFile, for any number of processes, keys, commands,   *)
(* kills and copies.  The inductive invariant says what a process knows    *)
(* while it owns the lock file: what it read is still the file, and what   *)
(* it found open is still open.  From it, and from what the identities of  *)
(* the events say, follows that what was reported stays true.              *)
(***************************************************************************)
EXTENDS LedgerFile, SequenceTheorems, FiniteSetTheorems, WellFoundedInduction, TLAPS

\* A process that holds the lock knows the current file.
HolderKnowsFile ==
    \A p \in Procs :
        /\ pc[p] \in Running => cmd[p] \in Batches
        /\ pc[p] = "read" => buf[p] = file
        /\ pc[p] = "written" => buf[p] = file \o cmd[p]

\* What the check found open stays open until the process unlocks.
CheckStillHolds ==
    \A p \in Procs : pc[p] \in {"checked", "read", "written"} => Open(cmd[p])

IInv == TypeOK /\ MutualExclusion /\ HolderKnowsFile /\ CheckStillHolds /\ SettledOnce

-----------------------------------------------------------------------------
(* Facts about batches.                                                    *)

\* No events are a ledger.
LEMMA EmptyLedger == << >> \in Seq(Event)
OBVIOUS

\* Events in a batch.
LEMMA EventsShape ==
    ASSUME NEW id \in Ids, NEW n \in 1..MaxBatch, NEW keys \in [1..n -> Keys \cup {NoKey}],
           NEW v \in Vals, NEW by \in {"command", "bundle", "recovery"}
    PROVE  /\ Events(id, keys, v, by) \in Seq(Event)
           /\ Len(Events(id, keys, v, by)) = n /\ Len(keys) = n
           /\ \A i \in 1..n : /\ Events(id, keys, v, by)[i].id = id
                             /\ Events(id, keys, v, by)[i].key = keys[i]
                             /\ Events(id, keys, v, by)[i].by = by
<1>1. n \in Nat /\ keys \in Seq(Keys \cup {NoKey}) /\ Len(keys) = n /\ 1..n \subseteq 1..MaxBatch
  BY ConstantsAssumption
<1>2. Events(id, keys, v, by) \in [1..n -> Event]
  BY <1>1 DEF Events, Event
<1>3. QED
  BY <1>1, <1>2 DEF Events

\* A batch: a command's is free of keys or settles exactly one, any other ends
\* in the only completion it has.
LEMMA BatchShape ==
    ASSUME NEW batch \in Batches
    PROVE  /\ batch \in Seq(Event) /\ Len(batch) \in Nat \ {0} /\ DOMAIN batch = 1..Len(batch)
           /\ \A j \in DOMAIN batch : batch[j].id = batch[1].id /\ batch[j].by = batch[1].by
           /\ batch[1].by \in {"command", "bundle", "recovery"}
           /\ batch[1].by = "command" =>
                 \/ \A j \in DOMAIN batch : batch[j].key = NoKey
                 \/ Len(batch) = 1 /\ batch[1].key # NoKey
           /\ batch[1].by # "command" =>
                 \A j \in DOMAIN batch : batch[j].key \in Completions <=> j = Len(batch)
<1> DEFINE P(b) ==
       /\ b \in Seq(Event) /\ Len(b) \in Nat \ {0} /\ DOMAIN b = 1..Len(b)
       /\ \A j \in DOMAIN b : b[j].id = b[1].id /\ b[j].by = b[1].by
       /\ b[1].by \in {"command", "bundle", "recovery"}
       /\ b[1].by = "command" =>
             \/ \A j \in DOMAIN b : b[j].key = NoKey
             \/ Len(b) = 1 /\ b[1].key # NoKey
       /\ b[1].by # "command" =>
             \A j \in DOMAIN b : b[j].key \in Completions <=> j = Len(b)
<1>1. ASSUME NEW id \in Ids, NEW keys \in FreeKeys, NEW v \in Vals,
             batch = Events(id, keys, v, "command")
      PROVE  P(batch)
  <2>1. PICK n \in 1..MaxBatch : keys \in [1..n -> {NoKey}]
    BY DEF FreeKeys
  <2>2. n \in Nat \ {0} /\ keys \in [1..n -> Keys \cup {NoKey}] /\ \A i \in 1..n : keys[i] = NoKey
    BY <2>1, ConstantsAssumption
  <2>3. QED
    BY <1>1, <2>2, EventsShape
<1>2. ASSUME NEW id \in Ids, NEW keys \in OnceKeys, NEW v \in Vals,
             batch = Events(id, keys, v, "command")
      PROVE  P(batch)
  <2>1. PICK n \in 1..MaxBatch : n = 1
    BY ConstantsAssumption
  <2>2. keys \in [1..n -> Keys \cup {NoKey}] /\ keys[1] # NoKey
    BY <2>1, ConstantsAssumption DEF OnceKeys
  <2>3. QED
    <3>1. /\ batch \in Seq(Event) /\ Len(batch) = n
          /\ \A i \in 1..n : batch[i].key = keys[i] /\ batch[i].by = "command"
      BY <1>2, <2>2, EventsShape
    <3>2. batch[1].key = keys[1] /\ batch[1].by = "command" /\ DOMAIN batch = 1..1
      BY <2>1, <3>1
    <3>3. QED
      BY <2>1, <2>2, <3>1, <3>2
<1>3. ASSUME NEW id \in Ids, NEW keys \in BundleKeys, NEW v \in Vals,
             NEW by \in {"bundle", "recovery"}, batch = Events(id, keys, v, by)
      PROVE  P(batch)
  <2>1. PICK n \in 1..MaxBatch : keys \in [1..n -> Keys \cup {NoKey}]
    BY DEF BundleKeys
  <2>2. /\ n \in Nat \ {0} /\ DOMAIN keys = 1..n
        /\ \A i \in DOMAIN keys : keys[i] \in Completions <=> i = Len(keys)
    BY <2>1, ConstantsAssumption DEF BundleKeys
  <2>3. QED
    <3>1. /\ batch \in Seq(Event) /\ Len(batch) = n /\ Len(keys) = n
          /\ \A i \in 1..n : /\ batch[i].id = id /\ batch[i].key = keys[i]
                            /\ batch[i].by = by
      BY <1>3, <2>1, EventsShape
    <3>2. DOMAIN batch = 1..n /\ 1 \in 1..n
      BY <2>2, <3>1
    <3>3. \A i \in 1..n : batch[i].key \in Completions <=> i = n
      BY <2>2, <3>1
    <3>4. QED
      BY <2>2, <3>1, <3>2, <3>3
<1>4. QED
  BY <1>1, <1>2, <1>3 DEF Batches

\* Appending a batch whose claim is open keeps every key settled once, up to
\* the two exceptions.
LEMMA AppendKeepsSettledOnce ==
    ASSUME NEW batch \in Batches, file \in Seq(Event), file' = file \o batch,
           SettledOnce, Open(batch)
    PROVE  SettledOnce'
<1> DEFINE n == Len(file)
<1>1. /\ batch \in Seq(Event) /\ Len(batch) \in Nat \ {0} /\ DOMAIN batch = 1..Len(batch)
      /\ \A l \in DOMAIN batch : batch[l].by = batch[1].by
  BY BatchShape
<1>2. /\ n \in Nat /\ DOMAIN file = 1..n /\ DOMAIN file' = 1..(n + Len(batch))
      /\ \A l \in DOMAIN file : file'[l] = file[l]
      /\ \A l \in DOMAIN file' : l \notin DOMAIN file =>
            l - n \in DOMAIN batch /\ file'[l] = batch[l - n]
  BY <1>1
<1>3. SUFFICES ASSUME NEW i \in DOMAIN file', NEW j \in DOMAIN file', i < j,
                      file'[i].key = file'[j].key, file'[j].key # NoKey
               PROVE  /\ file'[j].by # "command"
                      /\ file'[j].key \in Completions => file'[j].by = "recovery"
  BY DEF SettledOnce
<1>4. CASE j \in DOMAIN file
  <2>1. i \in DOMAIN file
    BY <1>2, <1>3, <1>4
  <2>2. QED
    BY <1>2, <1>3, <1>4, <2>1 DEF SettledOnce
<1>5. CASE j \notin DOMAIN file
  <2>1. j - n \in DOMAIN batch /\ file'[j] = batch[j - n]
    BY <1>2, <1>5
  <2>2. ASSUME Claim(batch) = file'[j].key
        PROVE  i - n \in DOMAIN batch /\ file'[i] = batch[i - n] /\ i - n # j - n
    <3>1. i \notin DOMAIN file
      BY <1>2, <1>3, <2>2 DEF Open, Settlers
    <3>2. QED
      BY <1>2, <1>3, <3>1
  <2>3. CASE batch[1].by = "command"
    <3>1. Len(batch) = 1 /\ j - n = 1
      <4>1. batch[j - n].key # NoKey
        BY <1>3, <2>1
      <4>2. Len(batch) = 1
        BY <2>1, <2>3, <4>1, BatchShape
      <4>3. QED
        BY <1>1, <2>1, <4>2
    <3>2. Claim(batch) = file'[j].key
      BY <2>1, <2>3, <3>1 DEF Claim
    <3>3. QED
      BY <1>1, <2>2, <3>1, <3>2
  <2>4. CASE batch[1].by # "command" /\ file'[j].key \in Completions /\ batch[1].by # "recovery"
    <3>1. j - n = Len(batch)
      BY <2>1, <2>4, BatchShape
    <3>2. Claim(batch) = file'[j].key
      BY <2>1, <2>4, <3>1 DEF Claim
    <3>3. i - n \in DOMAIN batch /\ batch[i - n].key \in Completions /\ i - n # Len(batch)
      BY <1>3, <2>2, <2>4, <3>1, <3>2
    <3>4. QED
      BY <2>4, <3>3, BatchShape
  <2>5. QED
    BY <1>1, <2>1, <2>3, <2>4
<1>6. QED
  BY <1>4, <1>5
-----------------------------------------------------------------------------
\* Initially nothing is recorded and nobody holds the lock.
LEMMA InitIInv == Init => IInv
<1> SUFFICES ASSUME Init PROVE IInv
  OBVIOUS
<1>1. TypeOK
  <2>1. /\ file \in Seq(Event)
        /\ buf \in [Procs -> Seq(Event)]
        /\ replies \subseteq [batch : Batches, outcome : Outcomes]
    BY EmptyLedger DEF Init
  <2>2. /\ lock \in BOOLEAN
        /\ pc \in [Procs -> PCs]
        /\ cmd \in [Procs -> Batches \cup {None}]
    BY DEF Init, PCs
  <2>3. /\ started \in 0..MaxCommands
        /\ kills \in 0..MaxKills
        /\ collects \in 0..MaxCollects
    BY ConstantsAssumption DEF Init
  <2>4. QED
    BY <2>1, <2>2, <2>3 DEF TypeOK
<1>2. MutualExclusion /\ HolderKnowsFile /\ CheckStillHolds
  BY DEF Init, MutualExclusion, HolderKnowsFile, CheckStillHolds, Running, Holding
<1>3. SettledOnce
  BY DEF Init, SettledOnce
<1>4. QED
  BY <1>1, <1>2, <1>3 DEF IInv

\* Every step keeps the shapes.
LEMMA NextTypeOK == IInv /\ [Next]_vars => TypeOK'
<1> SUFFICES ASSUME IInv, [Next]_vars
             PROVE  TypeOK'
  OBVIOUS
<1> USE ConstantsAssumption DEF IInv, TypeOK, PCs, Running, Holding, Outcomes
<1>1. ASSUME NEW p \in Procs, Prepare(p) PROVE TypeOK'
  BY <1>1 DEF Prepare
<1>2. ASSUME NEW p \in Procs, Lock(p) PROVE TypeOK'
  BY <1>2 DEF Lock
<1>3. ASSUME NEW p \in Procs, LockTimeout(p) \/ LockFails(p) PROVE TypeOK'
  <2>1. cmd[p] \in Batches
    BY <1>3 DEF LockTimeout, LockFails, HolderKnowsFile
  <2>2. replies' \subseteq [batch : Batches, outcome : Outcomes]
    BY <1>3, <2>1 DEF LockTimeout, LockFails, Report
  <2>3. QED
    BY <1>3, <2>2 DEF LockTimeout, LockFails
<1>4. ASSUME NEW p \in Procs, CheckSettled(p) PROVE TypeOK'
  <2>1. cmd[p] \in Batches
    BY <1>4 DEF CheckSettled, HolderKnowsFile
  <2>2. replies' \subseteq [batch : Batches, outcome : Outcomes]
    <3>1. CASE UNCHANGED replies
      BY <3>1
    <3>2. CASE \E o \in Outcomes : Report(p, o)
      BY <3>2, <2>1 DEF Report
    <3>3. QED
      BY <1>4, <3>1, <3>2 DEF CheckSettled
  <2>3. /\ \E l \in {"checked", "finished"} : pc' = [pc EXCEPT ![p] = l]
        /\ UNCHANGED <<file, lock, cmd, buf, started, kills, collects>>
    BY <1>4 DEF CheckSettled
  <2>4. QED
    BY <2>2, <2>3
<1>5. ASSUME NEW p \in Procs, ReadExisting(p) PROVE TypeOK'
  BY <1>5 DEF ReadExisting
<1>6. ASSUME NEW p \in Procs, WriteTemp(p) PROVE TypeOK'
  <2>1. cmd[p] \in Seq(Event)
    BY <1>6, BatchShape DEF WriteTemp, HolderKnowsFile
  <2>2. buf[p] \o cmd[p] \in Seq(Event)
    BY <2>1
  <2>3. QED
    BY <1>6, <2>2 DEF WriteTemp
<1>7. ASSUME NEW p \in Procs, Rename(p) PROVE TypeOK'
  BY <1>7 DEF Rename, Report, HolderKnowsFile
<1>8. ASSUME NEW p \in Procs, IOError(p) PROVE TypeOK'
  BY <1>8 DEF IOError, Report, HolderKnowsFile
<1>9. ASSUME NEW p \in Procs, Unlock(p) PROVE TypeOK'
  BY <1>9, EmptyLedger DEF Unlock
<1>10. ASSUME NEW p \in Procs, Kill(p) PROVE TypeOK'
  BY <1>10, EmptyLedger DEF Kill, Report, HolderKnowsFile
<1>11. CASE Collect
  <2>1. replies' \subseteq [batch : Batches, outcome : Outcomes]
    <3>1. \A p \in {q \in Procs : pc[q] \in Running} :
             [batch |-> cmd[p], outcome |-> "killed"] \in [batch : Batches, outcome : Outcomes]
      BY DEF HolderKnowsFile
    <3>2. replies' = replies \cup {[batch |-> cmd[p], outcome |-> "killed"] :
                                     p \in {q \in Procs : pc[q] \in Running}}
      BY <1>11 DEF Collect
    <3> HIDE DEF Running, Outcomes
    <3>3. QED
      BY <3>1, <3>2
  <2>2. /\ buf' \in [Procs -> Seq(Event)]
        /\ cmd' \in [Procs -> Batches \cup {None}]
        /\ pc' \in [Procs -> PCs]
    BY <1>11, EmptyLedger DEF Collect
  <2>3. collects' \in 0..MaxCollects
    <3>1. collects \in 0..MaxCollects /\ collects < MaxCollects /\ collects' = collects + 1
      BY <1>11 DEF Collect
    <3>2. QED
      BY <3>1
  <2>4. UNCHANGED <<file, started, kills>> /\ lock' = FALSE
    BY <1>11 DEF Collect
  <2>5. QED
    BY <2>1, <2>2, <2>3, <2>4
<1>12. CASE UNCHANGED vars
  BY <1>12 DEF vars
<1>13. QED
  BY <1>1, <1>2, <1>3, <1>4, <1>5, <1>6, <1>7, <1>8, <1>9, <1>10, <1>11, <1>12
  DEF Next, Step

\* Only the exclusive create gives the lock, and only to one process.
LEMMA NextMutualExclusion == IInv /\ [Next]_vars => MutualExclusion'
<1> SUFFICES ASSUME IInv, [Next]_vars
             PROVE  MutualExclusion'
  OBVIOUS
<1> USE DEF IInv, TypeOK, MutualExclusion, Running, Holding
<1>1. ASSUME NEW p \in Procs, Prepare(p) \/ LockTimeout(p) \/ LockFails(p)
      PROVE  MutualExclusion'
  BY <1>1 DEF Prepare, LockTimeout, LockFails
<1>2. ASSUME NEW p \in Procs, Lock(p) PROVE MutualExclusion'
  BY <1>2 DEF Lock
<1>3. ASSUME NEW p \in Procs,
             CheckSettled(p) \/ ReadExisting(p) \/ WriteTemp(p) \/ Rename(p) \/ IOError(p)
      PROVE  MutualExclusion'
  <2>1. /\ pc[p] \in Holding
        /\ \E l \in Holding : pc' = [pc EXCEPT ![p] = l]
        /\ UNCHANGED lock
    BY <1>3 DEF CheckSettled, ReadExisting, WriteTemp, Rename, IOError
  <2>2. QED
    BY <2>1
<1>4. ASSUME NEW p \in Procs, Unlock(p) PROVE MutualExclusion'
  BY <1>4 DEF Unlock
<1>5. ASSUME NEW p \in Procs, Kill(p) PROVE MutualExclusion'
  BY <1>5 DEF Kill
<1>6. CASE Collect
  BY <1>6 DEF Collect
<1>7. CASE UNCHANGED vars
  BY <1>7 DEF vars
<1>8. QED
  BY <1>1, <1>2, <1>3, <1>4, <1>5, <1>6, <1>7 DEF Next, Step

\* While a process holds the lock no other changes the file it has read.
LEMMA NextHolderKnowsFile == IInv /\ [Next]_vars => HolderKnowsFile'
<1> SUFFICES ASSUME IInv, [Next]_vars
             PROVE  HolderKnowsFile'
  OBVIOUS
<1> USE DEF IInv, TypeOK, HolderKnowsFile, Running, Holding
<1>1. ASSUME NEW p \in Procs, Prepare(p) PROVE HolderKnowsFile'
  BY <1>1 DEF Prepare
<1>2. ASSUME NEW p \in Procs, Lock(p) PROVE HolderKnowsFile'
  BY <1>2 DEF Lock
<1>3. ASSUME NEW p \in Procs, LockTimeout(p) \/ LockFails(p) PROVE HolderKnowsFile'
  BY <1>3 DEF LockTimeout, LockFails
<1>4. ASSUME NEW p \in Procs, CheckSettled(p) PROVE HolderKnowsFile'
  BY <1>4 DEF CheckSettled
<1>5. ASSUME NEW p \in Procs, ReadExisting(p) PROVE HolderKnowsFile'
  BY <1>5 DEF ReadExisting
<1>6. ASSUME NEW p \in Procs, WriteTemp(p) PROVE HolderKnowsFile'
  BY <1>6 DEF WriteTemp
<1>7. ASSUME NEW p \in Procs, Rename(p) PROVE HolderKnowsFile'
  <2>1. \A q \in Procs : q # p => pc[q] \notin Holding
    BY <1>7 DEF Rename, MutualExclusion
  <2>2. QED
    BY <1>7, <2>1 DEF Rename
<1>8. ASSUME NEW p \in Procs, IOError(p) PROVE HolderKnowsFile'
  BY <1>8 DEF IOError
<1>9. ASSUME NEW p \in Procs, Unlock(p) PROVE HolderKnowsFile'
  BY <1>9 DEF Unlock
<1>10. ASSUME NEW p \in Procs, Kill(p) PROVE HolderKnowsFile'
  BY <1>10 DEF Kill
<1>11. CASE Collect
  BY <1>11 DEF Collect
<1>12. CASE UNCHANGED vars
  BY <1>12 DEF vars
<1>13. QED
  BY <1>1, <1>2, <1>3, <1>4, <1>5, <1>6, <1>7, <1>8, <1>9, <1>10, <1>11, <1>12
  DEF Next, Step

\* A key found open under the lock is open until the holder renames.
LEMMA NextCheckStillHolds == IInv /\ [Next]_vars => CheckStillHolds'
<1> SUFFICES ASSUME IInv, [Next]_vars
             PROVE  CheckStillHolds'
  OBVIOUS
<1> USE DEF IInv, TypeOK, CheckStillHolds
<1>1. ASSUME NEW p \in Procs,
             \/ Prepare(p) \/ Lock(p) \/ LockTimeout(p) \/ LockFails(p) \/ IOError(p)
             \/ Unlock(p) \/ Kill(p)
      PROVE  CheckStillHolds'
  <2>1. /\ \E l \in PCs \ {"checked", "read", "written"} : pc' = [pc EXCEPT ![p] = l]
        /\ \A q \in Procs : q # p => cmd'[q] = cmd[q]
        /\ UNCHANGED file
    BY <1>1 DEF Prepare, Lock, LockTimeout, LockFails, IOError, Unlock, Kill, PCs, Running,
       Holding
  <2>2. QED
    BY <2>1 DEF Open, Claim, Settlers
<1>2. ASSUME NEW p \in Procs, CheckSettled(p) PROVE CheckStillHolds'
  BY <1>2 DEF CheckSettled, Open, Claim, Settlers
<1>3. ASSUME NEW p \in Procs, ReadExisting(p) \/ WriteTemp(p)
      PROVE  CheckStillHolds'
  <2>1. /\ pc[p] \in {"checked", "read", "written"}
        /\ \A q \in Procs : q # p => pc'[q] = pc[q]
        /\ UNCHANGED <<file, cmd>>
    BY <1>3 DEF ReadExisting, WriteTemp
  <2>2. QED
    BY <2>1 DEF Open, Claim, Settlers
<1>4. ASSUME NEW p \in Procs, Rename(p) PROVE CheckStillHolds'
  <2>1. pc[p] = "written" /\ pc' = [pc EXCEPT ![p] = "finished"]
    BY <1>4 DEF Rename
  <2>2. \A q \in Procs : q # p => pc[q] \notin {"checked", "read", "written"}
    BY <2>1 DEF MutualExclusion, Holding
  <2>3. \A q \in Procs : pc'[q] \notin {"checked", "read", "written"}
    BY <2>1, <2>2
  <2>4. QED
    BY <2>3
<1>5. CASE Collect
  BY <1>5 DEF Collect
<1>6. CASE UNCHANGED vars
  BY <1>6 DEF vars, Open, Claim, Settlers
<1>7. QED
  BY <1>1, <1>2, <1>3, <1>4, <1>5, <1>6 DEF Next, Step

\* The file changes by a rename only, and then by the holder's whole batch.
LEMMA FileStep ==
    ASSUME IInv, [Next]_vars
    PROVE  \/ UNCHANGED file
           \/ \E batch \in Batches : /\ file' = file \o batch
                                     /\ Open(batch)
<1>1. ASSUME NEW p \in Procs, Rename(p)
      PROVE  \E batch \in Batches : /\ file' = file \o batch
                                    /\ Open(batch)
  <2>1. /\ cmd[p] \in Batches
        /\ file' = file \o cmd[p]
        /\ Open(cmd[p])
    BY <1>1 DEF Rename, IInv, HolderKnowsFile, CheckStillHolds, Running, Holding
  <2>2. QED
    BY <2>1
<1>2. CASE ~ \E p \in Procs : Rename(p)
  <2>1. ASSUME NEW p \in Procs,
               \/ Prepare(p) \/ Lock(p) \/ LockTimeout(p) \/ LockFails(p) \/ CheckSettled(p)
               \/ ReadExisting(p) \/ WriteTemp(p) \/ IOError(p) \/ Unlock(p) \/ Kill(p)
        PROVE  UNCHANGED file
    BY <2>1 DEF Prepare, Lock, LockTimeout, LockFails, CheckSettled, ReadExisting, WriteTemp,
       IOError, Unlock, Kill
  <2>2. Collect \/ UNCHANGED vars => UNCHANGED file
    BY DEF Collect, vars
  <2>3. QED
    BY <1>2, <2>1, <2>2 DEF Next, Step
<1>3. QED
  BY <1>1, <1>2

\* No step settles a key twice.
LEMMA NextSettledOnce == IInv /\ [Next]_vars => SettledOnce'
<1> SUFFICES ASSUME IInv, [Next]_vars
             PROVE  SettledOnce'
  OBVIOUS
<1>1. CASE UNCHANGED file
  BY <1>1 DEF IInv, SettledOnce
<1>2. ASSUME NEW batch \in Batches, file' = file \o batch, Open(batch)
      PROVE  SettledOnce'
  BY <1>2, AppendKeepsSettledOnce DEF IInv, TypeOK
<1>3. QED
  BY <1>1, <1>2, FileStep

\* The inductive invariant holds in every reachable state.
THEOREM Invariance == Spec => []IInv
<1>1. IInv /\ [Next]_vars => IInv'
  BY NextTypeOK, NextMutualExclusion, NextHolderKnowsFile, NextCheckStillHolds,
     NextSettledOnce DEF IInv
<1>2. QED
  BY InitIInv, <1>1, PTL DEF Spec
-----------------------------------------------------------------------------
(* What was reported stays true.                                           *)

\* Identities are given once, and an unfinished command has recorded and
\* reported nothing.
Numbered ==
    /\ \A i \in DOMAIN file : file[i].id <= started
    /\ \A r \in replies : r.batch[1].id <= started
    /\ \A p \in Procs : pc[p] \in Running =>
          /\ cmd[p][1].id <= started
          /\ \A q \in Procs \ {p} : pc[q] \in Running => cmd[q][1].id # cmd[p][1].id
          /\ pc[p] # "finished" =>
                Absent(cmd[p]) /\ \A r \in replies : r.batch[1].id # cmd[p][1].id
          /\ Recorded(cmd[p]) \/ Absent(cmd[p])

\* What one reply says.
Holds(r) ==
    CASE r.outcome = "appended" -> Recorded(r.batch)
      [] r.outcome = "killed" -> Recorded(r.batch) \/ Absent(r.batch)
      [] r.outcome = "settled" ->
            /\ Absent(r.batch)
            /\ \E i \in DOMAIN file : /\ file[i].key = r.batch[1].key
                                      /\ file[i].val = r.batch[1].val
      [] OTHER -> Absent(r.batch)

LEMMA RepliesAreHeld == RepliesHold <=> \A r \in replies : Holds(r)
BY DEF RepliesHold, Holds

\* The events of a batch have one identity.
LEMMA BatchIds ==
    ASSUME NEW b \in Batches
    PROVE  /\ b \in Seq(Event) /\ Len(b) \in Nat \ {0} /\ DOMAIN b = 1..Len(b)
           /\ b[1].id \in Nat
           /\ \A j \in DOMAIN b : b[j].id = b[1].id
<1>1. b \in Seq(Event) /\ Len(b) \in Nat \ {0} /\ DOMAIN b = 1..Len(b)
      /\ \A j \in DOMAIN b : b[j].id = b[1].id
  BY BatchShape
<1>2. b[1] \in Event
  BY <1>1
<1>3. QED
  BY <1>1, <1>2 DEF Event, Ids

\* The positions of a ledger to which a batch is appended.
LEMMA Appended ==
    ASSUME NEW b \in Batches, file \in Seq(Event), file' = file \o b
    PROVE  /\ Len(file) \in Nat /\ DOMAIN file = 1..Len(file)
           /\ DOMAIN file' = 1..Len(file) + Len(b) /\ Len(file') = Len(file) + Len(b)
           /\ \A i \in DOMAIN file : file'[i] = file[i] /\ i \in DOMAIN file'
           /\ \A j \in DOMAIN b : file'[Len(file) + j] = b[j] /\ Len(file) + j \in DOMAIN file'
           /\ \A i \in DOMAIN file' : i \notin DOMAIN file =>
                 i - Len(file) \in DOMAIN b /\ file'[i] = b[i - Len(file)]
BY BatchIds

\* A batch stays what it is when another is appended.
LEMMA OthersStay ==
    ASSUME NEW b \in Batches, NEW c \in Batches, file \in Seq(Event), file' = file \o b,
           b[1].id # c[1].id
    PROVE  (Absent(c) => Absent(c)') /\ (Recorded(c) => Recorded(c)')
<1>1. \A i \in DOMAIN file' : i \notin DOMAIN file => file'[i].id # c[1].id
  BY Appended, BatchIds
<1>2. Absent(c) => Absent(c)'
  BY <1>1, Appended DEF Absent
<1>3. {i \in DOMAIN file : file[i].id = c[1].id} = {i \in DOMAIN file' : file'[i].id = c[1].id}
  BY <1>1, Appended
<1>4. ASSUME NEW i \in 0..Len(file), OccursAt(c, i) PROVE i \in 0..Len(file') /\ OccursAt(c, i)'
  <2>1. i \in 0..Len(file')
    BY Appended, BatchIds
  <2>2. QED
    BY <1>4, <2>1, Appended DEF OccursAt
<1>5. QED
  BY <1>2, <1>3, <1>4 DEF Recorded

\* A batch that is appended is recorded.
LEMMA AppendRecords ==
    ASSUME NEW b \in Batches, file \in Seq(Event), file' = file \o b, Absent(b)
    PROVE  Recorded(b)'
<1> DEFINE here == {i \in DOMAIN file' : file'[i].id = b[1].id}
           n == Len(file)
           m == Len(b)
<1>1. n \in Nat /\ m \in Nat \ {0}
  BY Appended, BatchIds
<1>2. ASSUME NEW i \in here PROVE i \in n + 1 .. n + m
  <2>1. i \in DOMAIN file' /\ i \notin DOMAIN file
    BY Appended DEF Absent
  <2>2. QED
    BY <1>1, <2>1, Appended
<1>3. ASSUME NEW i \in n + 1 .. n + m PROVE i \in here
  <2>1. i - n \in DOMAIN b /\ i = n + (i - n)
    BY <1>1, BatchIds
  <2>2. file'[i] = b[i - n] /\ i \in DOMAIN file'
    BY <2>1, Appended
  <2>3. QED
    BY <2>1, <2>2, BatchIds
<1>4. here = n + 1 .. n + m
  <2> HIDE DEF here
  <2>1. QED
    BY <1>2, <1>3
<1>5. Cardinality(here) = m
  <2> DEFINE lo == n + 1
             hi == n + m
  <2>1. lo \in Int /\ hi \in Int /\ ~ (lo > hi) /\ hi - lo + 1 = m /\ here = lo..hi
    BY <1>1, <1>4
  <2> HIDE DEF here, lo, hi
  <2>2. Cardinality(lo..hi) = IF lo > hi THEN 0 ELSE hi - lo + 1
    BY <2>1, FS_Interval
  <2>3. QED
    BY <2>1, <2>2
<1>6. \A j \in DOMAIN b : (n + j) \in DOMAIN file' /\ file'[n + j] = b[j]
  BY Appended
<1>7. n \in 0..Len(file')
  BY <1>1, Appended
<1>8. \E i \in 0..Len(file') : \A j \in DOMAIN b : (i + j) \in DOMAIN file' /\ file'[i + j] = b[j]
  BY <1>6, <1>7
<1>9. QED
  BY <1>5, <1>8 DEF Recorded, OccursAt

\* What settled a key last is in the ledger.
LEMMA LastIsThere ==
    ASSUME file \in Seq(Event), NEW k, Settlers(k) # {}
    PROVE  \E i \in DOMAIN file : file[i].key = k /\ LastSettled(k) = file[i]
<1> DEFINE n == Len(file)
           T == {n - i : i \in Settlers(k)}
<1>1. n \in Nat /\ Settlers(k) \subseteq 1..n
  BY DEF Settlers
<1>2. T \subseteq Nat /\ T # {}
  BY <1>1
<1>3. PICK t \in T : \A u \in T : ~ (<<u, t>> \in OpToRel(<, Nat))
  <2> HIDE DEF T
  <2>1. QED
    BY <1>2, NatLessThanWellFounded, WFMin
<1>4. PICK i \in Settlers(k) : t = n - i
  BY <1>3
<1>5. ASSUME NEW j \in Settlers(k) PROVE j <= i
  <2>1. n - j \in T /\ n - j \in Nat /\ t \in Nat
    BY <1>1, <1>2, <1>3
  <2>2. ~ (n - j < t)
    BY <1>3, <2>1 DEF OpToRel
  <2>3. QED
    BY <1>1, <1>4, <2>1, <2>2
<1>6. (CHOOSE x \in Settlers(k) : \A j \in Settlers(k) : j <= x) \in Settlers(k)
  BY <1>5
<1>7. QED
  BY <1>6 DEF Settlers, LastSettled

\* A step that leaves the ledger and the identities alone, and whose new replies
\* are true.
LEMMA ReplyStep ==
    ASSUME Numbered, \A r \in replies : Holds(r), UNCHANGED <<file, started>>,
           \A q \in Procs : pc'[q] \in Running =>
              /\ pc[q] \in Running /\ cmd'[q] = cmd[q]
              /\ pc'[q] # "finished" => pc[q] # "finished",
           \A r \in replies' : r \in replies \/
              \E p \in Procs : /\ pc[p] \in Running /\ r.batch = cmd[p] /\ Holds(r)
                               /\ pc'[p] \in Running => pc'[p] = "finished"
    PROVE  Numbered' /\ \A r \in replies' : Holds(r)'
<1>1. \A c : (Absent(c)' <=> Absent(c)) /\ (Recorded(c)' <=> Recorded(c))
  BY DEF Absent, Recorded, OccursAt
<1>2. \A r : Holds(r)' <=> Holds(r)
  BY <1>1 DEF Holds
<1>3. \A r \in replies' : r.batch[1].id <= started'
  BY DEF Numbered
<1>4. ASSUME NEW p \in Procs, pc'[p] \in Running
      PROVE  /\ cmd'[p][1].id <= started'
             /\ \A q \in Procs \ {p} : pc'[q] \in Running => cmd'[q][1].id # cmd'[p][1].id
             /\ pc'[p] # "finished" => Absent(cmd'[p])
             /\ Recorded(cmd'[p]) \/ Absent(cmd'[p])
  BY <1>4 DEF Numbered
<1>5. ASSUME NEW p \in Procs, pc'[p] \in Running, pc'[p] # "finished", NEW r \in replies'
      PROVE  r.batch[1].id # cmd'[p][1].id
  <2>1. pc[p] \in Running /\ cmd'[p] = cmd[p] /\ pc[p] # "finished"
    BY <1>5
  <2>2. CASE r \in replies
    BY <2>1, <2>2 DEF Numbered
  <2>3. ASSUME NEW q \in Procs, pc[q] \in Running, r.batch = cmd[q],
               pc'[q] \in Running => pc'[q] = "finished"
        PROVE  r.batch[1].id # cmd'[p][1].id
    <3>1. q # p
      BY <1>5, <2>3
    <3>2. QED
      BY <2>1, <2>3, <3>1 DEF Numbered
  <2>4. QED
    BY <2>2, <2>3
<1>6. \A i \in DOMAIN file' : file'[i].id <= started'
  BY DEF Numbered
<1>7. \A p \in Procs : (Absent(cmd[p])' <=> Absent(cmd'[p])) /\ (Recorded(cmd[p])' <=> Recorded(cmd'[p]))
  BY <1>1 DEF Absent, Recorded, OccursAt
<1>8. Numbered'
  BY <1>3, <1>4, <1>5, <1>6, <1>7 DEF Numbered
<1>9. QED
  BY <1>2, <1>8

\* A new command has a new identity.
LEMMA PrepareStep ==
    ASSUME IInv, Numbered, \A r \in replies : Holds(r), NEW p \in Procs, Prepare(p)
    PROVE  Numbered' /\ \A r \in replies' : Holds(r)'
<1>1. PICK b \in Batches : b[1].id = started + 1 /\ cmd' = [cmd EXCEPT ![p] = b]
  BY DEF Prepare
<1>2. /\ started \in Nat /\ started' = started + 1
      /\ pc' = [pc EXCEPT ![p] = "waiting"] /\ UNCHANGED <<file, replies>>
  BY ConstantsAssumption DEF Prepare, IInv, TypeOK
<1>3. \A c : (Absent(c)' <=> Absent(c)) /\ (Recorded(c)' <=> Recorded(c))
  BY <1>2 DEF Absent, Recorded, OccursAt
<1>4. \A r : Holds(r)' <=> Holds(r)
  BY <1>2, <1>3 DEF Holds
<1>5. \A i \in DOMAIN file : file[i].id \in Nat /\ file[i].id <= started
  <2>1. \A i \in DOMAIN file : file[i] \in Event
    BY DEF IInv, TypeOK
  <2>2. QED
    BY <2>1 DEF Numbered, Event, Ids
<1>6. Absent(b)
  BY <1>1, <1>2, <1>5 DEF Absent
<1>7. \A r \in replies : r.batch[1].id \in Nat /\ r.batch[1].id <= started
  <2>1. \A r \in replies : r.batch \in Batches
    BY DEF IInv, TypeOK
  <2>2. QED
    BY <2>1, BatchIds DEF Numbered
<1>8. \A q \in Procs : pc[q] \in Running => cmd[q][1].id \in Nat /\ cmd[q][1].id <= started
  BY BatchIds DEF Numbered, IInv, HolderKnowsFile
<1>9. /\ cmd'[p] = b /\ pc'[p] = "waiting" /\ \A r \in replies : r.batch[1].id # b[1].id
      /\ \A q \in Procs \ {p} : cmd'[q] = cmd[q] /\ pc'[q] = pc[q]
      /\ \A q \in Procs : pc[q] \in Running => cmd[q][1].id # b[1].id
  BY <1>1, <1>2, <1>7, <1>8 DEF IInv, TypeOK
<1>10. /\ \A i \in DOMAIN file' : file'[i].id <= started'
       /\ \A r \in replies' : r.batch[1].id <= started'
       /\ \A q \in Procs : pc'[q] \in Running => cmd'[q][1].id <= started'
  BY <1>1, <1>2, <1>5, <1>7, <1>8, <1>9
<1>11. ASSUME NEW q \in Procs, pc'[q] \in Running
       PROVE  /\ \A x \in Procs \ {q} : pc'[x] \in Running => cmd'[x][1].id # cmd'[q][1].id
              /\ pc'[q] # "finished" =>
                    Absent(cmd'[q]) /\ \A r \in replies' : r.batch[1].id # cmd'[q][1].id
              /\ Recorded(cmd'[q]) \/ Absent(cmd'[q])
  <2>1. CASE q = p
    BY <1>2, <1>6, <1>9, <2>1
  <2>2. CASE q # p
    BY <1>2, <1>9, <1>11, <2>2 DEF Numbered
  <2>3. QED
    BY <2>1, <2>2
<1>12. \A q \in Procs : (Absent(cmd[q])' <=> Absent(cmd'[q])) /\ (Recorded(cmd[q])' <=> Recorded(cmd'[q]))
  BY <1>2 DEF Absent, Recorded, OccursAt
<1>13. Numbered'
  BY <1>10, <1>11, <1>12 DEF Numbered
<1>14. QED
  BY <1>2, <1>4, <1>13

\* A rename records the whole batch of its process, and changes nothing of what
\* the others have recorded or have not.
LEMMA RenameStep ==
    ASSUME IInv, Numbered, \A r \in replies : Holds(r), NEW p \in Procs, Rename(p)
    PROVE  Numbered' /\ \A r \in replies' : Holds(r)'
<1>1. PICK b \in Batches :
          /\ b = cmd[p] /\ pc[p] = "written" /\ file' = file \o b /\ file \in Seq(Event)
          /\ pc' = [pc EXCEPT ![p] = "finished"] /\ UNCHANGED <<cmd, started>>
          /\ replies' = replies \cup {[batch |-> b, outcome |-> "appended"]}
  BY DEF Rename, Report, IInv, TypeOK, HolderKnowsFile, Running, Holding
<1>2. /\ b[1].id <= started /\ Absent(b) /\ \A r \in replies : r.batch[1].id # b[1].id
      /\ \A q \in Procs \ {p} : pc[q] \in Running => cmd[q][1].id # b[1].id
  BY <1>1 DEF Numbered, Running, Holding
<1>3. Recorded(b)'
  BY <1>1, <1>2, AppendRecords
<1>4. \A c \in Batches : c[1].id # b[1].id =>
         (Absent(c) => Absent(c)') /\ (Recorded(c) => Recorded(c)')
  BY <1>1, OthersStay
<1>5. \A i \in DOMAIN file : i \in DOMAIN file' /\ file'[i] = file[i]
  BY <1>1, Appended
<1>6. ASSUME NEW r \in replies' PROVE Holds(r)'
  <2>1. CASE r \in replies
    <3>1. r.batch \in Batches /\ r.batch[1].id # b[1].id /\ Holds(r)
      BY <1>2, <2>1 DEF IInv, TypeOK
    <3>2. /\ Absent(r.batch) => Absent(r.batch)'
          /\ Recorded(r.batch) => Recorded(r.batch)'
      BY <1>4, <3>1
    <3>3. QED
      BY <1>5, <3>1, <3>2 DEF Holds
  <2>2. CASE r = [batch |-> b, outcome |-> "appended"]
    BY <1>3, <2>2 DEF Holds
  <2>3. QED
    BY <1>1, <2>1, <2>2
<1>7. \A i \in DOMAIN file' : file'[i].id <= started'
  <2>1. ASSUME NEW i \in DOMAIN file', i \notin DOMAIN file PROVE file'[i].id = b[1].id
    BY <1>1, <2>1, Appended, BatchIds
  <2>2. QED
    BY <1>1, <1>2, <1>5, <2>1 DEF Numbered
<1>8. \A r \in replies' : r.batch[1].id <= started'
  BY <1>1, <1>2 DEF Numbered
<1>9. ASSUME NEW q \in Procs, pc'[q] \in Running
      PROVE  /\ cmd[q][1].id <= started
             /\ \A x \in Procs \ {q} : pc'[x] \in Running => cmd[x][1].id # cmd[q][1].id
             /\ pc'[q] # "finished" =>
                   Absent(cmd[q])' /\ \A r \in replies' : r.batch[1].id # cmd[q][1].id
             /\ Recorded(cmd[q])' \/ Absent(cmd[q])'
  <2>1. \A x \in Procs : pc'[x] \in Running => pc[x] \in Running
    BY <1>1 DEF IInv, TypeOK, Running, Holding
  <2>2. /\ cmd[q][1].id <= started
        /\ \A x \in Procs \ {q} : pc'[x] \in Running => cmd[x][1].id # cmd[q][1].id
    BY <1>9, <2>1 DEF Numbered
  <2>3. CASE q = p
    BY <1>1, <1>3, <2>2, <2>3 DEF IInv, TypeOK
  <2>4. CASE q # p
    <3>1. pc'[q] = pc[q]
      BY <1>1, <2>4 DEF IInv, TypeOK
    <3>2. PICK c \in Batches : c = cmd[q] /\ c = cmd'[q]
      BY <1>1, <2>1, <1>9 DEF IInv, HolderKnowsFile
    <3>3. c[1].id # b[1].id
      BY <1>2, <1>9, <2>4, <3>1, <3>2
    <3>4. /\ Recorded(c)' \/ Absent(c)'
          /\ pc'[q] # "finished" => Absent(c)' /\ \A r \in replies' : r.batch[1].id # c[1].id
      BY <1>1, <1>4, <1>9, <3>1, <3>2, <3>3 DEF Numbered
    <3>5. QED
      BY <2>2, <3>2, <3>4
  <2>5. QED
    BY <2>3, <2>4
<1>10. Numbered'
  BY <1>1, <1>7, <1>8, <1>9 DEF Numbered
<1>11. QED
  BY <1>6, <1>10

ReplyInv == Numbered /\ \A r \in replies : Holds(r)

\* Every step keeps the replies true.
LEMMA NextReplyInv == IInv /\ ReplyInv /\ [Next]_vars => ReplyInv'
<1> SUFFICES ASSUME IInv, ReplyInv, [Next]_vars
             PROVE  ReplyInv'
  OBVIOUS
<1> USE DEF ReplyInv
<1> DEFINE Kept ==
      \A q \in Procs : pc'[q] \in Running =>
         /\ pc[q] \in Running /\ cmd'[q] = cmd[q]
         /\ pc'[q] # "finished" => pc[q] # "finished"
<1>1. ASSUME NEW p \in Procs, Prepare(p) PROVE ReplyInv'
  BY <1>1, PrepareStep
<1>2. ASSUME NEW p \in Procs, Rename(p) PROVE ReplyInv'
  BY <1>2, RenameStep
<1>3. ASSUME NEW p \in Procs, Lock(p) \/ ReadExisting(p) \/ WriteTemp(p) \/ Unlock(p)
      PROVE  ReplyInv'
  <2>1. Kept /\ UNCHANGED <<file, started, replies>>
    BY <1>3 DEF Lock, ReadExisting, WriteTemp, Unlock, IInv, TypeOK, Running, Holding
  <2>2. QED
    BY <2>1, ReplyStep
<1>4. ASSUME NEW p \in Procs, NEW o \in Outcomes, Report(p, o),
             UNCHANGED <<file, started>>, Kept, pc[p] \in Running,
             pc'[p] \in Running => pc'[p] = "finished",
             Holds([batch |-> cmd[p], outcome |-> o])
      PROVE  ReplyInv'
  <2>1. \A r \in replies' : r \in replies \/ r = [batch |-> cmd[p], outcome |-> o]
    BY <1>4 DEF Report
  <2>2. \A r \in replies' : r \in replies \/
           \E q \in Procs : /\ pc[q] \in Running /\ r.batch = cmd[q] /\ Holds(r)
                            /\ pc'[q] \in Running => pc'[q] = "finished"
    BY <1>4, <2>1
  <2>3. QED
    BY <1>4, <2>2, ReplyStep
<1>5. ASSUME NEW p \in Procs, LockTimeout(p) \/ LockFails(p) \/ IOError(p) PROVE ReplyInv'
  <2>1. /\ Kept /\ UNCHANGED <<file, started>> /\ Report(p, "failed")
        /\ pc[p] \in Running /\ pc[p] # "finished"
        /\ pc'[p] \in Running => pc'[p] = "finished"
    BY <1>5 DEF LockTimeout, LockFails, IOError, IInv, TypeOK, Running, Holding
  <2>2. Holds([batch |-> cmd[p], outcome |-> "failed"])
    BY <2>1 DEF Numbered, Holds
  <2>3. QED
    BY <1>4, <2>1, <2>2 DEF Outcomes
<1>6. ASSUME NEW p \in Procs, Kill(p) PROVE ReplyInv'
  <2>1. /\ Kept /\ UNCHANGED <<file, started>> /\ Report(p, "killed")
        /\ pc[p] \in Running /\ pc'[p] \notin Running
    BY <1>6 DEF Kill, IInv, TypeOK, Running, Holding
  <2>2. Holds([batch |-> cmd[p], outcome |-> "killed"])
    BY <2>1 DEF Numbered, Holds
  <2>3. QED
    BY <1>4, <2>1, <2>2 DEF Outcomes
<1>7. ASSUME NEW p \in Procs, CheckSettled(p) PROVE ReplyInv'
  <2>1. /\ Kept /\ UNCHANGED <<file, started>> /\ pc[p] = "locked"
    BY <1>7 DEF CheckSettled, IInv, TypeOK, Running, Holding
  <2>2. Absent(cmd[p]) /\ cmd[p] \in Batches
    BY <2>1 DEF Numbered, IInv, HolderKnowsFile, Running, Holding
  <2>3. CASE UNCHANGED replies
    BY <2>1, <2>3, ReplyStep
  <2>4. ASSUME ~ UNCHANGED replies PROVE ReplyInv'
    <3> DEFINE b == cmd[p]
               same == b[1].by = "command" /\ LastSettled(Claim(b)).val = b[1].val
    <3>1. /\ ~ Open(b) /\ pc' = [pc EXCEPT ![p] = "finished"]
          /\ Report(p, IF same THEN "settled" ELSE "refused")
      BY <1>7, <2>4 DEF CheckSettled
    <3>2. same => Claim(b) = b[1].key
      <4>1. Claim(b) # NoKey
        BY <3>1 DEF Open
      <4>2. QED
        BY <2>2, <4>1, BatchShape DEF Claim
    <3>3. \E i \in DOMAIN file : file[i].key = Claim(b) /\ LastSettled(Claim(b)) = file[i]
      BY <3>1, LastIsThere DEF Open, IInv, TypeOK
    <3>4. pc[p] \in Running /\ pc'[p] = "finished"
      BY <2>1, <3>1 DEF IInv, TypeOK, Running, Holding
    <3>5. CASE same
      <4>1. Holds([batch |-> cmd[p], outcome |-> "settled"])
        BY <2>2, <3>2, <3>3, <3>5 DEF Holds
      <4>2. QED
        BY <1>4, <2>1, <3>1, <3>4, <3>5, <4>1 DEF Outcomes
    <3>6. CASE ~ same
      <4>1. Holds([batch |-> cmd[p], outcome |-> "refused"])
        BY <2>2 DEF Holds
      <4>2. QED
        BY <1>4, <2>1, <3>1, <3>4, <3>6, <4>1 DEF Outcomes
    <3>7. QED
      BY <3>5, <3>6
  <2>5. QED
    BY <2>3, <2>4
<1>8. CASE Collect
  <2>1. Kept /\ UNCHANGED <<file, started>> /\ \A q \in Procs : pc'[q] \notin Running
    BY <1>8 DEF Collect, Running, Holding
  <2>2. ASSUME NEW r \in replies', r \notin replies
        PROVE  \E p \in Procs : pc[p] \in Running /\ r.batch = cmd[p] /\ Holds(r)
    <3>1. PICK p \in Procs : pc[p] \in Running /\ r = [batch |-> cmd[p], outcome |-> "killed"]
      BY <1>8, <2>2 DEF Collect
    <3>2. Holds(r)
      BY <3>1 DEF Numbered, Holds
    <3>3. QED
      BY <3>1, <3>2
  <2>3. QED
    BY <2>1, <2>2, ReplyStep
<1>9. CASE UNCHANGED vars
  BY <1>9, ReplyStep DEF vars
<1>10. QED
  BY <1>1, <1>2, <1>3, <1>5, <1>6, <1>7, <1>8, <1>9 DEF Next, Step

\* Whatever other processes append, fail or die, what a command has reported is
\* true of the ledger from then on, for any number of processes and commands.
THEOREM RepliesStayTrue == Spec => []RepliesHold
<1>1. Init => ReplyInv
  BY DEF Init, ReplyInv, Numbered, Running, Holding
<1>2. ReplyInv => RepliesHold
  BY RepliesAreHeld DEF ReplyInv
<1>3. QED
  BY Invariance, NextReplyInv, <1>1, <1>2, PTL DEF Spec
-----------------------------------------------------------------------------
\* Type correctness.
THEOREM TypeCorrect == Spec => []TypeOK
BY Invariance, PTL DEF IInv

\* The lock file excludes, for any number of processes and kills.
THEOREM LockExcludes == Spec => []MutualExclusion
BY Invariance, PTL DEF IInv

\* Whatever commands, bundles and recoveries race on: no command settles a key
\* that is settled, no bundle completes a completed task.
THEOREM SettledAtMostOnce == Spec => []SettledOnce
BY Invariance, PTL DEF IInv

\* The lock file without an owner.
Stale == lock /\ \A p \in Procs : pc[p] \notin Holding

\* There is no way round a stale lock: until the directory is copied, no step
\* removes it and no event is recorded.
StaleLockFreezes ==
    [][Stale /\ UNCHANGED collects => Stale' /\ UNCHANGED file]_vars

\* Only copying the directory gets past a stale lock.
THEOREM StaleLockIsForGood == Spec => StaleLockFreezes
<1>1. IInv /\ [Next]_vars
        => [Stale /\ UNCHANGED collects => Stale' /\ UNCHANGED file]_vars
  <2> SUFFICES ASSUME IInv, [Next]_vars, Stale, UNCHANGED collects
               PROVE  Stale' /\ UNCHANGED file
    OBVIOUS
  <2> USE DEF IInv, TypeOK, Stale, Holding
  <2>1. ASSUME NEW p \in Procs, Prepare(p) \/ LockTimeout(p) \/ LockFails(p) \/ Kill(p)
        PROVE  Stale' /\ UNCHANGED file
    BY <2>1 DEF Prepare, LockTimeout, LockFails, Kill
  <2>2. ASSUME NEW p \in Procs
        PROVE  ~ (\/ Lock(p) \/ CheckSettled(p) \/ ReadExisting(p) \/ WriteTemp(p)
                  \/ Rename(p) \/ IOError(p) \/ Unlock(p))
    BY DEF Lock, CheckSettled, ReadExisting, WriteTemp, Rename, IOError, Unlock
  <2>3. ~ Collect
    BY DEF Collect
  <2>4. CASE UNCHANGED vars
    BY <2>4 DEF vars
  <2>5. QED
    BY <2>1, <2>2, <2>3, <2>4 DEF Next, Step
<1>2. QED
  BY Invariance, <1>1, PTL DEF Spec, StaleLockFreezes

\* The file with its lock implements the abstract log: no event is lost,
\* reordered or rewritten, and no batch is split.
THEOREM LedgerFileImplementsLog == Spec => LogSpec
<1>1. Init => Log!Init
  BY DEF Init, Log!Init
<1>2. IInv /\ [Next]_vars => [Log!Next]_file
  <2> SUFFICES ASSUME IInv, [Next]_vars, NEW batch \in Batches,
                      file' = file \o batch, Open(batch)
               PROVE  Log!Next
    BY FileStep
  <2>1. Claim(batch) # NoKey => ~ Log!Settled(Claim(batch))
    BY DEF Open, Log!Settled, Settlers
  <2>2. CASE batch[1].by = "command"
    <3>1. CASE Len(batch) = 1 /\ batch[1].key # NoKey
      <4>1. Claim(batch) = batch[1].key
        BY <2>2, <3>1 DEF Claim
      <4>2. Log!AppendOnce(batch)
        BY <2>1, <2>2, <3>1, <4>1 DEF Log!AppendOnce
      <4>3. QED
        BY <4>2 DEF Log!Next
    <3>2. CASE \A i \in DOMAIN batch : batch[i].key = NoKey
      <4>1. Log!AppendFree(batch)
        BY <2>2, <3>2 DEF Log!AppendFree
      <4>2. QED
        BY <4>1 DEF Log!Next
    <3>3. QED
      BY <2>2, <3>1, <3>2, BatchShape
  <2>3. CASE batch[1].by = "bundle"
    <3>1. Claim(batch) = batch[Len(batch)].key /\ Claim(batch) # NoKey
      BY <2>3, BatchShape, ConstantsAssumption DEF Claim
    <3>2. Log!AppendBundle(batch)
      BY <2>1, <2>3, <3>1 DEF Log!AppendBundle
    <3>3. QED
      BY <3>2 DEF Log!Next
  <2>4. CASE batch[1].by = "recovery"
    <3>1. Log!AppendRecovered(batch)
      BY <2>4 DEF Log!AppendRecovered
    <3>2. QED
      BY <3>1 DEF Log!Next
  <2>5. QED
    BY <2>2, <2>3, <2>4, BatchShape
<1>3. QED
  BY <1>1, <1>2, Invariance, PTL DEF Spec, LogSpec, Log!Spec
=============================================================================
