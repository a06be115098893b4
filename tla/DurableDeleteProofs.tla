------------------------- MODULE DurableDeleteProofs -------------------------
(***************************************************************************)
(* Proofs about DurableDelete, for any number of threads, labels, requests,*)
(* ingests and crashes.                                                    *)
(***************************************************************************)
EXTENDS DurableContract, TLAPS

-----------------------------------------------------------------------------
(* Type correctness. *)

LEMMA CutType ==
    ASSUME NEW image \in Image, NEW k \in Int
    PROVE  Cut(image, k) \in Image
  BY DEF Cut, Image, Cells, Absent

LEMMA CutFiles ==
    ASSUME NEW files \in Files, NEW image \in Image, NEW k \in Int
    PROVE  [files EXCEPT !.tmp = Cut(image, k)] \in Files
  BY CutType DEF Files

LEMMA EmptyType == Empty \in Image
  BY DEF Empty, Image, Cells

LEMMA ProcessGoneType ==
    ASSUME TypeOK, ProcessGone
    PROVE  /\ phase' \in {"down", "recovering", "up"}
           /\ mem' \in Image
           /\ txCounter' \in Nat
           /\ ioLock' \in Actors \cup {Nobody}
           /\ pending' \in SUBSET Begins
           /\ replay' \in Begins
           /\ pc' \in [Actors -> PCs]
           /\ node' \in [Actors -> Labels]
           /\ tx' \in [Actors -> Nat]
           /\ failed' \in SUBSET Nat
           /\ gen' \in Nat
           /\ requests' \in Nat
           /\ crashes' \in Nat
  BY EmptyType, NumLabelsAssumption
     DEF TypeOK, ProcessGone, callVars, AllIdle, PCs, NoRecord, Begins, Labels, Cells,
         Absent

LEMMA RaiseType ==
    ASSUME TypeOK, NEW p \in Actors, Raise(p)
    PROVE  /\ phase' \in {"down", "recovering", "up"}
           /\ mem' \in Image
           /\ txCounter' \in Nat
           /\ ioLock' \in Actors \cup {Nobody}
           /\ pending' \in SUBSET Begins
           /\ replay' \in Begins
           /\ pc' \in [Actors -> PCs]
           /\ node' \in [Actors -> Labels]
           /\ tx' \in [Actors -> Nat]
           /\ failed' \in SUBSET Nat
           /\ gen' \in Nat
           /\ requests' \in Nat
           /\ crashes' \in Nat
  <1>1. CASE p = Recovery
    BY <1>1, ProcessGoneType DEF Raise
  <1>2. CASE p # Recovery
    <2>1. pc' \in [Actors -> PCs]
      BY <1>2 DEF Raise, TypeOK, Goto, PCs
    <2>2. failed' \in SUBSET Nat
      <3>1. tx[p] \in Nat /\ txCounter \in Nat /\ failed \in SUBSET Nat
        BY DEF TypeOK
      <3> QED BY <1>2, <3>1 DEF Raise
    <2>3. ioLock' \in Actors \cup {Nobody}
      BY <1>2 DEF Raise, TypeOK
    <2> QED BY <1>2, <2>1, <2>2, <2>3 DEF Raise, TypeOK, bootVars, callVars, countVars
  <1> QED BY <1>1, <1>2

LEMMA InitType == Init => TypeOK
  BY EmptyType, NumLabelsAssumption
     DEF Init, TypeOK, NoFiles, Files, NoRecord, Begins, AllIdle, PCs, Labels, Cells,
         Absent

LEMMA NextType == TypeOK /\ [Next]_vars => TypeOK'
  <1> SUFFICES ASSUME TypeOK, [Next]_vars PROVE TypeOK'
    OBVIOUS
  <1> USE DEF walVars, diskVars, bootVars, callVars, countVars
  <1>1. CASE Boot
    <2>1. txCounter' \in Nat
      BY <1>1 DEF Boot, TypeOK, TxIds, Begins
    <2>2. mem' \in Image
      BY <1>1 DEF Boot, TypeOK, Files
    <2>3. pending' \in SUBSET Begins
      BY <1>1 DEF Boot, TypeOK, Uncommitted
    <2> QED BY <1>1, <2>1, <2>2, <2>3 DEF Boot, TypeOK
  <1>2. CASE ReplayOne
    BY <1>2 DEF ReplayOne, TypeOK, PCs, Begins
  <1>3. CASE FinishRecovery
    BY <1>3 DEF FinishRecovery, TypeOK
  <1>4. CASE RetireReplayed
    BY <1>4 DEF RetireReplayed, TypeOK, Goto, PCs, Begins, TailAfterAppend
  <1>5. CASE Crash
    <2>1. tail' \in {"clean", "torn", "corrupt"}
      BY <1>5 DEF Crash, TypeOK, TailsAfterTear
    <2>2. disk' \in Files
      <3>1. \A k \in 0 .. NumLabels :
                /\ [disk EXCEPT !.tmp = Cut(mem, k)] \in Files
                /\ [disk EXCEPT !.tmp = Cut(disk.tmp, k)] \in Files
        BY CutFiles, NumLabelsAssumption DEF TypeOK, Files
      <3>2. disk \in Files /\ durable \in Files
        BY DEF TypeOK
      <3> QED BY <1>5, <3>1, <3>2 DEF Crash
    <2> QED BY <1>5, <2>1, <2>2, ProcessGoneType DEF Crash, TypeOK
  <1>6. ASSUME NEW p \in Actors, Step(p) PROVE TypeOK'
    <2>1. CASE AppendBegin(p)
      BY <2>1 DEF AppendBegin, Intent, TypeOK, Goto, PCs, Begins, TailAfterAppend, Image
    <2>2. CASE EraseNode(p)
      BY <2>2 DEF EraseNode, TypeOK, Goto, PCs, Image, Cells, Zero
    <2>3. CASE EraseOutOfRange(p)
      BY <2>3, RaiseType DEF EraseOutOfRange, TypeOK
    <2>4. CASE EraseContended(p)
      <3>1. CASE Raise(p)
        BY <2>4, <3>1, RaiseType DEF EraseContended, TypeOK
      <3>2. CASE ~Raise(p)
        <4>1. tx[p] \in Nat /\ failed' = failed \cup {tx[p]}
          BY <2>4, <3>2 DEF EraseContended, TypeOK
        <4>2. failed' \in SUBSET Nat
          BY <4>1 DEF TypeOK
        <4>3. mem' \in Image /\ pc' \in [Actors -> PCs]
          BY <2>4, <3>2 DEF EraseContended, TypeOK, Goto, PCs, Image, Cells, Zero
        <4> QED BY <2>4, <3>2, <4>2, <4>3 DEF EraseContended, TypeOK
      <3> QED BY <3>1, <3>2
    <2>5. CASE FlushBegin(p)
      BY <2>5, EmptyType DEF FlushBegin, TypeOK, Goto, PCs, Files
    <2>6. CASE SaveIndex(p)
      BY <2>6 DEF SaveIndex, TypeOK, Goto, PCs, Files
    <2>7. CASE SyncTemp(p)
      BY <2>7 DEF SyncTemp, TypeOK, Goto, PCs, SyncDirectory
    <2>8. CASE ReplaceIndex(p)
      BY <2>8, EmptyType DEF ReplaceIndex, TypeOK, Goto, PCs, Files
    <2>9. CASE FlushEnd(p)
      BY <2>9 DEF FlushEnd, TypeOK, Goto, PCs, SyncDirectory
    <2>10. CASE FlushFails(p)
      <3>1. disk' \in Files
        BY <2>10, CutFiles, NumLabelsAssumption DEF FlushFails, TypeOK
      <3> QED BY <2>10, <3>1, RaiseType DEF FlushFails, TypeOK
    <2>11. CASE AppendCommit(p)
      BY <2>11 DEF AppendCommit, TypeOK, Goto, PCs, TailAfterAppend
    <2>12. CASE AppendFails(p)
      <3>1. Intent(p) \in Begins /\ tx[p] \in Nat /\ replay.tx \in Nat
        BY DEF Intent, TypeOK, Begins, Image
      <3>2. begun' \in SUBSET Begins /\ committed' \in SUBSET Nat
        BY <2>12, <3>1 DEF AppendFails, Record, TypeOK
      <3>3. tail' \in {"clean", "torn", "corrupt"}
        BY <2>12 DEF AppendFails, Record, TypeOK, TailAfterAppend
      <3> QED BY <2>12, <3>2, <3>3, RaiseType DEF AppendFails, TypeOK
    <2> QED BY <1>6, <2>1, <2>2, <2>3, <2>4, <2>5, <2>6, <2>7, <2>8, <2>9, <2>10,
               <2>11, <2>12 DEF Step
  <1>7. ASSUME NEW c \in Clients, Request(c) PROVE TypeOK'
    <2> c \in Actors
      BY DEF Actors
    <2>1. ASSUME NEW l \in Labels, RequestDelete(c, l) PROVE TypeOK'
      BY <2>1 DEF RequestDelete, TypeOK, Goto, PCs
    <2>2. CASE Checkpoint(c)
      BY <2>2 DEF Checkpoint, TypeOK, Goto, PCs
    <2>3. ASSUME NEW rows \in SUBSET Labels, NEW replaceIndex \in BOOLEAN,
                 NEW checkpoint \in BOOLEAN,
                 Ingest(c, rows, replaceIndex, checkpoint)
          PROVE  TypeOK'
      <3>1. mem' \in Image
        BY <2>3 DEF Ingest, TypeOK, Image, Cells, Zero, Absent, Labels
      <3> QED BY <2>3, <3>1 DEF Ingest, TypeOK, Goto, PCs
    <2> QED BY <1>7, <2>1, <2>2, <2>3 DEF Request
  <1>8. CASE UNCHANGED vars
    BY <1>8 DEF vars, TypeOK
  <1> QED BY <1>1, <1>2, <1>3, <1>4, <1>5, <1>6, <1>7, <1>8 DEF Next, Startup

\* Every variable keeps its type, whatever the number of clients, labels and
\* crashes: the log, the files and the process state of PersistenceEngine.
THEOREM TypeCorrect == Spec => []TypeOK
  BY InitType, NextType, PTL DEF Spec

-----------------------------------------------------------------------------
(* The inductive invariant. *)

InTx       == {"erase", "lock", "save", "sync", "replace", "dirsync", "commit", "retire"}
AfterErase == InTx \ {"erase"}

\* Who may be running in which phase.
Phases ==
    /\ phase # "recovering" => pc[Recovery] = "idle" /\ pending = {}
    /\ phase # "up" => \A c \in Clients : pc[c] = "idle"
    /\ \A c \in Clients : pc[c] # "retire"

\* The io lock is held exactly by the actor inside atomic_flush_index.
LockInv == \A p \in Actors : pc[p] \in Holding <=> ioLock = p

\* Nothing holds a vector of an ingest that has not happened.
UpToGen(image) == \A l \in Labels : image[l] <= gen

GenInv ==
    /\ \A r \in begun : r.gen <= gen
    /\ UpToGen(mem)
    /\ UpToGen(disk.bin) /\ UpToGen(disk.tmp)
    /\ UpToGen(durable.bin) /\ UpToGen(durable.tmp)

\* Transaction ids are never used twice, across restarts too.
TxInv ==
    /\ \A r \in begun : r.tx > 0
    /\ \A r, s \in begun : r.tx = s.tx => r = s
    /\ phase # "down" =>
        /\ \A r \in begun : r.tx <= txCounter
        /\ \A t \in committed : t <= txCounter

\* A call in a transaction has its own id, logged for the label it works on.
CallInv ==
    \A p \in Actors : pc[p] \in InTx =>
        /\ tx[p] <= txCounter
        /\ \A r \in begun : r.tx = tx[p] => r.node = node[p]
        /\ \A q \in Actors : pc[q] \in InTx /\ tx[q] = tx[p] /\ tx[p] # 0 => q = p
        /\ pc[p] \in {"erase", "commit", "retire"} \/ p = Recovery => tx[p] # 0

ReplayInv ==
    /\ pending \subseteq begun
    /\ pc[Recovery] # "idle" => replay \in begun /\ replay.node = node[Recovery]

\* Actor p is carrying out the delete that record r logged.
Works(p, r) ==
    \/ pc[p] \in InTx \ {"retire"} /\ r.tx = tx[p]
    \/ p = Recovery /\ pc[p] # "idle" /\ r.tx = replay.tx

\* How far the copies of the vector are gone, by the step its delete is at.
WorkInv ==
    \A p \in Actors, r \in begun :
        r.gen > Zero /\ Works(p, r) =>
            /\ pc[p] \in AfterErase => mem[r.node] # r.gen
            /\ pc[p] \in {"sync", "replace"} => disk.tmp[r.node] # r.gen
            /\ pc[p] = "dirsync" => ~HeldBy(disk, r)
            /\ pc[p] \in {"commit", "retire"} => ~HeldBy(disk, r) /\ ~HeldBy(durable, r)

\* What is in memory again, or not yet closed, is still to be replayed.
RecoveryInv ==
    phase = "recovering" =>
        /\ \A r \in begun :
            r.gen > Zero /\ mem[r.node] = r.gen =>
                \/ r \in pending
                \/ Works(Recovery, r) /\ pc[Recovery] \in {"begin", "erase"}
        /\ Loaded(mem) =>
            \A r \in begun : r.tx \in committed \/ r \in pending \/ Works(Recovery, r)

IndInv ==
    /\ TypeOK /\ Phases /\ LockInv /\ GenInv /\ TxInv /\ CallInv /\ ReplayInv
    /\ CommittedErased /\ WorkInv /\ RecoveryInv /\ NoResurrection
LEMMA ActorFacts ==
    /\ Recovery \in Actors /\ Recovery \notin Clients /\ Nobody \notin Actors
    /\ \A c \in Clients : c \in Actors
    /\ \A p \in Actors : p \in Clients \/ p = Recovery
  BY ActorsAssumption DEF Actors

\* The typing facts the steps below rest on, with the sets expanded.
LEMMA RecordFacts ==
    ASSUME TypeOK
    PROVE  /\ \A r \in begun : r.tx \in Nat /\ r.node \in Labels /\ r.gen \in Int
           /\ \A l \in Labels : mem[l] \in Int
           /\ DOMAIN pc = Actors /\ DOMAIN mem = Labels
  BY DEF TypeOK, Begins, Cells, Absent, Image

LEMMA BootInv ==
    ASSUME IndInv, TypeOK', Boot
    PROVE  IndInv'
  <1> USE ActorFacts, RecordFacts
      DEF IndInv, Boot, Goto, TypeOK, walVars, diskVars, bootVars, callVars, countVars
  <1>1. Phases' /\ LockInv' /\ GenInv'
    BY DEF Phases, LockInv, Holding, GenInv, UpToGen, Files
  <1>2. TxInv' /\ CallInv' /\ ReplayInv'
    BY DEF TxInv, CallInv, ReplayInv, InTx, Phases, Uncommitted, TxIds
  <1>3. CommittedErased'
    BY DEF CommittedErased, HeldBy, Files
  <1>4. WorkInv'
    BY DEF WorkInv, Works, HeldBy, InTx, AfterErase, Phases
  <1>5. RecoveryInv' /\ NoResurrection'
    BY DEF RecoveryInv, NoResurrection, Works, InTx, Phases, CommittedErased,
           HeldBy, Uncommitted, Loaded, Absent, Zero
  <1> QED BY <1>1, <1>2, <1>3, <1>4, <1>5

LEMMA ReplayOneInv ==
    ASSUME IndInv, TypeOK', ReplayOne
    PROVE  IndInv'
  <1> USE ActorFacts, RecordFacts
      DEF IndInv, ReplayOne, Goto, TypeOK, walVars, diskVars, bootVars, callVars, countVars
  <1>1. Phases' /\ LockInv' /\ GenInv'
    BY DEF Phases, LockInv, Holding, GenInv, UpToGen
  <1>2. TxInv' /\ CallInv' /\ ReplayInv'
    BY DEF TxInv, CallInv, ReplayInv, InTx, Phases
  <1>3. CommittedErased'
    BY DEF CommittedErased, HeldBy
  <1>4. WorkInv'
    BY DEF WorkInv, Works, HeldBy, InTx, AfterErase
  <1>5. RecoveryInv' /\ NoResurrection'
    BY DEF RecoveryInv, NoResurrection, Works, InTx, Phases
  <1> QED BY <1>1, <1>2, <1>3, <1>4, <1>5

LEMMA FinishRecoveryInv ==
    ASSUME IndInv, TypeOK', FinishRecovery
    PROVE  IndInv'
  <1> USE ActorFacts, RecordFacts
      DEF IndInv, FinishRecovery, Goto, TypeOK, walVars, diskVars, bootVars, callVars, countVars
  <1>1. Phases' /\ LockInv' /\ GenInv'
    BY DEF Phases, LockInv, Holding, GenInv, UpToGen
  <1>2. TxInv' /\ CallInv' /\ ReplayInv'
    BY DEF TxInv, CallInv, ReplayInv, InTx, Phases
  <1>3. CommittedErased'
    BY DEF CommittedErased, HeldBy
  <1>4. WorkInv'
    BY DEF WorkInv, Works, HeldBy, InTx, AfterErase
  <1>5. RecoveryInv' /\ NoResurrection'
    BY DEF RecoveryInv, NoResurrection, Works, InTx, Phases
  <1> QED BY <1>1, <1>2, <1>3, <1>4, <1>5

LEMMA RequestDeleteInv ==
    ASSUME IndInv, TypeOK', NEW c \in Clients, NEW l \in Labels, RequestDelete(c, l)
    PROVE  IndInv'
  <1> USE ActorFacts, RecordFacts
      DEF IndInv, RequestDelete, Goto, TypeOK, walVars, diskVars, bootVars, callVars, countVars
  <1>1. Phases' /\ LockInv' /\ GenInv'
    BY DEF Phases, LockInv, Holding, GenInv, UpToGen
  <1>2. TxInv' /\ CallInv' /\ ReplayInv'
    BY DEF TxInv, CallInv, ReplayInv, InTx, Phases
  <1>3. CommittedErased'
    BY DEF CommittedErased, HeldBy
  <1>4. WorkInv'
    BY DEF WorkInv, Works, HeldBy, InTx, AfterErase
  <1>5. RecoveryInv' /\ NoResurrection'
    BY DEF RecoveryInv, NoResurrection, Works, InTx, Phases
  <1> QED BY <1>1, <1>2, <1>3, <1>4, <1>5

LEMMA AppendBeginInv ==
    ASSUME IndInv, TypeOK', NEW p \in Actors, AppendBegin(p)
    PROVE  IndInv'
  <1> USE ActorFacts, RecordFacts
      DEF IndInv, AppendBegin, Intent, Goto, TypeOK, walVars, diskVars, bootVars, callVars, countVars
  <1>1. Phases' /\ LockInv' /\ GenInv'
    BY DEF Phases, LockInv, Holding, GenInv, UpToGen
  <1>2. TxInv' /\ CallInv' /\ ReplayInv'
    BY DEF TxInv, CallInv, ReplayInv, InTx, Phases
  <1>3. CommittedErased'
    BY DEF CommittedErased, HeldBy, TxInv, Phases
  <1>4. WorkInv'
    BY DEF WorkInv, Works, HeldBy, InTx, AfterErase, CallInv, TxInv, ReplayInv,
           Phases
  <1>5. RecoveryInv' /\ NoResurrection'
    BY DEF RecoveryInv, NoResurrection, Works, InTx, Phases
  <1> QED BY <1>1, <1>2, <1>3, <1>4, <1>5

LEMMA EraseNodeInv ==
    ASSUME IndInv, TypeOK', NEW p \in Actors, EraseNode(p)
    PROVE  IndInv'
  <1> USE ActorFacts, RecordFacts
      DEF IndInv, EraseNode, Goto, TypeOK, walVars, diskVars, bootVars, callVars, countVars
  <1>1. Phases' /\ LockInv' /\ GenInv'
    BY DEF Phases, LockInv, Holding, GenInv, UpToGen, Zero
  <1>2. TxInv' /\ CallInv' /\ ReplayInv'
    BY DEF TxInv, CallInv, ReplayInv, InTx, Phases, Zero
  <1>3. CommittedErased'
    BY DEF CommittedErased, HeldBy, Zero
  <1>4. WorkInv'
    BY DEF WorkInv, Works, HeldBy, InTx, AfterErase, CallInv, TxInv, ReplayInv,
           Phases, Zero
  <1>5. RecoveryInv' /\ NoResurrection'
    BY DEF RecoveryInv, NoResurrection, Works, InTx, Phases, CallInv, TxInv,
           ReplayInv, Loaded, Zero
  <1> QED BY <1>1, <1>2, <1>3, <1>4, <1>5

LEMMA FlushBeginInv ==
    ASSUME IndInv, TypeOK', NEW p \in Actors, FlushBegin(p)
    PROVE  IndInv'
  <1> USE ActorFacts, RecordFacts
      DEF IndInv, FlushBegin, Goto, TypeOK, walVars, diskVars, bootVars, callVars, countVars
  <1>1. Phases' /\ LockInv' /\ GenInv'
    BY DEF Phases, LockInv, Holding, GenInv, UpToGen, Files, Empty, Absent
  <1>2. TxInv' /\ CallInv' /\ ReplayInv'
    BY DEF TxInv, CallInv, ReplayInv, InTx, Phases
  <1>3. CommittedErased'
    BY DEF CommittedErased, HeldBy, Files, Empty, Absent, Zero
  <1>4. WorkInv'
    BY DEF WorkInv, Works, HeldBy, InTx, AfterErase, Files, Empty, Absent, Zero
  <1>5. RecoveryInv' /\ NoResurrection'
    BY DEF RecoveryInv, NoResurrection, Works, InTx, Phases
  <1> QED BY <1>1, <1>2, <1>3, <1>4, <1>5

LEMMA SaveIndexInv ==
    ASSUME IndInv, TypeOK', NEW p \in Actors, SaveIndex(p)
    PROVE  IndInv'
  <1> USE ActorFacts, RecordFacts
      DEF IndInv, SaveIndex, Goto, TypeOK, walVars, diskVars, bootVars, callVars, countVars
  <1>1. Phases' /\ LockInv' /\ GenInv'
    BY DEF Phases, LockInv, Holding, GenInv, UpToGen, Files
  <1>2. TxInv' /\ CallInv' /\ ReplayInv'
    BY DEF TxInv, CallInv, ReplayInv, InTx, Phases
  <1>3. CommittedErased'
    BY DEF CommittedErased, HeldBy, Files
  <1>4. WorkInv'
    BY DEF WorkInv, Works, HeldBy, InTx, AfterErase, Files
  <1>5. RecoveryInv' /\ NoResurrection'
    BY DEF RecoveryInv, NoResurrection, Works, InTx, Phases
  <1> QED BY <1>1, <1>2, <1>3, <1>4, <1>5

LEMMA SyncTempInv ==
    ASSUME IndInv, TypeOK', NEW p \in Actors, SyncTemp(p)
    PROVE  IndInv'
  <1> USE ActorFacts, RecordFacts
      DEF IndInv, SyncTemp, Goto, TypeOK, walVars, diskVars, bootVars, callVars, countVars
  <1>1. Phases' /\ LockInv' /\ GenInv'
    BY DEF Phases, LockInv, Holding, GenInv, UpToGen, SyncDirectory
  <1>2. TxInv' /\ CallInv' /\ ReplayInv'
    BY DEF TxInv, CallInv, ReplayInv, InTx, Phases
  <1>3. CommittedErased'
    BY DEF CommittedErased, HeldBy, SyncDirectory
  <1>4. WorkInv'
    BY DEF WorkInv, Works, HeldBy, InTx, AfterErase, SyncDirectory
  <1>5. RecoveryInv' /\ NoResurrection'
    BY DEF RecoveryInv, NoResurrection, Works, InTx, Phases
  <1> QED BY <1>1, <1>2, <1>3, <1>4, <1>5

LEMMA ReplaceIndexInv ==
    ASSUME IndInv, TypeOK', NEW p \in Actors, ReplaceIndex(p)
    PROVE  IndInv'
  <1> USE ActorFacts, RecordFacts
      DEF IndInv, ReplaceIndex, Goto, TypeOK, walVars, diskVars, bootVars, callVars, countVars
  <1>1. Phases' /\ LockInv' /\ GenInv'
    BY DEF Phases, LockInv, Holding, GenInv, UpToGen, Files, Empty, Absent
  <1>2. TxInv' /\ CallInv' /\ ReplayInv'
    BY DEF TxInv, CallInv, ReplayInv, InTx, Phases
  <1>3. CommittedErased'
    BY DEF CommittedErased, HeldBy, Files, Empty, Absent, Zero
  <1>4. WorkInv'
    BY DEF WorkInv, Works, HeldBy, InTx, AfterErase, Files, Empty, Absent, Zero
  <1>5. RecoveryInv' /\ NoResurrection'
    BY DEF RecoveryInv, NoResurrection, Works, InTx, Phases
  <1> QED BY <1>1, <1>2, <1>3, <1>4, <1>5

\* Here the directory fsync must have worked: it is what makes the COMMIT true.
LEMMA FlushEndInv ==
    ASSUME IndInv, TypeOK', NEW p \in Actors, "dirsync" \notin Faults, FlushEnd(p)
    PROVE  IndInv'
  <1> USE ActorFacts, RecordFacts
      DEF IndInv, FlushEnd, Goto, TypeOK, walVars, diskVars, bootVars, callVars, countVars
  <1>1. Phases' /\ LockInv' /\ GenInv'
    BY DEF Phases, LockInv, Holding, GenInv, UpToGen, SyncDirectory
  <1>2. TxInv' /\ CallInv' /\ ReplayInv'
    BY DEF TxInv, CallInv, ReplayInv, InTx, Phases
  <1>3. CommittedErased'
    BY DEF CommittedErased, HeldBy, SyncDirectory
  <1>4. WorkInv'
    BY DEF WorkInv, Works, HeldBy, InTx, AfterErase, CallInv, TxInv, SyncDirectory
  <1>5. RecoveryInv' /\ NoResurrection'
    BY DEF RecoveryInv, NoResurrection, Works, InTx, Phases, CallInv
  <1> QED BY <1>1, <1>2, <1>3, <1>4, <1>5

LEMMA AppendCommitInv ==
    ASSUME IndInv, TypeOK', NEW p \in Actors, AppendCommit(p)
    PROVE  IndInv'
  <1> USE ActorFacts, RecordFacts
      DEF IndInv, AppendCommit, Goto, TypeOK, walVars, diskVars, bootVars, callVars, countVars
  <1>1. Phases' /\ LockInv' /\ GenInv'
    BY DEF Phases, LockInv, Holding, GenInv, UpToGen
  <1>2. TxInv' /\ CallInv' /\ ReplayInv'
    BY DEF TxInv, CallInv, ReplayInv, InTx, Phases
  <1>3. CommittedErased'
    BY DEF CommittedErased, HeldBy, WorkInv, Works, InTx, AfterErase
  <1>4. WorkInv'
    BY DEF WorkInv, Works, HeldBy, InTx, AfterErase
  <1>5. RecoveryInv' /\ NoResurrection'
    BY DEF RecoveryInv, NoResurrection, Works, InTx, Phases
  <1> QED BY <1>1, <1>2, <1>3, <1>4, <1>5

LEMMA RetireReplayedInv ==
    ASSUME IndInv, TypeOK', RetireReplayed
    PROVE  IndInv'
  <1> USE ActorFacts, RecordFacts
      DEF IndInv, RetireReplayed, Goto, TypeOK, walVars, diskVars, bootVars, callVars, countVars
  <1>1. Phases' /\ LockInv' /\ GenInv'
    BY DEF Phases, LockInv, Holding, GenInv, UpToGen
  <1>2. TxInv' /\ CallInv' /\ ReplayInv'
    BY DEF TxInv, CallInv, ReplayInv, InTx, Phases
  <1>3. CommittedErased'
    BY DEF CommittedErased, HeldBy, WorkInv, Works, InTx, AfterErase
  <1>4. WorkInv'
    BY DEF WorkInv, Works, HeldBy, InTx, AfterErase
  <1>5. RecoveryInv' /\ NoResurrection'
    BY DEF RecoveryInv, NoResurrection, Works, InTx, Phases
  <1> QED BY <1>1, <1>2, <1>3, <1>4, <1>5

LEMMA CheckpointInv ==
    ASSUME IndInv, TypeOK', NEW c \in Clients, Checkpoint(c)
    PROVE  IndInv'
  <1> USE ActorFacts, RecordFacts
      DEF IndInv, Checkpoint, Goto, TypeOK, walVars, diskVars, bootVars, callVars, countVars
  <1>1. Phases' /\ LockInv' /\ GenInv'
    BY DEF Phases, LockInv, Holding, GenInv, UpToGen
  <1>2. TxInv' /\ CallInv' /\ ReplayInv'
    BY DEF TxInv, CallInv, ReplayInv, InTx, Phases
  <1>3. CommittedErased'
    BY DEF CommittedErased, HeldBy
  <1>4. WorkInv'
    BY DEF WorkInv, Works, HeldBy, InTx, AfterErase, TxInv
  <1>5. RecoveryInv' /\ NoResurrection'
    BY DEF RecoveryInv, NoResurrection, Works, InTx, Phases
  <1> QED BY <1>1, <1>2, <1>3, <1>4, <1>5

\* Every row of the image is a row that some copy of the index already has.
Covered(image) ==
    \A l \in Labels :
        image[l] \in {Absent, Zero, mem[l], disk.bin[l], disk.tmp[l], durable.bin[l], durable.tmp[l]}

\* What a step that ends a call may have added to the log: an intent with a
\* fresh id, or the COMMIT of a delete that left no copy.
LogGrows ==
    /\ begun \subseteq begun' /\ committed \subseteq committed'
    /\ \A r \in begun' \ begun :
        /\ r.tx = txCounter + 1 /\ r.node \in Labels /\ r.gen = mem[r.node]
        /\ phase # "down" /\ UNCHANGED committed
    /\ \A r, s \in begun' \ begun : r = s
    /\ \A t \in committed' \ committed :
        /\ t <= txCounter
        /\ \A r \in begun : r.tx = t /\ r.gen > Zero
                => ~HeldBy(disk, r) /\ ~HeldBy(durable, r) /\ mem[r.node] # r.gen

LEMMA LogKept ==
    ASSUME UNCHANGED <<begun, committed>>
    PROVE  LogGrows
  BY DEF LogGrows

LEMMA RecordGrows ==
    ASSUME IndInv, NEW p \in Actors, pc[p] \in Appending, Record(p)
    PROVE  LogGrows /\ (begun' # begun => pc[p] = "begin")
  <1> USE ActorFacts, RecordFacts DEF IndInv, Record, Appending
  <1>1. CASE pc[p] = "begin"
    <2>1. phase # "down" /\ node[p] \in Labels
      BY <1>1 DEF Phases, TypeOK
    <2>2. begun' = begun \cup {Intent(p)} /\ committed' = committed
      BY <1>1
    <2> QED BY <1>1, <2>1, <2>2 DEF LogGrows, Intent
  <1>2. CASE pc[p] = "commit"
    <2>1. begun' = begun /\ committed' = committed \cup {tx[p]}
      BY <1>2
    <2>2. tx[p] <= txCounter
      BY <1>2 DEF CallInv, InTx
    <2>3. \A r \in begun : r.tx = tx[p] => Works(p, r)
      BY <1>2 DEF Works, InTx
    <2> QED BY <1>2, <2>1, <2>2, <2>3 DEF LogGrows, WorkInv, AfterErase, InTx
  <1>3. CASE pc[p] = "retire"
    <2>1. p = Recovery /\ phase # "down"
      BY <1>3 DEF Phases
    <2>2. begun' = begun /\ committed' = committed \cup {replay.tx}
      BY <1>3
    <2>3. replay.tx <= txCounter
      BY <1>3, <2>1 DEF ReplayInv, TxInv
    <2>4. \A r \in begun : r.tx = replay.tx => Works(p, r)
      BY <1>3, <2>1 DEF Works
    <2> QED BY <1>3, <2>2, <2>3, <2>4 DEF LogGrows, WorkInv, AfterErase, InTx
  <1> QED BY <1>1, <1>2, <1>3

\* The end of the process, by a crash or by an exception in bootstrap.
LEMMA ProcessGoneInv ==
    ASSUME IndInv, TypeOK', ProcessGone, LogGrows,
           Covered(disk'.bin), Covered(disk'.tmp),
           Covered(durable'.bin), Covered(durable'.tmp)
    PROVE  IndInv'
  <1> USE ActorFacts, RecordFacts DEF IndInv, ProcessGone, AllIdle, callVars
  <1>1. Phases' /\ LockInv' /\ CallInv' /\ ReplayInv' /\ WorkInv'
    BY DEF Phases, LockInv, Holding, CallInv, ReplayInv, WorkInv, Works, InTx
  <1>2. TxInv' /\ GenInv'
    <2>1. TxInv'
      BY DEF TxInv, LogGrows, TypeOK
    <2>2. \A r \in begun' : r.gen <= gen
      BY DEF GenInv, UpToGen, LogGrows
    <2>3. /\ gen' = gen /\ Absent <= gen /\ Zero <= gen
          /\ \A l \in Labels : /\ mem[l] <= gen /\ disk.bin[l] <= gen /\ disk.tmp[l] <= gen
                              /\ durable.bin[l] <= gen /\ durable.tmp[l] <= gen
      BY DEF GenInv, UpToGen, Absent, Zero, TypeOK
    <2>4. UpToGen(mem)'
      BY <2>3 DEF UpToGen, Empty
    <2>5. UpToGen(disk.bin)' /\ UpToGen(disk.tmp)'
      BY <2>3 DEF UpToGen, Covered
    <2>6. UpToGen(durable.bin)' /\ UpToGen(durable.tmp)'
      BY <2>3 DEF UpToGen, Covered
    <2>7. GenInv'
      BY <2>2, <2>3, <2>4, <2>5, <2>6 DEF GenInv
    <2> QED BY <2>1, <2>7
  <1>3. CommittedErased'
    <2> SUFFICES ASSUME NEW r \in begun', r.tx \in committed', r.gen > Zero
                 PROVE  ~HeldBy(disk', r) /\ ~HeldBy(durable', r) /\ mem'[r.node] # r.gen
      BY DEF CommittedErased, HeldBy
    <2>1. r \in begun
      <3>1. SUFFICES ASSUME r \notin begun PROVE FALSE
        OBVIOUS
      <3>2. r.tx = txCounter + 1 /\ committed' = committed /\ phase # "down"
        BY <3>1 DEF LogGrows
      <3>3. r.tx <= txCounter /\ txCounter \in Nat
        BY <3>2 DEF TxInv, TypeOK
      <3> QED BY <3>2, <3>3
    <2>2. ~HeldBy(disk, r) /\ ~HeldBy(durable, r) /\ mem[r.node] # r.gen
      <3>1. CASE r.tx \in committed
        BY <2>1, <3>1 DEF CommittedErased
      <3>2. CASE r.tx \notin committed
        BY <2>1, <3>2 DEF LogGrows
      <3> QED BY <3>1, <3>2
    <2>3. r.node \in Labels /\ r.gen # Zero /\ r.gen # Absent
      BY <2>1 DEF TypeOK, Begins, Absent, Zero
    <2>4. /\ disk'.bin[r.node] # r.gen /\ disk'.tmp[r.node] # r.gen
          /\ durable'.bin[r.node] # r.gen /\ durable'.tmp[r.node] # r.gen
      BY <2>2, <2>3 DEF Covered, HeldBy
    <2> QED BY <2>3, <2>4 DEF HeldBy, Empty
  <1>4. RecoveryInv' /\ NoResurrection'
    BY DEF RecoveryInv, NoResurrection
  <1> QED BY <1>1, <1>2, <1>3, <1>4

LEMMA CrashInv ==
    ASSUME IndInv, TypeOK', Crash
    PROVE  IndInv'
  <1>1. /\ Covered(disk'.bin) /\ Covered(disk'.tmp)
        /\ Covered(durable'.bin) /\ Covered(durable'.tmp)
    BY DEF IndInv, Crash, Covered, Cut, TypeOK, Files, Image
  <1>2. LogGrows
    BY LogKept DEF Crash
  <1> QED BY <1>1, <1>2, ProcessGoneInv DEF Crash

\* A call that raises, wherever it was.
LEMMA RaiseInv ==
    ASSUME IndInv, TypeOK', NEW p \in Actors, Raise(p), pc[p] # "idle",
           LogGrows, begun' # begun => pc[p] = "begin",
           UNCHANGED durable, disk'.bin = disk.bin,
           \A l \in Labels : disk'.tmp[l] \in {Absent, mem[l], disk.tmp[l]}
    PROVE  IndInv'
  <1>1. CASE p = Recovery
    <2>1. /\ Covered(disk'.bin) /\ Covered(disk'.tmp)
          /\ Covered(durable'.bin) /\ Covered(durable'.tmp)
      BY DEF Covered
    <2> QED BY <1>1, <2>1, ProcessGoneInv DEF Raise
  <1>2. CASE p # Recovery
    <2> USE <1>2, ActorFacts, RecordFacts
        DEF IndInv, Raise, Goto, bootVars, callVars, countVars
    <2>1. Phases' /\ LockInv'
      BY DEF Phases, LockInv, Holding, TypeOK
    <2>2. GenInv'
      BY DEF GenInv, UpToGen, Absent, TypeOK, LogGrows
    <2>3. TxInv'
      BY DEF TxInv, TypeOK, LogGrows
    <2>4. CallInv' /\ ReplayInv'
      BY DEF CallInv, ReplayInv, InTx, TypeOK, LogGrows
    <2>5. CommittedErased'
      <3>1. ASSUME NEW r \in begun', r.tx \in committed', r.gen > Zero
            PROVE  /\ r \in begun
                   /\ ~HeldBy(disk, r) /\ ~HeldBy(durable, r) /\ mem[r.node] # r.gen
        BY <3>1 DEF LogGrows, CommittedErased, TxInv, TypeOK
      <3> QED BY <3>1 DEF CommittedErased, HeldBy, Absent, Zero
    <2>6. WorkInv'
      <3>1. ASSUME NEW q \in Actors, NEW r \in begun', r.gen > Zero, Works(q, r)'
            PROVE  r \in begun /\ q # p /\ Works(q, r)
        BY <3>1 DEF LogGrows, Works, CallInv, ReplayInv, TxInv, Phases, InTx, TypeOK
      <3> QED BY <3>1 DEF WorkInv, Works, HeldBy, InTx, AfterErase, Absent, Zero, TypeOK
    <2>7. RecoveryInv'
      BY DEF RecoveryInv, Phases
    <2>8. NoResurrection'
      BY DEF NoResurrection, CallInv, InTx, TypeOK, LogGrows
    <2> QED BY <2>1, <2>2, <2>3, <2>4, <2>5, <2>6, <2>7, <2>8
  <1> QED BY <1>1, <1>2

LEMMA EraseContendedInv ==
    ASSUME IndInv, TypeOK', NEW p \in Actors, EraseContended(p)
    PROVE  IndInv'
  <1>1. CASE Raise(p)
    BY <1>1, LogKept, RaiseInv DEF EraseContended, walVars, diskVars
  <1>2. CASE ~Raise(p)
    <2> USE <1>2, ActorFacts, RecordFacts
        DEF IndInv, EraseContended, Goto, walVars, diskVars, bootVars, callVars, countVars,
            Zero
    <2>1. Phases' /\ LockInv'
      BY DEF Phases, LockInv, Holding, TypeOK
    <2>2. GenInv'
      BY DEF GenInv, UpToGen, TypeOK
    <2>3. TxInv' /\ CallInv' /\ ReplayInv'
      BY DEF TxInv, CallInv, ReplayInv, InTx, TypeOK
    <2>4. CommittedErased'
      BY DEF CommittedErased, HeldBy, TypeOK
    <2>5. WorkInv'
      BY DEF WorkInv, Works, HeldBy, InTx, AfterErase, TypeOK
    <2>6. RecoveryInv'
      BY DEF RecoveryInv, Phases
    <2>7. NoResurrection'
      BY DEF NoResurrection, CallInv, InTx, TypeOK
    <2> QED BY <2>1, <2>2, <2>3, <2>4, <2>5, <2>6, <2>7
  <1> QED BY <1>1, <1>2

LEMMA FlushFailsInv ==
    ASSUME IndInv, TypeOK', NEW p \in Actors, FlushFails(p)
    PROVE  IndInv'
  <1>1. \A l \in Labels : disk'.tmp[l] \in {Absent, mem[l], disk.tmp[l]}
    BY DEF IndInv, FlushFails, Cut, TypeOK, Files, Image
  <1>2. disk'.bin = disk.bin
    BY DEF IndInv, FlushFails, TypeOK, Files
  <1> QED BY <1>1, <1>2, LogKept, RaiseInv DEF FlushFails, walVars

LEMMA IngestInv ==
    ASSUME IndInv, TypeOK', NEW c \in Clients, NEW rows \in SUBSET Labels,
           NEW replaceIndex \in BOOLEAN, NEW checkpoint \in BOOLEAN,
           Ingest(c, rows, replaceIndex, checkpoint)
    PROVE  IndInv'
  <1>1. \A l \in Labels : mem'[l] = gen + 1 \/ (mem'[l] <= Zero /\ mem'[l] \in Int)
    BY DEF IndInv, TypeOK, Ingest, Zero, Absent
  <1>2. \A r \in begun : r.gen > Zero => mem'[r.node] # r.gen
    BY <1>1, RecordFacts DEF IndInv, GenInv, TypeOK, Zero
  <1> USE <1>1, ActorFacts, RecordFacts
      DEF IndInv, Ingest, Goto, walVars, diskVars, bootVars, Zero
  <1>3. Phases' /\ LockInv'
    BY DEF Phases, LockInv, Holding, TypeOK
  <1>4. GenInv'
    BY DEF GenInv, UpToGen, TypeOK, Files, Image, Cells, Absent
  <1>5. TxInv' /\ CallInv' /\ ReplayInv'
    BY DEF TxInv, CallInv, ReplayInv, InTx, TypeOK
  <1>6. CommittedErased'
    BY <1>2 DEF CommittedErased, HeldBy
  <1>7. WorkInv'
    BY <1>2 DEF WorkInv, TxInv, Works, HeldBy, InTx, AfterErase, TypeOK
  <1>8. RecoveryInv'
    BY DEF RecoveryInv
  <1>9. NoResurrection'
    BY <1>2 DEF NoResurrection
  <1> QED BY <1>3, <1>4, <1>5, <1>6, <1>7, <1>8, <1>9

-----------------------------------------------------------------------------
(* The theorems. *)

LEMMA InitInv == Init => IndInv
  <1> SUFFICES ASSUME Init PROVE IndInv
    OBVIOUS
  <1>1. TypeOK
    BY InitType
  <1>2. Phases /\ LockInv /\ TxInv /\ CallInv /\ ReplayInv /\ WorkInv
    BY ActorFacts DEF Init, AllIdle, Phases, LockInv, Holding, TxInv, CallInv, InTx,
                      ReplayInv, WorkInv
  <1>3. GenInv
    BY DEF Init, GenInv, UpToGen, NoFiles, Empty, Absent
  <1>4. CommittedErased /\ RecoveryInv /\ NoResurrection
    BY DEF Init, CommittedErased, RecoveryInv, NoResurrection
  <1> QED BY <1>1, <1>2, <1>3, <1>4 DEF IndInv

LEMMA NextInv ==
    ASSUME "dirsync" \notin Faults
    PROVE  IndInv /\ [Next]_vars => IndInv'
  <1> SUFFICES ASSUME IndInv, [Next]_vars PROVE IndInv'
    OBVIOUS
  <1>1. TypeOK'
    BY NextType DEF IndInv
  <1>2. CASE Startup
    BY <1>1, <1>2, BootInv, ReplayOneInv, FinishRecoveryInv, RetireReplayedInv DEF Startup
  <1>3. CASE Crash
    BY <1>1, <1>3, CrashInv
  <1>4. ASSUME NEW p \in Actors, Step(p) PROVE IndInv'
    <2>1. CASE EraseOutOfRange(p)
      BY <1>1, <2>1, LogKept, RaiseInv DEF EraseOutOfRange, walVars, diskVars
    <2>2. CASE AppendFails(p)
      <3>1. LogGrows /\ (begun' # begun => pc[p] = "begin")
        BY <2>2, LogKept, RecordGrows DEF AppendFails, walVars
      <3> QED BY <1>1, <2>2, <3>1, RaiseInv DEF AppendFails, Appending, diskVars
    <2> QED BY <1>1, <1>4, <2>1, <2>2, AppendBeginInv, EraseNodeInv, EraseContendedInv,
               FlushBeginInv, SaveIndexInv, SyncTempInv, ReplaceIndexInv, FlushEndInv,
               FlushFailsInv, AppendCommitInv DEF Step
  <1>5. ASSUME NEW c \in Clients, Request(c) PROVE IndInv'
    BY <1>1, <1>5, RequestDeleteInv, CheckpointInv, IngestInv DEF Request
  <1>6. CASE UNCHANGED vars
    <2> USE <1>6 DEF vars, walVars, diskVars, bootVars, callVars, countVars, IndInv
    <2>1. Phases' /\ LockInv' /\ GenInv' /\ TxInv' /\ CallInv' /\ ReplayInv'
      BY DEF Phases, LockInv, GenInv, UpToGen, TxInv, CallInv, ReplayInv
    <2>2. CommittedErased' /\ WorkInv' /\ RecoveryInv' /\ NoResurrection'
      BY DEF CommittedErased, HeldBy, WorkInv, Works, RecoveryInv, NoResurrection, Loaded
    <2> QED BY <1>1, <2>1, <2>2
  <1> QED BY <1>2, <1>3, <1>4, <1>5, <1>6 DEF Next

\* If the directory fsync never fails silently, no file of the data directory
\* and no memory ever holds a vector whose delete has its COMMIT: for any number
\* of threads deleting, checkpointing and ingesting, and any crashes.
THEOREM CommittedErasedAlways ==
    ASSUME "dirsync" \notin Faults
    PROVE  Spec => []CommittedErased
  <1>1. IndInv => CommittedErased
    BY DEF IndInv
  <1> QED BY <1>1, InitInv, NextInv, PTL DEF Spec

\* Under the same assumption, a crash between BEGIN and COMMIT resurrects
\* nothing: what bootstrap hands to the API holds no vector whose delete was
\* logged before.
THEOREM NoResurrectionAlways ==
    ASSUME "dirsync" \notin Faults
    PROVE  Spec => []NoResurrection
  <1>1. IndInv => NoResurrection
    BY DEF IndInv
  <1> QED BY <1>1, InitInv, NextInv, PTL DEF Spec

\* Under the same assumption, bootstrap over a loaded index closes every
\* transaction it finds open, and the ones it opened itself.
THEOREM BootRetiresAllAlways ==
    ASSUME "dirsync" \notin Faults
    PROVE  Spec => BootRetiresAll
  <1>1. IndInv /\ [Next]_vars
            => [phase = "recovering" /\ phase' = "up" /\ Loaded(mem) => Uncommitted = {}]_vars
    <2> SUFFICES ASSUME IndInv, [Next]_vars, phase = "recovering", phase' = "up",
                        Loaded(mem)
                 PROVE  Uncommitted = {}
      OBVIOUS
    <2>1. pc[Recovery] = "idle" /\ pending = {}
      <3>1. FinishRecovery
        <4>1. ~Crash /\ ~Boot
          BY DEF Crash, Boot, ProcessGone
        <4>2. ASSUME NEW p \in Actors PROVE ~Step(p)
          BY DEF Step, AppendBegin, EraseNode, EraseOutOfRange, EraseContended, FlushBegin,
                 SaveIndex, SyncTemp, ReplaceIndex, FlushEnd, FlushFails, AppendCommit,
                 AppendFails, Raise, ProcessGone, bootVars
        <4>3. ASSUME NEW c \in Clients PROVE ~Request(c)
          BY DEF Request, RequestDelete, Checkpoint, Ingest
        <4> QED BY <4>1, <4>2, <4>3 DEF Next, Startup, ReplayOne, RetireReplayed, vars,
                                        bootVars
      <3> QED BY <3>1 DEF FinishRecovery
    <2> QED BY <2>1 DEF IndInv, RecoveryInv, Works, InTx, Uncommitted
  <1> QED BY <1>1, InitInv, NextInv, PTL DEF Spec, BootRetiresAll

-----------------------------------------------------------------------------
(* Refinement of ErasureContract. *)

\* A step after which memory and files hold only rows they already had.
OnlyOldRows ==
    /\ Covered(mem')
    /\ Covered(disk'.bin) /\ Covered(disk'.tmp)
    /\ Covered(durable'.bin) /\ Covered(durable'.tmp)

LEMMA OldRowsHeld ==
    ASSUME gen' = gen, OnlyOldRows
    PROVE  HeldVectors' \subseteq HeldVectors
  BY DEF OnlyOldRows, HeldVectors, Copies, Vectors, Covered, Absent, Zero

LEMMA RaiseOldRows ==
    ASSUME NEW p \in Actors, Raise(p)
    PROVE  Covered(mem')
  BY DEF Raise, ProcessGone, Empty, Covered

\* Every step but an ingest only moves or drops rows.
LEMMA StartupOldRows ==
    ASSUME IndInv, Startup \/ Crash
    PROVE  OnlyOldRows
  <1> USE DEF OnlyOldRows, Covered, walVars, diskVars, bootVars, callVars, countVars
  <1>1. CASE Startup
    BY <1>1 DEF Startup, Boot, ReplayOne, FinishRecovery, RetireReplayed
  <1>2. CASE Crash
    BY <1>2 DEF IndInv, TypeOK, Crash, ProcessGone, Empty, Cut, Files, Image
  <1> QED BY <1>1, <1>2

LEMMA StepOldRows ==
    ASSUME IndInv, NEW p \in Actors, Step(p)
    PROVE  OnlyOldRows
  <1> USE DEF OnlyOldRows, Covered, walVars, diskVars, bootVars, callVars, countVars,
              IndInv, TypeOK, Files, Image
  <1>1. CASE AppendBegin(p) \/ AppendCommit(p) \/ SaveIndex(p) \/ SyncTemp(p) \/ FlushEnd(p)
    BY <1>1 DEF AppendBegin, AppendCommit, SaveIndex, SyncTemp, FlushEnd, SyncDirectory
  <1>2. CASE FlushBegin(p) \/ ReplaceIndex(p)
    BY <1>2 DEF FlushBegin, ReplaceIndex, Empty
  <1>3. CASE EraseNode(p)
    BY <1>3 DEF EraseNode
  <1>4. CASE EraseOutOfRange(p) \/ AppendFails(p)
    BY <1>4, RaiseOldRows DEF EraseOutOfRange, AppendFails
  <1>5. CASE EraseContended(p)
    BY <1>5, RaiseOldRows DEF EraseContended
  <1>6. CASE FlushFails(p)
    <2>1. Covered(mem')
      BY <1>6, RaiseOldRows DEF FlushFails
    <2>2. Covered(disk'.bin) /\ Covered(disk'.tmp)
      BY <1>6 DEF FlushFails, Cut
    <2> QED BY <1>6, <2>1, <2>2 DEF FlushFails
  <1> QED BY <1>1, <1>2, <1>3, <1>4, <1>5, <1>6 DEF Step

\* A COMMIT is an acknowledgement the contract allows.
LEMMA CommitAcknowledges ==
    ASSUME IndInv, UNCHANGED <<begun, gen>>, LogGrows, OnlyOldRows
    PROVE  C!Acknowledge
  <1>1. Vectors' = Vectors
    BY DEF Vectors
  <1>2. ErasedVectors \subseteq ErasedVectors'
    BY <1>1 DEF ErasedVectors, LogGrows
  <1>3. ASSUME NEW v \in ErasedVectors' PROVE v \in Vectors \ HeldVectors
    <2>1. v \in Vectors
      BY <1>1, <1>3 DEF ErasedVectors
    <2>2. PICK r \in begun : r.tx \in committed' /\ r.gen = v[1] /\ r.node = v[2]
      BY <1>3 DEF ErasedVectors
    <2>3. r.gen > Zero
      BY <2>1, <2>2 DEF Vectors, Zero, IndInv, TypeOK
    <2>4. ~HeldBy(disk, r) /\ ~HeldBy(durable, r) /\ mem[r.node] # r.gen
      BY <2>2, <2>3 DEF IndInv, CommittedErased, LogGrows
    <2>5. v \notin HeldVectors
      BY <2>2, <2>4 DEF HeldBy, HeldVectors, Copies
    <2> QED BY <2>1, <2>5
  <1> QED BY <1>1, <1>2, <1>3, OldRowsHeld DEF C!Acknowledge

\* A COMMIT of the record that p is at, whether its append returns or raises.
LEMMA RecordAcknowledges ==
    ASSUME IndInv, NEW p \in Actors, pc[p] \in {"commit", "retire"}, Record(p),
           OnlyOldRows, gen' = gen
    PROVE  C!Acknowledge
  BY RecordGrows, CommitAcknowledges DEF Record, Appending

\* A step that neither commits nor ingests can only lose copies.
LEMMA OtherVanishes ==
    ASSUME IndInv, OnlyOldRows, UNCHANGED <<committed, gen>>,
           \A r \in begun' : r \in begun \/ r.tx \notin committed,
           begun \subseteq begun'
    PROVE  C!Vanish
  <1>1. Vectors' = Vectors
    BY DEF Vectors
  <1>2. ErasedVectors' = ErasedVectors
    BY <1>1 DEF ErasedVectors
  <1> QED BY <1>1, <1>2, OldRowsHeld DEF C!Vanish

LEMMA IngestArrives ==
    ASSUME IndInv, NEW c \in Clients, NEW rows \in SUBSET Labels,
           NEW replaceIndex \in BOOLEAN, NEW checkpoint \in BOOLEAN,
           Ingest(c, rows, replaceIndex, checkpoint)
    PROVE  C!Arrive
  <1> USE DEF walVars, diskVars
  <1>1. gen \in Nat /\ gen' = gen + 1 /\ UNCHANGED <<begun, committed, disk, durable>>
    BY DEF IndInv, TypeOK, Ingest
  <1>2. Vectors \subseteq Vectors'
    BY <1>1 DEF Vectors
  <1>3. \A l \in Labels : mem'[l] = gen + 1 \/ mem'[l] = Zero \/ mem'[l] = Absent
    BY DEF Ingest
  <1>4. ASSUME NEW v \in HeldVectors' PROVE v \in HeldVectors \cup (Vectors' \ Vectors)
    <2>1. v \in Vectors' /\ v[1] \in 1 .. gen + 1 /\ v[2] \in Labels
      BY <1>1, <1>4 DEF HeldVectors, Copies, Vectors
    <2>2. CASE v[1] = gen + 1
      BY <1>1, <2>1, <2>2 DEF Vectors
    <2>3. CASE v[1] # gen + 1
      <3>1. v \in Vectors
        BY <1>1, <2>1, <2>3 DEF Vectors
      <3>2. mem'[v[2]] # v[1]
        BY <1>1, <1>3, <2>1, <2>3 DEF Zero, Absent
      <3> QED BY <1>1, <1>4, <3>1, <3>2 DEF HeldVectors, Copies
    <2> QED BY <2>2, <2>3
  <1>5. ErasedVectors' = ErasedVectors
    <2>1. \A r \in begun : r.gen <= gen /\ r.gen \in Int
      BY RecordFacts DEF IndInv, GenInv
    <2> QED BY <1>1, <2>1 DEF ErasedVectors, Vectors
  <1> QED BY <1>2, <1>4, <1>5 DEF C!Arrive

LEMMA NextKeepsContract ==
    ASSUME IndInv, IndInv', Next
    PROVE  C!ContractNext \/ UNCHANGED <<Vectors, HeldVectors, ErasedVectors>>
  <1> USE DEF walVars, diskVars, bootVars, callVars, countVars
  <1>1. CASE RetireReplayed
    <2>1. Record(Recovery) /\ pc[Recovery] = "retire" /\ gen' = gen
      BY <1>1 DEF RetireReplayed, Record
    <2> QED BY <1>1, <2>1, ActorFacts, StartupOldRows, RecordAcknowledges
            DEF Startup, C!ContractNext
  <1>2. CASE Boot \/ ReplayOne \/ FinishRecovery \/ Crash
    <2>1. UNCHANGED <<begun, committed, gen>>
      BY <1>2 DEF Boot, ReplayOne, FinishRecovery, Crash, ProcessGone
    <2> QED BY <1>2, <2>1, StartupOldRows, OtherVanishes DEF Startup, C!ContractNext
  <1>3. ASSUME NEW p \in Actors, Step(p)
        PROVE  C!ContractNext
    <2>1. CASE AppendCommit(p)
      <3>1. Record(p) /\ pc[p] = "commit" /\ gen' = gen
        BY <2>1 DEF AppendCommit, Record
      <3> QED BY <1>3, <3>1, StepOldRows, RecordAcknowledges DEF C!ContractNext
    <2>2. CASE pc[p] = "begin" /\ Record(p) /\ gen' = gen
      <3>1. phase # "down" /\ begun' = begun \cup {Intent(p)} /\ committed' = committed
        BY <2>2, ActorFacts DEF Record, IndInv, Phases
      <3>2. \A r \in begun' : r \in begun \/ r.tx \notin committed
        BY <3>1 DEF Intent, IndInv, TxInv, TypeOK
      <3> QED BY <1>3, <2>2, <3>1, <3>2, StepOldRows, OtherVanishes DEF C!ContractNext
    <2>3. CASE AppendFails(p)
      <3>1. gen' = gen
        BY <2>3 DEF AppendFails, Raise, ProcessGone
      <3>2. CASE UNCHANGED walVars
        BY <1>3, <3>1, <3>2, StepOldRows, OtherVanishes DEF C!ContractNext
      <3>3. CASE Record(p) /\ pc[p] # "begin"
        BY <1>3, <2>3, <3>1, <3>3, StepOldRows, RecordAcknowledges
           DEF AppendFails, Appending, C!ContractNext
      <3> QED BY <2>2, <2>3, <3>1, <3>2, <3>3 DEF AppendFails
    <2>4. CASE ~AppendCommit(p) /\ ~AppendBegin(p) /\ ~AppendFails(p)
      <3>1. UNCHANGED <<begun, committed, gen>>
        BY <1>3, <2>4
           DEF Step, EraseNode, EraseOutOfRange, EraseContended, FlushBegin, SaveIndex,
               SyncTemp, ReplaceIndex, FlushEnd, FlushFails, Raise, ProcessGone
      <3> QED BY <1>3, <3>1, StepOldRows, OtherVanishes DEF C!ContractNext
    <2>5. ~AppendBegin(p) \/ (pc[p] = "begin" /\ Record(p) /\ gen' = gen)
      BY DEF AppendBegin, Record
    <2> QED BY <2>1, <2>2, <2>3, <2>4, <2>5
  <1>4. ASSUME NEW c \in Clients, Request(c)
        PROVE  C!ContractNext
    <2>1. CASE \E l \in Labels : RequestDelete(c, l)
      <3>1. UNCHANGED <<begun, committed, gen>> /\ OnlyOldRows
        BY <2>1 DEF RequestDelete, OnlyOldRows, Covered
      <3> QED BY <3>1, OtherVanishes DEF C!ContractNext
    <2>2. CASE Checkpoint(c)
      <3>1. UNCHANGED <<begun, committed, gen>> /\ OnlyOldRows
        BY <2>2 DEF Checkpoint, OnlyOldRows, Covered
      <3> QED BY <3>1, OtherVanishes DEF C!ContractNext
    <2> QED BY <1>4, <2>1, <2>2, IngestArrives DEF Request, C!ContractNext
  <1> QED BY <1>1, <1>2, <1>3, <1>4 DEF Next, Startup

\* If the directory fsync never fails silently, the engine implements
\* ErasureContract: an acknowledged erasure left no copy, and none returns.
THEOREM Refinement ==
    ASSUME "dirsync" \notin Faults
    PROVE  Spec => KeepsContract
  <1>1. Init => C!ContractInit
    BY DEF Init, C!ContractInit, Vectors, HeldVectors, ErasedVectors, Copies
  <1>2. IndInv /\ IndInv' /\ [Next]_vars => [C!ContractNext]_(C!cvars)
    <2> SUFFICES ASSUME IndInv, IndInv', [Next]_vars
                 PROVE  C!ContractNext \/ UNCHANGED <<Vectors, HeldVectors, ErasedVectors>>
      BY DEF C!cvars
    <2>1. CASE Next
      BY <2>1, NextKeepsContract
    <2>2. CASE UNCHANGED vars
      BY <2>2 DEF vars, walVars, diskVars, countVars, Vectors, HeldVectors, ErasedVectors,
                  Copies
    <2> QED BY <2>1, <2>2
  <1> QED BY <1>1, <1>2, InitInv, NextInv, PTL DEF Spec, KeepsContract, C!Contract
=============================================================================
