--------------------------- MODULE GraphHealProofs ---------------------------
(***************************************************************************)
(* Proofs about the index: the lock manager for any number of threads,     *)
(* labels and stripes; erase_node and search_knn use it as it is meant to  *)
(* be used, so what holds of the locks holds of the index; and what the    *)
(* repairs, interleaved with each other, make of the graph.                *)
(***************************************************************************)
EXTENDS GraphHeal, MnRuProofs

-----------------------------------------------------------------------------
(* The lock manager. *)

\* A guard locks in ascending order, so what it holds lies below what it waits for.
Ascending == \A t \in Threads : \A h \in excl[t], w \in want[t] : h < w

LocksInv == LocksTypeOK /\ Exclusion /\ Ascending

LEMMA StripeOfNode == \A n \in Nodes : stripe_of(n) \in Stripes
BY PoolSizeAssumption, NumNodesAssumption DEF Nodes, Stripes, stripe_of

LEMMA StripesOfNodes ==
    ASSUME NEW nodes \in SUBSET Nodes
    PROVE  unique_stripes(nodes) \in SUBSET Stripes
BY StripeOfNode DEF unique_stripes

\* Every action of the lock manager, by any thread, keeps the invariant.
LEMMA LockStep ==
    ASSUME LocksInv, [LocksNext]_lockVars
    PROVE  LocksInv'
<1> USE DEF LocksInv, LocksTypeOK, Exclusion, Ascending
<1>1. CASE UNCHANGED lockVars
  BY <1>1 DEF lockVars
<1>2. ASSUME NEW t \in Threads, NEW nodes \in SUBSET Nodes, acquire_exclusive(t, nodes)
      PROVE  LocksInv'
  BY <1>2, StripesOfNodes DEF acquire_exclusive, HoldsNothing
<1>3. ASSUME NEW t \in Threads, NEW nodes \in SUBSET Nodes, reacquire(t, nodes)
      PROVE  LocksInv'
  BY <1>3, StripesOfNodes DEF reacquire, Granted
<1>4. ASSUME NEW t \in Threads, LockNext(t) PROVE LocksInv'
  <2>1. PICK s \in want[t] :
            /\ Lowest(t, s)
            /\ FreeForWriter(t, s)
            /\ want' = [want EXCEPT ![t] = @ \ {s}]
            /\ excl' = [excl EXCEPT ![t] = @ \cup {s}]
    BY <1>4 DEF LockNext
  <2>2. ask' = ask /\ share' = share
    BY <1>4 DEF LockNext
  <2>3. s \in Stripes
    OBVIOUS
  <2>4. LocksTypeOK'
    BY <2>1, <2>2, <2>3
  <2>5. Exclusion'
    BY <2>1, <2>2 DEF FreeForWriter
  <2>6. Ascending'
    BY <2>1, <2>3 DEF Lowest, Stripes
  <2> QED BY <2>4, <2>5, <2>6
<1>5. ASSUME NEW t \in Threads, ExclusiveTimeout(t) PROVE LocksInv'
  BY <1>5 DEF ExclusiveTimeout
<1>6. ASSUME NEW t \in Threads, release(t) PROVE LocksInv'
  BY <1>6 DEF release
<1>7. ASSUME NEW t \in Threads, NEW n \in Nodes, enter(t, n) PROVE LocksInv'
  BY <1>7, StripeOfNode DEF enter
<1>8. ASSUME NEW t \in Threads, NEW n \in Nodes, advance(t, n) PROVE LocksInv'
  BY <1>8, StripeOfNode DEF advance
<1>9. ASSUME NEW t \in Threads, LockShared(t) PROVE LocksInv'
  <2>1. ask[t] \in Stripes
    BY <1>9 DEF LockShared
  <2> QED BY <1>9, <2>1 DEF LockShared, FreeForReader
<1>10. ASSUME NEW t \in Threads, SharedTimeout(t) PROVE LocksInv'
  BY <1>10 DEF SharedTimeout
<1>11. ASSUME NEW t \in Threads, leave(t) PROVE LocksInv'
  BY <1>11 DEF leave
<1> QED
  BY <1>1, <1>2, <1>3, <1>4, <1>5, <1>6, <1>7, <1>8, <1>9, <1>10, <1>11 DEF LocksNext

\* Every non-empty set of stripes has a greatest element.
LEMMA GreatestStripe ==
    ASSUME NEW S \in SUBSET Stripes, S # {}
    PROVE  \E m \in S : \A s \in S : s <= m
<1> DEFINE Below == {d \in Nat : PoolSize - d \in S}
<1>1. \A s \in S : PoolSize - s \in Below /\ PoolSize - (PoolSize - s) = s
  BY PoolSizeAssumption DEF Stripes
<1>2. Below \subseteq Nat /\ Below # {}
  BY <1>1
<1>3. PICK x \in Below : \A y \in Below : ~(<<y, x>> \in OpToRel(<, Nat))
  <2> HIDE DEF Below
  <2> QED BY <1>2, NatLessThanWellFounded, WFMin
<1>4. ASSUME NEW y \in Below PROVE ~(y < x)
  <2>1. y \in Nat /\ x \in Nat
    BY <1>2
  <2>2. y < x => <<y, x>> \in OpToRel(<, Nat)
    BY <2>1 DEF OpToRel
  <2> HIDE DEF Below
  <2> QED BY <1>3, <2>2
<1>5. ASSUME NEW s \in S PROVE s <= PoolSize - x
  <2>1. ~(PoolSize - s < x)
    <3> HIDE DEF Below
    <3> QED BY <1>1, <1>4
  <2>2. s \in Int /\ x \in Int /\ PoolSize \in Int
    BY <1>2, PoolSizeAssumption DEF Stripes
  <2> QED BY <2>1, <2>2
<1> QED BY <1>5

\* The thread of the group that waits for the greatest stripe waits for nobody in it.
LEMMA AscendingNeverDeadlocks == LocksTypeOK /\ Ascending => HealersNeverDeadlock
<1> SUFFICES ASSUME LocksTypeOK, Ascending,
                    NEW group \in SUBSET Threads, group # {},
                    \A t \in group : \E u \in group : WaitsFor(t, u)
             PROVE  FALSE
  BY DEF HealersNeverDeadlock
<1> DEFINE Waited == {s \in Stripes : \E t \in group : Lowest(t, s)}
<1>1. Waited # {}
  BY DEF LocksTypeOK, WaitsFor, Lowest
<1>2. PICK m \in Waited : \A s \in Waited : s <= m
  <2> HIDE DEF Waited
  <2>1. Waited \in SUBSET Stripes
    BY DEF Waited
  <2> QED BY <1>1, <2>1, GreatestStripe
<1>3. PICK t \in group : Lowest(t, m)
  OBVIOUS
<1>4. PICK u \in group : WaitsFor(t, u)
  OBVIOUS
<1>5. m \in excl[u]
  <2>1. PICK s \in want[t] : Lowest(t, s) /\ s \in excl[u]
    BY <1>4 DEF WaitsFor
  <2>2. s = m
    BY <1>3, <2>1 DEF Lowest, LocksTypeOK, Stripes
  <2> QED BY <2>1, <2>2
<1>6. PICK r \in want[u] : Lowest(u, r)
  BY DEF WaitsFor
<1>7. m < r
  BY <1>5, <1>6 DEF Ascending
<1>8. r \in Waited
  BY <1>6 DEF LocksTypeOK
<1> QED BY <1>2, <1>7, <1>8 DEF Stripes

LEMMA LocksInvariant == LocksSpec => []LocksInv
<1>1. LocksInit => LocksInv
  BY DEF LocksInit, LocksInv, LocksTypeOK, Exclusion, Ascending
<1> QED BY <1>1, LockStep, PTL DEF LocksSpec

\* No two threads ever hold a stripe in conflicting modes.
THEOREM LocksExclude == LocksSpec => []Exclusion
BY LocksInvariant, PTL DEF LocksInv

\* Threads that lock regions exclusively never wait for each other in a circle.
THEOREM LocksNeverDeadlock == LocksSpec => []HealersNeverDeadlock
<1>1. LocksInv => HealersNeverDeadlock
  BY AscendingNeverDeadlocks DEF LocksInv
<1> QED BY <1>1, LocksInvariant, PTL

-----------------------------------------------------------------------------
(* The index as a user of the locks. *)

\* What a thread asks a lock for is a label of the index.
KnownLabels ==
    /\ target \in [Healers -> Nodes]
    /\ entry \in Nodes \cup {NoEntry}
    /\ at \in [Searchers -> Nodes]
    /\ frontier \in [Searchers -> Seq(Nodes)]

LEMMA RegionOfNode ==
    ASSUME NEW g, NEW q \in Nodes
    PROVE  Region(g, q, NumNodes) \in SUBSET Nodes
BY DEF Region, Nodes

LEMMA NextEntryIsNode ==
    ASSUME NEW e \in Nodes \cup {NoEntry}, NEW q \in Nodes
    PROVE  NextEntry(e, q, NumNodes) \in Nodes \cup {NoEntry}
BY NumNodesAssumption DEF NextEntry, Nodes, NoEntry

LEMMA StartIsNode ==
    ASSUME NEW e \in Nodes \cup {NoEntry}
    PROVE  SearchStart(e) \in Nodes
BY NumNodesAssumption DEF SearchStart, Nodes, NoEntry

LEMMA ThreadKinds == \A h \in Healers : h \in Threads
BY ThreadsAssumption

LEMMA SearcherKinds == \A s \in Searchers : s \in Threads
BY ThreadsAssumption

\* Each step of the index is a step of the lock manager, and keeps to known labels.
LEMMA IndexStep ==
    ASSUME KnownLabels, [Next]_vars
    PROVE  KnownLabels' /\ [LocksNext]_lockVars
<1> USE DEF KnownLabels
<1>1. CASE UNCHANGED vars
  BY <1>1 DEF vars, lockVars, healVars, searchVars
<1>2. ASSUME NEW h \in Healers, NEW q \in Nodes, EraseNode(h, q)
      PROVE  KnownLabels' /\ LocksNext
  <2>1. acquire_exclusive(h, {q}) /\ {q} \in SUBSET Nodes
    BY <1>2 DEF EraseNode
  <2>2. LocksNext
    BY <2>1, ThreadKinds DEF LocksNext
  <2> QED BY <1>2, <2>2 DEF EraseNode, searchVars
<1>3. ASSUME NEW h \in Healers, HealStep(h)
      PROVE  KnownLabels' /\ [LocksNext]_lockVars
  <2>1. target[h] \in Nodes /\ h \in Threads
    BY ThreadKinds
  <2>2. CASE OverwriteVector(h)
    <3>1. reacquire(h, {target[h]}) /\ {target[h]} \in SUBSET Nodes
      BY <2>1, <2>2 DEF OverwriteVector
    <3>2. LocksNext
      BY <2>1, <3>1 DEF LocksNext
    <3> QED BY <2>2, <3>2 DEF OverwriteVector, searchVars
  <2>3. CASE Peek(h)
    <3>1. reacquire(h, Region(graph, target[h], NumNodes))
      BY <2>3 DEF Peek
    <3>2. LocksNext
      BY <2>1, <3>1, RegionOfNode DEF LocksNext
    <3> QED BY <2>3, <3>2 DEF Peek, searchVars
  <2>4. CASE Check(h)
    <3>1. \/ UNCHANGED lockVars
          \/ reacquire(h, Region(graph, target[h], NumNodes))
      BY <2>4 DEF Check
    <3>2. [LocksNext]_lockVars
      BY <2>1, <3>1, RegionOfNode DEF LocksNext
    <3> QED BY <2>4, <3>2 DEF Check, searchVars
  <2>5. CASE Mutate(h)
    <3>1. LocksNext
      BY <2>1, <2>5 DEF Mutate, LocksNext
    <3>2. entry' \in Nodes \cup {NoEntry}
      BY <2>1, <2>5, NextEntryIsNode DEF Mutate
    <3> QED BY <2>5, <3>1, <3>2 DEF Mutate, searchVars
  <2>6. CASE HealLock(h)
    <3>1. LocksNext
      BY <2>1, <2>6 DEF HealLock, LocksNext
    <3> QED BY <2>6, <3>1 DEF HealLock, searchVars, healVars
  <2>7. CASE HealTimeout(h)
    <3>1. LocksNext
      BY <2>1, <2>7 DEF HealTimeout, LocksNext
    <3> QED BY <2>7, <3>1 DEF HealTimeout, searchVars
  <2> QED BY <1>3, <2>2, <2>3, <2>4, <2>5, <2>6, <2>7 DEF HealStep
<1>4. ASSUME NEW s \in Searchers, SearchBegin(s)
      PROVE  KnownLabels' /\ LocksNext
  <2>1. SearchStart(entry) \in Nodes /\ s \in Threads
    BY StartIsNode, SearcherKinds
  <2>2. LocksNext
    BY <1>4, <2>1 DEF SearchBegin, LocksNext
  <2>3. at' \in [Searchers -> Nodes] /\ frontier' \in [Searchers -> Seq(Nodes)]
    BY <1>4, <2>1 DEF SearchBegin
  <2> QED BY <1>4, <2>2, <2>3 DEF SearchBegin, healVars
<1>5. ASSUME NEW s \in Searchers, SearchStep(s)
      PROVE  KnownLabels' /\ [LocksNext]_lockVars
  <2>1. at[s] \in Nodes /\ frontier[s] \in Seq(Nodes) /\ s \in Threads
    BY SearcherKinds
  <2>2. CASE ReadList(s)
    BY <2>2 DEF ReadList, healVars
  <2>3. CASE Visit(s)
    <3>1. PICK i \in DOMAIN todo[s] :
              /\ Unvisited(s, todo[s][i])
              /\ frontier' = [frontier EXCEPT ![s] = Append(@, todo[s][i])]
              /\ advance(s, todo[s][i])
      BY <2>3 DEF Visit
    <3>2. todo[s][i] \in Nodes
      BY <3>1 DEF Unvisited
    <3>3. LocksNext
      BY <2>1, <3>1, <3>2 DEF LocksNext
    <3>4. frontier' \in [Searchers -> Seq(Nodes)]
      BY <2>1, <3>1, <3>2
    <3> QED BY <2>3, <3>3, <3>4 DEF Visit, healVars
  <2>4. CASE Back(s)
    <3>1. LocksNext
      BY <2>1, <2>4 DEF Back, LocksNext
    <3> QED BY <2>4, <3>1 DEF Back, healVars
  <2>5. CASE PopFrontier(s)
    <3>1. Head(frontier[s]) \in Nodes /\ Tail(frontier[s]) \in Seq(Nodes)
      BY <2>1, <2>5 DEF PopFrontier
    <3>2. LocksNext
      BY <2>1, <2>5, <3>1 DEF PopFrontier, LocksNext
    <3>3. at' \in [Searchers -> Nodes] /\ frontier' \in [Searchers -> Seq(Nodes)]
      BY <2>5, <3>1 DEF PopFrontier
    <3> QED BY <2>5, <3>2, <3>3 DEF PopFrontier, healVars
  <2>6. CASE SearchEnd(s)
    <3>1. LocksNext
      BY <2>1, <2>6 DEF SearchEnd, LocksNext
    <3> QED BY <2>6, <3>1 DEF SearchEnd, healVars
  <2>7. CASE SearchLock(s)
    <3>1. LocksNext
      BY <2>1, <2>7 DEF SearchLock, LocksNext
    <3> QED BY <2>7, <3>1 DEF SearchLock, searchVars, healVars
  <2>8. CASE SearchTimeout(s)
    <3>1. LocksNext
      BY <2>1, <2>8 DEF SearchTimeout, LocksNext
    <3> QED BY <2>8, <3>1 DEF SearchTimeout, healVars
  <2> QED BY <1>5, <2>2, <2>3, <2>4, <2>5, <2>6, <2>7, <2>8 DEF SearchStep
<1> QED BY <1>1, <1>2, <1>3, <1>4, <1>5 DEF Next

\* Whatever erases and searches run, the lock manager sees only legal calls.
THEOREM UsesLocks == Spec => LocksSpec
<1>1. Init => KnownLabels /\ LocksInit
  BY NumNodesAssumption DEF Init, KnownLabels, Nodes
<1> QED BY <1>1, IndexStep, PTL DEF Spec, LocksSpec

\* A stripe that an erase holds is held by no other erase and no search.
THEOREM IndexExcludes == Spec => []Exclusion
BY UsesLocks, LocksExclude, PTL

\* Concurrent erases, however their regions overlap, never wait in a circle.
THEOREM IndexNeverDeadlocks == Spec => []HealersNeverDeadlock
BY UsesLocks, LocksNeverDeadlock, PTL

-----------------------------------------------------------------------------
(* What repairs and searches have locked. *)

\* A repair that has seen its region has locked it or is about to.
RegionLocks(h) ==
    pc[h] \in {"check", "mutate"} => want[h] \cup excl[h] = unique_stripes(region[h])

\* A search that is about to copy a list has its lock or waits for it.
CursorLock(s) ==
    spc[s] = "read" =>
        \/ ask[s] = stripe_of(at[s])
        \/ ask[s] = NoStripe /\ stripe_of(at[s]) \in share[s]

IndexIndInv ==
    /\ KnownLabels /\ LocksTypeOK
    /\ pc \in [Healers -> {"idle", "wipe", "peek", "check", "mutate"}]
    /\ region \in [Healers -> SUBSET Nodes]
    /\ late \subseteq {h \in Healers : pc[h] = "mutate"}
    /\ spc \in [Searchers -> {"idle", "read", "scan", "back"}]
    /\ \A h \in Healers : RegionLocks(h)
    /\ \A s \in Searchers : CursorLock(s)

LEMMA HealStepLocks ==
    ASSUME IndexIndInv, LocksTypeOK', KnownLabels', NEW h \in Healers,
           HealStep(h) \/ \E q \in Nodes : EraseNode(h, q)
    PROVE  IndexIndInv'
<1> USE DEF IndexIndInv, LocksTypeOK
<1>1. h \in Threads /\ target[h] \in Nodes /\ \A g \in Healers : g \in Threads
  BY ThreadKinds DEF KnownLabels
<1>2. /\ UNCHANGED searchVars /\ UNCHANGED <<ask, share>>
      /\ \A g \in Healers \ {h} : /\ pc'[g] = pc[g] /\ region'[g] = region[g]
                                  /\ want'[g] = want[g] /\ excl'[g] = excl[g]
  <2>1. CASE \E q \in Nodes : EraseNode(h, q)
    BY <1>1, <2>1 DEF EraseNode, acquire_exclusive
  <2>2. CASE OverwriteVector(h)
    BY <1>1, <2>2 DEF OverwriteVector, reacquire
  <2>3. CASE Peek(h)
    BY <1>1, <2>3 DEF Peek, reacquire
  <2>4. CASE Check(h)
    BY <1>1, <2>4 DEF Check, reacquire, lockVars
  <2>5. CASE Mutate(h)
    BY <1>1, <2>5 DEF Mutate, release
  <2>6. CASE HealLock(h)
    BY <1>1, <2>6 DEF HealLock, LockNext, healVars
  <2>7. CASE HealTimeout(h)
    BY <1>1, <2>7 DEF HealTimeout, ExclusiveTimeout
  <2> QED BY <2>1, <2>2, <2>3, <2>4, <2>5, <2>6, <2>7 DEF HealStep
<1>7. late' \subseteq {g \in Healers : pc'[g] = "mutate"}
  <2>1. CASE UNCHANGED late /\ pc[h] # "mutate"
    BY <1>2, <2>1
  <2>2. CASE HealLock(h)
    BY <2>2 DEF HealLock, healVars
  <2>3. CASE late' \subseteq late \ {h}
    BY <1>2, <2>3
  <2>4. CASE Mutate(h)
    BY <1>2, <2>4 DEF Mutate, Overtaken
  <2> QED BY <2>1, <2>2, <2>3, <2>4
          DEF HealStep, EraseNode, OverwriteVector, Peek, Check, HealTimeout
<1>3. \A s \in Searchers : CursorLock(s)'
  BY <1>2 DEF CursorLock, searchVars
<1>4. \A g \in Healers \ {h} : RegionLocks(g)'
  BY <1>2 DEF RegionLocks
<1>5. spc' \in [Searchers -> {"idle", "read", "scan", "back"}]
  BY <1>2 DEF searchVars
<1>6. /\ pc' \in [Healers -> {"idle", "wipe", "peek", "check", "mutate"}]
      /\ region' \in [Healers -> SUBSET Nodes] /\ RegionLocks(h)'
  <2>1. CASE (\E q \in Nodes : EraseNode(h, q)) \/ OverwriteVector(h) \/ Mutate(h) \/ HealTimeout(h)
    BY <2>1 DEF EraseNode, OverwriteVector, Mutate, HealTimeout, RegionLocks
  <2>2. PICK R \in SUBSET Nodes : R = Region(graph, target[h], NumNodes)
    BY <1>1, RegionOfNode
  <2>3. CASE Peek(h)
    BY <1>1, <2>2, <2>3 DEF Peek, reacquire, RegionLocks
  <2>4. CASE Check(h)
    <3>1. /\ region' = [region EXCEPT ![h] = R] /\ pc' = [pc EXCEPT ![h] = "mutate"]
          /\ pc[h] = "check"
      BY <2>2, <2>4 DEF Check
    <3>2. CASE R = region[h] /\ UNCHANGED lockVars
      BY <3>1, <3>2 DEF RegionLocks, lockVars
    <3>3. CASE reacquire(h, R)
      BY <1>1, <3>1, <3>3 DEF reacquire, RegionLocks
    <3> QED BY <2>2, <2>4, <3>2, <3>3 DEF Check
  <2>5. CASE HealLock(h)
    <3>1. PICK r \in want[h] : /\ want' = [want EXCEPT ![h] = @ \ {r}]
                               /\ excl' = [excl EXCEPT ![h] = @ \cup {r}]
      BY <2>5 DEF HealLock, LockNext
    <3>2. want'[h] \cup excl'[h] = want[h] \cup excl[h]
      BY <1>1, <3>1
    <3> QED BY <2>5, <3>2 DEF HealLock, healVars, RegionLocks
  <2> QED BY <2>1, <2>3, <2>4, <2>5 DEF HealStep
<1> QED BY <1>3, <1>4, <1>5, <1>6, <1>7

LEMMA SearchStepLocks ==
    ASSUME IndexIndInv, LocksTypeOK', KnownLabels', NEW s \in Searchers,
           SearchStep(s) \/ SearchBegin(s)
    PROVE  IndexIndInv'
<1> USE DEF IndexIndInv, LocksTypeOK
<1>1. s \in Threads /\ \A r \in Searchers : r \in Threads
  BY SearcherKinds
<1>2. at \in [Searchers -> Nodes] /\ frontier \in [Searchers -> Seq(Nodes)]
  BY DEF KnownLabels
<1>3. /\ UNCHANGED <<pc, region, late, want, excl>>
      /\ spc' \in [Searchers -> {"idle", "read", "scan", "back"}]
      /\ \A r \in Searchers \ {s} : /\ spc'[r] = spc[r] /\ at'[r] = at[r]
                                    /\ ask'[r] = ask[r] /\ share'[r] = share[r]
  BY <1>1, <1>2 DEF SearchStep, SearchBegin, ReadList, Visit, Back, PopFrontier, SearchEnd,
                    SearchLock, SearchTimeout, enter, advance, leave, LockShared, SharedTimeout,
                    healVars, lockVars, searchVars
<1>4. \A h \in Healers : RegionLocks(h)'
  BY <1>3 DEF RegionLocks
<1>5. \A r \in Searchers \ {s} : CursorLock(r)'
  BY <1>3 DEF CursorLock
<1>6. CursorLock(s)'
  <2>1. CASE ReadList(s) \/ Visit(s) \/ Back(s) \/ SearchEnd(s) \/ SearchTimeout(s)
    BY <2>1 DEF ReadList, Visit, Back, SearchEnd, SearchTimeout, CursorLock
  <2>2. CASE PopFrontier(s)
    BY <1>1, <1>2, <2>2 DEF PopFrontier, advance, CursorLock
  <2>3. CASE SearchBegin(s)
    BY <1>1, <1>2, <2>3 DEF SearchBegin, enter, CursorLock
  <2>4. CASE SearchLock(s)
    BY <1>1, <1>2, <2>4 DEF SearchLock, LockShared, CursorLock, searchVars
  <2> QED BY <2>1, <2>2, <2>3, <2>4 DEF SearchStep
<1> QED BY <1>3, <1>4, <1>5, <1>6

LEMMA IndexInvariance == Spec => []IndexIndInv
<1>1. Init => IndexIndInv
  BY NumNodesAssumption
     DEF Init, LocksInit, IndexIndInv, KnownLabels, LocksTypeOK, RegionLocks, CursorLock, Nodes
<1>2. LocksInv => LocksTypeOK
  BY DEF LocksInv
<1>3. IndexIndInv /\ LocksTypeOK' /\ [Next]_vars => IndexIndInv'
  <2> SUFFICES ASSUME IndexIndInv, LocksTypeOK', [Next]_vars PROVE IndexIndInv'
    OBVIOUS
  <2>1. KnownLabels'
    BY IndexStep DEF IndexIndInv
  <2>2. CASE UNCHANGED vars
    BY <2>1, <2>2 DEF vars, lockVars, healVars, searchVars, IndexIndInv, RegionLocks, CursorLock
  <2> QED BY <2>1, <2>2, HealStepLocks, SearchStepLocks DEF Next
<1> QED BY <1>1, <1>2, <1>3, UsesLocks, LocksInvariant, PTL DEF Spec

\* While erase_node repairs the region it has locked, no other repair works on a
\* node of it and search_knn copies no list of it, for any number of threads, any
\* graph and any sharing of stripes.
THEOREM RepairsIsolatedAlways == Spec => []RepairsIsolated
<1>1. IndexIndInv /\ Exclusion => RepairsIsolated
  <2> SUFFICES ASSUME IndexIndInv, Exclusion, NEW h \in Healers, pc[h] = "mutate", Granted(h)
               PROVE  /\ \A k \in Healers \ {h} :
                             pc[k] = "mutate" /\ Granted(k) => region[h] \cap region[k] = {}
                      /\ \A s \in Searchers :
                             spc[s] = "read" /\ Shares(s) => at[s] \notin region[h]
    BY DEF RepairsIsolated
  <2>1. \A k \in Healers : pc[k] = "mutate" /\ Granted(k) =>
            \A n \in region[k] : stripe_of(n) \in excl[k]
    BY DEF IndexIndInv, RegionLocks, Granted, unique_stripes
  <2>2. ASSUME NEW k \in Healers \ {h}, pc[k] = "mutate", Granted(k)
        PROVE  region[h] \cap region[k] = {}
    BY <2>1, <2>2, ThreadKinds DEF Exclusion
  <2>3. ASSUME NEW s \in Searchers, spc[s] = "read", Shares(s)
        PROVE  at[s] \notin region[h]
    <3>1. stripe_of(at[s]) \in share[s]
      <4>1. at[s] \in Nodes /\ stripe_of(at[s]) # NoStripe
        BY StripeOfNode DEF IndexIndInv, KnownLabels, Stripes, NoStripe
      <4> QED BY <2>3, <4>1 DEF IndexIndInv, CursorLock, Shares
    <3>2. s \in Threads /\ h \in Threads /\ s # h
      BY ThreadsAssumption
    <3> QED BY <2>1, <3>1, <3>2 DEF Exclusion
  <2> QED BY <2>2, <2>3
<1> QED BY <1>1, IndexInvariance, IndexExcludes, PTL

-----------------------------------------------------------------------------
(* The types of the graph and of the searches. *)

LEMMA NodesAreFinite ==
    Nodes \in SUBSET Nat /\ IsFiniteSet(Nodes) /\ Cardinality(Nodes) = NumNodes
<1>1. 0 \in Int /\ NumNodes - 1 \in Int /\ ~(0 > NumNodes - 1) /\ (NumNodes - 1) - 0 + 1 = NumNodes
  BY NumNodesAssumption
<1> QED BY <1>1, FS_Interval DEF Nodes

LEMMA RingIsGraph == Ring(NumNodes, Links) \in Graphs(Nodes)
<1>1. \A a \in Int : a % NumNodes \in Nodes
  BY NumNodesAssumption DEF Nodes
<1>2. Links \in Seq(Int)
  BY HealAssumption
<1>3. ASSUME NEW i \in Nodes
      PROVE  [k \in DOMAIN Links |-> (i + Links[k]) % NumNodes] \in Seq(Nodes)
  <2>1. DOMAIN Links = 1 .. Len(Links) /\ Len(Links) \in Nat /\ \A k \in DOMAIN Links : Links[k] \in Int
    BY <1>2
  <2>2. i \in Int
    BY DEF Nodes
  <2>3. \A k \in DOMAIN Links : (i + Links[k]) % NumNodes \in Nodes
    BY <1>1, <2>1, <2>2
  <2>4. \A n \in Nat : \A f \in [1 .. n -> Nodes] : f \in Seq(Nodes)
    OBVIOUS
  <2> QED BY <2>1, <2>3, <2>4
<1> QED BY <1>3 DEF Ring, Graphs, Nodes

GraphType ==
    /\ graph \in Graphs(Nodes)
    /\ pos \in [Nodes -> Coordinates \cup {0}]
    /\ healed \in SUBSET Nodes
    /\ capped \in BOOLEAN

\* The graph, the erased nodes and what is known of the cap change in one action.
LEMMA GraphChanges ==
    ASSUME [Next]_vars
    PROVE  \/ UNCHANGED <<graph, healed, capped>>
           \/ \E h \in Healers : Mutate(h)
<1> USE DEF healVars, searchVars
<1>1. CASE UNCHANGED vars
  BY <1>1 DEF vars
<1>2. CASE \E h \in Healers : \E q \in Nodes : EraseNode(h, q)
  BY <1>2 DEF EraseNode
<1>3. CASE \E h \in Healers : HealStep(h)
  BY <1>3 DEF HealStep, OverwriteVector, Peek, Check, HealLock, HealTimeout
<1>4. CASE \E s \in Searchers : SearchStep(s) \/ SearchBegin(s)
  BY <1>4 DEF SearchStep, SearchBegin, ReadList, Visit, Back, PopFrontier, SearchEnd, SearchLock,
              SearchTimeout
<1> QED BY <1>1, <1>2, <1>3, <1>4 DEF Next

LEMMA PositionChanges ==
    ASSUME [Next]_vars
    PROVE  \/ UNCHANGED pos
           \/ \E h \in Healers : pos' = [pos EXCEPT ![target[h]] = 0]
<1> USE DEF healVars, searchVars
<1>1. CASE UNCHANGED vars
  BY <1>1 DEF vars
<1>2. CASE \E h \in Healers : \E q \in Nodes : EraseNode(h, q)
  BY <1>2 DEF EraseNode
<1>3. CASE \E h \in Healers : HealStep(h)
  BY <1>3 DEF HealStep, OverwriteVector, Peek, Check, Mutate, HealLock, HealTimeout
<1>4. CASE \E s \in Searchers : SearchStep(s) \/ SearchBegin(s)
  BY <1>4 DEF SearchStep, SearchBegin, ReadList, Visit, Back, PopFrontier, SearchEnd, SearchLock,
              SearchTimeout
<1> QED BY <1>1, <1>2, <1>3, <1>4 DEF Next

\* What the lemmas about Heal ask of the state.
LEMMA HealApplies ==
    ASSUME IndexIndInv, GraphType, NEW h \in Healers
    PROVE  /\ target[h] \in Nodes /\ pos \in Positions(Nodes) /\ MaxM \in Nat \ {0}
           /\ graph \in Graphs(Nodes)
<1>1. target[h] \in Nodes
  BY DEF IndexIndInv, KnownLabels
<1>2. pos \in Positions(Nodes)
  <2>1. Coordinates \cup {0} \subseteq Nat
    BY HealAssumption
  <2> QED BY <2>1 DEF GraphType, Positions
<1> QED BY <1>1, <1>2, HealAssumption DEF GraphType

LEMMA GraphInvariance == Spec => []GraphType
<1>1. Init => GraphType
  BY RingIsGraph DEF Init, GraphType
<1>2. IndexIndInv /\ GraphType /\ [Next]_vars => GraphType'
  <2> SUFFICES ASSUME IndexIndInv, GraphType, [Next]_vars PROVE GraphType'
    OBVIOUS
  <2>1. pos' \in [Nodes -> Coordinates \cup {0}]
    BY PositionChanges DEF GraphType
  <2>2. CASE UNCHANGED <<graph, healed, capped>>
    BY <2>1, <2>2 DEF GraphType
  <2>3. CASE \E h \in Healers : Mutate(h)
    <3>1. PICK h \in Healers : Mutate(h)
      BY <2>3
    <3>2. /\ graph' = Heal(graph, pos, target[h], region[h], MaxM)
          /\ healed' = healed \cup {target[h]}
      BY <3>1 DEF Mutate
    <3>3. graph' \in Graphs(Nodes)
      BY <3>2, HealApplies, HealIsGraph, NodesAreFinite
    <3>4. healed' \in SUBSET Nodes
      BY <3>2, HealApplies DEF GraphType
    <3>5. capped' \in BOOLEAN
      BY <3>1 DEF Mutate
    <3> QED BY <2>1, <3>3, <3>4, <3>5 DEF GraphType
  <2> QED BY <2>2, <2>3, GraphChanges
<1> QED BY <1>1, <1>2, IndexInvariance, PTL DEF Spec

SearchType ==
    /\ todo \in [Searchers -> Seq(Nodes)]
    /\ frontier \in [Searchers -> Seq(Nodes)]
    /\ visited \in [Searchers -> SUBSET Nodes]
    /\ gone \in [Searchers -> SUBSET Nodes]
    /\ \A s \in Searchers : ToSet(frontier[s]) \subseteq visited[s]

LEMMA TailList ==
    ASSUME NEW T, NEW p \in Seq(T), p # <<>>
    PROVE  Tail(p) \in Seq(T) /\ ToSet(Tail(p)) \subseteq ToSet(p)
<1>1. /\ Tail(p) \in Seq(T) /\ Len(p) \in Nat /\ DOMAIN p = 1 .. Len(p)
      /\ DOMAIN Tail(p) = 1 .. (Len(p) - 1)
      /\ \A i \in 1 .. (Len(p) - 1) : Tail(p)[i] = p[i + 1]
  OBVIOUS
<1>2. PICK r : r = Tail(p)
  OBVIOUS
<1> QED BY <1>1, <1>2 DEF ToSet

LEMMA RestOfList ==
    ASSUME NEW T, NEW p \in Seq(T), NEW i \in DOMAIN p
    PROVE  SubSeq(p, i + 1, Len(p)) \in Seq(T) /\ ToSet(SubSeq(p, i + 1, Len(p))) \subseteq ToSet(p)
<1>1. i \in 1 .. Len(p) /\ Len(p) \in Nat /\ DOMAIN p = 1 .. Len(p)
  OBVIOUS
<1>2. PICK r : r = SubSeq(p, i + 1, Len(p))
  OBVIOUS
<1>3. /\ r \in Seq(T) /\ Len(r) = Len(p) - i /\ DOMAIN r = 1 .. (Len(p) - i)
      /\ \A j \in 1 .. (Len(p) - i) : r[j] = p[i + j]
  BY <1>1, <1>2
<1>4. \A j \in 1 .. (Len(p) - i) : i + j \in DOMAIN p
  BY <1>1
<1> QED BY <1>2, <1>3, <1>4 DEF ToSet

\* What each step of a search does to what it keeps.
SearchMoves(s) ==
    \/ /\ UNCHANGED <<todo, frontier, visited, gone>>
       /\ \/ spc' \in {spc, [spc EXCEPT ![s] = "idle"]}
          \/ spc[s] = "back" /\ spc' = [spc EXCEPT ![s] = "scan"]
    \/ /\ todo' = [todo EXCEPT ![s] = graph[at[s]]] /\ UNCHANGED <<frontier, visited, gone>>
       /\ spc' = [spc EXCEPT ![s] = "scan"]
    \/ \E i \in DOMAIN todo[s] :
           /\ todo[s][i] \in Nodes
           /\ visited' = [visited EXCEPT ![s] = @ \cup {todo[s][i]}]
           /\ frontier' = [frontier EXCEPT ![s] = Append(@, todo[s][i])]
           /\ todo' = [todo EXCEPT ![s] = SubSeq(@, i + 1, Len(@))]
           /\ spc[s] = "scan" /\ spc' = [spc EXCEPT ![s] = "back"] /\ UNCHANGED gone
    \/ /\ frontier[s] # <<>> /\ frontier' = [frontier EXCEPT ![s] = Tail(@)]
       /\ UNCHANGED <<visited, gone, todo>> /\ spc' = [spc EXCEPT ![s] = "read"]
    \/ /\ visited' = [visited EXCEPT ![s] = {}] /\ frontier' = [frontier EXCEPT ![s] = <<>>]
       /\ UNCHANGED <<gone, todo>> /\ spc' = [spc EXCEPT ![s] = "idle"]
    \/ \E n \in Nodes :
           /\ visited' = [visited EXCEPT ![s] = {n}] /\ frontier' = [frontier EXCEPT ![s] = <<>>]
           /\ gone' = [gone EXCEPT ![s] = healed \ {n}] /\ UNCHANGED todo
           /\ spc' = [spc EXCEPT ![s] = "read"]

LEMMA SearchChanges ==
    ASSUME IndexIndInv, [Next]_vars
    PROVE  \/ UNCHANGED <<spc, todo, frontier, visited, gone>>
           \/ UNCHANGED healed /\ \E s \in Searchers : SearchMoves(s)
<1> USE DEF healVars, searchVars
<1>1. CASE UNCHANGED vars
  BY <1>1 DEF vars
<1>2. CASE \E h \in Healers : \E q \in Nodes : EraseNode(h, q)
  BY <1>2 DEF EraseNode
<1>3. CASE \E h \in Healers : HealStep(h)
  BY <1>3 DEF HealStep, OverwriteVector, Peek, Check, Mutate, HealLock, HealTimeout
<1>4. ASSUME NEW s \in Searchers, SearchStep(s) \/ SearchBegin(s)
      PROVE  UNCHANGED healed /\ SearchMoves(s)
  <2>1. CASE ReadList(s)
    BY <2>1 DEF ReadList, SearchMoves
  <2>2. CASE Visit(s)
    BY <2>2 DEF Visit, Unvisited, SearchMoves
  <2>3. CASE Back(s)
    BY <2>3 DEF Back, SearchMoves
  <2>4. CASE PopFrontier(s)
    BY <2>4 DEF PopFrontier, SearchMoves
  <2>5. CASE SearchEnd(s)
    BY <2>5 DEF SearchEnd, SearchMoves
  <2>6. CASE SearchLock(s)
    BY <2>6 DEF SearchLock, SearchMoves
  <2>7. CASE SearchTimeout(s)
    BY <2>7 DEF SearchTimeout, SearchMoves
  <2>8. CASE SearchBegin(s)
    <3>1. SearchStart(entry) \in Nodes
      BY StartIsNode DEF IndexIndInv, KnownLabels
    <3> QED BY <2>8, <3>1 DEF SearchBegin, SearchMoves
  <2> QED BY <1>4, <2>1, <2>2, <2>3, <2>4, <2>5, <2>6, <2>7, <2>8 DEF SearchStep
<1> QED BY <1>1, <1>2, <1>3, <1>4 DEF Next

LEMMA SearchInvariance == Spec => []SearchType
<1>1. Init => SearchType
  <2>1. ToSet(<<>>) = {}
    BY DEF ToSet
  <2> QED BY <2>1 DEF Init, SearchType
<1>2. IndexIndInv /\ GraphType /\ SearchType /\ [Next]_vars => SearchType'
  <2> SUFFICES ASSUME IndexIndInv, GraphType, SearchType, [Next]_vars PROVE SearchType'
    OBVIOUS
  <2> USE DEF SearchType
  <2>1. CASE UNCHANGED <<spc, todo, frontier, visited, gone>>
    BY <2>1
  <2>2. ASSUME NEW s \in Searchers, SearchMoves(s) PROVE SearchType'
    <3>1. /\ graph[at[s]] \in Seq(Nodes) /\ healed \in SUBSET Nodes /\ ToSet(<<>>) = {}
          /\ todo[s] \in Seq(Nodes) /\ frontier[s] \in Seq(Nodes) /\ visited[s] \in SUBSET Nodes
      BY DEF IndexIndInv, KnownLabels, GraphType, Graphs, ToSet
    <3>2. CASE UNCHANGED <<todo, frontier, visited, gone>>
      BY <3>2
    <3>3. CASE todo' = [todo EXCEPT ![s] = graph[at[s]]] /\ UNCHANGED <<frontier, visited, gone>>
      BY <3>1, <3>3
    <3>4. ASSUME NEW i \in DOMAIN todo[s], todo[s][i] \in Nodes,
                 visited' = [visited EXCEPT ![s] = @ \cup {todo[s][i]}],
                 frontier' = [frontier EXCEPT ![s] = Append(@, todo[s][i])],
                 todo' = [todo EXCEPT ![s] = SubSeq(@, i + 1, Len(@))],
                 UNCHANGED gone
          PROVE  SearchType'
      <4>1. PICK n \in Nodes : n = todo[s][i]
        BY <3>4
      <4>2. PICK p \in Seq(Nodes) :
                p = Append(frontier[s], n) /\ ToSet(p) \subseteq ToSet(frontier[s]) \cup {n}
        <5>1. PICK f \in Seq(Nodes) : f = frontier[s]
          BY <3>1
        <5>2. Append(f, n) \in Seq(Nodes)
          BY AppendList
        <5>3. ToSet(Append(f, n)) \subseteq ToSet(f) \cup {n}
          BY AppendList
        <5> QED BY <5>1, <5>2, <5>3
      <4>3. PICK r \in Seq(Nodes) : r = SubSeq(todo[s], i + 1, Len(todo[s]))
        BY <3>1, <3>4, RestOfList
      <4>4. /\ visited' = [visited EXCEPT ![s] = visited[s] \cup {n}]
            /\ frontier' = [frontier EXCEPT ![s] = p] /\ todo' = [todo EXCEPT ![s] = r]
        BY <3>4, <4>1, <4>2, <4>3
      <4> QED BY <3>1, <3>4, <4>2, <4>4
    <3>5. CASE /\ frontier[s] # <<>> /\ frontier' = [frontier EXCEPT ![s] = Tail(@)]
               /\ UNCHANGED <<visited, gone, todo>>
      <4>1. PICK p \in Seq(Nodes) : p = Tail(frontier[s]) /\ ToSet(p) \subseteq ToSet(frontier[s])
        BY <3>1, <3>5, TailList
      <4>2. frontier' = [frontier EXCEPT ![s] = p]
        BY <3>5, <4>1
      <4> QED BY <3>5, <4>1, <4>2
    <3>6. CASE /\ visited' = [visited EXCEPT ![s] = {}] /\ frontier' = [frontier EXCEPT ![s] = <<>>]
               /\ UNCHANGED <<gone, todo>>
      <4>1. <<>> \in Seq(Nodes)
        OBVIOUS
      <4> QED BY <3>1, <3>6, <4>1
    <3>7. ASSUME NEW n \in Nodes,
                 visited' = [visited EXCEPT ![s] = {n}], frontier' = [frontier EXCEPT ![s] = <<>>],
                 gone' = [gone EXCEPT ![s] = healed \ {n}], UNCHANGED todo
          PROVE  SearchType'
      <4>1. <<>> \in Seq(Nodes)
        OBVIOUS
      <4> QED BY <3>1, <3>7, <4>1
    <3> QED BY <2>2, <3>2, <3>3, <3>4, <3>5, <3>6, <3>7 DEF SearchMoves
  <2> QED BY <2>1, <2>2, SearchChanges
<1> QED BY <1>1, <1>2, IndexInvariance, GraphInvariance, PTL DEF Spec

\* Every list of the index, of a repair and of a search names only labels of the
\* index, and a search queues only what it has marked as visited, whatever repairs
\* run under it.
THEOREM IndexTyped == Spec => []TypeOK
<1>1. IndexIndInv /\ GraphType /\ SearchType => TypeOK
  <2> SUFFICES ASSUME IndexIndInv, GraphType, SearchType PROVE TypeOK
    OBVIOUS
  <2>1. DOMAIN graph = Nodes
    BY DEF GraphType, Graphs
  <2>2. \A n \in Nodes : ToSet(graph[n]) \subseteq Nodes
    BY NbrsOfNode DEF GraphType, Nbrs
  <2>3. \A s \in Searchers : ToSet(todo[s]) \subseteq Nodes
    <3>1. \A p \in Seq(Nodes) : ToSet(p) \subseteq Nodes
      BY DEF ToSet
    <3> QED BY <3>1 DEF SearchType
  <2> QED BY <2>1, <2>2, <2>3 DEF TypeOK, IndexIndInv, KnownLabels, GraphType, SearchType
<1> QED BY <1>1, IndexInvariance, GraphInvariance, SearchInvariance, PTL

-----------------------------------------------------------------------------
(* Erased nodes. *)

\* A node without edges gets none: no repair that runs later, and none that had
\* read its region before, links it again, for any graph and any degree cap.
StaysSevered ==
    [][\A n \in Nodes : Isolated(graph, Nodes, n) => Isolated(graph', Nodes, n)]_vars

\* An erased node that has lost its edges never comes back into the graph.
THEOREM SeveredForGood == Spec => StaysSevered
<1>1. IndexIndInv /\ GraphType /\ [Next]_vars
        => [\A n \in Nodes : Isolated(graph, Nodes, n) => Isolated(graph', Nodes, n)]_vars
  <2> SUFFICES ASSUME IndexIndInv, GraphType, [Next]_vars,
                      NEW n \in Nodes, Isolated(graph, Nodes, n)
               PROVE  Isolated(graph', Nodes, n)
    OBVIOUS
  <2>1. CASE UNCHANGED <<graph, healed, capped>>
    BY <2>1
  <2>2. ASSUME NEW h \in Healers, Mutate(h) PROVE Isolated(graph', Nodes, n)
    <3>1. graph' = Heal(graph, pos, target[h], region[h], MaxM)
      BY <2>2 DEF Mutate
    <3>2. Isolated(Heal(graph, pos, target[h], region[h], MaxM), Nodes, n)
      BY HealApplies, HealLeavesIsolated, NodesAreFinite
    <3> QED BY <3>1, <3>2
  <2> QED BY <2>1, <2>2, GraphChanges
<1> QED BY <1>1, IndexInvariance, GraphInvariance, PTL DEF Spec, StaysSevered

\* What a search holds of the lists it has read was read after it began, when the
\* nodes erased before had left every list.
SearchFresh ==
    \A s \in Searchers :
        /\ gone[s] \subseteq healed
        /\ visited[s] \cap gone[s] = {}
        /\ spc[s] \in {"scan", "back"} => ToSet(todo[s]) \cap gone[s] = {}

AllSevered == \A q \in healed : Isolated(graph, Nodes, q)

LEMMA SearchFreshStep ==
    ASSUME IndexIndInv, GraphType, SearchType, AllSevered, SearchFresh, [Next]_vars
    PROVE  SearchFresh'
<1> USE DEF SearchType, SearchFresh
<1>1. healed \subseteq healed'
  BY GraphChanges DEF Mutate
<1>2. CASE UNCHANGED <<spc, todo, frontier, visited, gone>>
  BY <1>1, <1>2
<1>3. ASSUME NEW s \in Searchers, SearchMoves(s), UNCHANGED healed PROVE SearchFresh'
  <2>1. /\ spc \in [Searchers -> {"idle", "read", "scan", "back"}]
        /\ todo[s] \in Seq(Nodes) /\ at[s] \in Nodes
    BY DEF IndexIndInv, KnownLabels
  <2>2. CASE /\ UNCHANGED <<todo, frontier, visited, gone>>
             /\ \/ spc' \in {spc, [spc EXCEPT ![s] = "idle"]}
                \/ spc[s] = "back" /\ spc' = [spc EXCEPT ![s] = "scan"]
    BY <1>3, <2>1, <2>2
  <2>3. CASE /\ todo' = [todo EXCEPT ![s] = graph[at[s]]] /\ UNCHANGED <<frontier, visited, gone>>
             /\ spc' = [spc EXCEPT ![s] = "scan"]
    <3>1. ToSet(graph[at[s]]) \cap healed = {}
      BY <2>1 DEF AllSevered, Isolated, Nbrs
    <3> QED BY <1>3, <2>1, <2>3, <3>1
  <2>4. ASSUME NEW i \in DOMAIN todo[s],
               visited' = [visited EXCEPT ![s] = @ \cup {todo[s][i]}],
               todo' = [todo EXCEPT ![s] = SubSeq(@, i + 1, Len(@))],
               spc[s] = "scan", spc' = [spc EXCEPT ![s] = "back"], UNCHANGED gone
        PROVE  SearchFresh'
    <3>1. todo[s][i] \in ToSet(todo[s])
      BY DEF ToSet
    <3>2. PICK r : r = SubSeq(todo[s], i + 1, Len(todo[s])) /\ ToSet(r) \subseteq ToSet(todo[s])
      BY <2>1, RestOfList
    <3>3. todo' = [todo EXCEPT ![s] = r] /\ ToSet(todo[s]) \cap gone[s] = {}
      BY <2>4, <3>2
    <3>4. PICK n : n = todo[s][i] /\ n \notin gone[s]
      BY <3>1, <3>3
    <3>5. visited' = [visited EXCEPT ![s] = visited[s] \cup {n}]
      BY <2>4, <3>4
    <3> QED BY <1>3, <2>1, <2>4, <3>2, <3>3, <3>4, <3>5
  <2>5. CASE UNCHANGED <<visited, gone, todo>> /\ spc' = [spc EXCEPT ![s] = "read"]
    BY <1>3, <2>1, <2>5
  <2>6. CASE /\ visited' = [visited EXCEPT ![s] = {}]
             /\ UNCHANGED <<gone, todo>> /\ spc' = [spc EXCEPT ![s] = "idle"]
    BY <1>3, <2>1, <2>6
  <2>7. CASE \E n \in Nodes :
                 /\ visited' = [visited EXCEPT ![s] = {n}]
                 /\ gone' = [gone EXCEPT ![s] = healed \ {n}] /\ UNCHANGED todo
                 /\ spc' = [spc EXCEPT ![s] = "read"]
    BY <1>3, <2>1, <2>7
  <2> QED BY <1>3, <2>2, <2>3, <2>4, <2>5, <2>6, <2>7 DEF SearchMoves
<1> QED BY <1>2, <1>3, SearchChanges

-----------------------------------------------------------------------------
(* What the cap leaves to hope for: as long as no repair was made otherwise  *)
(* because of it, a repair is the one without a cap.                         *)

\* The index as POST /ingest links it, of any size from four labels on (below that
\* a label is its own neighbour or has another one twice).
IngestIndex == Links = <<-1, 1, 2>> /\ NumNodes >= 4

LEMMA IngestIsLinked == ASSUME IngestIndex PROVE WellLinked(Ring(NumNodes, Links), Nodes)
<1>1. NumNodes \in Nat
  BY NumNodesAssumption
<1>2. WellLinked(Ring(NumNodes, <<-1, 1, 2>>), 0 .. (NumNodes - 1))
  BY <1>1, IngestRing DEF IngestIndex
<1> QED BY <1>2 DEF IngestIndex, Nodes

\* A repair that is about to change the graph knows every node that links to its
\* own: it has seen it, or is linked to it.
SeenLinks(h) ==
    pc[h] = "mutate" =>
        \A n \in Nodes : target[h] \in Nbrs(graph, n) => n \in region[h] \cup Nbrs(graph, target[h])

FreeInv ==
    /\ graph \in Tidy(Nodes) /\ Covered(graph, Nodes)
    /\ Connected(graph, Nodes \ healed)
    /\ AllSevered
    /\ \A h \in Healers : SeenLinks(h)

\* The other healers go on as they were; this one has looked again or is not about
\* to change the graph.
LEMMA HealerChanges ==
    ASSUME IndexIndInv, [Next]_vars, NEW h \in Healers, pc'[h] = "mutate"
    PROVE  \/ UNCHANGED <<pc[h], target[h], region[h]>>
           \/ /\ target'[h] = target[h] /\ region'[h] = Region(graph, target[h], NumNodes)
              /\ UNCHANGED graph
<1> USE DEF healVars, searchVars, IndexIndInv, KnownLabels
<1>1. CASE UNCHANGED vars
  BY <1>1 DEF vars
<1>2. ASSUME NEW k \in Healers, NEW q \in Nodes, EraseNode(k, q)
      PROVE  UNCHANGED <<pc[h], target[h], region[h]>>
  BY <1>2 DEF EraseNode
<1>3. ASSUME NEW k \in Healers, HealStep(k)
      PROVE  \/ UNCHANGED <<pc[h], target[h], region[h]>>
             \/ /\ target'[h] = target[h] /\ region'[h] = Region(graph, target[h], NumNodes)
                /\ UNCHANGED graph
  <2>1. CASE OverwriteVector(k)
    BY <2>1 DEF OverwriteVector
  <2>2. CASE Peek(k)
    BY <2>2 DEF Peek
  <2>3. CASE Check(k)
    <3>1. PICK now : now = Region(graph, target[k], NumNodes)
      OBVIOUS
    <3>2. /\ region' = [region EXCEPT ![k] = now] /\ pc' = [pc EXCEPT ![k] = "mutate"]
          /\ UNCHANGED <<graph, target>>
      BY <2>3, <3>1 DEF Check
    <3>3. CASE k = h
      BY <3>1, <3>2, <3>3
    <3>4. CASE k # h
      BY <3>2, <3>4
    <3> QED BY <3>3, <3>4
  <2>4. CASE Mutate(k)
    BY <2>4 DEF Mutate
  <2>5. CASE HealLock(k)
    BY <2>5 DEF HealLock
  <2>6. CASE HealTimeout(k)
    BY <2>6 DEF HealTimeout
  <2> QED BY <1>3, <2>1, <2>2, <2>3, <2>4, <2>5, <2>6 DEF HealStep
<1>4. CASE \E s \in Searchers : SearchStep(s) \/ SearchBegin(s)
  BY <1>4 DEF SearchStep, SearchBegin, ReadList, Visit, Back, PopFrontier, SearchEnd, SearchLock,
              SearchTimeout
<1> QED BY <1>1, <1>2, <1>3, <1>4 DEF Next

LEMMA FreeStep ==
    ASSUME IndexIndInv, GraphType, ~capped, FreeInv, [Next]_vars, ~capped'
    PROVE  FreeInv'
<1>1. CASE UNCHANGED <<graph, healed, capped>>
  <2>1. ASSUME NEW h \in Healers PROVE SeenLinks(h)'
    <3> SUFFICES ASSUME pc'[h] = "mutate"
                 PROVE  \A n \in Nodes : target'[h] \in Nbrs(graph, n) =>
                            n \in region'[h] \cup Nbrs(graph, target'[h])
      BY <1>1 DEF SeenLinks
    <3>1. CASE UNCHANGED <<pc[h], target[h], region[h]>>
      BY <3>1 DEF FreeInv, SeenLinks
    <3>2. CASE target'[h] = target[h] /\ region'[h] = Region(graph, target[h], NumNodes)
      <4>1. NumNodes \in Nat /\ target[h] \in 0 .. (NumNodes - 1) /\ Covered(graph, 0 .. (NumNodes - 1))
        BY NumNodesAssumption, HealApplies DEF Nodes, FreeInv
      <4>2. \A n \in 0 .. (NumNodes - 1) :
                target[h] \in Nbrs(graph, n) => n \in Region(graph, target[h], NumNodes)
        BY <4>1, RegionHasLinks
      <4> QED BY <3>2, <4>2 DEF Nodes
    <3> QED BY <3>1, <3>2, HealerChanges
  <2> QED BY <1>1, <2>1 DEF FreeInv, AllSevered
<1>2. ASSUME NEW h \in Healers, Mutate(h) PROVE FreeInv'
  <2>1. PICK q \in Nodes : q = target[h]
    BY HealApplies
  <2>2. PICK y : y = Heal(graph, pos, q, region[h], NumNodes)
    OBVIOUS
  <2>3. graph' = y /\ healed' = healed \cup {q} /\ pc[h] = "mutate" /\ pc' = [pc EXCEPT ![h] = "idle"]
    BY <1>2, <2>1, <2>2 DEF Mutate
  <2>4. /\ graph \in Tidy(Nodes) /\ Covered(graph, Nodes) /\ Connected(graph, Nodes \ healed)
        /\ \A n \in Nodes : q \in Nbrs(graph, n) => n \in region[h] \cup Nbrs(graph, q)
        /\ \A n \in healed : Isolated(graph, Nodes, n)
    BY <2>1, <2>3 DEF FreeInv, SeenLinks, AllSevered
  <2>5. /\ Nodes \in SUBSET Nat /\ IsFiniteSet(Nodes) /\ pos \in Positions(Nodes)
        /\ NumNodes \in Nat \ {0} /\ NumNodes \in Nat /\ NumNodes >= Cardinality(Nodes) - 1
        /\ graph \in Graphs(Nodes)
    BY NodesAreFinite, HealApplies, NumNodesAssumption
  <2>6. Healed(y, graph, Nodes, q)
    BY <2>2, <2>4, <2>5, HealRoomy
  <2>7. Isolated(y, Nodes, q) /\ \A n \in Nodes : Isolated(graph, Nodes, n) => Isolated(y, Nodes, n)
    BY <2>2, <2>4, <2>5, HealIsolates, HealLeavesIsolated
  <2>8. Covered(y, Nodes)
    BY <2>4, <2>6, HealKeepsCover
  <2>9. Connected(y, Nodes \ (healed \cup {q}))
    <3>1. Nodes \ healed \in SUBSET Nodes /\ \A n \in Nodes \ (Nodes \ healed) : Isolated(graph, Nodes, n)
      BY <2>4
    <3>2. Connected(y, (Nodes \ healed) \ {q})
      BY <2>4, <2>6, <3>1, HealKeepsConnected
    <3>3. (Nodes \ healed) \ {q} = Nodes \ (healed \cup {q})
      OBVIOUS
    <3> QED BY <3>2, <3>3
  <2>10. AllSevered'
    <3>1. healed \in SUBSET Nodes
      BY DEF GraphType
    <3> QED BY <2>3, <2>4, <2>7, <3>1 DEF AllSevered
  <2>11. ASSUME NEW k \in Healers PROVE SeenLinks(k)'
    <3> SUFFICES ASSUME pc'[k] = "mutate"
                 PROVE  \A n \in Nodes : target'[k] \in Nbrs(y, n) =>
                            n \in region'[k] \cup Nbrs(y, target'[k])
      BY <2>3 DEF SeenLinks
    <3>1. k # h /\ pc[k] = "mutate" /\ target' = target /\ region' = region
      BY <1>2, <2>3 DEF IndexIndInv, Mutate
    <3>2. /\ target[k] \in Nodes
          /\ \A n \in Nodes : target[k] \in Nbrs(graph, n) => n \in region[k] \cup Nbrs(graph, target[k])
      BY <3>1, HealApplies DEF FreeInv, SeenLinks
    <3> QED BY <2>6, <3>1, <3>2, HealKeepsSeen
  <2>12. y \in Tidy(Nodes)
    BY <2>6 DEF Healed
  <2> QED BY <2>3, <2>8, <2>9, <2>10, <2>11, <2>12 DEF FreeInv
<1> QED BY <1>1, <1>2, GraphChanges

LEMMA CappedForGood == ASSUME [Next]_vars, ~capped' PROVE ~capped
BY GraphChanges DEF Mutate

LEMMA FreeInvariance == ASSUME IngestIndex PROVE Spec => [](~capped => FreeInv)
<1>1. Init => FreeInv
  <2> SUFFICES ASSUME Init PROVE FreeInv
    OBVIOUS
  <2>1. graph = Ring(NumNodes, Links) /\ healed = {} /\ Nodes \ {} = Nodes
        /\ \A h \in Healers : pc[h] # "mutate"
    BY DEF Init
  <2>2. WellLinked(Ring(NumNodes, Links), Nodes)
    BY IngestIsLinked
  <2> QED BY <2>1, <2>2 DEF WellLinked, FreeInv, AllSevered, SeenLinks
<1>2. IndexIndInv /\ GraphType /\ (~capped => FreeInv) /\ [Next]_vars => (~capped => FreeInv)'
  <2> SUFFICES ASSUME IndexIndInv, GraphType, ~capped => FreeInv, [Next]_vars, ~capped'
               PROVE  FreeInv'
    OBVIOUS
  <2>1. ~capped
    BY CappedForGood
  <2> QED BY <2>1, FreeStep
<1> QED BY <1>1, <1>2, IndexInvariance, GraphInvariance, PTL DEF Spec

\* When erase_node has returned, its node has no neighbours and is in no list: for an
\* index of any size that POST /ingest has linked, any max_m, any number of erases,
\* threads and stripes and however the repairs interleave, until max_m turns an edge
\* of a repair away.
THEOREM ErasedSeveredAlways == ASSUME IngestIndex PROVE Spec => []ErasedSevered
<1>1. (~capped => FreeInv) => ErasedSevered
  BY DEF FreeInv, AllSevered, Isolated, ErasedSevered, Nbrs
<1>2. Spec => [](~capped => FreeInv)
  BY FreeInvariance
<1> QED BY <1>1, <1>2, PTL

\* Every edge goes both ways and no list is longer than the cap, however low.
MutualIndex == Ring(NumNodes, Links) \in Capped(Nodes, MaxM)

MutualInv == graph \in Capped(Nodes, MaxM) /\ AllSevered

\* Where every edge goes both ways max_m does no harm either, however low it is and
\* whatever edges it turns away: it is the one-way link of POST /ingest, from a label
\* to the one after the next, that an eviction can leave behind.
THEOREM MutualSevered == ASSUME MutualIndex PROVE Spec => []AllSevered
<1>1. Init => MutualInv
  BY DEF Init, MutualIndex, MutualInv, AllSevered
<1>2. IndexIndInv /\ GraphType /\ MutualInv /\ [Next]_vars => MutualInv'
  <2> SUFFICES ASSUME IndexIndInv, GraphType, MutualInv, [Next]_vars PROVE MutualInv'
    OBVIOUS
  <2>1. CASE UNCHANGED <<graph, healed, capped>>
    BY <2>1 DEF MutualInv, AllSevered
  <2>2. ASSUME NEW h \in Healers, Mutate(h) PROVE MutualInv'
    <3>1. PICK q \in Nodes : q = target[h]
      BY HealApplies
    <3>2. PICK y : y = Heal(graph, pos, q, region[h], MaxM)
      OBVIOUS
    <3>3. graph' = y /\ healed' = healed \cup {q}
      BY <2>2, <3>1, <3>2 DEF Mutate
    <3>4. /\ Nodes \in SUBSET Nat /\ IsFiniteSet(Nodes) /\ pos \in Positions(Nodes)
          /\ MaxM \in Nat \ {0} /\ graph \in Graphs(Nodes) /\ graph \in Capped(Nodes, MaxM)
      BY NodesAreFinite, HealApplies DEF MutualInv
    <3>5. y \in Capped(Nodes, MaxM) /\ Isolated(y, Nodes, q)
      BY <3>2, <3>4, HealMutual
    <3>6. \A n \in Nodes : Isolated(graph, Nodes, n) => Isolated(y, Nodes, n)
      BY <3>2, <3>4, HealLeavesIsolated
    <3>7. healed \in SUBSET Nodes
      BY DEF GraphType
    <3> QED BY <3>3, <3>5, <3>6, <3>7 DEF MutualInv, AllSevered
  <2> QED BY <2>1, <2>2, GraphChanges
<1>3. MutualInv => AllSevered
  BY DEF MutualInv
<1> QED BY <1>1, <1>2, <1>3, IndexInvariance, GraphInvariance, PTL DEF Spec

\* The ring of neighbours on both sides is such an index.
LEMMA RingIsMutual ==
    ASSUME Links = <<-1, 1>>, NumNodes >= 4, MaxM >= 2
    PROVE  MutualIndex
<1>1. NumNodes \in Nat /\ MaxM \in Nat
  BY NumNodesAssumption, HealAssumption
<1>2. Ring(NumNodes, <<-1, 1>>) \in Capped(0 .. (NumNodes - 1), MaxM)
  BY <1>1, PlainRing
<1> QED BY <1>2 DEF MutualIndex, Nodes

\* search_knn follows copies of lists that repairs have changed since; in the same
\* index, until max_m turns an edge of a repair away, it does not find a node whose
\* erase had returned when it began.
THEOREM SearchSkipsErasedAlways == ASSUME IngestIndex PROVE Spec => []SearchSkipsErased
<1>1. Init => SearchFresh
  BY DEF Init, SearchFresh
<1>2. (~capped => SearchFresh) => SearchSkipsErased
  BY DEF SearchFresh, SearchSkipsErased
<1>3. IndexIndInv /\ GraphType /\ SearchType /\ (~capped => FreeInv) /\ (~capped => SearchFresh)
        /\ [Next]_vars => (~capped => SearchFresh)'
  <2> SUFFICES ASSUME IndexIndInv, GraphType, SearchType, ~capped => FreeInv,
                      ~capped => SearchFresh, [Next]_vars, ~capped'
               PROVE  SearchFresh'
    OBVIOUS
  <2>1. SearchFresh /\ AllSevered
    BY CappedForGood DEF FreeInv
  <2> QED BY <2>1, SearchFreshStep
<1>4. Spec => [](~capped => FreeInv)
  BY FreeInvariance
<1> QED BY <1>1, <1>2, <1>3, <1>4, IndexInvariance, GraphInvariance, SearchInvariance, PTL DEF Spec

\* The walk of ReachableFrom.
LEMMA ReachableRuns ==
    ASSUME GraphType, NEW n \in Nodes
    PROVE  \E hop : /\ ReachableFrom(n) = hop[NumNodes - 1] /\ hop[0] = Hop(graph, {n})
                    /\ \A k \in 1 .. (NumNodes - 1) : hop[k] = Hop(graph, hop[k - 1])
<1> DEFINE m == NumNodes - 1
           X == SUBSET Nodes
           Z == [k \in 0 .. m |-> X]
           base == Hop(graph, {n})
           h == [p \in X \X (1 .. m) |-> Hop(graph, p[1])]
           Run(f) == f = [k \in 0 .. m |-> Hop(graph, IF k = 0 THEN {n} ELSE f[k - 1])]
           hop == CHOOSE f : Run(f)
<1>1. m \in Nat /\ Nodes = 0 .. m
  BY NumNodesAssumption DEF Nodes
<1>2. \A S \in X : Hop(graph, S) \in X
  <2> TAKE S \in X
  <2>1. \A u \in S : ToSet(graph[u]) \subseteq Nodes
    BY NbrsOfNode DEF GraphType, Nbrs
  <2>2. \A v \in Hop(graph, S) : v \in S \/ \E u \in S : v \in ToSet(graph[u])
    BY DEF Hop
  <2> QED BY <2>1, <2>2
<1>3. base \in X
  BY <1>2
<1> HIDE DEF m, X, base
<1>4. Loop(m, X, Z, base, h)
  <2>1. /\ \A k \in 0 .. m : Z[k] = X
        /\ Z \in [0 .. m -> SUBSET X] /\ base \in Z[0]
    BY <1>1, <1>3
  <2>2. \A k \in 1 .. m : \A x \in X : h[<<x, k>>] = Hop(graph, x)
    OBVIOUS
  <2>3. \A k \in 1 .. m : k - 1 \in 0 .. m /\ k \in 0 .. m
    BY <1>1
  <2> HIDE DEF Z, h
  <2>4. ASSUME NEW k \in 1 .. m, NEW x \in Z[k - 1] PROVE h[<<x, k>>] \in Z[k]
    <3>1. x \in X /\ Z[k] = X
      BY <2>1, <2>3
    <3>2. h[<<x, k>>] = Hop(graph, x) /\ Hop(graph, x) \in X
      BY <1>2, <2>2, <3>1
    <3> QED BY <3>1, <3>2
  <2> QED BY <1>1, <2>1, <2>4 DEF Loop
<1>5. PICK f \in [0 .. m -> X] : f[0] = base /\ \A k \in 1 .. m : f[k] = h[<<f[k - 1], k>>]
  <2> HIDE DEF Z, h
  <2> QED BY <1>4, LoopRuns
<1>6. \A k \in 1 .. m : f[k] = Hop(graph, f[k - 1])
  <2> TAKE k \in 1 .. m
  <2>1. f[k - 1] \in X
    BY <1>1, <1>5
  <2> QED BY <1>5, <2>1
<1>7. Run(f)
  <2>1. \A k \in 0 .. m : f[k] = Hop(graph, IF k = 0 THEN {n} ELSE f[k - 1])
    BY <1>1, <1>5, <1>6 DEF base
  <2> QED BY <1>5, <2>1
<1>8. Run(hop)
  <2> HIDE DEF Run
  <2> QED BY <1>7
<1>9. ReachableFrom(n) = hop[m]
  BY <1>1 DEF ReachableFrom, Hop, m
<1> HIDE DEF hop
<1>10. \A k \in 0 .. m : hop[k] = Hop(graph, IF k = 0 THEN {n} ELSE hop[k - 1])
  BY <1>8
<1>11. hop[0] = Hop(graph, {n})
  <2>1. 0 \in 0 .. m
    BY <1>1
  <2> QED BY <1>10, <2>1
<1>12. \A k \in 1 .. m : hop[k] = Hop(graph, hop[k - 1])
  <2> TAKE k \in 1 .. m
  <2>1. k \in 0 .. m /\ k # 0
    BY <1>1
  <2> QED BY <1>10, <2>1
<1> QED BY <1>9, <1>11, <1>12 DEF m

\* The repairs keep the index navigable: whatever erases have run, in whatever
\* order, every node that was not erased is reached from every other one, for an
\* index of any size that POST /ingest has linked and any max_m, until max_m turns an
\* edge of a repair away.
THEOREM LiveConnectedAlways == ASSUME IngestIndex PROVE Spec => []LiveConnected
<1>1. GraphType /\ (~capped => FreeInv) => LiveConnected
  <2> SUFFICES ASSUME GraphType, FreeInv, NEW n \in Nodes \ healed
               PROVE  Nodes \ healed \subseteq ReachableFrom(n)
    BY DEF LiveConnected
  <2> DEFINE L == Nodes \ healed
  <2>1. PICK hop : /\ ReachableFrom(n) = hop[NumNodes - 1] /\ hop[0] = Hop(graph, {n})
                   /\ \A k \in 1 .. (NumNodes - 1) : hop[k] = Hop(graph, hop[k - 1])
    BY ReachableRuns
  <2>2. /\ L \in SUBSET (0 .. (NumNodes - 1)) /\ NumNodes \in Nat \ {0} /\ n \in L
        /\ Connected(graph, L)
    BY NumNodesAssumption DEF Nodes, FreeInv
  <2>3. \A m \in L : Nbrs(graph, m) \subseteq L
    <3>1. \A m \in Nodes : Nbrs(graph, m) \subseteq Nodes
      BY NbrsOfNode DEF GraphType
    <3>2. \A m \in Nodes, q \in healed : q \notin Nbrs(graph, m)
      BY DEF FreeInv, AllSevered, Isolated
    <3> QED BY <3>1, <3>2
  <2>4. L \subseteq hop[NumNodes - 1]
    <3> HIDE DEF L
    <3> QED BY <2>1, <2>2, <2>3, HopsReach
  <2> QED BY <2>1, <2>4
<1>2. Spec => [](~capped => FreeInv)
  BY FreeInvariance
<1> QED BY <1>1, <1>2, GraphInvariance, PTL

-----------------------------------------------------------------------------
(* Which lists a repair writes. *)

\* A repair whose region is still the one it has seen changes no list outside it.
LEMMA CurrentRegionKeeps ==
    ASSUME IndexIndInv, GraphType, NEW h \in Healers, Mutate(h),
           region[h] = Region(graph, target[h], NumNodes)
    PROVE  \A n \in Nodes \ region[h] : graph'[n] = graph[n]
<1>1. PICK q \in Nodes : q = target[h]
  BY HealApplies
<1>2. PICK R : R = region[h]
  OBVIOUS
<1>3. graph' = Heal(graph, pos, q, R, MaxM)
  BY <1>1, <1>2 DEF Mutate
<1>4. /\ q \in R /\ Nbrs(graph, q) \subseteq R /\ \A u \in Nbrs(graph, q) : Nbrs(graph, u) \subseteq R
  <2>1. \A m \in Nodes : Nbrs(graph, m) \subseteq Nodes
    BY NbrsOfNode DEF GraphType
  <2> QED BY <1>1, <1>2, <2>1 DEF Region, Nodes
<1>5. \A m \in Nodes \ R : graph'[m] = graph[m]
  <2>1. \A m \in Nodes \ R : Heal(graph, pos, q, R, MaxM)[m] = graph[m]
    BY <1>4, HealApplies, HealLocal, NodesAreFinite
  <2> QED BY <1>3, <2>1
<1> QED BY <1>2, <1>5

\* So it writes only lists that it has locked.
LEMMA CurrentRegionWrites ==
    ASSUME IndexIndInv, GraphType, NEW h \in Healers, Mutate(h),
           region[h] = Region(graph, target[h], NumNodes), NEW n \in Nodes, graph'[n] # graph[n]
    PROVE  pc[h] = "mutate" /\ pc'[h] = "idle" /\ stripe_of(n) \in excl[h]
<1>1. n \in region[h]
  BY CurrentRegionKeeps
<1>2. pc[h] = "mutate" /\ pc' = [pc EXCEPT ![h] = "idle"] /\ want[h] = {}
  BY DEF Mutate, release, Granted
<1>3. excl[h] = unique_stripes(region[h])
  BY <1>2 DEF IndexIndInv, RegionLocks
<1>4. stripe_of(n) \in excl[h]
  BY <1>1, <1>3 DEF unique_stripes
<1> QED BY <1>2, <1>4 DEF IndexIndInv

\* A repair elsewhere leaves a locked region as it is.
LEMMA OtherRepairKeepsRegion ==
    ASSUME IndexIndInv, GraphType, RepairsIsolated,
           NEW h \in Healers, NEW k \in Healers \ {h}, Mutate(k),
           region[k] = Region(graph, target[k], NumNodes),
           pc[h] = "mutate", Granted(h), region[h] = Region(graph, target[h], NumNodes)
    PROVE  Region(graph', target[h], NumNodes) = region[h]
<1>1. PICK q \in Nodes : q = target[h]
  BY HealApplies
<1>2. \A n \in Nodes \ region[k] : graph'[n] = graph[n]
  BY CurrentRegionKeeps
<1>3. region[h] \cap region[k] = {}
  <2>1. pc[k] = "mutate" /\ Granted(k)
    BY DEF Mutate, release
  <2> QED BY <2>1 DEF RepairsIsolated
<1>4. q \in region[h] /\ Nbrs(graph, q) \subseteq region[h] /\ region[h] \subseteq Nodes
  <2>1. Nbrs(graph, q) \subseteq Nodes
    BY NbrsOfNode DEF GraphType
  <2> QED BY <1>1, <2>1 DEF Region, Nodes
<1>5. graph'[q] = graph[q] /\ \A u \in Nbrs(graph, q) : graph'[u] = graph[u]
  BY <1>2, <1>3, <1>4
<1>6. Nbrs(graph', q) = Nbrs(graph, q) /\ \A u \in Nbrs(graph, q) : Nbrs(graph', u) = Nbrs(graph, u)
  BY <1>5 DEF Nbrs
<1> QED BY <1>1, <1>6 DEF Region

\* A repair that was not overtaken still has in hand the region it looked at last.
RegionCurrent(h) ==
    pc[h] = "mutate" /\ h \notin late => region[h] = Region(graph, target[h], NumNodes)

LEMMA LateChanges ==
    ASSUME [Next]_vars
    PROVE  UNCHANGED late \/ \E h \in Healers : Mutate(h) \/ HealTimeout(h)
<1> USE DEF healVars
<1>1. CASE UNCHANGED vars
  BY <1>1 DEF vars
<1>2. CASE \E h \in Healers : HealStep(h) \/ \E q \in Nodes : EraseNode(h, q)
  BY <1>2 DEF HealStep, EraseNode, OverwriteVector, Peek, Check, HealLock
<1>3. CASE \E s \in Searchers : SearchStep(s) \/ SearchBegin(s)
  BY <1>3 DEF SearchStep, SearchBegin, ReadList, Visit, Back, PopFrontier, SearchEnd, SearchLock,
              SearchTimeout
<1> QED BY <1>1, <1>2, <1>3 DEF Next

\* Who is late stays late until its call ends.
LEMMA LateStays ==
    ASSUME IndexIndInv, [Next]_vars, NEW h \in Healers, pc'[h] = "mutate", h \notin late'
    PROVE  h \notin late
<1>1. CASE UNCHANGED late
  BY <1>1
<1>2. ASSUME NEW k \in Healers, Mutate(k) \/ HealTimeout(k) PROVE h \notin late
  <2>1. k # h
    BY <1>2 DEF Mutate, HealTimeout, IndexIndInv
  <2> QED BY <1>2, <2>1 DEF Mutate, HealTimeout, Overtaken
<1> QED BY <1>1, <1>2, LateChanges

LEMMA RegionCurrentStep ==
    ASSUME IndexIndInv, GraphType, RepairsIsolated, \A h \in Healers : RegionCurrent(h),
           [Next]_vars, NEW h \in Healers
    PROVE  RegionCurrent(h)'
<1> SUFFICES ASSUME pc'[h] = "mutate", h \notin late'
             PROVE  region'[h] = Region(graph', target'[h], NumNodes)
  BY DEF RegionCurrent
<1>1. h \notin late
  BY LateStays
<1>2. CASE UNCHANGED <<pc[h], target[h], region[h]>>
  <2>1. region[h] = Region(graph, target[h], NumNodes)
    BY <1>1, <1>2 DEF RegionCurrent
  <2>2. CASE UNCHANGED <<graph, healed, capped>>
    BY <1>2, <2>1, <2>2
  <2>3. ASSUME NEW k \in Healers, Mutate(k) PROVE Region(graph', target[h], NumNodes) = region[h]
    <3>1. k # h /\ pc[h] = "mutate"
      BY <1>2, <2>3 DEF Mutate, IndexIndInv
    <3>2. Granted(h) /\ k \notin late
      BY <2>3, <3>1 DEF Mutate, Overtaken
    <3>3. region[k] = Region(graph, target[k], NumNodes)
      BY <2>3, <3>2 DEF Mutate, RegionCurrent
    <3> QED BY <2>1, <2>3, <3>1, <3>2, <3>3, OtherRepairKeepsRegion
  <2> QED BY <1>2, <2>2, <2>3, GraphChanges
<1>3. CASE target'[h] = target[h] /\ region'[h] = Region(graph, target[h], NumNodes)
           /\ UNCHANGED graph
  BY <1>3
<1> QED BY <1>2, <1>3, HealerChanges

LEMMA CurrentInvariance == Spec => [](\A h \in Healers : RegionCurrent(h))
<1>1. Init => \A h \in Healers : RegionCurrent(h)
  BY DEF Init, RegionCurrent
<1>2. IndexIndInv /\ GraphType /\ RepairsIsolated /\ (\A h \in Healers : RegionCurrent(h))
        /\ [Next]_vars => (\A h \in Healers : RegionCurrent(h))'
  BY RegionCurrentStep
<1> QED BY <1>1, <1>2, IndexInvariance, GraphInvariance, RepairsIsolatedAlways, PTL DEF Spec

\* Every change of the graph is made by a repair, which holds the locks of the lists
\* it changes or is late.
LEMMA WritesStep ==
    ASSUME IndexIndInv, GraphType, \A h \in Healers : RegionCurrent(h), [Next]_vars,
           NEW n \in Nodes, graph'[n] # graph[n]
    PROVE  \E h \in Healers : Repairs(h) /\ (h \in late \/ stripe_of(n) \in excl[h])
<1>1. PICK h \in Healers : Mutate(h)
  BY GraphChanges
<1>2. Repairs(h)
  BY <1>1 DEF Mutate, IndexIndInv, Repairs
<1>3. CASE h \notin late
  <2>1. region[h] = Region(graph, target[h], NumNodes)
    BY <1>1, <1>3 DEF RegionCurrent, Mutate
  <2>2. stripe_of(n) \in excl[h]
    BY <1>1, <2>1, CurrentRegionWrites
  <2> QED BY <1>2, <2>2
<1> QED BY <1>2, <1>3

\* The second look at a region is enough for every repair that nobody overtakes
\* between that look and its locks: however many erases and searches run, on any
\* graph, such a repair changes only lists that it has locked.  The others are the
\* ones that HealStaleRegion shows.
THEOREM WritesLockedAlways == Spec => WritesLocked
<1>1. IndexIndInv /\ GraphType /\ (\A h \in Healers : RegionCurrent(h)) /\ [Next]_vars =>
        [\A n \in Nodes : graph'[n] # graph[n] =>
             \E h \in Healers : Repairs(h) /\ (h \in late \/ stripe_of(n) \in excl[h])]_vars
  BY WritesStep
<1> QED BY <1>1, CurrentInvariance, IndexInvariance, GraphInvariance, PTL DEF Spec, WritesLocked

NobodyLate == late = {}

\* With one thread that erases, and any number that search, there are no others: the
\* repair runs under the locks of its region, as its comment says.  Calls through the
\* Python binding, which keeps the interpreter lock, are such a thread.
THEOREM HealsUnderLocksAlone ==
    ASSUME \A h, k \in Healers : h = k PROVE Spec => HealsUnderLocks
<1>1. Init => NobodyLate
  BY DEF Init, NobodyLate
<1>2. IndexIndInv /\ NobodyLate /\ [Next]_vars => NobodyLate'
  <2> SUFFICES ASSUME IndexIndInv, late = {}, [Next]_vars PROVE late' = {}
    BY DEF NobodyLate
  <2>1. CASE UNCHANGED late
    BY <2>1
  <2>2. ASSUME NEW h \in Healers, Mutate(h) \/ HealTimeout(h) PROVE late' = {}
    BY <2>2 DEF Mutate, Overtaken, HealTimeout
  <2> QED BY <2>1, <2>2, LateChanges
<1>3. IndexIndInv /\ GraphType /\ (\A h \in Healers : RegionCurrent(h)) /\ NobodyLate /\ [Next]_vars =>
        [\A n \in Nodes : graph'[n] # graph[n] =>
             \E h \in Healers : Repairs(h) /\ stripe_of(n) \in excl[h]]_vars
  <2> SUFFICES ASSUME IndexIndInv, GraphType, \A h \in Healers : RegionCurrent(h), late = {},
                      [Next]_vars, NEW n \in Nodes, graph'[n] # graph[n]
               PROVE  \E h \in Healers : Repairs(h) /\ stripe_of(n) \in excl[h]
    BY DEF NobodyLate
  <2>1. \E h \in Healers : Repairs(h) /\ (h \in late \/ stripe_of(n) \in excl[h])
    BY WritesStep
  <2> QED BY <2>1
<1> QED BY <1>1, <1>2, <1>3, CurrentInvariance, IndexInvariance, GraphInvariance, PTL
        DEF Spec, HealsUnderLocks
=============================================================================
