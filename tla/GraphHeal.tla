------------------------------ MODULE GraphHeal ------------------------------
(***************************************************************************)
(* erase_node and search_knn of src/hnsw_helper.hpp as threads over one    *)
(* graph, under the stripe locks of NeighborhoodLocks.                     *)
(*                                                                         *)
(* An erase wipes the vector under the lock of its stripe, releases it,    *)
(* looks at the 2-hop region while it holds only the erased node, releases *)
(* again, locks the region, looks again and, if the region has changed,    *)
(* locks the new one, without looking a third time.  A search walks the    *)
(* graph breadth first with a shared lock on one stripe at a time; what it *)
(* read of a list it uses after the lock has moved on.                     *)
(***************************************************************************)
EXTENDS NeighborhoodLocks, MnRu, FiniteSets

CONSTANTS
    Healers, Searchers,  \* the threads, by what they call
    Links,               \* sequence of offsets a node is linked to at first
    Coordinates,         \* positions a vector may have
    MaxM,                \* degree cap of the repair (max_m)
    MaxCalls             \* bound on the calls of erase_node, retries included, and search_knn

ASSUME ThreadsAssumption ==
    Threads = Healers \cup Searchers /\ Healers \cap Searchers = {}

ASSUME HealAssumption ==
    /\ Links \in Seq(Int)
    /\ Coordinates \subseteq Nat \ {0}
    /\ MaxM \in Nat \ {0}
    /\ MaxCalls \in Nat

VARIABLES
    graph,     \* adjacency_ on one layer
    pos,       \* data_: the position of each vector, 0 once wiped
    entry,     \* entrypoint_
    healed,    \* nodes whose erase_node has returned success
    pc,        \* per healer: what it does once its stripes are locked
    target,    \* per healer: the node it erases
    region,    \* per healer: the region it has seen
    calls,     \* calls of erase_node and search_knn so far
    capped,    \* history: max_m has changed what some repair made
    late,      \* history: healers that were overtaken before they had their locks
    spc,       \* per searcher: its next step
    at,        \* per searcher: the node whose list it scans
    todo,      \* per searcher: what is left of the list it read
    frontier, visited,  \* per searcher: the queue, and the nodes found so far
    gone       \* per searcher: nodes erased before it began, where it entered excepted

healVars   == <<pc, target, region, capped, late>>
searchVars == <<spc, at, todo, frontier, visited, gone>>
vars == <<lockVars, graph, pos, entry, healed, calls, healVars, searchVars>>

TypeOK ==
    /\ LocksTypeOK
    /\ DOMAIN graph = Nodes /\ \A n \in Nodes : ToSet(graph[n]) \subseteq Nodes
    /\ pos \in [Nodes -> Coordinates \cup {0}]
    /\ entry \in Nodes \cup {NoEntry}
    /\ healed \subseteq Nodes
    /\ pc \in [Healers -> {"idle", "wipe", "peek", "check", "mutate"}]
    /\ target \in [Healers -> Nodes]
    /\ region \in [Healers -> SUBSET Nodes]
    /\ capped \in BOOLEAN /\ late \subseteq {h \in Healers : pc[h] = "mutate"}
    /\ spc \in [Searchers -> {"idle", "read", "scan", "back"}]
    /\ at \in [Searchers -> Nodes]
    /\ visited \in [Searchers -> SUBSET Nodes]
    /\ \A s \in Searchers :
        ToSet(todo[s]) \subseteq Nodes /\ ToSet(frontier[s]) \subseteq visited[s]

\* An index that has just been loaded and linked.
Init ==
    /\ LocksInit
    /\ graph = Ring(NumNodes, Links)
    /\ pos \in [Nodes -> Coordinates]
    /\ entry = 0
    /\ healed = {}
    /\ pc = [h \in Healers |-> "idle"]
    /\ target = [h \in Healers |-> 0]
    /\ region = [h \in Healers |-> {}]
    /\ calls = 0
    /\ capped = FALSE
    /\ late = {}
    /\ spc = [s \in Searchers |-> "idle"]
    /\ at = [s \in Searchers |-> 0]
    /\ todo = [s \in Searchers |-> <<>>]
    /\ frontier = [s \in Searchers |-> <<>>]
    /\ visited = [s \in Searchers |-> {}]
    /\ gone = [s \in Searchers |-> {}]

-----------------------------------------------------------------------------
(* erase_node. *)

\* overwrite_vector asks for the stripe of the node.
EraseNode(h, q) ==
    /\ pc[h] = "idle"
    /\ calls < MaxCalls
    /\ calls' = calls + 1
    /\ target' = [target EXCEPT ![h] = q]
    /\ pc' = [pc EXCEPT ![h] = "wipe"]
    /\ acquire_exclusive(h, {q})
    /\ UNCHANGED <<graph, pos, entry, healed, region, capped, late, searchVars>>

\* The vector is wiped and its stripe released; the repair asks for it again.
OverwriteVector(h) ==
    /\ pc[h] = "wipe"
    /\ pos' = [pos EXCEPT ![target[h]] = 0]
    /\ pc' = [pc EXCEPT ![h] = "peek"]
    /\ reacquire(h, {target[h]})
    /\ UNCHANGED <<graph, entry, healed, target, region, calls, capped, late, searchVars>>

\* First pass: the region is read with only the stripe of the node locked.
Peek(h) ==
    /\ pc[h] = "peek"
    /\ region' = [region EXCEPT ![h] = Region(graph, target[h], NumNodes)]
    /\ pc' = [pc EXCEPT ![h] = "check"]
    /\ reacquire(h, Region(graph, target[h], NumNodes))
    /\ UNCHANGED <<graph, pos, entry, healed, target, calls, capped, late, searchVars>>

\* Mutant: the region is not looked at again.
CheckNothing(h) ==
    /\ pc[h] = "check"
    /\ Granted(h)
    /\ pc' = [pc EXCEPT ![h] = "mutate"]
    /\ UNCHANGED <<lockVars, graph, pos, entry, healed, target, region, calls, capped, late,
                   searchVars>>

\* Mutant: a region that differs is repaired under the locks of the first pass.
CheckKeepsLocks(h) ==
    /\ pc[h] = "check"
    /\ Granted(h)
    /\ region' = [region EXCEPT ![h] = Region(graph, target[h], NumNodes)]
    /\ pc' = [pc EXCEPT ![h] = "mutate"]
    /\ UNCHANGED <<lockVars, graph, pos, entry, healed, target, calls, capped, late, searchVars>>

\* Second pass, under the locks of the first: a region that differs is locked
\* in place of the first one.
Check(h) ==
    LET now == Region(graph, target[h], NumNodes) IN
    /\ pc[h] = "check"
    /\ Granted(h)
    /\ IF now = region[h] THEN UNCHANGED lockVars ELSE reacquire(h, now)
    /\ region' = [region EXCEPT ![h] = now]
    /\ pc' = [pc EXCEPT ![h] = "mutate"]
    /\ UNCHANGED <<graph, pos, entry, healed, target, calls, capped, late, searchVars>>

\* The repairs that the repair of h overtakes: they have looked at their region
\* for the last time and wait for its locks.  One that has them is overtaken only
\* by a repair that has itself been, and writes what it has not locked.
Overtaken(h) ==
    {k \in Healers \ {h} : k \in late \/ (pc[k] = "mutate" /\ (~Granted(k) \/ h \in late))}

\* The repair, the entry point and the release of the region.
Mutate(h) ==
    /\ pc[h] = "mutate"
    /\ graph' = Heal(graph, pos, target[h], region[h], MaxM)
    /\ entry' = NextEntry(entry, target[h], NumNodes)
    /\ healed' = healed \cup {target[h]}
    /\ pc' = [pc EXCEPT ![h] = "idle"]
    /\ release(h)
    /\ capped' = (capped \/ graph' # Heal(graph, pos, target[h], region[h], NumNodes))
    /\ late' = Overtaken(h)
    /\ UNCHANGED <<pos, target, region, calls, searchVars>>

HealLock(h) ==
    /\ LockNext(h)
    /\ UNCHANGED <<graph, pos, entry, healed, calls, healVars, searchVars>>

\* LockTimeoutError ends the call wherever it was: with_lock_retry may call again.
HealTimeout(h) ==
    /\ ExclusiveTimeout(h)
    /\ pc' = [pc EXCEPT ![h] = "idle"]
    /\ late' = late \ {h}
    /\ UNCHANGED <<graph, pos, entry, healed, target, region, calls, capped, searchVars>>

-----------------------------------------------------------------------------
(* search_knn; fewer nodes than ef = max(k, 16), so every node found is kept *)
(* and queued.                                                               *)

SearchBegin(s) ==
    LET n == SearchStart(entry) IN
    /\ spc[s] = "idle"
    /\ calls < MaxCalls
    /\ calls' = calls + 1
    /\ enter(s, n)
    /\ at' = [at EXCEPT ![s] = n]
    /\ visited' = [visited EXCEPT ![s] = {n}]
    /\ frontier' = [frontier EXCEPT ![s] = <<>>]
    /\ gone' = [gone EXCEPT ![s] = healed \ {n}]
    /\ spc' = [spc EXCEPT ![s] = "read"]
    /\ UNCHANGED <<graph, pos, entry, healed, healVars, todo>>

\* The list is copied under the shared lock of its node.
ReadList(s) ==
    /\ spc[s] = "read"
    /\ Shares(s)
    /\ todo' = [todo EXCEPT ![s] = graph[at[s]]]
    /\ spc' = [spc EXCEPT ![s] = "scan"]
    /\ UNCHANGED <<lockVars, graph, pos, entry, healed, healVars, at, frontier, visited,
                   gone, calls>>

\* Mutant: the neighbour is queued and not marked.
VisitUnmarked(s) ==
    /\ spc[s] = "scan"
    /\ \E i \in DOMAIN todo[s] :
        /\ todo[s][i] \notin visited[s]
        /\ \A j \in 1 .. (i - 1) : todo[s][j] \in visited[s]
        /\ frontier' = [frontier EXCEPT ![s] = Append(@, todo[s][i])]
        /\ todo' = [todo EXCEPT ![s] = SubSeq(@, i + 1, Len(@))]
        /\ advance(s, todo[s][i])
    /\ spc' = [spc EXCEPT ![s] = "back"]
    /\ UNCHANGED <<graph, pos, entry, healed, healVars, at, visited, gone, calls>>

Unvisited(s, n) == n \in Nodes \ visited[s]

\* The next neighbour of the copy that was not visited, and the lock moves to it.
Visit(s) ==
    /\ spc[s] = "scan"
    /\ \E i \in DOMAIN todo[s] :
        /\ Unvisited(s, todo[s][i])
        /\ \A j \in 1 .. (i - 1) : ~Unvisited(s, todo[s][j])
        /\ visited' = [visited EXCEPT ![s] = @ \cup {todo[s][i]}]
        /\ frontier' = [frontier EXCEPT ![s] = Append(@, todo[s][i])]
        /\ todo' = [todo EXCEPT ![s] = SubSeq(@, i + 1, Len(@))]
        /\ advance(s, todo[s][i])
    /\ spc' = [spc EXCEPT ![s] = "back"]
    /\ UNCHANGED <<graph, pos, entry, healed, healVars, at, gone, calls>>

\* The lock returns to the node whose copy is scanned.
Back(s) ==
    /\ spc[s] = "back"
    /\ advance(s, at[s])
    /\ spc' = [spc EXCEPT ![s] = "scan"]
    /\ UNCHANGED <<graph, pos, entry, healed, healVars, at, todo, frontier, visited,
                   gone, calls>>

Scanned(s) ==
    spc[s] = "scan" /\ \A i \in DOMAIN todo[s] : ~Unvisited(s, todo[s][i])

PopFrontier(s) ==
    /\ Scanned(s)
    /\ frontier[s] # <<>>
    /\ advance(s, Head(frontier[s]))
    /\ at' = [at EXCEPT ![s] = Head(frontier[s])]
    /\ frontier' = [frontier EXCEPT ![s] = Tail(@)]
    /\ spc' = [spc EXCEPT ![s] = "read"]
    /\ UNCHANGED <<graph, pos, entry, healed, healVars, todo, visited, gone, calls>>

SearchEnd(s) ==
    /\ Scanned(s)
    /\ frontier[s] = <<>>
    /\ leave(s)
    /\ spc' = [spc EXCEPT ![s] = "idle"]
    /\ UNCHANGED <<graph, pos, entry, healed, healVars, at, todo, frontier, visited,
                   gone, calls>>

SearchLock(s) ==
    /\ LockShared(s)
    /\ UNCHANGED <<graph, pos, entry, healed, calls, healVars, searchVars>>

\* The search raises: it returns nothing.
SearchTimeout(s) ==
    /\ SharedTimeout(s)
    /\ spc' = [spc EXCEPT ![s] = "idle"]
    /\ visited' = [visited EXCEPT ![s] = {}]
    /\ frontier' = [frontier EXCEPT ![s] = <<>>]
    /\ UNCHANGED <<graph, pos, entry, healed, healVars, at, todo, gone, calls>>

-----------------------------------------------------------------------------

HealStep(h) ==
    \/ OverwriteVector(h) \/ Peek(h) \/ Check(h) \/ Mutate(h)
    \/ HealLock(h) \/ HealTimeout(h)

SearchStep(s) ==
    \/ ReadList(s) \/ Visit(s) \/ Back(s) \/ PopFrontier(s) \/ SearchEnd(s)
    \/ SearchLock(s) \/ SearchTimeout(s)

Next ==
    \/ \E h \in Healers : HealStep(h) \/ \E q \in Nodes : EraseNode(h, q)
    \/ \E s \in Searchers : SearchStep(s) \/ SearchBegin(s)

Spec == Init /\ [][Next]_vars

-----------------------------------------------------------------------------
(* Properties. *)

\* "Sever edges into/out of q": a node whose erase has returned has no
\* neighbours and is in no list, whatever other repairs ran meanwhile, as long
\* as max_m has not turned an edge of a repair away.
ErasedSevered ==
    ~capped => \A q \in healed : graph[q] = <<>> /\ \A n \in Nodes : q \notin ToSet(graph[n])

ReachableFrom(n) ==
    LET hop[k \in Nodes] == LET near == IF k = 0 THEN {n} ELSE hop[k - 1]
                            IN near \cup UNION {ToSet(graph[u]) : u \in near}
    IN hop[NumNodes - 1]

\* The repair keeps the graph navigable: between repairs, every vector that was
\* not erased can be reached from every other one, as long as max_m has not
\* turned an edge of a repair away.
LiveConnected ==
    ~capped /\ (\A h \in Healers : pc[h] = "idle") =>
        \A n \in Nodes \ healed : Nodes \ healed \subseteq ReachableFrom(n)

\* This step is the repair of h.
Repairs(h) == pc[h] = "mutate" /\ pc'[h] = "idle"

\* "heal region locking (2-hop) guarantees far is exclusively held": a list is
\* only ever changed by a thread that holds the stripe of its node exclusively,
\* unless that thread was overtaken between its last look and its locks.
WritesLocked ==
    [][\A n \in Nodes : graph'[n] # graph[n] =>
           \E h \in Healers : Repairs(h) /\ (h \in late \/ stripe_of(n) \in excl[h])]_vars

\* "Core MN-RU graph healing under exclusive locks on {q} \cup N(q) \cup N(N(q))
\* only": the same of every repair.  HealStaleRegion shows that it fails.
HealsUnderLocks ==
    [][\A n \in Nodes : graph'[n] # graph[n] =>
           \E h \in Healers : Repairs(h) /\ stripe_of(n) \in excl[h]]_vars

\* A repair has its region to itself: two repairs under way have no node in
\* common, and no search copies a list of a region that is being repaired,
\* though regions grow between the two looks and are locked anew, and a search
\* asks for one lock before it drops another.
RepairsIsolated ==
    \A h \in Healers : pc[h] = "mutate" /\ Granted(h) =>
        /\ \A k \in Healers \ {h} :
               pc[k] = "mutate" /\ Granted(k) => region[h] \cap region[k] = {}
        /\ \A s \in Searchers : spc[s] = "read" /\ Shares(s) => at[s] \notin region[h]

\* A search that begins after an erase has returned does not come upon the
\* erased node, though it follows copies of lists that are no longer current, as
\* long as max_m has not turned an edge of a repair away.
SearchSkipsErased ==
    ~capped => \A s \in Searchers : visited[s] \cap gone[s] = {}
=============================================================================
