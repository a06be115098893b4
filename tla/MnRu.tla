-------------------------------- MODULE MnRu --------------------------------
(***************************************************************************)
(* The MN-RU graph repair of src/hnsw_helper.hpp as functions of a graph.  *)
(*                                                                         *)
(* A graph maps a node to the sequence of its neighbours on one layer (the *)
(* code repairs every layer in the same way, independently).  A vector is  *)
(* a point on a line, pos[n], so a wiped vector, at the origin, changes    *)
(* the distances that the repair compares.                                 *)
(***************************************************************************)
EXTENDS Integers, Sequences, SequencesExt, FiniteSets

\* set_neighbors in a loop over the labels: i is linked to i + offset for every
\* offset of a list, as POST /ingest does with -1, 1 and 2.
Ring(num, offsets) ==
    [i \in 0 .. (num - 1) |-> [k \in DOMAIN offsets |-> (i + offsets[k]) % num]]

Nbrs(g, n) == ToSet(g[n])

\* collect_heal_region_unlocked: q, its neighbours and their neighbours, as far
\* as they are labels of the index.
Region(g, q, num) ==
    LET near == Nbrs(g, q)
    IN {q} \cup {n \in 0 .. (num - 1) : n \in near \/ \E u \in near : n \in Nbrs(g, u)}

\* remove_label: the list without any occurrence of the label.
remove_label(list, label) ==
    LET kept[k \in 0 .. Len(list)] ==
            IF k = 0 THEN <<>>
            ELSE IF list[k] = label THEN kept[k - 1] ELSE Append(kept[k - 1], list[k])
    IN kept[Len(list)]

\* Mutant: only the neighbours of q forget it.
SeverOrphans(g, q, region) ==
    [n \in DOMAIN g |-> IF n = q THEN <<>>
                        ELSE IF n \in Nbrs(g, q)
                             THEN remove_label(g[n], q) ELSE g[n]]

\* Mutant: the lists of the neighbours are cleared with that of q.
SeverAll(g, q, region) ==
    [n \in DOMAIN g |-> IF n \in {q} \cup Nbrs(g, q) THEN <<>>
                        ELSE remove_label(g[n], q)]

\* Every edge between q and the region is cut, in both directions.
Sever(g, q, region) ==
    [n \in DOMAIN g |-> IF n = q THEN <<>>
                        ELSE IF n \in region \cup Nbrs(g, q)
                             THEN remove_label(g[n], q) ELSE g[n]]

Dist(pos, a, b) == IF pos[a] < pos[b] THEN pos[b] - pos[a] ELSE pos[a] - pos[b]

\* Index of the first of the farthest neighbours.
FarIndex(g, pos, n) ==
    CHOOSE i \in DOMAIN g[n] :
        \A j \in DOMAIN g[n] :
            \/ Dist(pos, n, g[n][j]) < Dist(pos, n, g[n][i])
            \/ Dist(pos, n, g[n][j]) = Dist(pos, n, g[n][i]) /\ i <= j

\* Neighbour number i is dropped from the list of n, and forgets n.
Evict(g, n, i) ==
    [[g EXCEPT ![n] = RemoveAt(@, i)] EXCEPT ![g[n][i]] = remove_label(@, n)]

\* ensure_capacity_for: a full list gives up its farthest neighbour for a closer
\* candidate (the navigability score rises exactly then).
EnsureCapacity(g, pos, n, cand, maxM) ==
    IF Contains(g[n], cand) \/ Len(g[n]) < maxM
    THEN [ok |-> TRUE, graph |-> g]
    ELSE LET i == FarIndex(g, pos, n)
         IN IF Dist(pos, n, cand) < Dist(pos, n, g[n][i])
            THEN [ok |-> TRUE, graph |-> Evict(g, n, i)]
            ELSE [ok |-> FALSE, graph |-> g]

\* commit_half_edge: append the candidate if room could be made.
CommitHalfEdge(g, pos, n, cand, maxM) ==
    LET room == EnsureCapacity(g, pos, n, cand, maxM)
    IN IF Contains(g[n], cand) \/ ~room.ok THEN g
       ELSE IF Contains(room.graph[n], cand) \/ Len(room.graph[n]) >= maxM THEN room.graph
       ELSE [room.graph EXCEPT ![n] = Append(@, cand)]

\* try_insert_healed_edge: an edge that is missing in both directions is tried
\* only when both ends make room; what room was made stays made.
InsertEdge(g, pos, u, w, maxM) ==
    LET uHas  == Contains(g[u], w)
        wHas  == Contains(g[w], u)
        roomU == EnsureCapacity(g, pos, u, w, maxM)
        roomW == EnsureCapacity(roomU.graph, pos, w, u, maxM)
        fresh == ~uHas /\ ~wHas
        ready == IF ~fresh THEN g ELSE IF roomU.ok THEN roomW.graph ELSE g
        half  == IF uHas THEN ready ELSE CommitHalfEdge(ready, pos, u, w, maxM)
    IN IF (uHas /\ wHas) THEN g
       ELSE IF fresh /\ ~(roomU.ok /\ roomW.ok) THEN ready
       ELSE IF wHas THEN half ELSE CommitHalfEdge(half, pos, w, u, maxM)

\* The neighbours of q other than q, each at its first place in the list.
Orphans(g, q) ==
    {i \in DOMAIN g[q] : g[q][i] # q /\ \A j \in 1 .. (i - 1) : g[q][j] # g[q][i]}

\* All pairs of orphans, in list order.
Candidates(g, q) ==
    {<<g[q][p[1]], g[q][p[2]]>> :
        p \in {p \in Orphans(g, q) \X Orphans(g, q) : p[1] < p[2]}}

\* The closest pair first, ties by label.
Before(pos, a, b) ==
    LET d(c) == Dist(pos, c[1], c[2]) IN
    \/ d(a) < d(b)
    \/ d(a) = d(b) /\ a[1] < b[1]
    \/ d(a) = d(b) /\ a[1] = b[1] /\ a[2] < b[2]

Closest(pos, cands) == CHOOSE c \in cands : \A d \in cands \ {c} : Before(pos, c, d)

\* The candidates are tried one by one.
Reconnect(g, pos, cands, maxM) ==
    LET tried[k \in 0 .. Cardinality(cands)] ==
            IF k = 0 THEN [graph |-> g, left |-> cands]
            ELSE LET last == tried[k - 1]
                     c    == Closest(pos, last.left)
                 IN [graph |-> InsertEdge(last.graph, pos, c[1], c[2], maxM),
                     left  |-> last.left \ {c}]
    IN tried[Cardinality(cands)].graph

\* heal_graph_structure on the locked region.
Heal(g, pos, q, region, maxM) ==
    Reconnect(Sever(g, q, region), pos, Candidates(g, q), maxM)

NoEntry == -1

\* "Retire entrypoint if it was deleted": the first other node.
NextEntry(entry, q, num) ==
    IF entry # q THEN entry
    ELSE IF num = 1 THEN NoEntry
    ELSE IF q = 0 THEN 1 ELSE 0

\* Where a search begins when the caller names no entry node.
SearchStart(entry) == IF entry = NoEntry THEN 0 ELSE entry
=============================================================================
