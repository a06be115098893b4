------------------------------- MODULE DualStore -------------------------------
(***************************************************************************)
(* What every adapter of integrations/ keeps: a float matrix of its own,   *)
(* the search engine that serves queries from its own copies, and, for the *)
(* in-process engines, the heal mirror.  A hard delete zeroes the matrix   *)
(* row at once; how the other copies go depends on the engine, and in the  *)
(* end on compact(), which rebuilds the engine from the rows that are      *)
(* left.                                                                   *)
(***************************************************************************)
EXTENDS IdRegistry, FiniteSets

CONSTANTS Engines, AdapterFaults

\* client: Qdrant or Weaviate, reached through a client.
ASSUME EnginesAssumption == Engines \subseteq {"hnswlib", "faiss", "client"}

\* "mirror": erase_node on the heal mirror raises; "rebuild": compact raises;
\* "capacity": the engine refuses new items; "remove": the engine refuses to
\* remove an item.
ASSUME AdapterFaultsAssumption ==
    AdapterFaults \subseteq {"mirror", "rebuild", "capacity", "remove"}

VARIABLES
    engine,    \* which adapter the service runs on
    matrix,    \* label -> "none" (no row), "live", "blank" (added all zero) or "zero"
    deleted,   \* the adapter's _deleted
    ann,       \* label -> "none", "live" or "marked", in the engine
    mirror,    \* labels whose floats the heal mirror holds
    ext        \* label -> the id its point goes by, in a client's collection

adapterVars == <<engine, matrix, deleted, ann, mirror, ext>>

AdapterType ==
    /\ engine \in Engines
    /\ matrix \in [Labels -> {"none", "live", "blank", "zero"}]
    /\ deleted \in SUBSET Labels
    /\ ann \in [Labels -> {"none", "live", "marked"}]
    /\ mirror \in SUBSET Labels
    /\ ext \in [Labels -> Ids \cup {NoId}]

AdapterInit ==
    /\ engine \in Engines
    /\ matrix = [l \in Labels |-> "none"]
    /\ deleted = {}
    /\ ann = [l \in Labels |-> "none"]
    /\ mirror = {}
    /\ ext = [l \in Labels |-> NoId]

\* Mutant: the last row is left out.
LiveRowsButLast ==
    {l \in Labels : matrix[l] = "live" /\ l \notin deleted /\ l + 1 < nextLabel}

\* The rows a rebuild takes over: not deleted, and not all zero.
LiveRows == {l \in Labels : matrix[l] = "live" /\ l \notin deleted}

\* Labels that were wiped but whose floats the engine or the mirror still has.
Residue == {l \in Labels : matrix[l] = "zero" /\ (ann[l] # "none" \/ l \in mirror)}

\* The engine holds these rows, all live, and nothing else.
OnlyRows(rows) == [l \in Labels |-> IF l \in rows THEN "live" ELSE "none"]

\* A row is written, new or over an old one; nothing keeps the caller from
\* adding a vector of zeros.
append_row(l) ==
    /\ \E row \in {"live", "blank"} : matrix' = [matrix EXCEPT ![l] = row]
    /\ deleted' = deleted \ {l}

\* The row is zeroed and its label remembered.
ZeroRow(l) ==
    /\ matrix' = [matrix EXCEPT ![l] = "zero"]
    /\ deleted' = deleted \cup {l}

\* erase_node on the mirror, whose exception is only logged.
EraseMirror(l) ==
    \/ mirror' = mirror \ {l}
    \/ "mirror" \in AdapterFaults /\ mirror' = mirror

\* compact() raises: before the old index is let go, or with the new one still
\* empty or half filled.
CompactFails ==
    /\ "rebuild" \in AdapterFaults
    /\ ann' \in {ann} \cup {OnlyRows(some) : some \in SUBSET LiveRows}
    /\ UNCHANGED <<engine, matrix, deleted, mirror, ext>>
=============================================================================
