---------------------------- MODULE ClientAdapter ----------------------------
(***************************************************************************)
(* integrations/qdrant_adapter.py and weaviate_adapter.py, which have the  *)
(* same shape: the engine is a server, its points go by the business id    *)
(* and not by the label, and every call of the client may raise.           *)
(***************************************************************************)
EXTENDS DualStore

\* Rows whose point has the name of row l.
SamePoint(l) == {k \in Labels : ext[k] = ext[l]}

\* A row of add: the adapter remembers the id behind the label.
remember(l, i) == ext' = [ext EXCEPT ![l] = i]

\* upsert_points: a point that is there under the name is replaced.
Upserted(labels) ==
    [l \in Labels |-> IF l \in labels THEN "live"
                      ELSE IF \E k \in labels : l \in SamePoint(k) THEN "none" ELSE ann[l]]

upsert_points(labels) ==
    /\ ann' = Upserted(labels)
    /\ UNCHANGED <<engine, matrix, deleted, mirror, ext>>

\* The client raises, with the points stored or not.
UpsertFails(labels) ==
    /\ "capacity" \in AdapterFaults
    /\ ann' \in {ann, Upserted(labels)}
    /\ UNCHANGED <<engine, matrix, deleted, mirror, ext>>

\* delete_points works: the erase succeeds.
hard_delete_label(l) ==
    /\ ZeroRow(l)
    /\ ann' = [k \in Labels |-> IF k \in SamePoint(l) THEN "none" ELSE ann[k]]
    /\ UNCHANGED <<engine, mirror, ext>>

\* delete_points raises: the row is zero, and the erase is reported as failed.
HardDeleteFails(l) ==
    /\ "remove" \in AdapterFaults
    /\ ZeroRow(l)
    /\ ann' \in {ann, [k \in Labels |-> IF k \in SamePoint(l) THEN "none" ELSE ann[k]]}
    /\ UNCHANGED <<engine, mirror, ext>>

\* compact(): the collection is made anew from the live rows.
compact ==
    /\ ann' = OnlyRows(LiveRows)
    /\ UNCHANGED <<engine, matrix, deleted, mirror, ext>>
=============================================================================
