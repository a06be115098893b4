---------------------------- MODULE HnswlibAdapter ----------------------------
(***************************************************************************)
(* integrations/hnswlib_adapter.py: hnswlib can only mark an item; its     *)
(* copy of the floats stays until compact() rebuilds the index.            *)
(***************************************************************************)
EXTENDS DualStore

\* The check of add: a label with a row that is not deleted is refused.
Occupied(l) == matrix[l] # "none" /\ l \notin deleted

\* The end of add: hnswlib takes the rows (an item that was marked is live
\* again) and the mirror is reloaded from the matrix.
add_items(labels) ==
    /\ ann' = [l \in Labels |-> IF l \in labels THEN "live" ELSE ann[l]]
    /\ mirror' = LiveRows
    /\ UNCHANGED <<engine, matrix, deleted, ext>>

\* hnswlib raises with some of the rows in.
AddItemsFails(labels) ==
    /\ "capacity" \in AdapterFaults
    /\ \E some \in SUBSET labels :
           ann' = [l \in Labels |-> IF l \in some THEN "live" ELSE ann[l]]
    /\ UNCHANGED <<engine, matrix, deleted, mirror, ext>>

\* hard_delete_label on a label that has a row.
hard_delete_label(l) ==
    /\ ZeroRow(l)
    /\ ann' = [ann EXCEPT ![l] = IF @ = "live" THEN "marked" ELSE @]
    /\ EraseMirror(l)
    /\ UNCHANGED <<engine, ext>>

\* compact(): a new hnswlib index from the live rows.
compact ==
    /\ ann' = OnlyRows(LiveRows)
    /\ mirror' = LiveRows
    /\ UNCHANGED <<engine, matrix, deleted, ext>>
=============================================================================
