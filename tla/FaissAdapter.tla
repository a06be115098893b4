----------------------------- MODULE FaissAdapter -----------------------------
(***************************************************************************)
(* integrations/faiss_adapter.py: remove_ids takes an item out of the      *)
(* index, or raises, as it does on an HNSW index; the item is then not     *)
(* even marked and queries return it until compact().                      *)
(***************************************************************************)
EXTENDS DualStore

\* The end of add: add_with_ids, and the mirror is reloaded.
add_with_ids(labels) ==
    /\ ann' = [l \in Labels |-> IF l \in labels THEN "live" ELSE ann[l]]
    /\ mirror' = LiveRows
    /\ UNCHANGED <<engine, matrix, deleted, ext>>

\* FAISS raises, and nothing was added.
AddFails ==
    /\ "capacity" \in AdapterFaults
    /\ UNCHANGED adapterVars

\* remove_ids, which the adapter lets fail.
remove_ids(l) ==
    \/ ann' = [ann EXCEPT ![l] = "none"]
    \/ "remove" \in AdapterFaults /\ ann' = ann

hard_delete_label(l) ==
    /\ ZeroRow(l)
    /\ remove_ids(l)
    /\ EraseMirror(l)
    /\ UNCHANGED <<engine, ext>>

compact ==
    /\ ann' = OnlyRows(LiveRows)
    /\ mirror' = LiveRows
    /\ UNCHANGED <<engine, matrix, deleted, ext>>
=============================================================================
