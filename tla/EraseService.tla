----------------------------- MODULE EraseService -----------------------------
(***************************************************************************)
(* integrations/erase_service.py over the adapters, behind                 *)
(* integrations/chroma_hook.py: a batch of business ids is resolved, wiped *)
(* one by one, the index is rebuilt or the rebuild is put off, the erasure *)
(* is proved, a receipt is signed, and only then does Chroma forget the    *)
(* ids.  Calls come one at a time; any step of one may fail and leave its  *)
(* batch half done.                                                        *)
(***************************************************************************)
EXTENDS DualStore, CompactPolicy, Sequences

Hnswlib == INSTANCE HnswlibAdapter
Faiss   == INSTANCE FaissAdapter
Client  == INSTANCE ClientAdapter

CONSTANTS
    DropMappings,  \* ErasureService.drop_mappings
    AdaptiveSettings, \* what HEALER_ADAPTIVE_COMPACT may say
    FailClosed,    \* ChromaHardDeleteCollection.fail_closed
    MaxBatch,      \* bound on the ids of a call
    MaxCalls       \* bound on the calls

ASSUME ServiceAssumption ==
    /\ DropMappings \in BOOLEAN /\ AdaptiveSettings \subseteq BOOLEAN /\ FailClosed \in BOOLEAN
    /\ MaxBatch \in Nat /\ MaxCalls \in Nat

\* The batches a caller may name: ids may repeat.
Batches == UNION {[1 .. n -> Ids] : n \in 0 .. MaxBatch}

VARIABLES
    chroma,   \* ids that Chroma has
    op,       \* the step the running call is at
    todo,     \* ids the loop has still to visit
    call,     \* the locals of the call
    receipt,  \* the receipt it will return
    calls

serviceVars == <<chroma, op, todo, call, receipt, calls>>
vars == <<registryVars, adapterVars, policyVars, serviceVars>>

\* strict: idempotent=False; labels: rows done; skips, errors: soft and hard errors
\* of the loop; asked: the labels the ids stood for when the call came in (a
\* history field).
NoCall == [ids |-> <<>>, arg |-> "auto", strict |-> FALSE, labels |-> <<>>, skips |-> 0,
           errors |-> 0, deferred |-> FALSE, compacted |-> FALSE,
           compactFailed |-> FALSE, asked |-> {}]

NoReceipt == [status |-> "failed", compacted |-> FALSE, deferred |-> FALSE]

Calls == [ids: Batches, arg: {"auto", "always", "never"}, strict: BOOLEAN,
          labels: Seq(Labels), skips: Nat, errors: Nat, deferred: BOOLEAN,
          compacted: BOOLEAN, compactFailed: BOOLEAN, asked: SUBSET Labels]

TypeOK ==
    /\ RegistryType /\ AdapterType /\ PolicyType
    /\ lost \in SUBSET Labels
    /\ chroma \in SUBSET Ids
    /\ op \in {"idle", "add", "chroma_add", "erase", "finish", "chroma_delete", "raise"}
    /\ todo \in Batches
    /\ call \in Calls
    /\ receipt \in [status: {"complete", "partial", "failed"}, compacted: BOOLEAN,
                    deferred: BOOLEAN]
    /\ calls \in 0 .. MaxCalls

Init ==
    /\ RegistryInit /\ AdapterInit /\ PolicyInit
    /\ chroma = {}
    /\ op = "idle"
    /\ todo = <<>>
    /\ call = NoCall
    /\ receipt = NoReceipt
    /\ calls = 0

Items(s) == {s[n] : n \in DOMAIN s}

\* A new call of kind k on a batch.
Begin(k, ids, locals) ==
    /\ op = "idle"
    /\ calls < MaxCalls
    /\ calls' = calls + 1
    /\ op' = k
    /\ todo' = ids
    /\ call' = locals

\* The call returns or raises.
Return == op' = "idle" /\ todo' = <<>> /\ call' = NoCall /\ receipt' = NoReceipt

\* An exception leaves the service.
Raise ==
    /\ op = "raise"
    /\ Return
    /\ UNCHANGED <<registryVars, adapterVars, policyVars, chroma, calls>>

-----------------------------------------------------------------------------
(* The operations of the adapter that is in use. *)

Occupied(l) == engine = "hnswlib" /\ Hnswlib!Occupied(l)

StoreRow(l, i) ==
    /\ append_row(l)
    /\ IF engine = "client" THEN Client!remember(l, i) ELSE UNCHANGED ext
    /\ UNCHANGED <<engine, ann, mirror>>

IndexRows(labels) ==
    \/ engine = "hnswlib" /\ Hnswlib!add_items(labels)
    \/ engine = "faiss" /\ Faiss!add_with_ids(labels)
    \/ engine = "client" /\ Client!upsert_points(labels)

IndexRowsFails(labels) ==
    \/ engine = "hnswlib" /\ Hnswlib!AddItemsFails(labels)
    \/ engine = "faiss" /\ Faiss!AddFails
    \/ engine = "client" /\ Client!UpsertFails(labels)

hard_delete_label(l) ==
    \/ engine = "hnswlib" /\ Hnswlib!hard_delete_label(l)
    \/ engine = "faiss" /\ Faiss!hard_delete_label(l)
    \/ engine = "client" /\ Client!hard_delete_label(l)

compact ==
    \/ engine = "hnswlib" /\ Hnswlib!compact
    \/ engine = "faiss" /\ Faiss!compact
    \/ engine = "client" /\ Client!compact

-----------------------------------------------------------------------------
(* Adding: ChromaHardDeleteCollection.add over the add of the adapter. *)

Add(ids) ==
    /\ ids # <<>>
    /\ Begin("add", ids, [NoCall EXCEPT !.ids = ids])
    /\ UNCHANGED <<registryVars, adapterVars, policyVars, chroma, receipt>>

\* A row is taken, or the whole call raises with the rows before it kept.
AddRow ==
    /\ op = "add"
    /\ todo # <<>>
    /\ LET i == Head(todo)
           l == LabelFor(i)
       IN  /\ l \in Labels
           /\ register(i)
           /\ IF Occupied(l)
              THEN Return /\ UNCHANGED adapterVars
              ELSE /\ StoreRow(l, i)
                   /\ todo' = Tail(todo)
                   /\ call' = [call EXCEPT !.labels = Append(@, l)]
                   /\ UNCHANGED <<op, receipt>>
    /\ UNCHANGED <<policyVars, chroma, calls>>

AddIndex ==
    /\ op = "add"
    /\ todo = <<>>
    /\ \/ /\ IndexRows(Items(call.labels))
          /\ op' = "chroma_add"
          /\ UNCHANGED <<todo, call, receipt>>
       \/ IndexRowsFails(Items(call.labels)) /\ Return
    /\ UNCHANGED <<registryVars, policyVars, chroma, calls>>

\* collection.add of Chroma (external), which may raise.
ChromaAdd ==
    /\ op = "chroma_add"
    /\ Return
    /\ chroma' \in {chroma, chroma \cup Items(call.ids)}
    /\ UNCHANGED <<registryVars, adapterVars, policyVars, calls>>

\* The registry alone: POST /v1/ids/register, with or without labels.
RegisterId(i) ==
    /\ op = "idle"
    /\ calls < MaxCalls
    /\ calls' = calls + 1
    /\ register(i) \/ \E l \in Labels : register_at(i, l)
    /\ UNCHANGED <<adapterVars, policyVars, chroma, op, todo, call, receipt>>

-----------------------------------------------------------------------------
(* Deleting. *)

\* delete_strategy.py on the rows there are: a batch of a twentieth of the
\* index or more is always followed by a rebuild.
IndexSize(n) ==
    LET mapped == Cardinality({l \in Labels : reverse[l] # NoId}) + n
        rows   == Cardinality({l \in Labels : matrix[l] # "none"})
    IN  IF mapped > rows THEN mapped ELSE rows

CompactMode(arg, n, adaptive) ==
    CASE arg \in {"always", "never"} -> arg
      [] arg = "auto" /\ ~adaptive   -> "auto"
      [] OTHER -> CASE n = 0                              -> "never"
                    [] n > 0 /\ 20 * n >= IndexSize(n)    -> "always"
                    [] OTHER                              -> "auto"

\* ChromaHardDeleteCollection.delete, which is idempotent, or ErasureService.delete
\* called by itself with idempotent=False.
Delete(ids, arg, strict) ==
    /\ \E adaptive \in AdaptiveSettings :
           Begin("erase", ids,
                 [NoCall EXCEPT !.ids = ids, !.strict = strict,
                                !.arg = CompactMode(arg, Len(ids), adaptive),
                                !.asked = {forward[i] : i \in {j \in Items(ids) : Known(j)}}])
    /\ UNCHANGED <<registryVars, adapterVars, policyVars, chroma, receipt>>

Skip == call' = [call EXCEPT !.skips = @ + 1] /\ UNCHANGED <<registryVars, adapterVars>>

\* IdMappingError with idempotent=False: the batch breaks off where it is, and
\* the policy never hears of the rows it has wiped.
BreakOff ==
    /\ op' = "raise"
    /\ lost' = lost \cup Items(call.labels)
    /\ UNCHANGED <<registryVars, adapterVars, mode, pending, aged, call>>

\* Mutant: an id whose erase was refused is counted as erased.
RefuseAsDone ==
    /\ call' = [call EXCEPT !.labels = Append(@, forward[Head(todo)])]
    /\ UNCHANGED <<registryVars, adapterVars>>

Refuse == call' = [call EXCEPT !.errors = @ + 1] /\ UNCHANGED <<registryVars, adapterVars>>

Wipe(i) ==
    /\ hard_delete_label(forward[i])
    /\ call' = [call EXCEPT !.labels = Append(@, forward[i])]
    /\ IF DropMappings THEN drop(i) ELSE UNCHANGED registryVars

\* The row is wiped, but the server did not confirm that its point is gone: an
\* error, and the mapping stays.
WipeFails(i) ==
    /\ engine = "client"
    /\ Client!HardDeleteFails(forward[i])
    /\ call' = [call EXCEPT !.errors = @ + 1]
    /\ UNCHANGED registryVars

\* One id of the batch: unknown to the registry, known but without a row, or
\* wiped, verified and dropped.
EraseOne ==
    /\ op = "erase"
    /\ todo # <<>>
    /\ todo' = Tail(todo)
    /\ LET i == Head(todo)
       IN  \/ ~Known(i) /\ call.strict /\ BreakOff
           \/ /\ \/ ~Known(i) /\ ~call.strict /\ Skip
                 \/ Known(i) /\ matrix[forward[i]] = "none" /\ Refuse
                 \/ /\ Known(i) /\ matrix[forward[i]] # "none"
                    /\ Wipe(i) \/ WipeFails(i)
              /\ UNCHANGED <<policyVars, op>>
    /\ UNCHANGED <<chroma, receipt, calls>>

\* What the batch and the policy decide.
Rebuild ==
    /\ call.labels # <<>>
    /\ call.arg = "always" \/ (call.arg = "auto" /\ decide(Len(call.labels)))

Deferred ==
    call.labels # <<>> /\ call.arg = "auto" /\ mode = "coalesce" /\ ~Rebuild

\* Mutant: the policy is reset whether or not the rebuild worked.
CompactBatchEagerReset ==
    /\ op = "erase"
    /\ todo = <<>>
    /\ op' = "finish"
    /\ \/ /\ ~Rebuild
          /\ KeepPending(Len(call.labels))
          /\ call' = [call EXCEPT !.deferred = Deferred]
          /\ UNCHANGED adapterVars
       \/ /\ Rebuild
          /\ mark_compacted
          /\ \/ compact /\ call' = [call EXCEPT !.compacted = TRUE]
             \/ CompactFails /\ call' = [call EXCEPT !.compactFailed = TRUE]
    /\ UNCHANGED <<registryVars, chroma, todo, receipt, calls>>

\* The deletes are noted, and the index rebuilt, left for later, or left to
\* the next rebuild because this one raised.
CompactBatch ==
    /\ op = "erase"
    /\ todo = <<>>
    /\ op' = "finish"
    /\ \/ /\ ~Rebuild
          /\ KeepPending(Len(call.labels))
          /\ call' = [call EXCEPT !.deferred = Deferred]
          /\ UNCHANGED adapterVars
       \/ /\ Rebuild
          /\ compact
          /\ mark_compacted
          /\ call' = [call EXCEPT !.compacted = TRUE]
       \/ /\ Rebuild
          /\ CompactFails
          /\ KeepPending(Len(call.labels))
          /\ call' = [call EXCEPT !.compactFailed = TRUE]
    /\ UNCHANGED <<registryVars, chroma, todo, receipt, calls>>

\* _derive_status.
DeriveStatus(proofFailed) ==
    LET n      == Len(call.ids)
        done   == Len(call.labels)
        broken == call.errors > 0 \/ call.compactFailed \/ proofFailed
    IN  CASE n = 0 -> "complete"
          [] n > 0 /\ done = 0 ->
                 IF call.skips > 0 /\ ~broken THEN "partial" ELSE "failed"
          [] OTHER ->
                 IF done = n /\ ~broken /\ call.skips = 0 THEN "complete" ELSE "partial"

\* The residual proof reads the rows back, and scans a checkpoint file when the
\* caller names one (external: it may hold the old floats); then the receipt.
\* The mode of the proof, an argument of the call, is read here only.
Finish ==
    /\ op = "finish"
    /\ op' = "chroma_delete"
    /\ \E proof \in {"off", "full"}, stale \in BOOLEAN :
        LET rowsZero == \A n \in DOMAIN call.labels : matrix[call.labels[n]] = "zero"
            fails    == proof # "off" /\ call.labels # <<>> /\ (stale \/ ~rowsZero)
        IN  receipt' = [status |-> DeriveStatus(fails), compacted |-> call.compacted,
                        deferred |-> call.deferred]
    /\ UNCHANGED <<registryVars, adapterVars, policyVars, chroma, todo, call, calls>>

\* Mutant: Chroma forgets the ids whatever the receipt says.
ChromaDeleteAlways ==
    /\ op = "chroma_delete"
    /\ Return
    /\ chroma' = chroma \ Items(call.ids)
    /\ UNCHANGED <<registryVars, adapterVars, policyVars, calls>>

\* ChromaHardDeleteCollection.delete after the receipt; a strict call was not its.
ChromaDelete ==
    /\ op = "chroma_delete"
    /\ Return
    /\ chroma' = IF call.strict \/ (receipt.status # "complete" /\ FailClosed)
                 THEN chroma ELSE chroma \ Items(call.ids)
    /\ UNCHANGED <<registryVars, adapterVars, policyVars, calls>>

\* delete(where=...): Chroma alone, with a warning that the rows stay.
ChromaDeleteWhere ==
    /\ op = "idle"
    /\ calls < MaxCalls
    /\ calls' = calls + 1
    /\ \E matching \in SUBSET chroma : chroma' = chroma \ matching
    /\ UNCHANGED <<registryVars, adapterVars, policyVars, op, todo, call, receipt>>

\* POST /v1/admin/compact: a rebuild now, which may raise.
ForceCompact ==
    /\ op = "idle"
    /\ calls < MaxCalls
    /\ calls' = calls + 1
    /\ \/ compact /\ mark_compacted /\ UNCHANGED op
       \/ CompactFails /\ op' = "raise" /\ UNCHANGED policyVars
    /\ UNCHANGED <<registryVars, chroma, todo, call, receipt>>

TimePasses == Age /\ UNCHANGED <<registryVars, adapterVars, serviceVars>>

Next ==
    \/ \E ids \in Batches : Add(ids)
    \/ AddRow \/ AddIndex \/ ChromaAdd
    \/ \E i \in Ids : RegisterId(i)
    \/ \E ids \in Batches, arg \in {"auto", "always", "never"}, strict \in BOOLEAN :
           Delete(ids, arg, strict)
    \/ EraseOne \/ CompactBatch \/ Finish \/ ChromaDelete \/ Raise
    \/ ChromaDeleteWhere \/ ForceCompact \/ TimePasses

Spec == Init /\ [][Next]_vars

-----------------------------------------------------------------------------
(* Properties. *)

\* Between calls, every wiped row whose floats the engine or the mirror still
\* holds is owed to the compact policy, or keeps its mapping so that a retry
\* finds it ("compact is an operational optimization with pending tracked in
\* policy").  One way of losing track is there in the code, and it is the only
\* one: a batch with idempotent=False that breaks off at an unknown id, whose
\* rows are in lost until the next rebuild.
ResidueTracked ==
    op = "idle" => pending >= Cardinality({l \in Residue \ lost : reverse[l] = NoId})

\* A complete receipt means that every id of the batch stands for a wiped row
\* that no query returns (FAISS, which cannot mark, may return it until the
\* rebuild), and, unless the rebuild was put off or switched off, for floats
\* that are in none of the copies.
CompleteIsErased ==
    op = "chroma_delete" /\ receipt.status = "complete" =>
        \A l \in call.asked :
            /\ matrix[l] = "zero"
            /\ ann[l] = "live" => engine = "faiss" /\ ~receipt.compacted
            /\ receipt.compacted => l \notin Residue
            /\ ~receipt.compacted /\ ~receipt.deferred
                   => call.arg = "never" \/ mode = "never"

\* With fail_closed, a delete by ids lets Chroma forget an id only when the row
\* the id stood for has been wiped and its floats are gone, or their removal
\* was put off on purpose: no soft-delete-only state when an erase or a rebuild
\* fails.
ChromaFailsClosed ==
    [][FailClosed /\ op = "chroma_delete" /\ chroma' # chroma =>
           \A l \in call.asked :
               /\ matrix[l] = "zero"
               /\ l \in Residue => call.deferred \/ call.arg = "never" \/ mode = "never"]_vars

\* The step is a rebuild that raises, in a batch or on demand.
RebuildRaised ==
    \/ op = "erase" /\ op' = "finish" /\ call'.compactFailed
    \/ op = "idle" /\ op' = "raise"

\* What a query could find, it still finds unless it was wiped or this very
\* rebuild raised: a delete, an add or a rebuild that works takes nothing else
\* out of the index.  Two exceptions are there in the code: a vector of zeros,
\* which every rebuild takes for a wiped one, and a point that two rows go by,
\* which a client deletes for both.
OthersStaySearchable ==
    [][\A l \in Labels :
           ann[l] = "live" /\ ann'[l] # "live"
               => \/ matrix'[l] = "zero"
                  \/ matrix[l] = "blank"
                  \/ RebuildRaised
                  \/ engine = "client" /\ Client!SamePoint(l) # {l}]_vars
=============================================================================
