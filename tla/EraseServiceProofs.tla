-------------------------- MODULE EraseServiceProofs --------------------------
(***************************************************************************)
(* Proofs about EraseService, for any ids, labels, batches and calls,      *)
(* every adapter, compact policy and fault.                                *)
(***************************************************************************)
EXTENDS EraseService, FiniteSetTheorems, SequenceTheorems, TLAPS

-----------------------------------------------------------------------------
(* The inductive invariant. *)

\* The adapter: _deleted are the wiped rows, the engine has no item without a
\* row, and a client has no mirror.
RowInv ==
    /\ \A l \in Labels : l \in deleted <=> matrix[l] = "zero"
    /\ \A l \in Labels : ann[l] # "none" => matrix[l] # "none"
    /\ engine = "client" => mirror = {}

\* The rows that an add has taken so far are there.
AddInv == op = "add" => \A l \in Items(call.labels) : matrix[l] \in {"live", "blank"}

\* The rows that a delete has done are wiped, and no query finds them.
WipedInv ==
    op \in {"erase", "finish", "chroma_delete"} =>
        /\ \A l \in Items(call.labels) :
               matrix[l] = "zero" /\ (ann[l] = "live" => engine = "faiss" /\ ~call.compacted)
        /\ call.ids = <<>> => call.asked = {}

\* Without a skip or an error, a label the caller meant is done or still to do.
LoopInv ==
    op = "erase" =>
        /\ ~call.compacted /\ ~call.compactFailed /\ ~call.deferred
        /\ call.skips = 0 /\ call.errors = 0 =>
               \A l \in call.asked :
                   l \in Items(call.labels) \/ \E j \in Items(todo) : forward[j] = l

\* After the loop they are all done, and rebuilt, put off, or kept out of a
\* rebuild by the caller or the configuration.
AfterInv ==
    op \in {"finish", "chroma_delete"} =>
        /\ call.skips = 0 /\ call.errors = 0 => call.asked \subseteq Items(call.labels)
        /\ call.compacted => \A l \in Items(call.labels) : l \notin Residue
        /\ call.labels # <<>> /\ ~call.compacted /\ ~call.compactFailed /\ ~call.deferred
               => call.arg = "never" \/ mode = "never"

\* What a complete receipt says of the call.
ReceiptInv ==
    op = "chroma_delete" =>
        /\ receipt.compacted = call.compacted /\ receipt.deferred = call.deferred
        /\ receipt.status = "complete" =>
               \/ call.ids = <<>>
               \/ /\ call.labels # <<>> /\ call.skips = 0 /\ call.errors = 0
                  /\ ~call.compactFailed

\* Wiped rows with floats left and without a mapping, but for those of the running
\* batch, which the policy is told of at the end: never more than it knows of.
Untracked == {l \in Residue \ lost : reverse[l] = NoId
                                      /\ (op = "erase" => l \notin Items(call.labels))}

ServiceIndInv ==
    /\ TypeOK /\ MappingsAgree
    /\ RowInv /\ AddInv /\ WipedInv /\ LoopInv /\ AfterInv /\ ReceiptInv
    /\ Cardinality(Untracked) <= pending

USE IdsAssumption, NumLabelsAssumption, EnginesAssumption, PolicyAssumption, ServiceAssumption
    DEF registryVars, adapterVars, policyVars, serviceVars, NoLabel

-----------------------------------------------------------------------------
(* The registry. *)

LEMMA RegistryBind ==
    ASSUME RegistryType, MappingsAgree, NEW i \in Ids, NEW l \in Labels,
           ~Known(i), reverse[l] = NoId, Bind(i, l), nextLabel' \in 0 .. NumLabels,
           nextLabel <= nextLabel', l < nextLabel'
    PROVE  RegistryType' /\ MappingsAgree'
  BY DEF RegistryType, MappingsAgree, Known, Bind, Labels

LEMMA RegistryStep ==
    ASSUME RegistryType, MappingsAgree, NEW i \in Ids,
           register(i) \/ \E l \in Labels : register_at(i, l)
    PROVE  /\ RegistryType' /\ MappingsAgree'
           /\ \A l \in Labels : reverse[l] # NoId => reverse'[l] # NoId
<1>1. CASE UNCHANGED registryVars
  BY <1>1 DEF RegistryType, MappingsAgree
<1>2. CASE /\ ~Known(i) /\ nextLabel \in Labels /\ Bind(i, nextLabel) /\ nextLabel' = nextLabel + 1
  <2>1. reverse[nextLabel] = NoId /\ nextLabel' \in 0 .. NumLabels
    BY <1>2 DEF MappingsAgree, RegistryType, Labels
  <2>2. RegistryType' /\ MappingsAgree'
    BY <1>2, <2>1, RegistryBind DEF RegistryType
  <2> QED BY <1>2, <2>2 DEF Bind, RegistryType
<1>3. ASSUME NEW l \in Labels, register_at(i, l)
      PROVE  RegistryType' /\ MappingsAgree' /\ \A k \in Labels : reverse[k] # NoId => reverse'[k] # NoId
  <2>1. nextLabel' \in 0 .. NumLabels /\ nextLabel <= nextLabel' /\ l < nextLabel'
    BY <1>3 DEF register_at, RegistryType, Labels
  <2>2. RegistryType' /\ MappingsAgree'
    BY <1>3, <2>1, RegistryBind DEF register_at
  <2> QED BY <1>3, <2>2 DEF register_at, Bind, RegistryType
<1> QED BY <1>1, <1>2, <1>3 DEF register

LEMMA RegistryDrop ==
    ASSUME RegistryType, MappingsAgree, NEW i \in Ids, Known(i), drop(i)
    PROVE  /\ RegistryType' /\ MappingsAgree'
           /\ \A j \in Ids \ {i} : forward'[j] = forward[j]
           /\ \A l \in Labels \ {forward[i]} : reverse'[l] = reverse[l]
<1>1. PICK l \in Labels : l = forward[i]
  BY DEF RegistryType, Known
<1>2. /\ forward' = [forward EXCEPT ![i] = NoLabel] /\ reverse' = [reverse EXCEPT ![l] = NoId]
      /\ nextLabel' = nextLabel
  BY <1>1 DEF drop
<1>3. RegistryType'
  BY <1>2 DEF RegistryType
<1>4. /\ forward'[i] = NoLabel /\ \A j \in Ids \ {i} : forward'[j] = forward[j]
      /\ reverse'[l] = NoId /\ \A k \in Labels \ {l} : reverse'[k] = reverse[k]
  BY <1>2 DEF RegistryType
<1>5. ASSUME NEW j \in Ids, NEW k \in Labels PROVE forward'[j] = k <=> reverse'[k] = j
  <2>1. k # NoLabel /\ j # NoId
    BY DEF Labels
  <2>2. (forward[j] = k <=> reverse[k] = j) /\ reverse[l] = i
    BY <1>1 DEF MappingsAgree
  <2>3. CASE k = l
    BY <1>4, <2>1, <2>2, <2>3
  <2>4. CASE k # l
    BY <1>1, <1>4, <2>1, <2>2, <2>4
  <2> QED BY <2>3, <2>4
<1>6. \A k \in Labels : k >= nextLabel' => reverse'[k] = NoId
  BY <1>2, <1>4 DEF MappingsAgree
<1> QED BY <1>1, <1>3, <1>4, <1>5, <1>6 DEF MappingsAgree

-----------------------------------------------------------------------------
(* The adapters. *)

\* What no operation of an adapter does to other rows, if it works: take them
\* out of what queries find.
KeepsOthers ==
    \A l \in Labels :
        ann[l] = "live" /\ ann'[l] # "live"
            => \/ matrix'[l] = "zero" \/ matrix[l] = "blank"
               \/ engine = "client" /\ Client!SamePoint(l) # {l}

\* A row is wiped.
LEMMA WipeEffect ==
    ASSUME AdapterType, RowInv, NEW l \in Labels,
           hard_delete_label(l) \/ (engine = "client" /\ Client!HardDeleteFails(l))
    PROVE  /\ AdapterType' /\ RowInv' /\ KeepsOthers
           /\ engine' = engine /\ matrix' = [matrix EXCEPT ![l] = "zero"]
           /\ \A k \in Labels : ann'[k] = "live" => ann[k] = "live"
           /\ Residue' \subseteq Residue \cup {l}
           /\ hard_delete_label(l) /\ ann'[l] = "live" => engine = "faiss"
<1>1. /\ engine' = engine /\ ext' = ext
      /\ matrix' = [matrix EXCEPT ![l] = "zero"] /\ deleted' = deleted \cup {l}
  BY DEF hard_delete_label, Hnswlib!hard_delete_label, Faiss!hard_delete_label,
         Client!hard_delete_label, Client!HardDeleteFails,
         Hnswlib!ZeroRow, Faiss!ZeroRow, Client!ZeroRow
<1>2. mirror' = mirror \/ (engine # "client" /\ mirror' = mirror \ {l})
  BY DEF hard_delete_label, Hnswlib!hard_delete_label, Faiss!hard_delete_label,
         Client!hard_delete_label, Client!HardDeleteFails, Hnswlib!EraseMirror, Faiss!EraseMirror
<1>3. \/ ann' = ann /\ engine \in {"faiss", "client"} /\ (hard_delete_label(l) => engine = "faiss")
      \/ ann' = [ann EXCEPT ![l] = IF @ = "live" THEN "marked" ELSE @]
      \/ ann' = [ann EXCEPT ![l] = "none"]
      \/ engine = "client" /\ ann' = [k \in Labels |-> IF k \in Client!SamePoint(l) THEN "none" ELSE ann[k]]
  <2>1. CASE engine = "hnswlib" /\ Hnswlib!hard_delete_label(l)
    BY <2>1 DEF Hnswlib!hard_delete_label
  <2>2. CASE engine = "faiss" /\ Faiss!hard_delete_label(l)
    BY <2>2 DEF Faiss!hard_delete_label, Faiss!remove_ids
  <2>3. CASE engine = "client" /\ Client!hard_delete_label(l)
    BY <2>3 DEF Client!hard_delete_label, Client!Labels, Labels
  <2>4. CASE engine = "client" /\ Client!HardDeleteFails(l) /\ ~hard_delete_label(l)
    BY <2>4 DEF Client!HardDeleteFails, Client!Labels, Labels
  <2> QED BY <2>1, <2>2, <2>3, <2>4 DEF hard_delete_label
<1>4. l \in Client!SamePoint(l)
  BY DEF Client!SamePoint, Client!Labels, Labels
<1>5. /\ ann' \in [Labels -> {"none", "live", "marked"}]
      /\ \A k \in Labels : ann'[k] = "live" => ann[k] = "live"
      /\ \A k \in Labels \ {l} : ann'[k] = ann[k] \/ (engine = "client" /\ k \in Client!SamePoint(l))
      /\ \A k \in Labels : ann'[k] # "none" => ann[k] # "none"
      /\ hard_delete_label(l) /\ ann'[l] = "live" => engine = "faiss"
  <2>1. CASE ann' = ann
    BY <1>3, <1>4, <2>1 DEF AdapterType
  <2>2. CASE ann' = [ann EXCEPT ![l] = IF @ = "live" THEN "marked" ELSE @]
    BY <2>2 DEF AdapterType
  <2>3. CASE ann' = [ann EXCEPT ![l] = "none"]
    BY <2>3 DEF AdapterType
  <2>4. CASE engine = "client" /\ ann' = [k \in Labels |-> IF k \in Client!SamePoint(l) THEN "none" ELSE ann[k]]
    BY <1>4, <2>4 DEF AdapterType
  <2> QED BY <1>3, <2>1, <2>2, <2>3, <2>4
<1>6. matrix'[l] = "zero" /\ \A k \in Labels \ {l} : matrix'[k] = matrix[k]
  BY <1>1 DEF AdapterType
<1>7. AdapterType'
  BY <1>1, <1>2, <1>5 DEF AdapterType
<1>8. RowInv'
  <2>1. \A k \in Labels : k \in deleted' <=> matrix'[k] = "zero"
    BY <1>1, <1>6 DEF RowInv
  <2>2. \A k \in Labels : ann'[k] # "none" => matrix'[k] # "none"
    BY <1>5, <1>6 DEF RowInv
  <2> QED BY <1>1, <1>2, <2>1, <2>2 DEF RowInv
<1>9. KeepsOthers
  <2>1. ASSUME NEW k \in Labels \ {l}, k \in Client!SamePoint(l)
        PROVE  Client!SamePoint(k) # {k}
    BY <2>1 DEF Client!SamePoint, Client!Labels, Labels
  <2> QED BY <1>5, <1>6, <2>1 DEF KeepsOthers
<1>10. Residue' \subseteq Residue \cup {l}
  BY <1>2, <1>5, <1>6 DEF Residue
<1> QED BY <1>1, <1>5, <1>7, <1>8, <1>9, <1>10

\* The engine is rebuilt: nothing is left of any wiped row.
LEMMA CompactEffect ==
    ASSUME AdapterType, RowInv, compact
    PROVE  /\ AdapterType' /\ RowInv' /\ KeepsOthers
           /\ engine' = engine /\ matrix' = matrix
           /\ \A k \in Labels : matrix[k] = "zero" => ann'[k] = "none"
           /\ Residue' = {}
  BY DEF compact, Hnswlib!compact, Faiss!compact, Client!compact, Hnswlib!OnlyRows,
         Faiss!OnlyRows, Client!OnlyRows, Hnswlib!LiveRows, Faiss!LiveRows, Client!LiveRows,
         Hnswlib!Labels, Faiss!Labels, Client!Labels, Labels,
         AdapterType, RowInv, KeepsOthers, Residue

\* A rebuild that raises leaves no more of them than there was.
LEMMA CompactFailsEffect ==
    ASSUME AdapterType, RowInv, CompactFails
    PROVE  /\ AdapterType' /\ RowInv'
           /\ engine' = engine /\ matrix' = matrix
           /\ \A k \in Labels : matrix[k] = "zero" => ann'[k] \in {ann[k], "none"}
           /\ Residue' \subseteq Residue
  BY DEF CompactFails, OnlyRows, LiveRows, AdapterType, RowInv, Residue

\* The engine takes rows that were added, or some of them.
LEMMA IndexRowsEffect ==
    ASSUME AdapterType, RowInv, NEW S \in SUBSET Labels,
           \A l \in S : matrix[l] \in {"live", "blank"},
           IndexRows(S) \/ IndexRowsFails(S)
    PROVE  /\ AdapterType' /\ RowInv' /\ KeepsOthers
           /\ engine' = engine /\ matrix' = matrix
           /\ Residue' \subseteq Residue
<1>1. UNCHANGED <<engine, matrix, deleted, ext>>
  BY DEF IndexRows, IndexRowsFails, Hnswlib!add_items, Faiss!add_with_ids, Client!upsert_points,
         Hnswlib!AddItemsFails, Faiss!AddFails, Client!UpsertFails, Faiss!adapterVars
<1>2. mirror' = mirror \/ (engine # "client" /\ mirror' = LiveRows)
  BY DEF IndexRows, IndexRowsFails, Hnswlib!add_items, Faiss!add_with_ids, Client!upsert_points,
         Hnswlib!AddItemsFails, Faiss!AddFails, Client!UpsertFails, Faiss!adapterVars,
         Hnswlib!LiveRows, Faiss!LiveRows, LiveRows, Hnswlib!Labels, Faiss!Labels, Labels
<1>3. \/ \E T \in SUBSET S : ann' = [l \in Labels |-> IF l \in T THEN "live" ELSE ann[l]]
      \/ ann' = ann
      \/ engine = "client" /\ ann' = Client!Upserted(S)
  <2>1. CASE engine = "hnswlib" /\ (Hnswlib!add_items(S) \/ Hnswlib!AddItemsFails(S))
    BY <2>1 DEF Hnswlib!add_items, Hnswlib!AddItemsFails, Hnswlib!Labels, Labels
  <2>2. CASE engine = "faiss" /\ (Faiss!add_with_ids(S) \/ Faiss!AddFails)
    BY <2>2 DEF Faiss!add_with_ids, Faiss!AddFails, Faiss!adapterVars, Faiss!Labels, Labels
  <2>3. CASE engine = "client" /\ (Client!upsert_points(S) \/ Client!UpsertFails(S))
    BY <2>3 DEF Client!upsert_points, Client!UpsertFails
  <2> QED BY <2>1, <2>2, <2>3 DEF IndexRows, IndexRowsFails
<1>4. /\ ann' \in [Labels -> {"none", "live", "marked"}]
      /\ \A l \in Labels : ann'[l] \in {ann[l], "none"} \/ l \in S
      /\ \A l \in Labels : ann[l] = "live" /\ ann'[l] # "live" =>
             engine = "client" /\ Client!SamePoint(l) # {l}
  <2>1. CASE \E T \in SUBSET S : ann' = [l \in Labels |-> IF l \in T THEN "live" ELSE ann[l]]
    BY <2>1 DEF AdapterType
  <2>2. CASE ann' = ann
    BY <2>2 DEF AdapterType
  <2>3. CASE engine = "client" /\ ann' = Client!Upserted(S)
    <3>1. \A l \in Labels : ann'[l] = IF l \in S THEN "live"
                  ELSE IF \E k \in S : l \in Client!SamePoint(k) THEN "none" ELSE ann[l]
      BY <2>3 DEF Client!Upserted, Client!Labels, Labels
    <3>2. ann' \in [Labels -> {"none", "live", "marked"}]
      BY <2>3 DEF Client!Upserted, Client!Labels, Labels, AdapterType
    <3>3. ASSUME NEW l \in Labels \ S, NEW k \in S, l \in Client!SamePoint(k)
          PROVE  Client!SamePoint(l) # {l}
      BY <3>3 DEF Client!SamePoint, Client!Labels, Labels
    <3> QED BY <2>3, <3>1, <3>2, <3>3
  <2> QED BY <1>3, <2>1, <2>2, <2>3
<1>5. AdapterType'
  BY <1>1, <1>2, <1>4 DEF AdapterType, LiveRows
<1>6. RowInv'
  BY <1>1, <1>2, <1>4 DEF RowInv
<1>7. KeepsOthers
  BY <1>4 DEF KeepsOthers
<1>8. Residue' \subseteq Residue
  BY <1>1, <1>2, <1>4 DEF Residue, LiveRows
<1> QED BY <1>1, <1>5, <1>6, <1>7, <1>8

-----------------------------------------------------------------------------
(* Batches, calls and counts. *)

LEMMA ItemsEmpty == Items(<<>>) = {}
  BY DEF Items

LEMMA ItemsLabels ==
    ASSUME NEW s \in Seq(Labels)
    PROVE  Items(s) \in SUBSET Labels /\ (s = <<>> <=> Len(s) = 0) /\ Len(s) \in Nat
  BY DEF Items

LEMMA BatchHead ==
    ASSUME NEW s \in Batches, s # <<>>
    PROVE  /\ Head(s) \in Ids /\ Tail(s) \in Batches
           /\ Items(s) = {Head(s)} \cup Items(Tail(s))
<1>1. PICK n \in 0 .. MaxBatch : s \in [1 .. n -> Ids]
  BY DEF Batches
<1>2. s \in Seq(Ids) /\ Len(s) = n
  BY <1>1
<1>3. n # 0
  BY <1>2
<1>4. /\ Head(s) \in Ids /\ Tail(s) \in Seq(Ids) /\ Len(Tail(s)) = n - 1
      /\ Head(s) = s[1] /\ \A m \in 1 .. (n - 1) : Tail(s)[m] = s[m + 1]
  BY <1>2, HeadTailProperties
<1>5. n - 1 \in 0 .. MaxBatch /\ Tail(s) \in [1 .. (n - 1) -> Ids]
  <2>1. Tail(s) \in [1 .. Len(Tail(s)) -> Ids]
    BY <1>4, LenProperties
  <2> QED BY <1>3, <1>4, <2>1
<1>6. Tail(s) \in Batches
  BY <1>5 DEF Batches
<1>7. Items(s) = {Head(s)} \cup Items(Tail(s))
  <2>1. DOMAIN s = 1 .. n /\ DOMAIN Tail(s) = 1 .. (n - 1)
    BY <1>1, <1>5
  <2>2. ASSUME NEW m \in 1 .. n PROVE s[m] = Head(s) \/ \E k \in 1 .. (n - 1) : s[m] = Tail(s)[k]
    <3>1. CASE m = 1
      BY <1>4, <3>1
    <3>2. CASE m # 1
      <4>1. m - 1 \in 1 .. (n - 1) /\ Tail(s)[m - 1] = s[m]
        BY <1>4, <3>2
      <4> QED BY <4>1
    <3> QED BY <3>1, <3>2
  <2>3. \A k \in 1 .. (n - 1) : k + 1 \in 1 .. n /\ Tail(s)[k] = s[k + 1]
    BY <1>4
  <2>4. 1 \in 1 .. n
    BY <1>3
  <2>5. Items(s) \subseteq {Head(s)} \cup Items(Tail(s))
    BY <2>1, <2>2 DEF Items
  <2>6. Head(s) \in Items(s) /\ Items(Tail(s)) \subseteq Items(s)
    BY <1>4, <2>1, <2>3, <2>4 DEF Items
  <2> QED BY <2>5, <2>6
<1> QED BY <1>4, <1>6, <1>7

LEMMA BatchItems ==
    ASSUME NEW s \in Batches
    PROVE  Items(s) \in SUBSET Ids
  BY DEF Batches, Items

LEMMA LabelsAppend ==
    ASSUME NEW s \in Seq(Labels), NEW l \in Labels
    PROVE  /\ Append(s, l) \in Seq(Labels) /\ Len(Append(s, l)) = Len(s) + 1
           /\ Items(Append(s, l)) = Items(s) \cup {l}
<1>1. /\ Append(s, l) \in Seq(Labels) /\ Len(Append(s, l)) = Len(s) + 1
      /\ \A n \in 1 .. Len(s) : Append(s, l)[n] = s[n]
      /\ Append(s, l)[Len(s) + 1] = l /\ Len(s) \in Nat
  OBVIOUS
<1>2. DOMAIN s = 1 .. Len(s) /\ DOMAIN Append(s, l) = 1 .. (Len(s) + 1)
  BY <1>1
<1>3. \A n \in 1 .. (Len(s) + 1) : n \in 1 .. Len(s) \/ n = Len(s) + 1
  BY <1>1
<1> QED BY <1>1, <1>2, <1>3 DEF Items

LEMMA CallTypes ==
    /\ NoCall \in Calls /\ <<>> \in Batches
    /\ \A ids \in Batches : [NoCall EXCEPT !.ids = ids] \in Calls
<1>1. <<>> \in Batches
  <2>1. <<>> \in [1 .. 0 -> Ids] /\ 0 \in 0 .. MaxBatch
    OBVIOUS
  <2> QED BY <2>1 DEF Batches
<1>2. NoCall \in Calls
  BY <1>1 DEF NoCall, Calls
<1> QED BY <1>1, <1>2 DEF Calls

\* Sets of labels are finite.
LEMMA Fewer ==
    ASSUME NEW S \in SUBSET Labels, NEW T \in SUBSET S
    PROVE  Cardinality(S) \in Nat /\ Cardinality(T) \in Nat /\ Cardinality(T) <= Cardinality(S)
<1>1. IsFiniteSet(Labels)
  BY FS_Interval DEF Labels
<1>2. IsFiniteSet(S)
  BY <1>1, FS_Subset
<1> QED BY <1>2, FS_Subset, FS_CardinalityType

\* A batch has no more labels than entries.
LEMMA ItemsCount ==
    ASSUME NEW s \in Seq(Labels), NEW S \in SUBSET Labels, NEW T \in SUBSET (S \cup Items(s))
    PROVE  /\ Cardinality(T) <= Cardinality(S) + Len(s)
           /\ Cardinality(S) \in Nat /\ Cardinality(T) \in Nat
<1>1. IsFiniteSet(Labels)
  BY FS_Interval DEF Labels
<1>2. IsFiniteSet(S) /\ Cardinality(S) \in Nat
  BY <1>1, FS_Subset, FS_CardinalityType
<1>3. IsFiniteSet(Items(s)) /\ Cardinality(Items(s)) \in Nat
  BY <1>1, ItemsLabels, FS_Subset, FS_CardinalityType
<1>4. Cardinality(Items(s)) <= Len(s) /\ Len(s) \in Nat
  <2>1. Len(s) \in Nat /\ s \in [1 .. Len(s) -> Items(s)] /\ \A t \in Items(s) : \E n \in 1 .. Len(s) : s[n] = t
    BY DEF Items
  <2>2. s \in Surjection(1 .. Len(s), Items(s))
    BY <2>1 DEF Surjection
  <2>3. ExistsSurjection(1 .. Len(s), Items(s))
    BY <2>2 DEF ExistsSurjection
  <2> QED BY <2>1, <2>3, FS_SurjCardinalityBound
<1>5. /\ IsFiniteSet(S \cup Items(s)) /\ Cardinality(S \cup Items(s)) \in Nat
      /\ Cardinality(S \cup Items(s)) <= Cardinality(S) + Cardinality(Items(s))
  <2>1. IsFiniteSet(S \cap Items(s)) /\ Cardinality(S \cap Items(s)) \in Nat
    BY <1>2, FS_Subset, FS_CardinalityType
  <2>2. /\ IsFiniteSet(S \cup Items(s))
        /\ Cardinality(S \cup Items(s)) = Cardinality(S) + Cardinality(Items(s)) - Cardinality(S \cap Items(s))
    BY <1>2, <1>3, FS_Union
  <2>3. Cardinality(S \cup Items(s)) \in Nat
    BY <2>2, FS_CardinalityType
  <2> QED BY <1>2, <1>3, <2>1, <2>2, <2>3
<1>6. Cardinality(T) <= Cardinality(S \cup Items(s)) /\ Cardinality(T) \in Nat
  BY <1>5, FS_Subset, FS_CardinalityType
<1> QED BY <1>2, <1>3, <1>4, <1>5, <1>6

-----------------------------------------------------------------------------
(* What steps have in common. *)

LEMMA StaysTracked ==
    ASSUME ServiceIndInv, pending' = pending, Untracked' \subseteq Untracked
    PROVE  Cardinality(Untracked') <= pending'
<1>1. Untracked \in SUBSET Labels
  BY DEF Untracked, Residue
<1>2. /\ Cardinality(Untracked') <= Cardinality(Untracked)
      /\ Cardinality(Untracked') \in Nat /\ Cardinality(Untracked) \in Nat
  BY <1>1, Fewer
<1> QED BY <1>2 DEF ServiceIndInv, TypeOK, PolicyType

\* Outside the loop, nothing is owed that was not.
LEMMA OweNoMore ==
    ASSUME ServiceIndInv, op # "erase", UNCHANGED policyVars,
           Residue' \subseteq Residue,
           \A l \in Labels : reverse[l] # NoId => reverse'[l] # NoId
    PROVE  Cardinality(Untracked') <= pending'
<1>1. Untracked' \subseteq Untracked
  BY DEF Untracked, Residue
<1> QED BY <1>1, StaysTracked

\* Between calls nothing is said about one.
LEMMA BetweenCalls ==
    ASSUME op' \in {"idle", "chroma_add", "raise"}
    PROVE  AddInv' /\ WipedInv' /\ LoopInv' /\ AfterInv' /\ ReceiptInv'
  BY DEF AddInv, WipedInv, LoopInv, AfterInv, ReceiptInv

\* What the service changes on top of registry, adapter and policy.
ServiceType ==
    /\ lost \in SUBSET Labels
    /\ chroma \in SUBSET Ids
    /\ op \in {"idle", "add", "chroma_add", "erase", "finish", "chroma_delete", "raise"}
    /\ todo \in Batches
    /\ call \in Calls
    /\ receipt \in [status: {"complete", "partial", "failed"}, compacted: BOOLEAN,
                    deferred: BOOLEAN]
    /\ calls \in 0 .. MaxCalls

LEMMA TypeParts ==
    /\ TypeOK <=> RegistryType /\ AdapterType /\ PolicyType /\ ServiceType
    /\ TypeOK' <=> RegistryType' /\ AdapterType' /\ PolicyType' /\ ServiceType'
  BY DEF TypeOK, ServiceType

\* Registry, adapter or policy as they were.
LEMMA SameRegistry ==
    ASSUME ServiceIndInv, UNCHANGED registryVars
    PROVE  /\ RegistryType' /\ MappingsAgree'
           /\ \A l \in Labels : reverse'[l] = reverse[l]
  BY DEF ServiceIndInv, TypeOK, RegistryType, MappingsAgree

LEMMA SameAdapter ==
    ASSUME ServiceIndInv, UNCHANGED adapterVars
    PROVE  AdapterType' /\ RowInv' /\ Residue' = Residue /\ KeepsOthers
  BY DEF ServiceIndInv, TypeOK, AdapterType, RowInv, Residue, KeepsOthers

LEMMA SamePolicy ==
    ASSUME ServiceIndInv, UNCHANGED policyVars
    PROVE  PolicyType'
  BY DEF ServiceIndInv, TypeOK, PolicyType

\* The call ends.
LEMMA ReturnStep ==
    ASSUME ServiceIndInv, Return, op # "erase",
           RegistryType', MappingsAgree', AdapterType', RowInv', UNCHANGED <<policyVars, calls>>,
           chroma' \in SUBSET Ids, Residue' \subseteq Residue,
           \A l \in Labels : reverse[l] # NoId => reverse'[l] # NoId
    PROVE  ServiceIndInv'
<1>1. op' = "idle" /\ todo' = <<>> /\ call' = NoCall /\ receipt' = NoReceipt
  BY DEF Return
<1>2. ServiceType'
  BY <1>1, CallTypes DEF ServiceIndInv, TypeOK, ServiceType, NoReceipt
<1>3. AddInv' /\ WipedInv' /\ LoopInv' /\ AfterInv' /\ ReceiptInv'
  BY <1>1, BetweenCalls
<1>4. Cardinality(Untracked') <= pending'
  BY <1>1, OweNoMore
<1> QED BY <1>2, <1>3, <1>4, SamePolicy, TypeParts DEF ServiceIndInv

\* A call of the service that runs through between two others.
LEMMA ShortStep ==
    ASSUME ServiceIndInv, op = "idle", op' \in {"idle", "raise"},
           UNCHANGED <<todo, call, receipt>>, calls' = calls + 1,
           calls < MaxCalls, lost' \in SUBSET Labels,
           RegistryType', MappingsAgree', AdapterType', RowInv', PolicyType', chroma' \in SUBSET Ids,
           Cardinality(Untracked') <= pending'
    PROVE  ServiceIndInv'
<1>1. ServiceType'
  BY DEF ServiceIndInv, TypeOK, ServiceType
<1>2. AddInv' /\ WipedInv' /\ LoopInv' /\ AfterInv' /\ ReceiptInv'
  BY BetweenCalls
<1> QED BY <1>1, <1>2, TypeParts DEF ServiceIndInv

-----------------------------------------------------------------------------
(* Adding. *)

LEMMA AddStep ==
    ASSUME ServiceIndInv, NEW ids \in Batches, Add(ids)
    PROVE  ServiceIndInv'
<1>1. /\ op = "idle" /\ calls < MaxCalls /\ calls' = calls + 1 /\ op' = "add" /\ todo' = ids
      /\ call' = [NoCall EXCEPT !.ids = ids]
      /\ UNCHANGED <<registryVars, adapterVars, policyVars, chroma, receipt>>
  BY DEF Add, Begin
<1>2. call' \in Calls /\ call'.labels = <<>>
  BY <1>1, CallTypes DEF NoCall
<1>3. ServiceType'
  BY <1>1, <1>2 DEF ServiceIndInv, TypeOK, ServiceType
<1>4. AddInv' /\ WipedInv' /\ LoopInv' /\ AfterInv' /\ ReceiptInv'
  BY <1>1, <1>2, ItemsEmpty DEF AddInv, WipedInv, LoopInv, AfterInv, ReceiptInv
<1>5. /\ RegistryType' /\ MappingsAgree' /\ AdapterType' /\ RowInv' /\ PolicyType'
      /\ Residue' = Residue /\ \A l \in Labels : reverse'[l] = reverse[l]
  BY <1>1, SameRegistry, SameAdapter, SamePolicy
<1>6. Cardinality(Untracked') <= pending'
  BY <1>1, <1>5, OweNoMore
<1> QED BY <1>3, <1>4, <1>5, <1>6, TypeParts DEF ServiceIndInv

LEMMA AddRowStep ==
    ASSUME ServiceIndInv, AddRow
    PROVE  ServiceIndInv'
<1> DEFINE i == Head(todo)
           l == LabelFor(i)
<1>1. /\ op = "add" /\ todo # <<>> /\ l \in Labels /\ register(i)
      /\ UNCHANGED <<policyVars, chroma, calls>>
  BY DEF AddRow
<1>2. i \in Ids /\ Tail(todo) \in Batches
  BY <1>1, BatchHead DEF ServiceIndInv, TypeOK
<1>3. RegistryType' /\ MappingsAgree' /\ \A k \in Labels : reverse[k] # NoId => reverse'[k] # NoId
  BY <1>1, <1>2, RegistryStep DEF ServiceIndInv, TypeOK
<1>4. CASE Return /\ UNCHANGED adapterVars
  BY <1>1, <1>3, <1>4, SameAdapter, ReturnStep DEF ServiceIndInv, TypeOK
<1>5. CASE StoreRow(l, i) /\ todo' = Tail(todo) /\ UNCHANGED op
           /\ call' = [call EXCEPT !.labels = Append(@, l)] /\ UNCHANGED receipt
  <2> HIDE DEF l
  <2>0. PICK row \in {"live", "blank"} : matrix' = [matrix EXCEPT ![l] = row]
    BY <1>5 DEF StoreRow, append_row
  <2>1. /\ matrix' = [matrix EXCEPT ![l] = row] /\ deleted' = deleted \ {l}
        /\ UNCHANGED <<engine, ann, mirror>> /\ ext' \in [Labels -> Ids \cup {NoId}]
    <3>1. ext \in [Labels -> Ids \cup {NoId}]
      BY DEF ServiceIndInv, TypeOK, AdapterType
    <3>2. ext' = ext \/ ext' = [ext EXCEPT ![l] = i]
      BY <1>5 DEF StoreRow, Client!remember
    <3>3. ext' \in [Labels -> Ids \cup {NoId}]
      BY <1>1, <1>2, <3>1, <3>2
    <3> QED BY <1>5, <2>0, <3>3 DEF StoreRow, append_row
  <2>a. matrix'[l] = row /\ \A k \in Labels \ {l} : matrix'[k] = matrix[k]
    BY <1>1, <2>1 DEF ServiceIndInv, TypeOK, AdapterType
  <2>b. AdapterType'
    BY <1>1, <2>1 DEF ServiceIndInv, TypeOK, AdapterType
  <2>c. RowInv'
    BY <2>1, <2>a DEF ServiceIndInv, RowInv
  <2>d. Residue' \subseteq Residue
    BY <2>1, <2>a DEF Residue
  <2>2. AdapterType' /\ RowInv' /\ Residue' \subseteq Residue
    BY <2>b, <2>c, <2>d
  <2>3. call \in Calls /\ call.labels \in Seq(Labels)
    BY DEF ServiceIndInv, TypeOK, Calls
  <2>4. PICK L \in Seq(Labels) : L = Append(call.labels, l) /\ Items(L) = Items(call.labels) \cup {l}
    BY <1>1, <2>3, LabelsAppend
  <2>5. call' = [call EXCEPT !.labels = L]
    BY <1>5, <2>4
  <2>6. call' \in Calls /\ call'.labels = L
    BY <2>3, <2>5 DEF Calls
  <2>7. ServiceType'
    BY <1>1, <1>2, <1>5, <2>6 DEF ServiceIndInv, TypeOK, ServiceType
  <2>8. op' = "add"
    BY <1>1, <1>5
  <2>9. AddInv'
    <3>1. \A k \in Items(call.labels) : k \in Labels /\ matrix[k] \in {"live", "blank"}
      BY <1>1, <2>3, ItemsLabels DEF ServiceIndInv, AddInv
    <3> QED BY <1>1, <2>1, <2>4, <2>6, <3>1 DEF ServiceIndInv, TypeOK, AdapterType, AddInv
  <2>10. WipedInv' /\ LoopInv' /\ AfterInv' /\ ReceiptInv'
    BY <2>8 DEF WipedInv, LoopInv, AfterInv, ReceiptInv
  <2>11. Cardinality(Untracked') <= pending'
    BY <1>1, <1>3, <2>2, <2>8, OweNoMore
  <2> QED BY <1>1, <1>3, <2>2, <2>7, <2>9, <2>10, <2>11, SamePolicy, TypeParts DEF ServiceIndInv
<1> QED BY <1>4, <1>5 DEF AddRow

LEMMA AddIndexStep ==
    ASSUME ServiceIndInv, AddIndex
    PROVE  ServiceIndInv'
<1> DEFINE S == Items(call.labels)
<1>1. op = "add" /\ UNCHANGED <<registryVars, policyVars, chroma, calls>>
  BY DEF AddIndex
<1>2. S \in SUBSET Labels /\ \A l \in S : matrix[l] \in {"live", "blank"}
  BY <1>1, ItemsLabels DEF ServiceIndInv, TypeOK, Calls, AddInv
<1>3. IndexRows(S) \/ IndexRowsFails(S)
  BY DEF AddIndex
<1> HIDE DEF S
<1>4. AdapterType' /\ RowInv' /\ Residue' \subseteq Residue
  BY <1>2, <1>3, IndexRowsEffect DEF ServiceIndInv, TypeOK
<1>5. /\ RegistryType' /\ MappingsAgree' /\ chroma' \in SUBSET Ids
      /\ \A l \in Labels : reverse[l] # NoId => reverse'[l] # NoId
  BY <1>1, SameRegistry DEF ServiceIndInv, TypeOK
<1>6. CASE Return
  BY <1>1, <1>4, <1>5, <1>6, ReturnStep
<1>7. CASE op' = "chroma_add" /\ UNCHANGED <<todo, call, receipt>>
  <2>1. ServiceType'
    BY <1>1, <1>7 DEF ServiceIndInv, TypeOK, ServiceType
  <2>2. AddInv' /\ WipedInv' /\ LoopInv' /\ AfterInv' /\ ReceiptInv'
    BY <1>7, BetweenCalls
  <2>3. Cardinality(Untracked') <= pending'
    BY <1>1, <1>4, <1>5, <1>7, OweNoMore
  <2> QED BY <1>1, <1>4, <1>5, <2>1, <2>2, <2>3, SamePolicy, TypeParts DEF ServiceIndInv
<1> QED BY <1>6, <1>7 DEF AddIndex

LEMMA ChromaStep ==
    ASSUME ServiceIndInv, ChromaAdd \/ ChromaDelete \/ Raise
    PROVE  ServiceIndInv'
<1>1. /\ op \in {"chroma_add", "chroma_delete", "raise"} /\ Return
      /\ UNCHANGED <<registryVars, adapterVars, policyVars, calls>>
      /\ chroma' \in {chroma, chroma \cup Items(call.ids), chroma \ Items(call.ids)}
  BY DEF ChromaAdd, ChromaDelete, Raise
<1>2. chroma' \in SUBSET Ids
  BY <1>1, BatchItems DEF ServiceIndInv, TypeOK, Calls
<1> QED BY <1>1, <1>2, SameRegistry, SameAdapter, ReturnStep

LEMMA RegisterIdStep ==
    ASSUME ServiceIndInv, NEW i \in Ids, RegisterId(i)
    PROVE  ServiceIndInv'
<1>1. /\ op = "idle" /\ calls < MaxCalls /\ calls' = calls + 1
      /\ UNCHANGED <<adapterVars, policyVars, chroma, op, todo, call, receipt>>
  BY DEF RegisterId
<1>2. RegistryType' /\ MappingsAgree' /\ \A k \in Labels : reverse[k] # NoId => reverse'[k] # NoId
  BY RegistryStep DEF RegisterId, ServiceIndInv, TypeOK
<1>3. Cardinality(Untracked') <= pending'
  BY <1>1, <1>2, SameAdapter, OweNoMore
<1> QED BY <1>1, <1>2, <1>3, SameAdapter, SamePolicy, ShortStep DEF ServiceIndInv, TypeOK

-----------------------------------------------------------------------------
(* Deleting. *)

LEMMA DeleteStep ==
    ASSUME ServiceIndInv, NEW ids \in Batches, NEW arg \in {"auto", "always", "never"},
           NEW strict \in BOOLEAN, Delete(ids, arg, strict)
    PROVE  ServiceIndInv'
<1> DEFINE A == {forward[i] : i \in {j \in Items(ids) : Known(j)}}
<1>1. PICK adaptive \in AdaptiveSettings :
        Begin("erase", ids, [NoCall EXCEPT !.ids = ids, !.strict = strict,
                                           !.arg = CompactMode(arg, Len(ids), adaptive),
                                           !.asked = A])
  BY DEF Delete
<1>2. PICK m \in {"auto", "always", "never"} : m = CompactMode(arg, Len(ids), adaptive)
  BY DEF CompactMode
<1>3. UNCHANGED <<registryVars, adapterVars, policyVars, chroma, receipt>>
  BY DEF Delete
<1>4. Items(ids) \in SUBSET Ids /\ (ids = <<>> => Items(ids) = {})
  BY BatchItems, ItemsEmpty
<1>5. /\ A \in SUBSET Labels /\ \A l \in A : \E j \in Items(ids) : forward[j] = l
      /\ ids = <<>> => A = {}
  BY <1>4 DEF Known, ServiceIndInv, TypeOK, RegistryType
<1> HIDE DEF A
<1>6. /\ op = "idle" /\ calls < MaxCalls /\ calls' = calls + 1 /\ op' = "erase" /\ todo' = ids
      /\ call' = [NoCall EXCEPT !.ids = ids, !.strict = strict, !.arg = m, !.asked = A]
  BY <1>1, <1>2 DEF Begin
<1>7. call' \in Calls
  BY <1>5, <1>6, CallTypes DEF Calls
<1>8. /\ call'.ids = ids /\ call'.labels = <<>> /\ call'.asked = A /\ call'.compacted = FALSE
      /\ call'.compactFailed = FALSE /\ call'.deferred = FALSE
  BY <1>6 DEF NoCall
<1>9. ServiceType'
  BY <1>3, <1>6, <1>7 DEF ServiceIndInv, TypeOK, ServiceType
<1>10. AddInv' /\ AfterInv' /\ ReceiptInv'
  BY <1>6 DEF AddInv, AfterInv, ReceiptInv
<1>11. WipedInv'
  BY <1>5, <1>8, ItemsEmpty DEF WipedInv
<1>12. LoopInv'
  BY <1>3, <1>5, <1>6, <1>8 DEF LoopInv
<1>13. /\ RegistryType' /\ MappingsAgree' /\ AdapterType' /\ RowInv' /\ PolicyType'
       /\ Residue' = Residue /\ \A l \in Labels : reverse'[l] = reverse[l]
  BY <1>3, SameRegistry, SameAdapter, SamePolicy
<1>14. Cardinality(Untracked') <= pending'
  BY <1>3, <1>6, <1>8, <1>13, OweNoMore
<1> QED BY <1>9, <1>10, <1>11, <1>12, <1>13, <1>14, TypeParts DEF ServiceIndInv

\* One id that was not erased is put down, as skipped or as an error.
LEMMA NotErased ==
    ASSUME ServiceIndInv, op = "erase", todo # <<>>, todo' = Tail(todo),
           \/ call' = [call EXCEPT !.skips = @ + 1]
           \/ call' = [call EXCEPT !.errors = @ + 1],
           UNCHANGED <<registryVars, policyVars, chroma, op, receipt, calls>>,
           AdapterType', RowInv', engine' = engine,
           \A l \in Labels : matrix[l] = "zero" => matrix'[l] = "zero",
           \A l \in Labels : ann'[l] = "live" => ann[l] = "live",
           Untracked' \subseteq Untracked
    PROVE  ServiceIndInv'
<1>1. call \in Calls /\ Tail(todo) \in Batches
  BY BatchHead DEF ServiceIndInv, TypeOK
<1>2. /\ call' \in Calls /\ call'.labels = call.labels /\ call'.ids = call.ids
      /\ call'.asked = call.asked /\ call'.compacted = call.compacted
      /\ call'.compactFailed = call.compactFailed /\ call'.deferred = call.deferred
      /\ call'.skips # 0 \/ call'.errors # 0
  <2>1. PICK n \in Nat \ {0} : call' = [call EXCEPT !.skips = n] \/ call' = [call EXCEPT !.errors = n]
    <3>1. call.skips + 1 \in Nat \ {0} /\ call.errors + 1 \in Nat \ {0}
      BY <1>1 DEF Calls
    <3> QED BY <3>1
  <2>2. CASE call' = [call EXCEPT !.skips = n]
    BY <1>1, <2>2 DEF Calls
  <2>3. CASE call' = [call EXCEPT !.errors = n]
    BY <1>1, <2>3 DEF Calls
  <2> QED BY <2>1, <2>2, <2>3
<1>3. ServiceType'
  BY <1>1, <1>2 DEF ServiceIndInv, TypeOK, ServiceType
<1>4. AddInv' /\ AfterInv' /\ ReceiptInv'
  BY DEF AddInv, AfterInv, ReceiptInv
<1>5. WipedInv'
  BY <1>1, <1>2, ItemsLabels DEF ServiceIndInv, WipedInv, Calls
<1>6. LoopInv'
  BY <1>2 DEF ServiceIndInv, LoopInv
<1>7. Cardinality(Untracked') <= pending'
  BY StaysTracked
<1> QED BY <1>3, <1>4, <1>5, <1>6, <1>7, SameRegistry, SamePolicy, TypeParts DEF ServiceIndInv

\* One id was erased: its row is wiped and its mapping may go.
LEMMA ErasedOne ==
    ASSUME ServiceIndInv, op = "erase", todo # <<>>, todo' = Tail(todo),
           Known(Head(todo)), Wipe(Head(todo)),
           UNCHANGED <<policyVars, chroma, op, receipt, calls>>
    PROVE  ServiceIndInv'
<1>1. PICK i \in Ids : i = Head(todo) /\ Items(todo) = {i} \cup Items(Tail(todo))
  BY BatchHead DEF ServiceIndInv, TypeOK
<1>2. Tail(todo) \in Batches /\ Items(Tail(todo)) \in SUBSET Ids
  BY BatchHead, BatchItems DEF ServiceIndInv, TypeOK
<1>3. PICK l \in Labels : l = forward[i]
  BY <1>1 DEF Known, ServiceIndInv, TypeOK, RegistryType
<1>4. /\ hard_delete_label(l) /\ call' = [call EXCEPT !.labels = Append(@, l)]
      /\ drop(i) \/ UNCHANGED registryVars
  BY <1>1, <1>3 DEF Wipe
<1>5. /\ RegistryType' /\ MappingsAgree' /\ \A j \in Ids \ {i} : forward'[j] = forward[j]
      /\ \A k \in Labels \ {l} : reverse'[k] = reverse[k]
  <2>1. CASE drop(i)
    BY <1>1, <1>3, <2>1, RegistryDrop DEF ServiceIndInv, TypeOK
  <2>2. CASE UNCHANGED registryVars
    BY <2>2, SameRegistry
  <2> QED BY <1>4, <2>1, <2>2
<1>6. /\ AdapterType' /\ RowInv' /\ engine' = engine /\ matrix' = [matrix EXCEPT ![l] = "zero"]
      /\ \A k \in Labels : ann'[k] = "live" => ann[k] = "live"
      /\ Residue' \subseteq Residue \cup {l}
      /\ ann'[l] = "live" => engine = "faiss"
  BY <1>4, WipeEffect DEF ServiceIndInv, TypeOK
<1>7. call \in Calls /\ call.labels \in Seq(Labels)
  BY DEF ServiceIndInv, TypeOK, Calls
<1>8. PICK L \in Seq(Labels) : /\ L = Append(call.labels, l) /\ Len(L) = Len(call.labels) + 1
                               /\ Items(L) = Items(call.labels) \cup {l}
  BY <1>7, LabelsAppend
<1>9. call' = [call EXCEPT !.labels = L]
  BY <1>4, <1>8
<1>10. /\ call' \in Calls /\ call'.labels = L /\ call'.ids = call.ids /\ call'.asked = call.asked
       /\ call'.compacted = call.compacted /\ call'.compactFailed = call.compactFailed
       /\ call'.deferred = call.deferred /\ call'.skips = call.skips /\ call'.errors = call.errors
  BY <1>7, <1>9 DEF Calls
<1>11. ServiceType'
  BY <1>2, <1>10 DEF ServiceIndInv, TypeOK, ServiceType
<1>12. AddInv' /\ AfterInv' /\ ReceiptInv'
  BY DEF AddInv, AfterInv, ReceiptInv
<1>13. WipedInv'
  <2>1. call.compacted = FALSE
    BY <1>7 DEF ServiceIndInv, LoopInv, Calls
  <2>2. ASSUME NEW k \in Items(L) PROVE matrix'[k] = "zero" /\ (ann'[k] = "live" => engine = "faiss")
    <3>1. k \in Labels /\ (k = l \/ k \in Items(call.labels))
      BY <1>8, ItemsLabels
    <3>2. CASE k = l
      BY <1>6, <3>2 DEF ServiceIndInv, TypeOK, AdapterType
    <3>3. CASE k \in Items(call.labels)
      BY <1>6, <3>1, <3>3 DEF ServiceIndInv, WipedInv, TypeOK, AdapterType
    <3> QED BY <3>1, <3>2, <3>3
  <2>3. call.ids = <<>> => call.asked = {}
    BY DEF ServiceIndInv, WipedInv
  <2> QED BY <1>6, <1>10, <2>1, <2>2, <2>3 DEF WipedInv
<1>14. LoopInv'
  <2>1. ASSUME call.skips = 0, call.errors = 0, NEW k \in call.asked
        PROVE  k \in Items(L) \/ \E j \in Items(Tail(todo)) : forward'[j] = k
    <3>1. k \in Items(call.labels) \/ \E j \in Items(todo) : forward[j] = k
      BY <2>1 DEF ServiceIndInv, LoopInv
    <3> QED BY <1>1, <1>2, <1>3, <1>5, <1>8, <3>1
  <2>2. ~call.compacted /\ ~call.compactFailed /\ ~call.deferred
    BY DEF ServiceIndInv, LoopInv
  <2> QED BY <1>10, <2>1, <2>2 DEF LoopInv
<1>15. Cardinality(Untracked') <= pending'
  <2>1. Untracked' \subseteq Untracked
    BY <1>5, <1>6, <1>8, <1>10 DEF Untracked, Residue
  <2> QED BY <2>1, StaysTracked
<1> QED BY <1>5, <1>6, <1>11, <1>12, <1>13, <1>14, <1>15, SamePolicy, TypeParts DEF ServiceIndInv

\* Counting a skip or an error keeps the labels that are done.
LEMMA CallLabels ==
    ASSUME ServiceIndInv, \/ call' = [call EXCEPT !.skips = @ + 1]
                          \/ call' = [call EXCEPT !.errors = @ + 1]
    PROVE  call'.labels = call.labels
<1>1. call \in Calls
  BY DEF ServiceIndInv, TypeOK
<1>2. CASE call' = [call EXCEPT !.skips = @ + 1]
  BY <1>1, <1>2 DEF Calls
<1>3. CASE call' = [call EXCEPT !.errors = @ + 1]
  BY <1>1, <1>3 DEF Calls
<1> QED BY <1>2, <1>3

LEMMA EraseOneStep ==
    ASSUME ServiceIndInv, EraseOne
    PROVE  ServiceIndInv'
<1>1. /\ op = "erase" /\ todo # <<>> /\ todo' = Tail(todo)
      /\ UNCHANGED <<chroma, receipt, calls>>
  BY DEF EraseOne
<1>2. PICK i \in Ids : i = Head(todo)
  BY <1>1, BatchHead DEF ServiceIndInv, TypeOK
<1>3. \/ BreakOff
      \/ /\ Skip \/ Refuse \/ (Known(i) /\ (Wipe(i) \/ WipeFails(i)))
         /\ UNCHANGED <<policyVars, op>>
  BY <1>2 DEF EraseOne
<1>a. CASE BreakOff
  <2>1. /\ op' = "raise" /\ lost' = lost \cup Items(call.labels)
        /\ UNCHANGED <<registryVars, adapterVars, mode, pending, aged, call>>
    BY <1>a DEF BreakOff
  <2>2. Items(call.labels) \in SUBSET Labels /\ Tail(todo) \in Batches
    BY <1>1, ItemsLabels, BatchHead DEF ServiceIndInv, TypeOK, Calls
  <2>3. ServiceType' /\ PolicyType'
    BY <1>1, <2>1, <2>2 DEF ServiceIndInv, TypeOK, ServiceType, PolicyType
  <2>4. AddInv' /\ WipedInv' /\ LoopInv' /\ AfterInv' /\ ReceiptInv'
    BY <2>1, BetweenCalls
  <2>5. Untracked' \subseteq Untracked
    BY <1>1, <2>1 DEF Untracked, Residue
  <2>6. Cardinality(Untracked') <= pending'
    BY <2>1, <2>5, StaysTracked
  <2> QED BY <2>1, <2>3, <2>4, <2>6, SameRegistry, SameAdapter, TypeParts DEF ServiceIndInv
<1>4. CASE (Skip \/ Refuse) /\ UNCHANGED <<policyVars, op>>
  <2>1. UNCHANGED <<registryVars, adapterVars>>
    BY <1>4 DEF Skip, Refuse
  <2>2. /\ AdapterType' /\ RowInv' /\ Untracked' \subseteq Untracked
    BY <1>1, <1>4, <2>1, SameAdapter, SameRegistry, CallLabels DEF Untracked, Skip, Refuse
  <2> QED BY <1>1, <1>4, <2>1, <2>2, NotErased DEF Skip, Refuse
<1>5. CASE Known(i) /\ Wipe(i) /\ UNCHANGED <<policyVars, op>>
  BY <1>1, <1>2, <1>5, ErasedOne
<1>6. CASE Known(i) /\ WipeFails(i) /\ UNCHANGED <<policyVars, op>>
  <2>1. PICK l \in Labels : l = forward[i]
    BY <1>6 DEF Known, ServiceIndInv, TypeOK, RegistryType
  <2>2. /\ engine = "client" /\ Client!HardDeleteFails(l) /\ UNCHANGED registryVars
        /\ call' = [call EXCEPT !.errors = @ + 1]
    BY <1>6, <2>1 DEF WipeFails
  <2>3. /\ AdapterType' /\ RowInv' /\ engine' = engine /\ matrix' = [matrix EXCEPT ![l] = "zero"]
        /\ \A k \in Labels : ann'[k] = "live" => ann[k] = "live"
        /\ Residue' \subseteq Residue \cup {l}
    BY <2>2, WipeEffect DEF ServiceIndInv, TypeOK
  <2>4. reverse[l] = i /\ i # NoId
    BY <2>1 DEF ServiceIndInv, MappingsAgree
  <2>5. Untracked' \subseteq Untracked
    BY <1>6, <2>2, <2>3, <2>4, CallLabels DEF Untracked
  <2>6. \A k \in Labels : matrix[k] = "zero" => matrix'[k] = "zero"
    BY <2>3 DEF ServiceIndInv, TypeOK, AdapterType
  <2> QED BY <1>1, <1>6, <2>2, <2>3, <2>5, <2>6, NotErased
<1> QED BY <1>3, <1>a, <1>4, <1>5, <1>6

LEMMA NothingOwed ==
    ASSUME Residue' = {}
    PROVE  Cardinality(Untracked') = 0
<1>1. Untracked' = {}
  BY DEF Untracked
<1> QED BY <1>1, FS_EmptySet

\* The end of the loop: nothing that was wiped comes back, and the call says how
\* the rebuild went.
LEMMA LoopEnds ==
    ASSUME ServiceIndInv, op = "erase", todo = <<>>, op' = "finish",
           NEW c \in BOOLEAN, NEW f \in BOOLEAN, NEW d \in BOOLEAN,
           call' = [call EXCEPT !.compacted = c, !.compactFailed = f, !.deferred = d],
           UNCHANGED <<registryVars, chroma, todo, receipt, calls>>,
           AdapterType', RowInv', PolicyType', engine' = engine, matrix' = matrix, mode' = mode,
           lost' \in SUBSET Labels,
           \A l \in Labels : matrix[l] = "zero" => ann'[l] \in {ann[l], "none"},
           c => \A l \in Labels : matrix[l] = "zero" => ann'[l] = "none",
           c => Residue' = {},
           Cardinality(Untracked') <= pending',
           call.labels # <<>> /\ ~c /\ ~f /\ ~d => call.arg = "never" \/ mode = "never"
    PROVE  ServiceIndInv'
<1>1. call \in Calls /\ Items(call.labels) \in SUBSET Labels
  BY ItemsLabels DEF ServiceIndInv, TypeOK, Calls
<1>2. /\ call' \in Calls /\ call'.labels = call.labels /\ call'.ids = call.ids
      /\ call'.asked = call.asked /\ call'.skips = call.skips /\ call'.errors = call.errors
      /\ call'.arg = call.arg
  BY <1>1 DEF Calls
<1>3. call'.compacted = c /\ call'.compactFailed = f /\ call'.deferred = d
  BY <1>1 DEF Calls
<1>4. ServiceType'
  BY <1>2 DEF ServiceIndInv, TypeOK, ServiceType
<1>5. AddInv' /\ LoopInv' /\ ReceiptInv'
  BY DEF AddInv, LoopInv, ReceiptInv
<1>6. WipedInv'
  <2>1. call.ids = <<>> => call.asked = {}
    BY DEF ServiceIndInv, WipedInv
  <2>2. ASSUME NEW l \in Items(call.labels)
        PROVE  matrix'[l] = "zero" /\ (ann'[l] = "live" => engine' = "faiss" /\ ~c)
    BY <1>1 DEF ServiceIndInv, WipedInv
  <2> QED BY <1>2, <1>3, <2>1, <2>2 DEF WipedInv
<1>7. AfterInv'
  <2>1. call.skips = 0 /\ call.errors = 0 => call.asked \subseteq Items(call.labels)
    BY ItemsEmpty DEF ServiceIndInv, LoopInv
  <2> QED BY <1>2, <1>3, <2>1 DEF AfterInv
<1> QED BY <1>4, <1>5, <1>6, <1>7, SameRegistry, TypeParts DEF ServiceIndInv

LEMMA CompactBatchStep ==
    ASSUME ServiceIndInv, CompactBatch
    PROVE  ServiceIndInv'
<1>1. /\ op = "erase" /\ todo = <<>> /\ op' = "finish"
      /\ UNCHANGED <<registryVars, chroma, todo, receipt, calls>>
  BY DEF CompactBatch
<1>2. /\ call \in Calls /\ Len(call.labels) \in Nat /\ pending \in Nat /\ AdapterType /\ RowInv
      /\ PolicyType /\ call.labels \in Seq(Labels) /\ lost \in SUBSET Labels
      /\ call.compacted = FALSE /\ call.compactFailed = FALSE /\ call.deferred = FALSE
  <2>1. call \in Calls /\ call.labels \in Seq(Labels) /\ pending \in Nat
    BY DEF ServiceIndInv, TypeOK, PolicyType, Calls
  <2>2. call.compacted = FALSE /\ call.compactFailed = FALSE /\ call.deferred = FALSE
    BY <1>1, <2>1 DEF ServiceIndInv, LoopInv, Calls
  <2> QED BY <1>1, <2>1, <2>2, ItemsLabels DEF ServiceIndInv, TypeOK
<1>3. \A l \in Labels : reverse[l] = NoId <=> reverse'[l] = NoId
  BY <1>1, SameRegistry
<1>4. ASSUME KeepPending(Len(call.labels)), Residue' \subseteq Residue
      PROVE  PolicyType' /\ mode' = mode /\ lost' = lost /\ Cardinality(Untracked') <= pending'
  <2>1. pending' = pending + Len(call.labels) /\ mode' = mode /\ aged' = aged /\ lost' = lost
    BY <1>4 DEF KeepPending, note_deletes
  <2>2. Untracked \in SUBSET Labels /\ Untracked' \in SUBSET (Untracked \cup Items(call.labels))
    BY <1>1, <1>3, <1>4, <2>1 DEF Untracked, Residue
  <2>3. /\ Cardinality(Untracked') <= Cardinality(Untracked) + Len(call.labels)
        /\ Cardinality(Untracked) \in Nat /\ Cardinality(Untracked') \in Nat
    BY <1>2, <2>2, ItemsCount
  <2>4. Cardinality(Untracked') <= pending'
    BY <1>2, <2>1, <2>3 DEF ServiceIndInv
  <2> QED BY <1>2, <2>1, <2>4 DEF PolicyType
<1>5. CASE /\ ~Rebuild /\ KeepPending(Len(call.labels))
           /\ call' = [call EXCEPT !.deferred = Deferred] /\ UNCHANGED adapterVars
  <2>1. PICK d \in BOOLEAN : d = Deferred
    BY DEF Deferred
  <2>2. call' = [call EXCEPT !.compacted = FALSE, !.compactFailed = FALSE, !.deferred = d]
    BY <1>2, <1>5, <2>1 DEF Calls
  <2>3. /\ AdapterType' /\ RowInv' /\ Residue' = Residue
    BY <1>5, SameAdapter
  <2>4. PolicyType' /\ mode' = mode /\ lost' = lost /\ Cardinality(Untracked') <= pending'
    BY <1>4, <1>5, <2>3
  <2>5. call.labels # <<>> /\ ~d => call.arg = "never" \/ mode = "never"
    BY <1>2, <1>5, <2>1 DEF Deferred, Rebuild, decide, Calls, PolicyType
  <2> QED BY <1>1, <1>2, <1>5, <2>2, <2>3, <2>4, <2>5, LoopEnds
<1>6. CASE compact /\ mark_compacted /\ call' = [call EXCEPT !.compacted = TRUE]
  <2>1. call' = [call EXCEPT !.compacted = TRUE, !.compactFailed = FALSE, !.deferred = FALSE]
    BY <1>2, <1>6 DEF Calls
  <2>2. /\ AdapterType' /\ RowInv' /\ engine' = engine /\ matrix' = matrix /\ Residue' = {}
        /\ \A l \in Labels : matrix[l] = "zero" => ann'[l] = "none"
    BY <1>2, <1>6, CompactEffect
  <2>3. PolicyType' /\ mode' = mode /\ pending' = 0 /\ lost' \in SUBSET Labels
    BY <1>2, <1>6 DEF mark_compacted, PolicyType
  <2>4. Cardinality(Untracked') <= pending'
    BY <2>2, <2>3, NothingOwed
  <2> QED BY <1>1, <2>1, <2>2, <2>3, <2>4, LoopEnds
<1>7. CASE /\ CompactFails /\ KeepPending(Len(call.labels))
           /\ call' = [call EXCEPT !.compactFailed = TRUE]
  <2>1. call' = [call EXCEPT !.compacted = FALSE, !.compactFailed = TRUE, !.deferred = FALSE]
    BY <1>2, <1>7 DEF Calls
  <2>2. /\ AdapterType' /\ RowInv' /\ engine' = engine /\ matrix' = matrix
        /\ Residue' \subseteq Residue
        /\ \A l \in Labels : matrix[l] = "zero" => ann'[l] \in {ann[l], "none"}
    BY <1>2, <1>7, CompactFailsEffect
  <2>3. PolicyType' /\ mode' = mode /\ lost' = lost /\ Cardinality(Untracked') <= pending'
    BY <1>4, <1>7, <2>2
  <2> QED BY <1>1, <1>2, <2>1, <2>2, <2>3, LoopEnds
<1> QED BY <1>5, <1>6, <1>7 DEF CompactBatch

LEMMA StatusDerived ==
    ASSUME call \in Calls, NEW p \in BOOLEAN
    PROVE  /\ DeriveStatus(p) \in {"complete", "partial", "failed"}
           /\ DeriveStatus(p) = "complete" =>
                  \/ Len(call.ids) = 0
                  \/ /\ Len(call.labels) # 0 /\ call.skips = 0 /\ call.errors = 0
                     /\ ~call.compactFailed
<1>1. /\ call.skips \in Nat /\ call.errors \in Nat /\ Len(call.ids) \in Nat
      /\ Len(call.labels) \in Nat /\ call.compactFailed \in BOOLEAN
  BY ItemsLabels DEF Calls, Batches
<1> QED BY <1>1 DEF DeriveStatus

LEMMA FinishStep ==
    ASSUME ServiceIndInv, Finish
    PROVE  ServiceIndInv'
<1>1. /\ op = "finish" /\ op' = "chroma_delete"
      /\ UNCHANGED <<registryVars, adapterVars, policyVars, chroma, todo, call, calls>>
  BY DEF Finish
<1>2. call \in Calls /\ call.labels \in Seq(Labels) /\ call.ids \in Batches
  BY DEF ServiceIndInv, TypeOK, Calls
<1>3. PICK p \in BOOLEAN : receipt' = [status |-> DeriveStatus(p), compacted |-> call.compacted,
                                       deferred |-> call.deferred]
  BY DEF Finish
<1>4. PICK st \in {"complete", "partial", "failed"} :
        /\ st = DeriveStatus(p)
        /\ st = "complete" =>
               \/ Len(call.ids) = 0
               \/ /\ Len(call.labels) # 0 /\ call.skips = 0 /\ call.errors = 0
                  /\ ~call.compactFailed
  BY <1>2, StatusDerived
<1>5. /\ receipt' = [status |-> st, compacted |-> call.compacted, deferred |-> call.deferred]
      /\ call.compacted \in BOOLEAN /\ call.deferred \in BOOLEAN
  BY <1>2, <1>3, <1>4 DEF Calls
<1>6. ServiceType'
  BY <1>1, <1>5 DEF ServiceIndInv, TypeOK, ServiceType
<1>7. AddInv' /\ LoopInv'
  BY <1>1 DEF AddInv, LoopInv
<1>8. WipedInv' /\ AfterInv'
  BY <1>1, SameAdapter DEF ServiceIndInv, WipedInv, AfterInv
<1>9. ReceiptInv'
  <2>1. (Len(call.ids) = 0 => call.ids = <<>>) /\ (Len(call.labels) # 0 => call.labels # <<>>)
    BY <1>2 DEF Batches
  <2>2. receipt'.status = st /\ receipt'.compacted = call.compacted /\ receipt'.deferred = call.deferred
    BY <1>5
  <2> QED BY <1>1, <1>4, <2>1, <2>2 DEF ReceiptInv
<1>10. Cardinality(Untracked') <= pending'
  BY <1>1, SameRegistry, SameAdapter, OweNoMore
<1> QED BY <1>1, <1>6, <1>7, <1>8, <1>9, <1>10, SameRegistry, SameAdapter, SamePolicy, TypeParts
        DEF ServiceIndInv

-----------------------------------------------------------------------------
(* The other steps. *)

LEMMA ChromaDeleteWhereStep ==
    ASSUME ServiceIndInv, ChromaDeleteWhere
    PROVE  ServiceIndInv'
<1>1. /\ op = "idle" /\ calls < MaxCalls /\ calls' = calls + 1
      /\ UNCHANGED <<registryVars, adapterVars, policyVars, op, todo, call, receipt>>
  BY DEF ChromaDeleteWhere
<1>2. chroma' \in SUBSET Ids /\ lost' \in SUBSET Labels
  BY <1>1 DEF ChromaDeleteWhere, ServiceIndInv, TypeOK
<1>3. Cardinality(Untracked') <= pending'
  BY <1>1, SameRegistry, SameAdapter, OweNoMore
<1> QED BY <1>1, <1>2, <1>3, SameRegistry, SameAdapter, SamePolicy, ShortStep

LEMMA ForceCompactStep ==
    ASSUME ServiceIndInv, ForceCompact
    PROVE  ServiceIndInv'
<1>1. /\ op = "idle" /\ calls < MaxCalls /\ calls' = calls + 1
      /\ UNCHANGED <<registryVars, chroma, todo, call, receipt>>
  BY DEF ForceCompact
<1>2. AdapterType /\ RowInv /\ PolicyType /\ chroma' \in SUBSET Ids /\ lost \in SUBSET Labels
  BY <1>1 DEF ServiceIndInv, TypeOK
<1>3. CASE compact /\ mark_compacted /\ UNCHANGED op
  <2>1. AdapterType' /\ RowInv' /\ Residue' = {}
    BY <1>2, <1>3, CompactEffect
  <2>2. PolicyType' /\ pending' = 0 /\ lost' \in SUBSET Labels
    BY <1>2, <1>3 DEF mark_compacted, PolicyType
  <2>3. Cardinality(Untracked') <= pending'
    BY <2>1, <2>2, NothingOwed
  <2> QED BY <1>1, <1>2, <1>3, <2>1, <2>2, <2>3, SameRegistry, ShortStep
<1>4. CASE CompactFails /\ op' = "raise" /\ UNCHANGED policyVars
  <2>1. AdapterType' /\ RowInv' /\ Residue' \subseteq Residue
    BY <1>2, <1>4, CompactFailsEffect
  <2>2. Cardinality(Untracked') <= pending'
    BY <1>1, <1>4, <2>1, SameRegistry, OweNoMore
  <2> QED BY <1>1, <1>2, <1>4, <2>1, <2>2, SameRegistry, SamePolicy, ShortStep
<1> QED BY <1>3, <1>4 DEF ForceCompact

\* Only the clock of the policy moves.
LEMMA ClockStep ==
    ASSUME ServiceIndInv, UNCHANGED <<registryVars, adapterVars, serviceVars, mode, pending, lost>>,
           aged' \in BOOLEAN
    PROVE  ServiceIndInv'
<1>1. RegistryType' /\ MappingsAgree' /\ \A l \in Labels : reverse'[l] = reverse[l]
  BY SameRegistry
<1>2. AdapterType' /\ RowInv' /\ Residue' = Residue
  BY SameAdapter
<1>3. ServiceType' /\ PolicyType'
  BY DEF ServiceIndInv, TypeOK, ServiceType, PolicyType
<1>4. AddInv' /\ WipedInv' /\ LoopInv' /\ ReceiptInv'
  BY DEF ServiceIndInv, AddInv, WipedInv, LoopInv, ReceiptInv
<1>5. AfterInv'
  BY <1>2 DEF ServiceIndInv, AfterInv
<1>6. Cardinality(Untracked') <= pending'
  <2>1. Untracked' = Untracked
    BY <1>1, <1>2 DEF Untracked, Residue
  <2> QED BY <2>1 DEF ServiceIndInv
<1> QED BY <1>1, <1>2, <1>3, <1>4, <1>5, <1>6, TypeParts DEF ServiceIndInv

LEMMA ServiceInit == Init => ServiceIndInv
<1> SUFFICES ASSUME Init PROVE ServiceIndInv
  OBVIOUS
<1>1. RegistryType /\ MappingsAgree
  BY DEF Init, RegistryInit, RegistryType, MappingsAgree, Labels
<1>2. AdapterType /\ RowInv /\ Residue = {}
  BY DEF Init, AdapterInit, AdapterType, RowInv, Residue
<1>3. PolicyType
  BY DEF Init, PolicyInit, PolicyType
<1>4. ServiceType
  BY CallTypes DEF Init, PolicyInit, NoReceipt, ServiceType
<1>5. AddInv /\ WipedInv /\ LoopInv /\ AfterInv /\ ReceiptInv
  BY DEF Init, AddInv, WipedInv, LoopInv, AfterInv, ReceiptInv
<1>6. Cardinality(Untracked) <= pending
  <2>1. Untracked = {}
    BY <1>2 DEF Untracked
  <2>2. pending = 0
    BY DEF Init, PolicyInit
  <2> QED BY <2>1, <2>2, FS_EmptySet
<1> QED BY <1>1, <1>2, <1>3, <1>4, <1>5, <1>6, TypeParts DEF ServiceIndInv

LEMMA ServiceNext == ServiceIndInv /\ [Next]_vars => ServiceIndInv'
<1> SUFFICES ASSUME ServiceIndInv, [Next]_vars PROVE ServiceIndInv'
  OBVIOUS
<1>1. CASE UNCHANGED vars
  BY <1>1, ClockStep DEF vars, ServiceIndInv, TypeOK, PolicyType
<1>2. CASE TimePasses
  BY <1>2, ClockStep DEF TimePasses, Age
<1> QED BY <1>1, <1>2, AddStep, AddRowStep, AddIndexStep, ChromaStep, RegisterIdStep, DeleteStep,
           EraseOneStep, CompactBatchStep, FinishStep, ChromaDeleteWhereStep, ForceCompactStep
        DEF Next

LEMMA ServiceInvariance == Spec => []ServiceIndInv
  BY ServiceInit, ServiceNext, PTL DEF Spec

-----------------------------------------------------------------------------
(* The results. *)

\* The service's state keeps its type: a batch never leaves the registry, the
\* stores or the locals of erase_service.py outside what the code can hold.
THEOREM ServiceTyped == Spec => []TypeOK
<1>1. ServiceIndInv => TypeOK
  BY DEF ServiceIndInv
<1> QED BY <1>1, ServiceInvariance, PTL

\* register, register_at and drop keep forward and reverse of IdRegistry inverse
\* to each other, and the next label free, in every order with adds and deletes.
THEOREM MappingsAgreeAlways == Spec => []MappingsAgree
<1>1. ServiceIndInv => MappingsAgree
  BY DEF ServiceIndInv
<1> QED BY <1>1, ServiceInvariance, PTL

\* Between calls, the compact policy has at least as many deletes pending as there
\* are wiped rows with floats left and without a mapping, whatever failed and
\* however batches break off, but for the rows of batches with idempotent=False
\* that met an unknown id (erase_service.py:295-299).
THEOREM ResidueTrackedAlways == Spec => []ResidueTracked
<1>1. ServiceIndInv => ResidueTracked
  <2> SUFFICES ASSUME ServiceIndInv, op = "idle"
               PROVE  pending >= Cardinality({l \in Residue \ lost : reverse[l] = NoId})
    BY DEF ResidueTracked
  <2>1. pending \in Nat /\ Cardinality(Untracked) <= pending
    BY DEF ServiceIndInv, TypeOK, PolicyType
  <2>2. Cardinality(Untracked) \in Nat
    BY Fewer DEF Untracked, Residue
  <2>3. Untracked = {l \in Residue \ lost : reverse[l] = NoId}
    BY DEF Untracked
  <2> QED BY <2>1, <2>2, <2>3
<1> QED BY <1>1, ServiceInvariance, PTL

\* The labels that a call with a complete receipt meant are labels it has done.
LEMMA CompleteIsDone ==
    ASSUME ServiceIndInv, op = "chroma_delete", receipt.status = "complete"
    PROVE  /\ call.asked \subseteq Items(call.labels) /\ Items(call.labels) \in SUBSET Labels
           /\ call.asked # {} => call.labels # <<>> /\ ~call.compactFailed
<1>1. Items(call.labels) \in SUBSET Labels
  BY ItemsLabels DEF ServiceIndInv, TypeOK, Calls
<1>2. CASE call.ids = <<>>
  BY <1>1, <1>2 DEF ServiceIndInv, WipedInv
<1>3. CASE call.ids # <<>>
  BY <1>1, <1>3 DEF ServiceIndInv, ReceiptInv, AfterInv
<1> QED BY <1>2, <1>3

LEMMA CompleteIsErasedStatic == ServiceIndInv => CompleteIsErased
<1> SUFFICES ASSUME ServiceIndInv, op = "chroma_delete", receipt.status = "complete",
                    NEW l \in call.asked
             PROVE  /\ matrix[l] = "zero"
                    /\ ann[l] = "live" => engine = "faiss" /\ ~receipt.compacted
                    /\ receipt.compacted => l \notin Residue
                    /\ ~receipt.compacted /\ ~receipt.deferred
                           => call.arg = "never" \/ mode = "never"
  BY DEF CompleteIsErased
<1>1. l \in Items(call.labels) /\ call.labels # <<>> /\ ~call.compactFailed
  BY CompleteIsDone
<1>2. receipt.compacted = call.compacted /\ receipt.deferred = call.deferred
  BY DEF ServiceIndInv, ReceiptInv
<1>3. matrix[l] = "zero" /\ (ann[l] = "live" => engine = "faiss" /\ ~call.compacted)
  BY <1>1 DEF ServiceIndInv, WipedInv
<1>4. /\ call.compacted => l \notin Residue
      /\ ~call.compacted /\ ~call.deferred => call.arg = "never" \/ mode = "never"
  BY <1>1 DEF ServiceIndInv, AfterInv
<1> QED BY <1>2, <1>3, <1>4

\* A complete receipt of ErasureService says what is true of every id of the batch:
\* the row is wiped, no query finds it before or after the rebuild, and its floats
\* are gone unless the rebuild was put off or switched off.
THEOREM CompleteIsErasedAlways == Spec => []CompleteIsErased
  BY CompleteIsErasedStatic, ServiceInvariance, PTL

\* With fail_closed, delete of ChromaHardDeleteCollection lets Chroma forget ids
\* only after their rows are wiped and their floats gone or put off on purpose.
THEOREM ChromaFailsClosedAlways == Spec => ChromaFailsClosed
<1>1. ASSUME ServiceIndInv, Next, FailClosed, op = "chroma_delete", chroma' # chroma,
             NEW l \in call.asked
      PROVE  /\ matrix[l] = "zero"
             /\ l \in Residue => call.deferred \/ call.arg = "never" \/ mode = "never"
  <2>1. ChromaDelete
    BY <1>1 DEF Next, Add, AddRow, AddIndex, ChromaAdd, RegisterId, Delete, Begin, EraseOne,
                CompactBatch, Finish, Raise, ChromaDeleteWhere, ForceCompact, TimePasses
  <2>2. receipt.status = "complete"
    BY <1>1, <2>1 DEF ChromaDelete
  <2>3. receipt.compacted = call.compacted /\ receipt.deferred = call.deferred
    BY <1>1 DEF ServiceIndInv, ReceiptInv
  <2>4. CompleteIsErased
    BY <1>1, CompleteIsErasedStatic
  <2> QED BY <1>1, <2>2, <2>3, <2>4 DEF CompleteIsErased
<1>2. ServiceIndInv /\ [Next]_vars =>
          [FailClosed /\ op = "chroma_delete" /\ chroma' # chroma =>
               \A l \in call.asked :
                   /\ matrix[l] = "zero"
                   /\ l \in Residue => call.deferred \/ call.arg = "never" \/ mode = "never"]_vars
  BY <1>1
<1> QED BY <1>2, ServiceInvariance, PTL DEF Spec, ChromaFailsClosed

\* No step of the service but a rebuild that raises takes out of the index what it
\* did not wipe.
LEMMA OthersKept ==
    ASSUME ServiceIndInv, Next
    PROVE  KeepsOthers \/ RebuildRaised
<1>1. AdapterType /\ RowInv
  BY DEF ServiceIndInv, TypeOK
<1>2. ann' = ann => KeepsOthers
  BY DEF KeepsOthers
<1>3. ASSUME NEW i \in Ids, Known(i), Wipe(i) \/ WipeFails(i)
      PROVE  KeepsOthers
  <2>1. forward[i] \in Labels
    BY <1>3 DEF Known, ServiceIndInv, TypeOK, RegistryType
  <2> QED BY <1>1, <1>3, <2>1, WipeEffect DEF Wipe, WipeFails
<1>4. CASE EraseOne
  <2>1. PICK i \in Ids : i = Head(todo)
    BY <1>4, BatchHead DEF EraseOne, ServiceIndInv, TypeOK
  <2>2. BreakOff \/ Skip \/ Refuse \/ (Known(i) /\ (Wipe(i) \/ WipeFails(i)))
    BY <1>4, <2>1 DEF EraseOne
  <2> QED BY <1>2, <1>3, <2>2 DEF BreakOff, Skip, Refuse
<1>5. CASE AddIndex
  <2>1. /\ Items(call.labels) \in SUBSET Labels
        /\ \A l \in Items(call.labels) : matrix[l] \in {"live", "blank"}
    BY <1>5, ItemsLabels DEF AddIndex, ServiceIndInv, TypeOK, Calls, AddInv
  <2>2. IndexRows(Items(call.labels)) \/ IndexRowsFails(Items(call.labels))
    BY <1>5 DEF AddIndex
  <2> QED BY <1>1, <2>1, <2>2, IndexRowsEffect
<1>6. CASE CompactBatch \/ ForceCompact
  <2>0. call.compactFailed \in BOOLEAN /\ ([call EXCEPT !.compactFailed = TRUE]).compactFailed
    BY DEF ServiceIndInv, TypeOK, Calls
  <2>1. compact \/ RebuildRaised \/ ann' = ann
    BY <1>6, <2>0 DEF CompactBatch, ForceCompact, RebuildRaised
  <2> QED BY <1>1, <1>2, <2>1, CompactEffect
<1>7. CASE AddRow
  BY <1>2, <1>7 DEF AddRow, StoreRow
<1>8. ann' = ann \/ EraseOne \/ AddIndex \/ CompactBatch \/ ForceCompact \/ AddRow
  BY DEF Next, Add, ChromaAdd, RegisterId, Delete, Finish, ChromaDelete, ChromaDeleteWhere,
         TimePasses, Raise
<1> QED BY <1>2, <1>4, <1>5, <1>6, <1>7, <1>8

\* Whatever an add, a delete or a rebuild of one of the adapters does to its own
\* rows, the others stay searchable, unless the rebuild itself raises; only a
\* vector that was zero when it was added goes with the next rebuild.
THEOREM OthersStaySearchableAlways == Spec => OthersStaySearchable
<1>1. ServiceIndInv /\ [Next]_vars =>
          [\A l \in Labels :
               ann[l] = "live" /\ ann'[l] # "live"
                   => \/ matrix'[l] = "zero"
                      \/ matrix[l] = "blank"
                      \/ RebuildRaised
                      \/ engine = "client" /\ Client!SamePoint(l) # {l}]_vars
  BY OthersKept DEF KeepsOthers
<1> QED BY <1>1, ServiceInvariance, PTL DEF Spec, OthersStaySearchable
=============================================================================
