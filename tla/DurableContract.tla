--------------------------- MODULE DurableContract ---------------------------
(***************************************************************************)
(* DurableDelete implements ErasureContract: the refinement mapping.       *)
(***************************************************************************)
EXTENDS DurableDelete

Vectors == (1 .. gen) \X Labels

Copies(image) == {v \in Vectors : image[v[2]] = v[1]}

HeldVectors ==
    Copies(mem) \cup Copies(disk.bin) \cup Copies(disk.tmp)
        \cup Copies(durable.bin) \cup Copies(durable.tmp)

ErasedVectors ==
    {v \in Vectors :
        \E r \in begun : r.tx \in committed /\ r.gen = v[1] /\ r.node = v[2]}

C == INSTANCE ErasureContract
     WITH seen <- Vectors, held <- HeldVectors, erased <- ErasedVectors

\* The engine with its log, its two files and its crashes does nothing the
\* contract forbids: no step brings a vector back from nowhere, and a COMMIT is
\* only ever appended when no copy of the vector is left.
KeepsContract == C!Contract
=============================================================================
