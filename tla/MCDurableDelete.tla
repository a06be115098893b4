--------------------------- MODULE MCDurableDelete ---------------------------
(* Instances of DurableDelete for TLC. *)
EXTENDS DurableContract, TLC

\* Client threads are interchangeable.
ClientSymmetry == Permutations(Clients)
=============================================================================
