--------------------------- MODULE MCEraseService ---------------------------
(* Instances of EraseService for TLC. *)
EXTENDS EraseService, TLC

\* Business ids are interchangeable.
IdSymmetry == Permutations(Ids)
=============================================================================
