------------------------------ MODULE MCKeyShred ------------------------------
(* Instances of KeyShred for TLC. *)
EXTENDS KeyShred, TLC

\* Entities are interchangeable, and so are threads.
KeySymmetry == Permutations(Entities) \cup Permutations(Threads)
=============================================================================
