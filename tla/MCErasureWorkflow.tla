-------------------------- MODULE MCErasureWorkflow --------------------------
(* Instances of ErasureWorkflow for TLC. *)
EXTENDS ErasureWorkflow, TLC

CONSTANTS a, b, r1, r2

TwoTickets == (r1 :> {a, b}) @@ (r2 :> {a})
=============================================================================
