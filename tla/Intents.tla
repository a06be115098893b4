------------------------------- MODULE Intents -------------------------------
(***************************************************************************)
(* Delete intents: what the outbox, the queues and the fan-out pass on.    *)
(* An envelope carries the intent of one request; a retried workflow step  *)
(* may enqueue a second envelope for the same request.                     *)
(***************************************************************************)
EXTENDS Integers

CONSTANTS
    Requests,     \* erasure requests, by request_id
    MaxEnvelopes  \* bound on the envelopes

Envelopes == 1 .. MaxEnvelopes
NoRequest == "none"

ASSUME IntentsAssumption == MaxEnvelopes \in Nat /\ NoRequest \notin Requests
=============================================================================
