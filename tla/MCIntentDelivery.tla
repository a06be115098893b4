--------------------------- MODULE MCIntentDelivery ---------------------------
(* Instances of IntentDelivery for TLC. *)
EXTENDS IntentDelivery, TLC

\* Two messages where consumers compete for them one by one.
Limits == [c \in Carriers |-> IF c \in {"file", "redis"} THEN 2 ELSE 1]

\* One intent on any carrier.
OneIntent == [c \in Carriers |-> 1]
=============================================================================
