----------------------------- MODULE MCGraphHeal -----------------------------
(* Instances of GraphHeal for TLC. *)
EXTENDS GraphHeal

\* The links POST /ingest makes.
IngestLinks == <<-1, 1, 2>>
=============================================================================
