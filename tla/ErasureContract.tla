--------------------------- MODULE ErasureContract ---------------------------
(***************************************************************************)
(* What a durable delete promises, without logs, files or processes: data  *)
(* comes into the system only by ingest, copies of it may be lost at any   *)
(* time, and an erasure is acknowledged only when no copy is left, for     *)
(* good.                                                                   *)
(***************************************************************************)

VARIABLES
    seen,    \* vectors ever ingested
    held,    \* vectors of which memory or a file has a copy
    erased   \* vectors whose erasure has been acknowledged

cvars == <<seen, held, erased>>

ContractInit == seen = {} /\ held = {} /\ erased = {}

\* New vectors arrive; they may displace others.
Arrive ==
    /\ seen \subseteq seen'
    /\ held' \subseteq held \cup (seen' \ seen)
    /\ erased' = erased

\* Copies disappear: a wipe, a new checkpoint, a crash.
Vanish ==
    /\ held' \subseteq held
    /\ UNCHANGED <<seen, erased>>

\* The last copy is gone and that is put on record (the process may end with
\* it, and lose other copies).
Acknowledge ==
    /\ erased \subseteq erased'
    /\ erased' \subseteq seen \ held
    /\ held' \subseteq held
    /\ UNCHANGED seen

ContractNext == Arrive \/ Vanish \/ Acknowledge

Contract == ContractInit /\ [][ContractNext]_cvars
=============================================================================
