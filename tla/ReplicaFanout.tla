----------------------------- MODULE ReplicaFanout -----------------------------
(***************************************************************************)
(* integrations/replica_fanout.py: the coordinator sends an intent to all  *)
(* replicas at once and counts who says that it has erased.  In one        *)
(* process the intent goes to a ReplicaWorker, which remembers the         *)
(* requests it has done; over HTTP it goes to the endpoint of api/main.py, *)
(* which does not, and the request or its answer may be lost or late.      *)
(***************************************************************************)
EXTENDS Intents, FiniteSets

CONSTANTS
    Replicas,
    Quorum,        \* ReplicaFanoutCoordinator.quorum
    Workers,       \* threads or processes that publish intents
    Transports,    \* which transports a deployment may use
    FanoutFaults,  \* which failures the environment may produce
    MaxRestores    \* bound on restarts and re-ingests at replicas

\* "contention": the erase of a replica raises, before or after the wipe;
\* "lost": a request does not arrive, or its answer does not; "late": it is
\* served after the coordinator's time-out; "broken": the answer ends in an
\* exception that send does not catch; "local": publish_after_local is told
\* that the primary's own delete failed.
ASSUME FanoutAssumption ==
    /\ IsFiniteSet(Replicas) /\ Quorum \in 1 .. Cardinality(Replicas)
    /\ Transports \subseteq {"inprocess", "http"}
    /\ FanoutFaults \subseteq {"contention", "lost", "late", "broken", "local"}
    /\ MaxRestores \in Nat

VARIABLES
    transport,
    old,       \* replica -> requests whose vectors it held when they were made, and still holds
    mapped,    \* replica -> requests whose ids its registry resolves
    seen,      \* replica -> ReplicaWorker._seen
    late,      \* requests on the wire that nobody waits for
    acks,      \* worker -> replica -> what send has come to
    restores

replicaVars == <<transport, old, mapped, seen, late, restores>>
fanoutVars  == <<replicaVars, acks>>

NoAcks  == [p \in Replicas |-> "none"]
AllSent == [p \in Replicas |-> "sent"]
AllNo   == [p \in Replicas |-> "no"]

FanoutType ==
    /\ transport \in Transports
    /\ old \in [Replicas -> SUBSET Requests]
    /\ mapped \in [Replicas -> SUBSET Requests]
    /\ seen \in [Replicas -> SUBSET Requests]
    /\ late \in SUBSET (Replicas \X Requests)
    /\ acks \in [Workers -> [Replicas -> {"none", "sent", "checked", "ok", "no"}]]
    /\ restores \in 0 .. MaxRestores

FanoutInit ==
    /\ transport \in Transports
    /\ old = [p \in Replicas |-> Requests]
    /\ mapped = [p \in Replicas |-> Requests]
    /\ seen = [p \in Replicas |-> {}]
    /\ late = {}
    /\ acks = [w \in Workers |-> NoAcks]
    /\ restores = 0

\* ErasureService.delete on replica p: ids it does not know are skipped and the
\* receipt is partial; the others are wiped and dropped, or raise.
Apply(p, r, ok) ==
    \/ /\ ok
       /\ r \in mapped[p]
       /\ old' = [old EXCEPT ![p] = @ \ {r}]
       /\ mapped' = [mapped EXCEPT ![p] = @ \ {r}]
    \/ /\ ~ok
       /\ r \notin mapped[p] \/ "contention" \in FanoutFaults
       /\ UNCHANGED <<old, mapped>>
    \/ /\ ~ok
       /\ r \in mapped[p] /\ "contention" \in FanoutFaults
       /\ old' = [old EXCEPT ![p] = @ \ {r}]
       /\ UNCHANGED mapped

\* publish and publish_after_local: all replicas are sent to at once.
Publish(w) ==
    /\ acks' \in {[acks EXCEPT ![w] = AllSent]}
                 \cup {[acks EXCEPT ![w] = AllNo] : x \in {"local"} \cap FanoutFaults}
    /\ UNCHANGED replicaVars

Answer(w, p, a) == acks' = [acks EXCEPT ![w][p] = a]

-----------------------------------------------------------------------------
(* InProcessTransport and ReplicaWorker.handle. *)

\* A request that was done is acknowledged again.
CheckSeen(w, p, r) ==
    /\ transport = "inprocess"
    /\ acks[w][p] = "sent"
    /\ Answer(w, p, IF r \in seen[p] THEN "ok" ELSE "checked")
    /\ UNCHANGED replicaVars

\* Mutant: a request is remembered before it is known to be done.
HandleEager(w, p, r) ==
    /\ acks[w][p] = "checked"
    /\ \E ok \in BOOLEAN : Apply(p, r, ok) /\ Answer(w, p, IF ok THEN "ok" ELSE "no")
    /\ seen' = [seen EXCEPT ![p] = @ \cup {r}]
    /\ UNCHANGED <<transport, late, restores>>

\* The apply callback runs outside the lock; only a success is remembered.
Handle(w, p, r) ==
    /\ acks[w][p] = "checked"
    /\ \E ok \in BOOLEAN :
        /\ Apply(p, r, ok)
        /\ Answer(w, p, IF ok THEN "ok" ELSE "no")
        /\ seen' = IF ok THEN [seen EXCEPT ![p] = @ \cup {r}] ELSE seen
    /\ UNCHANGED <<transport, late, restores>>

-----------------------------------------------------------------------------
(* HttpReplicaTransport and POST /v1/internal/replica/delete. *)

\* The replica serves the request; its answer arrives or is lost.
Serve(w, p, r) ==
    /\ transport = "http"
    /\ acks[w][p] = "sent"
    /\ \E ok \in BOOLEAN :
        /\ Apply(p, r, ok)
        /\ \/ Answer(w, p, IF ok THEN "ok" ELSE "no")
           \/ "lost" \in FanoutFaults /\ Answer(w, p, "no")
    /\ UNCHANGED <<transport, seen, late, restores>>

\* URLError, an error status (no index on the replica), or the time-out, after
\* which the request may still be served.
SendFails(w, p, r) ==
    /\ transport = "http"
    /\ acks[w][p] = "sent"
    /\ Answer(w, p, "no")
    /\ \/ "lost" \in FanoutFaults /\ UNCHANGED late
       \/ "late" \in FanoutFaults /\ late' = late \cup {<<p, r>>}
    /\ UNCHANGED <<transport, old, mapped, seen, restores>>

ServeLate(p, r) ==
    /\ <<p, r>> \in late
    /\ late' = late \ {<<p, r>>}
    /\ \E ok \in BOOLEAN : Apply(p, r, ok)
    /\ UNCHANGED <<transport, seen, acks, restores>>

-----------------------------------------------------------------------------
\* The ids come back on a replica: it restarts with the registry of its last
\* save (the endpoint saves nothing), or the ids are ingested anew.
RestoreIds(p) ==
    /\ restores < MaxRestores
    /\ mapped[p] # Requests
    /\ restores' = restores + 1
    /\ mapped' = [mapped EXCEPT ![p] = Requests]
    /\ UNCHANGED <<transport, old, seen, late, acks>>

\* The process of the in-process workers ends.
ForgetSeen == seen' = [p \in Replicas |-> {}]

AllAnswered(w) == \A p \in Replicas : acks[w][p] \in {"ok", "no"}

\* Mutant: every answer counts.
QuorumOfAnswers(w) == {Cardinality({p \in Replicas : acks[w][p] # "none"}) >= Quorum}

\* quorum_met as publish may report it: when one of the answers broke off, send
\* raises, and publish with it, however many others there are.
QuorumMet(w) ==
    {Cardinality({p \in Replicas : acks[w][p] = "ok"}) >= Quorum}
        \cup {FALSE : x \in {y \in {"broken"} \cap FanoutFaults : transport = "http"}}

\* Enough replicas hold none of the vectors the request was made for.
ErasedAtQuorum(r) == Cardinality({p \in Replicas : r \notin old[p]}) >= Quorum
=============================================================================
