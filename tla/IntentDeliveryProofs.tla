------------------------- MODULE IntentDeliveryProofs -------------------------
(***************************************************************************)
(* Proofs about IntentDelivery, for any number of workers, replicas,       *)
(* requests, envelopes, attempts, crashes and requeues, every carrier and  *)
(* every fault.                                                            *)
(***************************************************************************)
EXTENDS IntentDelivery, FileOutboxProofs, FiniteSetTheorems, TLAPS

-----------------------------------------------------------------------------
(* The inductive invariant. *)

\* The request of an envelope, in the carrier that is in use.
ReqOf(e) == IF carrier = "outbox" THEN outbox[e].req ELSE queue[e].req

\* A message is that of a request.
QueueUsed == \A m \in Envelopes : queue[m].place # "none" <=> queue[m].req \in Requests

\* What worker w has listed, claimed or in hand is the envelope of a request, and
\* it has answers only while it publishes.
JobInv(w) ==
    /\ job[w].at # "publish" => acks[w] = NoAcks
    /\ job[w].at = "claim" => carrier # "outbox"
    /\ job[w].at \in {"done", "failed", "move"} => carrier = "outbox"
    /\ job[w].at \in {"publish", "done", "failed", "move"} =>
           job[w].env \in Envelopes /\ ReqOf(job[w].env) \in Requests
    /\ \A x \in job[w].todo : ReqOf(x[1]) \in Requests

\* A message that a consumer has is no longer there for another one.
HeldInv(w) ==
    \A m \in job[w].held :
        /\ carrier # "outbox" /\ ReqOf(m) \in Requests
        /\ carrier \in {"file", "redis"} => queue[m].place \in {"processing", "done"}

\* An answer stands for a replica without the vectors.
AnswerInv(w) ==
    \A p \in Replicas : acks[w][p] = "ok" => ReqOf(job[w].env) \notin old[p]

\* So does the decision to put an intent on record as delivered.
DoneInv(w) == job[w].at = "done" => ErasedAtQuorum(ReqOf(job[w].env))

WorkerInv(w) == JobInv(w) /\ HeldInv(w) /\ AnswerInv(w) /\ DoneInv(w)

DeliveryIndInv ==
    /\ TypeOK /\ OutboxUsed /\ QueueUsed
    /\ \A w \in Workers : WorkerInv(w)
    /\ SeenIsErased /\ DeliveredIsErased /\ ClaimedOnce

USE IntentsAssumption, OutboxAssumption, DeliveryAssumption
    DEF NoRequest, NoFile, TornFile, FileContent, In, Goto, Idle, carrierVars, fanoutVars,
        replicaVars, boundVars

-----------------------------------------------------------------------------
(* The carriers. *)

LEMMA QueueMove ==
    ASSUME QueueType, QueueUsed, NEW m \in Envelopes, queue[m].req \in Requests,
           NEW to \in {"pending", "processing", "done"}, MoveMessage(m, to)
    PROVE  /\ QueueType' /\ QueueUsed'
           /\ \A k \in Envelopes :
                  queue'[k].req = queue[k].req /\ (k # m => queue'[k] = queue[k])
           /\ queue'[m].place = to
  BY DEF QueueType, QueueUsed, MoveMessage

LEMMA QueueEnqueue ==
    ASSUME QueueType, QueueUsed, NEW r \in Requests, enqueue_delete_intent(r)
    PROVE  /\ QueueType' /\ QueueUsed'
           /\ \A k \in Envelopes : queue[k].req \in Requests => queue'[k] = queue[k]
           /\ \A k \in Envelopes : queue'[k] = queue[k] \/ queue'[k].place = "pending"
  BY DEF QueueType, QueueUsed, enqueue_delete_intent

-----------------------------------------------------------------------------
(* The replicas. *)

\* Replicas only lose vectors, so that what was erased at a quorum still is.
LEMMA StillErased ==
    ASSUME \A p \in Replicas : old'[p] \subseteq old[p], NEW r, ErasedAtQuorum(r)
    PROVE  ErasedAtQuorum(r)'
<1> DEFINE S == {p \in Replicas : r \notin old[p]}
           T == {p \in Replicas : r \notin old'[p]}
<1>1. S \subseteq T /\ T \subseteq Replicas
  OBVIOUS
<1>2. IsFiniteSet(T) /\ IsFiniteSet(S)
  BY <1>1, FS_Subset, FanoutAssumption
<1>3. Cardinality(S) <= Cardinality(T) /\ Cardinality(S) \in Nat /\ Cardinality(T) \in Nat
  BY <1>1, <1>2, FS_Subset, FS_CardinalityType
<1> QED BY <1>3, FanoutAssumption DEF ErasedAtQuorum

\* quorum_met is true or false.
LEMMA QuorumReport ==
    ASSUME NEW w, NEW met \in QuorumMet(w)
    PROVE  met \in BOOLEAN
<1> DEFINE enough == Cardinality({p \in Replicas : acks[w][p] = "ok"}) >= Quorum
<1>1. met = enough \/ met = FALSE
  BY Zenon DEF QuorumMet
<1>2. enough \in BOOLEAN
  OBVIOUS
<1> HIDE DEF enough
<1> QED BY <1>1, <1>2

\* A quorum of answers is a quorum of replicas without the vectors.
LEMMA QuorumErased ==
    ASSUME NEW w \in Workers, AnswerInv(w), TRUE \in QuorumMet(w)
    PROVE  ErasedAtQuorum(ReqOf(job[w].env))
<1> DEFINE S == {p \in Replicas : acks[w][p] = "ok"}
           T == {p \in Replicas : ReqOf(job[w].env) \notin old[p]}
<1>1. S \subseteq T /\ T \subseteq Replicas
  BY DEF AnswerInv
<1>2. IsFiniteSet(T) /\ IsFiniteSet(S)
  BY <1>1, FS_Subset, FanoutAssumption
<1>3. Cardinality(S) <= Cardinality(T) /\ Cardinality(S) \in Nat /\ Cardinality(T) \in Nat
  BY <1>1, <1>2, FS_Subset, FS_CardinalityType
<1>4. Cardinality(S) >= Quorum
  BY DEF QuorumMet
<1> QED BY <1>3, <1>4, FanoutAssumption DEF ErasedAtQuorum

\* What the delete of a replica may do.
LEMMA ApplyErases ==
    ASSUME FanoutType, NEW p \in Replicas, NEW r \in Requests, NEW ok \in BOOLEAN,
           Apply(p, r, ok)
    PROVE  /\ old' \in [Replicas -> SUBSET Requests]
           /\ mapped' \in [Replicas -> SUBSET Requests]
           /\ \A q \in Replicas : old'[q] \subseteq old[q]
           /\ ok => r \notin old'[p]
  BY DEF FanoutType, Apply

-----------------------------------------------------------------------------
(* What all steps have in common. *)

\* Envelopes keep their requests, replicas get no vectors back, intents are put
\* on record only when they are erased, and a message that was taken stays so.
Frame ==
    /\ carrier' = carrier
    /\ \A e \in Envelopes : ReqOf(e) \in Requests => ReqOf(e)' = ReqOf(e)
    /\ \A p \in Replicas : old'[p] \subseteq old[p]
    /\ \A e \in Envelopes :
           Delivered(e)' => \/ Delivered(e)
                            \/ ReqOf(e) \in Requests /\ ErasedAtQuorum(ReqOf(e))
    /\ carrier \in {"file", "redis"} =>
           \A m \in Envelopes : queue[m].place \in {"processing", "done"}
                                    => queue'[m].place \in {"processing", "done"}

LEMMA FrameDelivered ==
    ASSUME DeliveryIndInv, Frame
    PROVE  DeliveredIsErased'
<1> SUFFICES ASSUME NEW e \in Envelopes, Delivered(e)'
             PROVE  ErasedAtQuorum(ReqOf(e))'
  BY DEF DeliveredIsErased, ReqOf
<1>1. ReqOf(e) \in Requests /\ ErasedAtQuorum(ReqOf(e))
  BY DEF Frame, DeliveryIndInv, DeliveredIsErased, Delivered, ReqOf, OutboxUsed, QueueUsed
<1>2. ReqOf(e)' = ReqOf(e)
  BY <1>1 DEF Frame
<1>3. \A r : ErasedAtQuorum(r) => ErasedAtQuorum(r)'
  BY StillErased DEF Frame
<1> QED BY <1>1, <1>2, <1>3 DEF ErasedAtQuorum

\* A worker that does not move keeps what it knows.
LEMMA FrameWorker ==
    ASSUME DeliveryIndInv, Frame, NEW w \in Workers, job'[w] = job[w], acks'[w] = acks[w]
    PROVE  WorkerInv(w)'
<1> USE DEF DeliveryIndInv, WorkerInv
<1>1. JobInv(w)'
  BY DEF Frame, JobInv, TypeOK, Jobs
<1>2. HeldInv(w)'
  BY DEF Frame, HeldInv, TypeOK, Jobs
<1>3. AnswerInv(w)'
  BY DEF Frame, JobInv, AnswerInv, NoAcks
<1>4. DoneInv(w)'
  <2> SUFFICES ASSUME job[w].at = "done" PROVE ErasedAtQuorum(ReqOf(job[w].env))'
    BY DEF DoneInv
  <2>1. ErasedAtQuorum(ReqOf(job[w].env)) /\ ReqOf(job[w].env)' = ReqOf(job[w].env)
    BY DEF Frame, JobInv, DoneInv
  <2>2. \A r : ErasedAtQuorum(r) => ErasedAtQuorum(r)'
    BY StillErased DEF Frame
  <2> QED BY <2>1, <2>2 DEF ErasedAtQuorum
<1> QED BY <1>1, <1>2, <1>3, <1>4

LEMMA IdleWorker ==
    ASSUME NEW w \in Workers, job'[w] = Idle, acks'[w] = NoAcks
    PROVE  WorkerInv(w)'
  BY DEF WorkerInv, JobInv, HeldInv, AnswerInv, DoneInv, NoAcks

LEMMA FrameClaimed ==
    ASSUME DeliveryIndInv, Frame, \A w \in Workers : job'[w].held \subseteq job[w].held
    PROVE  ClaimedOnce'
  BY DEF DeliveryIndInv, Frame, ClaimedOnce

\* A step that moves one worker, and takes no message for it.
LEMMA OneWorkerMoves ==
    ASSUME DeliveryIndInv, Frame, TypeOK', OutboxUsed', QueueUsed', SeenIsErased',
           NEW w \in Workers, WorkerInv(w)', job'[w].held \subseteq job[w].held,
           \A v \in Workers \ {w} : job'[v] = job[v] /\ acks'[v] = acks[v]
    PROVE  DeliveryIndInv'
<1>1. \A v \in Workers : WorkerInv(v)'
  BY FrameWorker
<1>2. \A v \in Workers : job'[v].held \subseteq job[v].held
  OBVIOUS
<1> QED BY <1>1, <1>2, FrameClaimed, FrameDelivered DEF DeliveryIndInv

\* A step that moves no worker.
LEMMA NoWorkerMoves ==
    ASSUME DeliveryIndInv, Frame, TypeOK', OutboxUsed', QueueUsed', SeenIsErased',
           job' = job, acks' = acks
    PROVE  DeliveryIndInv'
<1>1. \A v \in Workers : WorkerInv(v)'
  BY FrameWorker
<1> QED BY <1>1, FrameClaimed, FrameDelivered DEF DeliveryIndInv

\* Nothing but workers and bounds changes.
LEMMA SameWorld ==
    ASSUME DeliveryIndInv, UNCHANGED <<replicaVars, carrierVars>>
    PROVE  /\ Frame /\ OutboxUsed' /\ QueueUsed' /\ SeenIsErased'
           /\ OutboxType' /\ QueueType' /\ carrier' \in Carriers
           /\ \A e \in Envelopes : ReqOf(e)' = ReqOf(e)
<1> USE DEF DeliveryIndInv
<1>1. OutboxUsed' /\ QueueUsed' /\ SeenIsErased' /\ OutboxType' /\ QueueType' /\ carrier' \in Carriers
  BY DEF OutboxUsed, QueueUsed, SeenIsErased, OutboxType, QueueType, TypeOK
<1>2. \A e \in Envelopes : ReqOf(e)' = ReqOf(e) /\ (Delivered(e)' => Delivered(e))
  BY DEF ReqOf, Delivered
<1>3. /\ carrier' = carrier
      /\ \A p \in Replicas : old'[p] \subseteq old[p]
      /\ \A m \in Envelopes : queue'[m] = queue[m]
  OBVIOUS
<1> QED BY <1>1, <1>2, <1>3 DEF Frame

-----------------------------------------------------------------------------
(* The steps of a worker that leave the replicas and the carrier alone. *)

\* The step of one worker from one point to another.
LEMMA Moves ==
    ASSUME DeliveryIndInv, NEW w \in Workers, NEW j \in Jobs, Goto(w, j)
    PROVE  /\ job' \in [Workers -> Jobs] /\ job'[w] = j
           /\ \A v \in Workers \ {w} : job'[v] = job[v]
  BY DEF DeliveryIndInv, TypeOK

\* Such a step with all its parts: the worker's own point and answers, the other
\* workers, the replicas and the carrier.
LEMMA MoveType ==
    ASSUME DeliveryIndInv, NEW w \in Workers, NEW j \in Jobs, Goto(w, j), JobInv(w)',
           FanoutType', OutboxType', QueueType', UNCHANGED <<carrier, boundVars>>,
           \A v \in Workers \ {w} : acks'[v] = acks[v]
    PROVE  TypeOK'
<1>1. /\ job' \in [Workers -> Jobs] /\ job'[w] = j
      /\ \A v \in Workers \ {w} : job'[v] = job[v]
  BY Moves
<1>2. \A v \in Workers : job'[v].at \in {"idle", "claim", "loop"} => acks'[v] = NoAcks
  BY <1>1 DEF DeliveryIndInv, TypeOK, JobInv, NoAcks
<1>3. crashes' \in 0 .. MaxCrashes /\ requeues' \in 0 .. MaxRequeues /\ carrier' \in Carriers
  BY DEF DeliveryIndInv, TypeOK
<1> QED BY <1>1, <1>2, <1>3 DEF TypeOK, NoAcks

LEMMA MoveStep ==
    ASSUME DeliveryIndInv, NEW w \in Workers, NEW j \in Jobs, Goto(w, j), WorkerInv(w)',
           j.held \subseteq job[w].held,
           Frame, OutboxUsed', QueueUsed', SeenIsErased', FanoutType', OutboxType', QueueType',
           UNCHANGED <<carrier, boundVars>>,
           \A v \in Workers \ {w} : acks'[v] = acks[v]
    PROVE  DeliveryIndInv'
<1>1. job'[w] = j /\ \A v \in Workers \ {w} : job'[v] = job[v]
  BY Moves
<1>2. TypeOK'
  BY MoveType DEF WorkerInv
<1> QED BY <1>1, <1>2, OneWorkerMoves

LEMMA QuietStep ==
    ASSUME DeliveryIndInv, NEW w \in Workers, NEW j \in Jobs, Goto(w, j),
           j.held \subseteq job[w].held,
           UNCHANGED <<replicaVars, carrierVars, boundVars>>,
           acks' \in [Workers -> [Replicas -> {"none", "sent", "checked", "ok", "no"}]],
           \A v \in Workers \ {w} : acks'[v] = acks[v],
           WorkerInv(w)'
    PROVE  DeliveryIndInv'
<1>1. FanoutType'
  BY DEF DeliveryIndInv, TypeOK, FanoutType
<1> QED BY <1>1, SameWorld, MoveStep

\* A worker that has taken up a batch of envelopes.
LEMMA Starts ==
    ASSUME NEW a \in {"claim", "loop"}, NEW S \in SUBSET (Envelopes \X Nat),
           NEW j, j = [Idle EXCEPT !.at = a, !.todo = S]
    PROVE  j \in Jobs /\ j.at = a /\ j.todo = S /\ j.held = {} /\ j.env = 0
<1>1. Idle \in Jobs
  BY DEF Jobs
<1>2. j \in Jobs
  BY <1>1 DEF Jobs
<1> QED BY <1>2

LEMMA StartStep ==
    ASSUME DeliveryIndInv, NEW w \in Workers, job[w] = Idle, NEW a \in {"claim", "loop"},
           a = "claim" => carrier # "outbox",
           NEW S \in SUBSET (Envelopes \X Nat), \A x \in S : ReqOf(x[1]) \in Requests,
           Goto(w, [Idle EXCEPT !.at = a, !.todo = S]),
           UNCHANGED <<fanoutVars, carrierVars, boundVars>>
    PROVE  DeliveryIndInv'
<1>1. PICK j : j = [Idle EXCEPT !.at = a, !.todo = S]
  OBVIOUS
<1>2. j \in Jobs /\ j.at = a /\ j.todo = S /\ j.held = {} /\ j.env = 0
  BY <1>1, Starts
<1>3. Goto(w, j)
  BY <1>1
<1>4. job'[w] = j
  BY <1>2, <1>3, Moves
<1>5. acks'[w] = NoAcks
  BY DEF DeliveryIndInv, TypeOK, NoAcks
<1>6. \A e \in Envelopes : ReqOf(e)' = ReqOf(e)
  BY SameWorld
<1>7. WorkerInv(w)'
  BY <1>2, <1>4, <1>5, <1>6 DEF WorkerInv, JobInv, HeldInv, AnswerInv, DoneInv, NoAcks
<1>8. /\ acks' \in [Workers -> [Replicas -> {"none", "sent", "checked", "ok", "no"}]]
      /\ \A v \in Workers \ {w} : acks'[v] = acks[v]
  BY DEF DeliveryIndInv, TypeOK, FanoutType
<1>9. j.held \subseteq job[w].held
  BY <1>2
<1> QED BY <1>2, <1>3, <1>7, <1>8, <1>9, QuietStep

LEMMA ListOutboxStep ==
    ASSUME DeliveryIndInv, NEW w \in Workers, ListOutbox(w)
    PROVE  DeliveryIndInv'
<1> DEFINE batch == {<<e, outbox[e].pending>> : e \in In("pending")}
<1>1. batch \in SUBSET (Envelopes \X Nat) /\ \A x \in batch : ReqOf(x[1]) \in Requests
  BY DEF DeliveryIndInv, ListOutbox, Listable, TypeOK, OutboxType, OutboxUsed, ReqOf
<1>2. /\ Goto(w, [Idle EXCEPT !.at = "loop", !.todo = batch]) /\ job[w] = Idle
      /\ UNCHANGED <<fanoutVars, carrierVars, boundVars>>
  BY DEF ListOutbox
<1> HIDE DEF batch
<1> QED BY <1>1, <1>2, StartStep

LEMMA DequeueStep ==
    ASSUME DeliveryIndInv, NEW w \in Workers, Dequeue(w)
    PROVE  DeliveryIndInv'
<1>1. PICK S \in SUBSET Waiting : Goto(w, [Idle EXCEPT !.at = "claim", !.todo = S \X {0}])
  BY DEF Dequeue
<1> DEFINE batch == S \X {0}
<1>2. batch \in SUBSET (Envelopes \X Nat) /\ \A x \in batch : ReqOf(x[1]) \in Requests
  BY DEF DeliveryIndInv, Dequeue, Waiting, TypeOK, QueueType, QueueUsed, ReqOf
<1>3. /\ Goto(w, [Idle EXCEPT !.at = "claim", !.todo = batch]) /\ job[w] = Idle
      /\ carrier # "outbox" /\ UNCHANGED <<fanoutVars, carrierVars, boundVars>>
  BY <1>1 DEF Dequeue
<1> HIDE DEF batch
<1> QED BY <1>2, <1>3, StartStep

LEMMA DequeuedStep ==
    ASSUME DeliveryIndInv, NEW w \in Workers, Dequeued(w)
    PROVE  DeliveryIndInv'
<1> DEFINE batch == job[w].held \X {0}
<1>1. job[w] \in Jobs /\ WorkerInv(w)
  BY DEF DeliveryIndInv, TypeOK
<1>2. batch \in SUBSET (Envelopes \X Nat) /\ \A x \in batch : ReqOf(x[1]) \in Requests
  BY <1>1 DEF WorkerInv, HeldInv, Jobs
<1>3. PICK j : j = [job[w] EXCEPT !.at = "loop", !.todo = batch]
  OBVIOUS
<1>4. Goto(w, j) /\ UNCHANGED <<fanoutVars, carrierVars, boundVars>>
  BY <1>3 DEF Dequeued
<1> HIDE DEF batch
<1>5. j \in Jobs /\ j.at = "loop" /\ j.todo = batch /\ j.held = job[w].held /\ j.env = job[w].env
  BY <1>1, <1>2, <1>3 DEF Jobs
<1>6. job'[w] = j
  BY <1>4, <1>5, Moves
<1>7. acks'[w] = NoAcks
  BY <1>4 DEF Dequeued, DeliveryIndInv, TypeOK, NoAcks
<1>8. \A e \in Envelopes : ReqOf(e)' = ReqOf(e) /\ queue'[e] = queue[e]
  BY <1>4, SameWorld
<1>9. JobInv(w)'
  BY <1>2, <1>5, <1>6, <1>7, <1>8 DEF JobInv
<1>10. HeldInv(w)'
  BY <1>1, <1>4, <1>5, <1>6, <1>8 DEF WorkerInv, HeldInv, Jobs
<1>11. AnswerInv(w)' /\ DoneInv(w)'
  BY <1>5, <1>6, <1>7 DEF AnswerInv, DoneInv, NoAcks
<1>12. /\ acks' \in [Workers -> [Replicas -> {"none", "sent", "checked", "ok", "no"}]]
       /\ \A v \in Workers \ {w} : acks'[v] = acks[v]
  BY <1>4 DEF DeliveryIndInv, TypeOK, FanoutType
<1>13. WorkerInv(w)' /\ j.held \subseteq job[w].held
  BY <1>5, <1>9, <1>10, <1>11 DEF WorkerInv
<1> QED BY <1>4, <1>5, <1>12, <1>13, QuietStep

LEMMA EndBatchStep ==
    ASSUME DeliveryIndInv, NEW w \in Workers, EndBatch(w)
    PROVE  DeliveryIndInv'
<1>1. Goto(w, Idle) /\ UNCHANGED <<fanoutVars, carrierVars, boundVars>> /\ acks[w] = NoAcks
  BY DEF EndBatch, DeliveryIndInv, TypeOK
<1>2. Idle \in Jobs /\ Idle.held = {}
  BY DEF Jobs
<1>3. job'[w] = Idle
  BY <1>1, <1>2, Moves
<1>4. acks'[w] = NoAcks
  BY <1>1 DEF NoAcks
<1>5. WorkerInv(w)'
  BY <1>3, <1>4, IdleWorker
<1>6. /\ acks' \in [Workers -> [Replicas -> {"none", "sent", "checked", "ok", "no"}]]
      /\ \A v \in Workers \ {w} : acks'[v] = acks[v]
  BY <1>1 DEF DeliveryIndInv, TypeOK, FanoutType
<1>7. Idle.held \subseteq job[w].held
  BY <1>2
<1>8. UNCHANGED <<replicaVars, carrierVars, boundVars>>
  BY <1>1
<1> QED BY <1>1, <1>2, <1>5, <1>6, <1>7, <1>8, QuietStep

LEMMA TakeStep ==
    ASSUME DeliveryIndInv, NEW w \in Workers, Take(w)
    PROVE  DeliveryIndInv'
<1>1. PICK x \in job[w].todo :
        Goto(w, [job[w] EXCEPT !.at = "publish", !.todo = @ \ {x}, !.env = x[1], !.n = x[2]])
  BY DEF Take
<1>2. PICK j : j = [job[w] EXCEPT !.at = "publish", !.todo = @ \ {x}, !.env = x[1], !.n = x[2]]
  OBVIOUS
<1>3. job[w] \in Jobs /\ WorkerInv(w) /\ x[1] \in Envelopes /\ x[2] \in Nat
  BY DEF DeliveryIndInv, TypeOK, Jobs
<1>4. /\ j \in Jobs /\ j.at = "publish" /\ j.todo = job[w].todo \ {x}
      /\ j.held = job[w].held /\ j.env = x[1]
  <2>1. PICK e \in Envelopes, n \in Nat, T \in SUBSET (Envelopes \X Nat) :
            e = x[1] /\ n = x[2] /\ T = job[w].todo \ {x}
    BY <1>3 DEF Jobs
  <2>2. j = [job[w] EXCEPT !.at = "publish", !.todo = T, !.env = e, !.n = n]
    BY <1>2, <2>1
  <2>3. e \in 0 .. MaxEnvelopes
    BY DEF Envelopes
  <2> QED BY <1>3, <2>1, <2>2, <2>3 DEF Jobs
<1>5. Goto(w, j)
  BY <1>1, <1>2
<1>6. job'[w] = j
  BY <1>4, <1>5, Moves
<1>7. UNCHANGED <<replicaVars, carrierVars, boundVars>>
  BY DEF Take, Publish
<1>8. \A e \in Envelopes : ReqOf(e)' = ReqOf(e) /\ queue'[e] = queue[e]
  BY <1>7, SameWorld
<1>9. /\ acks' \in [Workers -> [Replicas -> {"none", "sent", "checked", "ok", "no"}]]
      /\ \A v \in Workers \ {w} : acks'[v] = acks[v]
      /\ \A p \in Replicas : acks'[w][p] # "ok"
  BY DEF Take, Publish, AllSent, AllNo, DeliveryIndInv, TypeOK, FanoutType
<1>10. JobInv(w)'
  BY <1>3, <1>4, <1>6, <1>7, <1>8 DEF WorkerInv, JobInv, Jobs
<1>11. HeldInv(w)'
  BY <1>3, <1>4, <1>6, <1>7, <1>8 DEF WorkerInv, HeldInv, Jobs
<1>12. AnswerInv(w)' /\ DoneInv(w)'
  BY <1>4, <1>6, <1>9 DEF AnswerInv, DoneInv
<1>13. WorkerInv(w)' /\ j.held \subseteq job[w].held
  BY <1>4, <1>10, <1>11, <1>12 DEF WorkerInv
<1> QED BY <1>4, <1>5, <1>7, <1>9, <1>13, QuietStep

-----------------------------------------------------------------------------
(* The steps that change the carrier. *)

\* The answers of worker w are dropped.
LEMMA AnswersDropped ==
    ASSUME DeliveryIndInv, NEW w \in Workers, UNCHANGED replicaVars,
           acks' = [acks EXCEPT ![w] = NoAcks] \/ acks' = acks
    PROVE  FanoutType' /\ \A v \in Workers \ {w} : acks'[v] = acks[v]
<1>1. NoAcks \in [Replicas -> {"none", "sent", "checked", "ok", "no"}]
  BY DEF NoAcks
<1>2. acks \in [Workers -> [Replicas -> {"none", "sent", "checked", "ok", "no"}]]
  BY DEF DeliveryIndInv, TypeOK, FanoutType
<1>3. acks' \in [Workers -> [Replicas -> {"none", "sent", "checked", "ok", "no"}]]
  BY <1>1, <1>2
<1> QED BY <1>2, <1>3 DEF DeliveryIndInv, TypeOK, FanoutType

\* A message of a queue goes from one place to another.
LEMMA QueueFrame ==
    ASSUME DeliveryIndInv, carrier # "outbox",
           NEW m \in Envelopes, ReqOf(m) \in Requests,
           NEW to \in {"pending", "processing", "done"}, MoveMessage(m, to),
           UNCHANGED <<replicaVars, carrier, outbox>>,
           to = "done" => carrier = "redis" \/ ErasedAtQuorum(ReqOf(m)),
           to = "pending" => carrier = "sqs"
    PROVE  /\ Frame /\ OutboxUsed' /\ QueueUsed' /\ SeenIsErased' /\ OutboxType' /\ QueueType'
           /\ \A e \in Envelopes : ReqOf(e)' = ReqOf(e) /\ (e # m => queue'[e] = queue[e])
           /\ queue'[m].place = to
<1>1. /\ QueueType' /\ QueueUsed'
      /\ \A k \in Envelopes :
             queue'[k].req = queue[k].req /\ (k # m => queue'[k] = queue[k])
      /\ queue'[m].place = to
  BY QueueMove DEF DeliveryIndInv, TypeOK, ReqOf
<1>2. OutboxUsed' /\ SeenIsErased' /\ OutboxType'
  BY DEF DeliveryIndInv, TypeOK, OutboxUsed, SeenIsErased, OutboxType
<1>3. \A e \in Envelopes : ReqOf(e)' = ReqOf(e)
  BY <1>1 DEF ReqOf
<1>4. \A e \in Envelopes :
          Delivered(e)' => Delivered(e) \/ (ReqOf(e) \in Requests /\ ErasedAtQuorum(ReqOf(e)))
  BY <1>1 DEF Delivered
<1>5. carrier \in {"file", "redis"} =>
          \A k \in Envelopes : queue[k].place \in {"processing", "done"}
                                   => queue'[k].place \in {"processing", "done"}
  BY <1>1
<1>6. \A p \in Replicas : old'[p] \subseteq old[p]
  OBVIOUS
<1> QED BY <1>1, <1>2, <1>3, <1>4, <1>5, <1>6 DEF Frame

\* Files of the outbox are written or moved; only envelopes of D, which are
\* erased, come to be on record as done.
LEMMA OutboxFrame ==
    ASSUME DeliveryIndInv, OutboxType', OutboxUsed',
           \A e \in Envelopes : outbox[e].req \in Requests => outbox'[e].req = outbox[e].req,
           NEW D \in SUBSET Envelopes, In("done")' \subseteq In("done") \cup D,
           carrier = "outbox" => \A e \in D : ReqOf(e) \in Requests /\ ErasedAtQuorum(ReqOf(e)),
           UNCHANGED <<replicaVars, carrier, queue>>
    PROVE  Frame /\ QueueUsed' /\ SeenIsErased' /\ QueueType'
<1>1. QueueUsed' /\ SeenIsErased' /\ QueueType'
  BY DEF DeliveryIndInv, TypeOK, QueueUsed, SeenIsErased, QueueType
<1>2. \A e \in Envelopes : ReqOf(e) \in Requests => ReqOf(e)' = ReqOf(e)
  BY DEF ReqOf
<1>3. \A e \in Envelopes :
          Delivered(e)' => Delivered(e) \/ (ReqOf(e) \in Requests /\ ErasedAtQuorum(ReqOf(e)))
  BY DEF Delivered
<1> QED BY <1>1, <1>2, <1>3 DEF Frame

\* The worker goes on with its batch.
LEMMA BackJob ==
    ASSUME DeliveryIndInv, NEW w \in Workers
    PROVE  /\ Back(w) \in Jobs /\ Back(w).at = "loop" /\ Back(w).todo = job[w].todo
           /\ Back(w).held = job[w].held /\ Back(w).env = 0
<1>1. job[w] \in Jobs /\ 0 \in 0 .. MaxEnvelopes
  BY DEF DeliveryIndInv, TypeOK
<1> QED BY <1>1 DEF Back, Jobs

LEMMA BackWorker ==
    ASSUME DeliveryIndInv, Frame, NEW w \in Workers, Goto(w, Back(w)), acks'[w] = NoAcks
    PROVE  WorkerInv(w)'
<1>1. job[w] \in Jobs /\ WorkerInv(w)
  BY DEF DeliveryIndInv, TypeOK
<1>2. job'[w] = Back(w)
  BY BackJob, Moves
<1>3. /\ job'[w].at = "loop" /\ job'[w].todo = job[w].todo
      /\ job'[w].held = job[w].held /\ job'[w].env = 0
  BY <1>2, BackJob
<1>5. JobInv(w)'
  BY <1>1, <1>3 DEF Frame, WorkerInv, JobInv, Jobs
<1>6. HeldInv(w)'
  BY <1>1, <1>3 DEF Frame, WorkerInv, HeldInv, Jobs
<1>7. AnswerInv(w)' /\ DoneInv(w)'
  BY <1>3 DEF AnswerInv, DoneInv, NoAcks
<1> QED BY <1>5, <1>6, <1>7 DEF WorkerInv

LEMMA MoveFailedStep ==
    ASSUME DeliveryIndInv, NEW w \in Workers, MoveFailed(w)
    PROVE  DeliveryIndInv'
<1>1. job[w] \in Jobs /\ WorkerInv(w)
  BY DEF DeliveryIndInv, TypeOK
<1>2. job[w].env \in Envelopes /\ outbox[job[w].env].req \in Requests /\ acks[w] = NoAcks
  BY <1>1 DEF MoveFailed, WorkerInv, JobInv, ReqOf
<1>3. 0 \in FileContent
  OBVIOUS
<1>4. /\ OutboxType' /\ OutboxUsed' /\ In("done")' = In("done")
      /\ \A e \in Envelopes : outbox'[e].req = outbox[e].req
  <2>1. CASE move_failed(job[w].env)
    BY <1>2, <1>3, <2>1, OutboxWrite DEF DeliveryIndInv, TypeOK
  <2>2. CASE UNCHANGED outbox
    BY <2>2 DEF DeliveryIndInv, TypeOK, OutboxType, OutboxUsed
  <2> QED BY <2>1, <2>2 DEF MoveFailed
<1>5. UNCHANGED <<replicaVars, carrier, queue, boundVars>> /\ acks' = acks /\ Goto(w, Back(w))
  BY DEF MoveFailed
<1>6. Frame /\ QueueUsed' /\ SeenIsErased' /\ QueueType'
  <2>1. {} \in SUBSET Envelopes /\ In("done")' \subseteq In("done") \cup {}
    BY <1>4
  <2> QED BY <1>4, <1>5, <2>1, OutboxFrame
<1>7. WorkerInv(w)'
  BY <1>2, <1>5, <1>6, BackWorker
<1>8. FanoutType' /\ \A v \in Workers \ {w} : acks'[v] = acks[v]
  BY <1>5, AnswersDropped
<1>9. Back(w) \in Jobs /\ Back(w).held \subseteq job[w].held
  BY BackJob
<1> QED BY <1>4, <1>5, <1>6, <1>7, <1>8, <1>9, MoveStep

LEMMA MarkFailedStep ==
    ASSUME DeliveryIndInv, NEW w \in Workers, MarkFailed(w)
    PROVE  DeliveryIndInv'
<1>1. job[w] \in Jobs /\ WorkerInv(w)
  BY DEF DeliveryIndInv, TypeOK
<1>2. /\ job[w].env \in Envelopes /\ outbox[job[w].env].req \in Requests /\ acks[w] = NoAcks
      /\ carrier = "outbox"
  BY <1>1 DEF MarkFailed, WorkerInv, JobInv, ReqOf
<1>3. job[w].n + 1 \in FileContent
  BY <1>1 DEF Jobs
<1>4. /\ OutboxType' /\ OutboxUsed' /\ In("done")' = In("done")
      /\ \A e \in Envelopes : outbox'[e].req = outbox[e].req
  BY <1>2, <1>3, OutboxWrite DEF MarkFailed, DeliveryIndInv, TypeOK
<1>5. UNCHANGED <<replicaVars, carrier, queue, boundVars>> /\ acks' = acks
  BY DEF MarkFailed
<1>6. Frame /\ QueueUsed' /\ SeenIsErased' /\ QueueType'
  <2>1. {} \in SUBSET Envelopes /\ In("done")' \subseteq In("done") \cup {}
    BY <1>4
  <2> QED BY <1>4, <1>5, <2>1, OutboxFrame
<1>7. PICK j : j = [job[w] EXCEPT !.at = "move"]
  OBVIOUS
<1>8. /\ j \in Jobs /\ j.at = "move" /\ j.todo = job[w].todo
      /\ j.held = job[w].held /\ j.env = job[w].env /\ Goto(w, j)
  BY <1>1, <1>7 DEF Jobs, MarkFailed
<1>9. job'[w] = j
  BY <1>8, Moves
<1>10. \A e \in Envelopes : ReqOf(e)' = ReqOf(e) /\ queue'[e] = queue[e]
  BY <1>4, <1>5 DEF ReqOf
<1>11. JobInv(w)'
  <2>1. acks'[w] = NoAcks /\ carrier' = carrier
    BY <1>2, <1>5
  <2>2. ReqOf(job[w].env) \in Requests
    BY <1>2 DEF ReqOf
  <2> QED BY <1>1, <1>2, <1>8, <1>9, <1>10, <2>1, <2>2 DEF WorkerInv, JobInv, Jobs
<1>12. HeldInv(w)'
  BY <1>1, <1>5, <1>8, <1>9, <1>10 DEF WorkerInv, HeldInv, Jobs
<1>13. AnswerInv(w)' /\ DoneInv(w)'
  BY <1>2, <1>5, <1>8, <1>9 DEF AnswerInv, DoneInv, NoAcks
<1>14. WorkerInv(w)' /\ j.held \subseteq job[w].held
  BY <1>8, <1>11, <1>12, <1>13 DEF WorkerInv
<1>15. FanoutType' /\ \A v \in Workers \ {w} : acks'[v] = acks[v]
  BY <1>5, AnswersDropped
<1> QED BY <1>4, <1>5, <1>6, <1>8, <1>14, <1>15, MoveStep

LEMMA MarkDoneStep ==
    ASSUME DeliveryIndInv, NEW w \in Workers, MarkDone(w)
    PROVE  DeliveryIndInv'
<1> DEFINE e == job[w].env
<1>1. job[w] \in Jobs /\ WorkerInv(w) /\ job[w].n \in Nat
  BY DEF DeliveryIndInv, TypeOK, Jobs
<1>2. /\ e \in Envelopes /\ outbox[e].req \in Requests /\ acks[w] = NoAcks
      /\ ReqOf(e) \in Requests /\ ErasedAtQuorum(ReqOf(e))
  BY <1>1 DEF MarkDone, WorkerInv, JobInv, DoneInv, ReqOf
<1>3. /\ OutboxType' /\ OutboxUsed' /\ In("done")' \subseteq In("done") \cup {e}
      /\ \A d \in Envelopes : outbox'[d].req = outbox[d].req
  <2>1. mark_done(e) \/ write_attempt(e, job[w].n + 1) \/ UNCHANGED outbox
    BY DEF MarkDone
  <2>2. CASE mark_done(e)
    BY <1>2, <2>2, OutboxDone DEF DeliveryIndInv, TypeOK
  <2>3. CASE write_attempt(e, job[w].n + 1)
    <3>1. job[w].n + 1 \in FileContent
      BY <1>1
    <3> QED BY <1>2, <2>3, <3>1, OutboxWrite DEF DeliveryIndInv, TypeOK
  <2>4. CASE UNCHANGED outbox
    BY <2>4 DEF DeliveryIndInv, TypeOK, OutboxType, OutboxUsed
  <2> QED BY <2>1, <2>2, <2>3, <2>4
<1>4. UNCHANGED <<replicaVars, carrier, queue, boundVars>> /\ acks' = acks /\ Goto(w, Back(w))
  BY DEF MarkDone
<1> HIDE DEF e
<1>5. Frame /\ QueueUsed' /\ SeenIsErased' /\ QueueType'
  <2>1. /\ {e} \in SUBSET Envelopes
        /\ \A d \in {e} : ReqOf(d) \in Requests /\ ErasedAtQuorum(ReqOf(d))
        /\ \A d \in Envelopes : outbox[d].req \in Requests => outbox'[d].req = outbox[d].req
    BY <1>2, <1>3
  <2> QED BY <1>3, <1>4, <2>1, OutboxFrame
<1>6. WorkerInv(w)'
  BY <1>2, <1>4, <1>5, BackWorker
<1>7. FanoutType' /\ \A v \in Workers \ {w} : acks'[v] = acks[v]
  BY <1>4, AnswersDropped
<1>8. Back(w) \in Jobs /\ Back(w).held \subseteq job[w].held
  BY BackJob
<1> QED BY <1>3, <1>4, <1>5, <1>6, <1>7, <1>8, MoveStep

\* The answers were a quorum, or the attempts are used up, and the file is there.
LEMMA DecideStep ==
    ASSUME DeliveryIndInv, NEW w \in Workers, job[w].at = "publish", carrier = "outbox",
           NEW a \in {"done", "failed"}, a = "done" => TRUE \in QuorumMet(w),
           Goto(w, [job[w] EXCEPT !.at = a]),
           acks' = [acks EXCEPT ![w] = NoAcks],
           UNCHANGED <<replicaVars, carrierVars, boundVars>>
    PROVE  DeliveryIndInv'
<1>1. job[w] \in Jobs /\ WorkerInv(w)
  BY DEF DeliveryIndInv, TypeOK
<1>2. PICK j : j = [job[w] EXCEPT !.at = a]
  OBVIOUS
<1>3. /\ j \in Jobs /\ j.at = a /\ j.todo = job[w].todo
      /\ j.held = job[w].held /\ j.env = job[w].env
  BY <1>1, <1>2 DEF Jobs
<1>4. Goto(w, j)
  BY <1>2
<1>5. job'[w] = j
  BY <1>3, <1>4, Moves
<1>6. acks'[w] = NoAcks
  BY DEF DeliveryIndInv, TypeOK, FanoutType
<1>7. \A e \in Envelopes : ReqOf(e)' = ReqOf(e) /\ queue'[e] = queue[e]
  BY SameWorld
<1>8. JobInv(w)'
  BY <1>1, <1>3, <1>5, <1>6, <1>7 DEF WorkerInv, JobInv, Jobs
<1>9. HeldInv(w)'
  BY <1>1, <1>3, <1>5, <1>7 DEF WorkerInv, HeldInv, Jobs
<1>10. AnswerInv(w)'
  BY <1>6 DEF AnswerInv, NoAcks
<1>11. DoneInv(w)'
  <2> SUFFICES ASSUME a = "done" PROVE ErasedAtQuorum(ReqOf(job[w].env))'
    BY <1>3, <1>5 DEF DoneInv, ErasedAtQuorum, ReqOf
  <2>1. ErasedAtQuorum(ReqOf(job[w].env))
    BY <1>1, QuorumErased DEF WorkerInv
  <2>2. ReqOf(job[w].env)' = ReqOf(job[w].env)
    BY <1>1, <1>3, <1>5, <1>7 DEF WorkerInv, JobInv, ReqOf
  <2> QED BY <2>1, <2>2 DEF ErasedAtQuorum
<1>12. WorkerInv(w)' /\ j.held \subseteq job[w].held
  BY <1>3, <1>8, <1>9, <1>10, <1>11 DEF WorkerInv
<1>13. FanoutType' /\ \A v \in Workers \ {w} : acks'[v] = acks[v]
  BY AnswersDropped
<1> QED BY <1>3, <1>4, <1>12, <1>13, QuietStep DEF FanoutType

LEMMA SettleOutboxStep ==
    ASSUME DeliveryIndInv, NEW w \in Workers, SettleOutbox(w)
    PROVE  DeliveryIndInv'
<1>1. /\ job[w] \in Jobs /\ WorkerInv(w) /\ job[w].at = "publish" /\ carrier = "outbox"
      /\ acks' = [acks EXCEPT ![w] = NoAcks]
      /\ UNCHANGED <<replicaVars, carrier, queue, boundVars>>
  BY DEF SettleOutbox, DeliveryIndInv, TypeOK
<1>2. /\ acks'[w] = NoAcks /\ FanoutType'
      /\ \A v \in Workers \ {w} : acks'[v] = acks[v]
  BY <1>1, AnswersDropped DEF DeliveryIndInv, TypeOK, FanoutType
<1>3. Back(w) \in Jobs /\ Back(w).held \subseteq job[w].held
  BY BackJob
<1>4. CASE UNCHANGED outbox /\ Goto(w, Back(w))
  <2>1. UNCHANGED <<replicaVars, carrierVars, boundVars>>
    BY <1>1, <1>4
  <2>2. Frame
    BY <2>1, SameWorld
  <2>3. WorkerInv(w)'
    BY <1>2, <1>4, <2>2, BackWorker
  <2> QED BY <1>2, <1>3, <1>4, <2>1, <2>3, QuietStep DEF FanoutType
<1>5. ASSUME write_attempt(job[w].env, job[w].n + 1), Goto(w, Back(w)) PROVE DeliveryIndInv'
  <2>1. job[w].env \in Envelopes /\ outbox[job[w].env].req \in Requests
    BY <1>1 DEF WorkerInv, JobInv, ReqOf
  <2>2. job[w].n + 1 \in FileContent
    BY <1>1 DEF Jobs
  <2>3. /\ OutboxType' /\ OutboxUsed' /\ In("done")' = In("done")
        /\ \A e \in Envelopes : outbox'[e].req = outbox[e].req
    BY <1>5, <2>1, <2>2, OutboxWrite DEF DeliveryIndInv, TypeOK
  <2>4. {} \in SUBSET Envelopes /\ In("done")' \subseteq In("done") \cup {}
    BY <2>3
  <2>5. Frame /\ QueueUsed' /\ SeenIsErased' /\ QueueType'
    BY <1>1, <2>3, <2>4, OutboxFrame
  <2>6. WorkerInv(w)'
    BY <1>2, <1>5, <2>5, BackWorker
  <2> QED BY <1>1, <1>2, <1>3, <1>5, <2>3, <2>5, <2>6, MoveStep
<1>6. ASSUME NEW a \in {"done", "failed"}, a = "done" => TRUE \in QuorumMet(w),
             Goto(w, [job[w] EXCEPT !.at = a]), UNCHANGED outbox
      PROVE  DeliveryIndInv'
  BY <1>1, <1>6, DecideStep
<1>7. PICK met \in QuorumMet(w) :
        \/ /\ met
           /\ Goto(w, IF job[w].env \in In("pending") THEN [job[w] EXCEPT !.at = "done"]
                                                      ELSE Back(w))
           /\ UNCHANGED outbox
        \/ /\ ~met
           /\ Goto(w, IF job[w].env \in In("pending") THEN [job[w] EXCEPT !.at = "failed"]
                                                      ELSE Back(w))
           /\ UNCHANGED outbox
        \/ write_attempt(job[w].env, job[w].n + 1) /\ Goto(w, Back(w))
  BY DEF SettleOutbox
<1>8. met \in BOOLEAN
  BY <1>7, QuorumReport
<1> QED BY <1>4, <1>5, <1>6, <1>7, <1>8

LEMMA SettleQueueStep ==
    ASSUME DeliveryIndInv, NEW w \in Workers, SettleQueue(w)
    PROVE  DeliveryIndInv'
<1> DEFINE m == job[w].env
<1>1. /\ job[w] \in Jobs /\ WorkerInv(w) /\ job[w].at = "publish" /\ carrier # "outbox"
      /\ acks' = [acks EXCEPT ![w] = NoAcks] /\ Goto(w, Back(w))
      /\ UNCHANGED <<replicaVars, carrier, outbox, boundVars>>
  BY DEF SettleQueue, DeliveryIndInv, TypeOK
<1>2. m \in Envelopes /\ ReqOf(m) \in Requests
  BY <1>1 DEF WorkerInv, JobInv
<1>3. /\ acks'[w] = NoAcks /\ FanoutType'
      /\ \A v \in Workers \ {w} : acks'[v] = acks[v]
  BY <1>1, AnswersDropped DEF DeliveryIndInv, TypeOK, FanoutType
<1>4. Back(w) \in Jobs /\ Back(w).held \subseteq job[w].held
  BY BackJob
<1>5. (MoveMessage(m, "done") /\ TRUE \in QuorumMet(w)) \/ UNCHANGED queue
  <2>1. \A met \in QuorumMet(w) : met \in BOOLEAN
    BY QuorumReport
  <2> QED BY <2>1 DEF SettleQueue, ack_file, ack_sqs
<1>6. /\ Frame /\ OutboxUsed' /\ QueueUsed' /\ SeenIsErased' /\ OutboxType' /\ QueueType'
  <2>1. CASE UNCHANGED queue
    BY <1>1, <2>1, SameWorld
  <2>2. CASE MoveMessage(m, "done") /\ TRUE \in QuorumMet(w)
    <3>1. ErasedAtQuorum(ReqOf(m))
      BY <1>1, <2>2, QuorumErased DEF WorkerInv
    <3> HIDE DEF m
    <3> QED BY <1>1, <1>2, <2>2, <3>1, QueueFrame
  <2> QED BY <1>5, <2>1, <2>2
<1>7. WorkerInv(w)'
  BY <1>1, <1>3, <1>6, BackWorker
<1> QED BY <1>1, <1>3, <1>4, <1>6, <1>7, MoveStep

\* A consumer has taken message m from its queue.
LEMMA TakesStep ==
    ASSUME DeliveryIndInv, NEW w \in Workers, job[w].at = "claim",
           NEW x \in job[w].todo, queue[x[1]].place = "pending",
           NEW to \in {"processing", "done"}, MoveMessage(x[1], to),
           to = "done" => carrier = "redis",
           Goto(w, [[job[w] EXCEPT !.todo = @ \ {x}] EXCEPT !.held = @ \cup {x[1]}]),
           UNCHANGED <<fanoutVars, carrier, outbox, boundVars>>
    PROVE  DeliveryIndInv'
<1>1. job[w] \in Jobs /\ WorkerInv(w)
  BY DEF DeliveryIndInv, TypeOK
<1>2. PICK m \in Envelopes : m = x[1]
  BY <1>1 DEF Jobs
<1>3. carrier # "outbox" /\ ReqOf(m) \in Requests /\ acks[w] = NoAcks
  BY <1>1, <1>2 DEF WorkerInv, JobInv
<1>4. PICK j : j = [[job[w] EXCEPT !.todo = @ \ {x}] EXCEPT !.held = @ \cup {x[1]}]
  OBVIOUS
<1>5. /\ j \in Jobs /\ j.at = "claim" /\ j.todo = job[w].todo \ {x}
      /\ j.held = job[w].held \cup {m} /\ j.env = job[w].env
  <2>1. PICK T \in SUBSET (Envelopes \X Nat), H \in SUBSET Envelopes :
            T = job[w].todo \ {x} /\ H = job[w].held \cup {m}
    BY <1>1 DEF Jobs
  <2>2. j = [job[w] EXCEPT !.todo = T, !.held = H]
    BY <1>1, <1>2, <1>4, <2>1 DEF Jobs
  <2> QED BY <1>1, <2>1, <2>2 DEF Jobs
<1>6. Goto(w, j)
  BY <1>4
<1>7. job'[w] = j /\ \A v \in Workers \ {w} : job'[v] = job[v]
  BY <1>5, <1>6, Moves
<1>8. /\ Frame /\ OutboxUsed' /\ QueueUsed' /\ SeenIsErased' /\ OutboxType' /\ QueueType'
      /\ \A e \in Envelopes : ReqOf(e)' = ReqOf(e) /\ (e # m => queue'[e] = queue[e])
      /\ queue'[m].place = to
  BY <1>2, <1>3, QueueFrame
<1>9. JobInv(w)'
  BY <1>1, <1>3, <1>5, <1>7, <1>8 DEF WorkerInv, JobInv, Jobs
<1>10. HeldInv(w)'
  <2> SUFFICES ASSUME NEW k \in job'[w].held
               PROVE  /\ carrier' # "outbox" /\ ReqOf(k)' \in Requests
                      /\ carrier' \in {"file", "redis"}
                             => queue'[k].place \in {"processing", "done"}
    BY DEF HeldInv
  <2>1. carrier' = carrier /\ (k = m \/ k \in job[w].held) /\ k \in Envelopes
    BY <1>1, <1>5, <1>7 DEF Jobs
  <2>2. CASE k = m
    BY <1>3, <1>8, <2>1, <2>2
  <2>3. CASE k # m
    BY <1>1, <1>8, <2>1, <2>3 DEF WorkerInv, HeldInv
  <2> QED BY <2>2, <2>3
<1>11. AnswerInv(w)' /\ DoneInv(w)'
  BY <1>3, <1>5, <1>7 DEF AnswerInv, DoneInv, NoAcks
<1>12. \A v \in Workers : WorkerInv(v)'
  BY <1>7, <1>8, <1>9, <1>10, <1>11, FrameWorker DEF WorkerInv
<1>13. ClaimedOnce'
  <2> SUFFICES ASSUME carrier \in {"file", "redis"}, NEW u \in Workers, NEW v \in Workers, u # v
               PROVE  job'[u].held \cap job'[v].held = {}
    BY DEF ClaimedOnce
  <2>1. \A z \in Workers : m \notin job[z].held
    BY <1>2 DEF DeliveryIndInv, WorkerInv, HeldInv
  <2>2. job[u].held \cap job[v].held = {}
    BY DEF DeliveryIndInv, ClaimedOnce
  <2>3. CASE u = w
    <3>1. job'[u].held = job[u].held \cup {m} /\ job'[v].held = job[v].held
      BY <1>5, <1>7, <2>3
    <3> QED BY <2>1, <2>2, <3>1
  <2>4. CASE v = w
    <3>1. job'[v].held = job[v].held \cup {m} /\ job'[u].held = job[u].held
      BY <1>5, <1>7, <2>4
    <3> QED BY <2>1, <2>2, <3>1
  <2>5. CASE u # w /\ v # w
    BY <1>7, <2>2, <2>5
  <2> QED BY <2>3, <2>4, <2>5
<1>14. FanoutType' /\ \A v \in Workers \ {w} : acks'[v] = acks[v]
  BY AnswersDropped
<1>15. TypeOK'
  BY <1>5, <1>6, <1>8, <1>9, <1>14, MoveType
<1> QED BY <1>8, <1>12, <1>13, <1>15, FrameDelivered DEF DeliveryIndInv

LEMMA ClaimStep ==
    ASSUME DeliveryIndInv, NEW w \in Workers, Claim(w)
    PROVE  DeliveryIndInv'
<1> DEFINE more(x) == [job[w] EXCEPT !.todo = @ \ {x}]
<1>1. /\ job[w] \in Jobs /\ WorkerInv(w) /\ job[w].at = "claim" /\ acks[w] = NoAcks
      /\ UNCHANGED <<fanoutVars, carrier, outbox, boundVars>>
  BY DEF Claim, DeliveryIndInv, TypeOK, WorkerInv, JobInv
<1>2. PICK x \in job[w].todo :
        \/ /\ queue[x[1]].place = "pending"
           /\ Goto(w, [more(x) EXCEPT !.held = @ \cup {x[1]}])
           /\ \/ MoveMessage(x[1], "processing")
              \/ MoveMessage(x[1], "done") /\ carrier = "redis"
        \/ UNCHANGED queue /\ (Goto(w, Idle) \/ Goto(w, more(x)))
  BY DEF Claim, Replaceable, lpop, receive_message
<1>3. CASE /\ queue[x[1]].place = "pending"
           /\ Goto(w, [more(x) EXCEPT !.held = @ \cup {x[1]}])
           /\ \/ MoveMessage(x[1], "processing")
              \/ MoveMessage(x[1], "done") /\ carrier = "redis"
  BY <1>1, <1>3, TakesStep
<1>4. ASSUME UNCHANGED queue PROVE UNCHANGED <<replicaVars, carrierVars, boundVars>>
  BY <1>1, <1>4
<1>5. /\ acks' \in [Workers -> [Replicas -> {"none", "sent", "checked", "ok", "no"}]]
      /\ \A v \in Workers \ {w} : acks'[v] = acks[v]
      /\ acks'[w] = NoAcks
  BY <1>1 DEF DeliveryIndInv, TypeOK, FanoutType, NoAcks
<1>6. CASE UNCHANGED queue /\ Goto(w, Idle)
  <2>1. Idle \in Jobs /\ Idle.held \subseteq job[w].held
    BY DEF Jobs
  <2>2. WorkerInv(w)'
    BY <1>5, <1>6, <2>1, IdleWorker, Moves
  <2> QED BY <1>4, <1>5, <1>6, <2>1, <2>2, QuietStep
<1>7. CASE UNCHANGED queue /\ Goto(w, more(x))
  <2>1. PICK T \in SUBSET (Envelopes \X Nat) : T = job[w].todo \ {x}
    BY <1>1 DEF Jobs
  <2>2. PICK j : j = [job[w] EXCEPT !.todo = T]
    OBVIOUS
  <2>3. /\ j \in Jobs /\ j.at = "claim" /\ j.todo = T /\ j.held = job[w].held
        /\ j.env = job[w].env
    BY <1>1, <2>2 DEF Jobs
  <2>4. Goto(w, j)
    BY <1>7, <2>1, <2>2
  <2>5. job'[w] = j
    BY <2>3, <2>4, Moves
  <2>6. \A e \in Envelopes : ReqOf(e)' = ReqOf(e) /\ queue'[e] = queue[e]
    BY <1>4, <1>7, SameWorld
  <2>7. JobInv(w)'
    BY <1>1, <1>5, <2>1, <2>3, <2>5, <2>6 DEF WorkerInv, JobInv, Jobs
  <2>8. HeldInv(w)'
    BY <1>1, <2>3, <2>5, <2>6 DEF WorkerInv, HeldInv, Jobs
  <2>9. AnswerInv(w)' /\ DoneInv(w)'
    BY <1>5, <2>3, <2>5 DEF AnswerInv, DoneInv, NoAcks
  <2>10. WorkerInv(w)' /\ j.held \subseteq job[w].held
    BY <2>3, <2>7, <2>8, <2>9 DEF WorkerInv
  <2> QED BY <1>4, <1>5, <1>7, <2>3, <2>4, <2>10, QuietStep
<1> QED BY <1>2, <1>3, <1>6, <1>7

-----------------------------------------------------------------------------
(* The steps at the replicas. *)

\* The carrier stays, and replicas lose vectors.
LEMMA ReplicaFrame ==
    ASSUME DeliveryIndInv, UNCHANGED carrierVars, \A p \in Replicas : old'[p] \subseteq old[p]
    PROVE  /\ Frame /\ OutboxUsed' /\ QueueUsed' /\ OutboxType' /\ QueueType'
           /\ \A e \in Envelopes : ReqOf(e)' = ReqOf(e)
<1>1. OutboxUsed' /\ QueueUsed' /\ OutboxType' /\ QueueType'
  BY DEF DeliveryIndInv, TypeOK, OutboxUsed, QueueUsed, OutboxType, QueueType
<1>2. \A e \in Envelopes : ReqOf(e)' = ReqOf(e) /\ (Delivered(e)' => Delivered(e))
  BY DEF ReqOf, Delivered
<1>3. carrier' = carrier /\ \A m \in Envelopes : queue'[m] = queue[m]
  OBVIOUS
<1> QED BY <1>1, <1>2, <1>3 DEF Frame

\* One send of worker w ends with answer a: "ok" only from a replica that holds
\* nothing of the request any more.
LEMMA AnswerStep ==
    ASSUME DeliveryIndInv, NEW w \in Workers, job[w].at = "publish", NEW p \in Replicas,
           NEW a \in {"checked", "ok", "no"}, Answer(w, p, a),
           a = "ok" => Req(w) \notin old'[p],
           \A q \in Replicas : old'[q] \subseteq old[q],
           SeenIsErased', FanoutType', UNCHANGED <<carrierVars, job, boundVars>>
    PROVE  DeliveryIndInv'
<1>1. job[w] \in Jobs /\ WorkerInv(w) /\ Req(w) = ReqOf(job[w].env)
  BY DEF DeliveryIndInv, TypeOK, Req, ReqOf
<1>2. /\ \A q \in Replicas : acks'[w][q] = "ok" => acks[w][q] = "ok" \/ (q = p /\ a = "ok")
      /\ \A v \in Workers \ {w} : acks'[v] = acks[v]
  BY DEF Answer, DeliveryIndInv, TypeOK, FanoutType
<1>3. /\ Frame /\ OutboxUsed' /\ QueueUsed' /\ OutboxType' /\ QueueType'
      /\ \A e \in Envelopes : ReqOf(e)' = ReqOf(e)
  BY ReplicaFrame
<1>4. JobInv(w)'
  BY <1>1, <1>3 DEF WorkerInv, JobInv, Jobs
<1>5. HeldInv(w)'
  BY <1>1, <1>3 DEF WorkerInv, HeldInv, Jobs
<1>6. AnswerInv(w)'
  BY <1>1, <1>2, <1>3 DEF WorkerInv, AnswerInv, JobInv
<1>7. DoneInv(w)'
  BY DEF DoneInv
<1>8. WorkerInv(w)' /\ Goto(w, job[w]) /\ job[w].held \subseteq job[w].held
  BY <1>4, <1>5, <1>6, <1>7 DEF WorkerInv, DeliveryIndInv, TypeOK
<1>9. UNCHANGED <<carrier, boundVars>>
  OBVIOUS
<1> QED BY <1>1, <1>2, <1>3, <1>8, <1>9, MoveStep

LEMMA SendStep ==
    ASSUME DeliveryIndInv, NEW w \in Workers, Send(w)
    PROVE  DeliveryIndInv'
<1>1. job[w].at = "publish" /\ UNCHANGED <<carrierVars, job, boundVars>>
  BY DEF Send
<1>2. Req(w) \in Requests
  BY <1>1 DEF DeliveryIndInv, WorkerInv, JobInv, Req, ReqOf
<1>3. FanoutType /\ SeenIsErased
  BY DEF DeliveryIndInv, TypeOK
<1>4. PICK p \in Replicas : \/ CheckSeen(w, p, Req(w)) \/ Handle(w, p, Req(w))
                            \/ Serve(w, p, Req(w)) \/ SendFails(w, p, Req(w))
  BY DEF Send
<1>5. ASSUME NEW a \in {"checked", "ok", "no"}, Answer(w, p, a)
      PROVE  acks' \in [Workers -> [Replicas -> {"none", "sent", "checked", "ok", "no"}]]
  BY <1>3, <1>5 DEF Answer, FanoutType
<1>6. PICK r \in Requests : r = Req(w)
  BY <1>2
<1>7. CASE CheckSeen(w, p, Req(w))
  <2>1. PICK a \in {"checked", "ok", "no"} : Answer(w, p, a) /\ (a = "ok" => r \in seen[p])
    BY <1>6, <1>7 DEF CheckSeen
  <2>2. UNCHANGED replicaVars
    BY <1>7 DEF CheckSeen
  <2>3. /\ SeenIsErased' /\ FanoutType' /\ (a = "ok" => r \notin old'[p])
        /\ \A q \in Replicas : old'[q] \subseteq old[q]
    BY <1>3, <1>5, <2>1, <2>2 DEF SeenIsErased, FanoutType
  <2> QED BY <1>1, <1>6, <2>1, <2>3, AnswerStep
<1>8. CASE Handle(w, p, Req(w))
  <2>1. PICK ok \in BOOLEAN :
          /\ Apply(p, r, ok) /\ Answer(w, p, IF ok THEN "ok" ELSE "no")
          /\ seen' = IF ok THEN [seen EXCEPT ![p] = @ \cup {r}] ELSE seen
          /\ UNCHANGED <<transport, late, restores>>
    BY <1>6, <1>8 DEF Handle
  <2>2. PICK a \in {"checked", "ok", "no"} : Answer(w, p, a) /\ (a = "ok" => ok)
    BY <2>1
  <2>3. /\ old' \in [Replicas -> SUBSET Requests] /\ mapped' \in [Replicas -> SUBSET Requests]
        /\ \A q \in Replicas : old'[q] \subseteq old[q]
        /\ ok => r \notin old'[p]
    BY <1>3, <2>1, ApplyErases
  <2>4. /\ seen' \in [Replicas -> SUBSET Requests]
        /\ \A q \in Replicas : seen'[q] \subseteq seen[q] \cup (IF ok /\ q = p THEN {r} ELSE {})
    BY <1>3, <2>1 DEF FanoutType
  <2>5. SeenIsErased'
    BY <1>3, <2>3, <2>4 DEF SeenIsErased
  <2>6. FanoutType'
    BY <1>3, <1>5, <2>1, <2>2, <2>3, <2>4 DEF FanoutType
  <2> QED BY <1>1, <1>6, <2>2, <2>3, <2>5, <2>6, AnswerStep
<1>9. CASE Serve(w, p, Req(w))
  <2>1. PICK ok \in BOOLEAN :
          /\ Apply(p, r, ok)
          /\ Answer(w, p, IF ok THEN "ok" ELSE "no") \/ Answer(w, p, "no")
          /\ UNCHANGED <<transport, seen, late, restores>>
    BY <1>6, <1>9 DEF Serve
  <2>2. PICK a \in {"checked", "ok", "no"} : Answer(w, p, a) /\ (a = "ok" => ok)
    BY <2>1
  <2>3. /\ old' \in [Replicas -> SUBSET Requests] /\ mapped' \in [Replicas -> SUBSET Requests]
        /\ \A q \in Replicas : old'[q] \subseteq old[q]
        /\ ok => r \notin old'[p]
    BY <1>3, <2>1, ApplyErases
  <2>4. SeenIsErased'
    BY <1>3, <2>1, <2>3 DEF SeenIsErased
  <2>5. FanoutType'
    BY <1>3, <1>5, <2>1, <2>2, <2>3 DEF FanoutType
  <2> QED BY <1>1, <1>6, <2>2, <2>3, <2>4, <2>5, AnswerStep
<1>10. CASE SendFails(w, p, Req(w))
  <2>1. Answer(w, p, "no") /\ UNCHANGED <<transport, old, mapped, seen, restores>>
    BY <1>10 DEF SendFails
  <2>2. late' \in SUBSET (Replicas \X Requests)
    BY <1>3, <1>6, <1>10 DEF SendFails, FanoutType
  <2>3. SeenIsErased' /\ FanoutType' /\ \A q \in Replicas : old'[q] \subseteq old[q]
    BY <1>3, <1>5, <2>1, <2>2 DEF SeenIsErased, FanoutType
  <2> QED BY <1>1, <2>1, <2>3, AnswerStep
<1> QED BY <1>4, <1>7, <1>8, <1>9, <1>10

LEMMA ReplicaStepStep ==
    ASSUME DeliveryIndInv, NEW p \in Replicas, ReplicaStep(p)
    PROVE  DeliveryIndInv'
<1>1. UNCHANGED <<carrierVars, job, boundVars>> /\ FanoutType /\ SeenIsErased
  BY DEF ReplicaStep, DeliveryIndInv, TypeOK
<1>2. /\ FanoutType' /\ seen' = seen /\ acks' = acks
      /\ \A q \in Replicas : old'[q] \subseteq old[q]
  <2>1. CASE RestoreIds(p)
    BY <1>1, <2>1, FanoutAssumption DEF RestoreIds, FanoutType
  <2>2. ASSUME NEW r \in Requests, ServeLate(p, r)
        PROVE  /\ FanoutType' /\ seen' = seen /\ acks' = acks
               /\ \A q \in Replicas : old'[q] \subseteq old[q]
    <3>1. PICK ok \in BOOLEAN : Apply(p, r, ok)
      BY <2>2 DEF ServeLate
    <3>2. /\ old' \in [Replicas -> SUBSET Requests] /\ mapped' \in [Replicas -> SUBSET Requests]
          /\ \A q \in Replicas : old'[q] \subseteq old[q]
      BY <1>1, <3>1, ApplyErases
    <3> QED BY <1>1, <2>2, <3>2 DEF ServeLate, FanoutType
  <2> QED BY <2>1, <2>2 DEF ReplicaStep
<1>3. Frame /\ OutboxUsed' /\ QueueUsed' /\ OutboxType' /\ QueueType'
  BY <1>1, <1>2, ReplicaFrame
<1>4. SeenIsErased'
  BY <1>1, <1>2 DEF SeenIsErased
<1>5. TypeOK'
  BY <1>1, <1>2, <1>3 DEF DeliveryIndInv, TypeOK, NoAcks
<1> QED BY <1>1, <1>2, <1>3, <1>4, <1>5, NoWorkerMoves

-----------------------------------------------------------------------------
(* The environment. *)

\* Workers end: those that go on keep what they know, the others start anew.
LEMMA CrashStep ==
    ASSUME DeliveryIndInv, NEW w \in Workers, Crash(w)
    PROVE  DeliveryIndInv'
<1>1. PICK ended \in SUBSET Workers :
        /\ job' = [v \in Workers |-> IF v \in ended THEN Idle ELSE job[v]]
        /\ acks' = [v \in Workers |-> IF v \in ended THEN NoAcks ELSE acks[v]]
  BY DEF Crash
<1>2. UNCHANGED <<transport, old, mapped, restores, carrier, queue, requeues>>
  BY DEF Crash
<1>3. FanoutType /\ SeenIsErased /\ job[w] \in Jobs /\ WorkerInv(w)
  BY DEF DeliveryIndInv, TypeOK
<1>4. seen' = seen \/ seen' = [p \in Replicas |-> {}]
  BY DEF Crash, ForgetSeen
<1>5. late' \in SUBSET (Replicas \X Requests)
  <2>1. job[w].at = "publish" => Req(w) \in Requests
    BY <1>3 DEF WorkerInv, JobInv, Req, ReqOf
  <2>2. late \in SUBSET (Replicas \X Requests)
    BY <1>3 DEF FanoutType
  <2> QED BY <2>1, <2>2 DEF Crash
<1>6. /\ OutboxType' /\ OutboxUsed' /\ In("done")' = In("done")
      /\ \A e \in Envelopes : outbox'[e].req = outbox[e].req
  <2>1. CASE UNCHANGED outbox
    BY <2>1 DEF DeliveryIndInv, TypeOK, OutboxType, OutboxUsed
  <2>2. CASE /\ carrier = "outbox" /\ job[w].at \in {"publish", "failed"}
             /\ write_attempt(job[w].env, TornFile)
    <3>1. job[w].env \in Envelopes /\ outbox[job[w].env].req \in Requests
      BY <1>3, <2>2 DEF WorkerInv, JobInv, ReqOf
    <3>2. TornFile \in FileContent
      OBVIOUS
    <3> QED BY <2>2, <3>1, <3>2, OutboxWrite DEF DeliveryIndInv, TypeOK
  <2> QED BY <2>1, <2>2 DEF Crash
<1>7. QueueType' /\ QueueUsed' /\ SeenIsErased'
  BY <1>2, <1>3, <1>4 DEF DeliveryIndInv, TypeOK, QueueType, QueueUsed, SeenIsErased
<1>8. Frame
  <2>1. /\ \A e \in Envelopes : ReqOf(e)' = ReqOf(e) /\ (Delivered(e)' => Delivered(e))
    BY <1>2, <1>6 DEF ReqOf, Delivered
  <2>2. /\ carrier' = carrier /\ (\A p \in Replicas : old'[p] \subseteq old[p])
        /\ \A m \in Envelopes : queue'[m] = queue[m]
    BY <1>2
  <2> QED BY <2>1, <2>2 DEF Frame
<1>9. FanoutType'
  <2>1. acks' \in [Workers -> [Replicas -> {"none", "sent", "checked", "ok", "no"}]]
    <3>1. NoAcks \in [Replicas -> {"none", "sent", "checked", "ok", "no"}]
      BY DEF NoAcks
    <3> QED BY <1>1, <1>3, <3>1 DEF FanoutType
  <2>2. seen' \in [Replicas -> SUBSET Requests]
    BY <1>3, <1>4 DEF FanoutType
  <2> QED BY <1>2, <1>3, <1>5, <2>1, <2>2 DEF FanoutType
<1>10. TypeOK'
  <2>1. Idle \in Jobs /\ Idle.at = "idle"
    BY DEF Jobs
  <2>2. job' \in [Workers -> Jobs]
    BY <1>1, <2>1 DEF DeliveryIndInv, TypeOK
  <2>3. \A v \in Workers : job'[v].at \in {"idle", "claim", "loop"} => acks'[v] = NoAcks
    BY <1>1 DEF DeliveryIndInv, TypeOK
  <2>4. crashes' \in 0 .. MaxCrashes /\ requeues' \in 0 .. MaxRequeues /\ carrier' \in Carriers
    BY <1>2 DEF Crash, DeliveryIndInv, TypeOK
  <2> QED BY <1>6, <1>7, <1>9, <2>2, <2>3, <2>4 DEF TypeOK, NoAcks
<1>11. ASSUME NEW v \in Workers PROVE WorkerInv(v)' /\ job'[v].held \subseteq job[v].held
  <2>1. CASE v \in ended
    <3>1. job'[v] = Idle /\ acks'[v] = NoAcks
      BY <1>1, <2>1
    <3>2. acks'[v] = NoAcks'
      BY <3>1 DEF NoAcks
    <3> QED BY <3>1, <3>2, IdleWorker
  <2>2. CASE v \notin ended
    <3>1. job'[v] = job[v] /\ acks'[v] = acks[v]
      BY <1>1, <2>2
    <3> QED BY <1>8, <3>1, FrameWorker
  <2> QED BY <2>1, <2>2
<1> QED BY <1>6, <1>7, <1>8, <1>10, <1>11, FrameClaimed, FrameDelivered DEF DeliveryIndInv

LEMMA RequeueStep ==
    ASSUME DeliveryIndInv, NEW e \in Envelopes, Requeue(e)
    PROVE  DeliveryIndInv'
<1>1. requeue_failed(e) /\ UNCHANGED <<fanoutVars, carrier, queue, job, crashes>>
  BY DEF Requeue
<1>2. outbox[e].req \in Requests
  BY <1>1 DEF requeue_failed, DeliveryIndInv, OutboxUsed
<1>3. /\ OutboxType' /\ OutboxUsed' /\ In("done")' = In("done")
      /\ \A d \in Envelopes : outbox'[d].req = outbox[d].req
  <2>1. 0 \in FileContent
    OBVIOUS
  <2> QED BY <1>1, <1>2, <2>1, OutboxWrite DEF DeliveryIndInv, TypeOK
<1>4. {} \in SUBSET Envelopes /\ In("done")' \subseteq In("done") \cup {}
  BY <1>3
<1>5. Frame /\ QueueUsed' /\ SeenIsErased' /\ QueueType'
  BY <1>1, <1>3, <1>4, OutboxFrame
<1>6. TypeOK'
  BY <1>1, <1>3, <1>5 DEF Requeue, DeliveryIndInv, TypeOK, FanoutType, NoAcks
<1> QED BY <1>1, <1>3, <1>5, <1>6, NoWorkerMoves

LEMMA MessageReappearsStep ==
    ASSUME DeliveryIndInv, NEW m \in Envelopes, MessageReappears(m)
    PROVE  DeliveryIndInv'
<1>1. /\ carrier = "sqs" /\ queue[m].place = "processing" /\ MoveMessage(m, "pending")
      /\ UNCHANGED <<fanoutVars, carrier, outbox, job, boundVars>>
  BY DEF MessageReappears, VisibilityTimeout
<1>2. ReqOf(m) \in Requests
  BY <1>1 DEF DeliveryIndInv, QueueUsed, ReqOf
<1>3. /\ Frame /\ OutboxUsed' /\ QueueUsed' /\ SeenIsErased' /\ OutboxType' /\ QueueType'
  BY <1>1, <1>2, QueueFrame
<1>4. TypeOK'
  BY <1>1, <1>3 DEF DeliveryIndInv, TypeOK, FanoutType, NoAcks
<1> QED BY <1>1, <1>3, <1>4, NoWorkerMoves

\* A new intent: the envelopes that are in use stay what they are.
LEMMA EnqueueStep ==
    ASSUME DeliveryIndInv, NEW r \in Requests, Enqueue(r)
    PROVE  DeliveryIndInv'
<1>1. UNCHANGED <<fanoutVars, carrier, job, boundVars>>
  BY DEF Enqueue
<1>2. /\ Frame /\ OutboxUsed' /\ QueueUsed' /\ SeenIsErased' /\ OutboxType' /\ QueueType'
  <2>1. CASE carrier = "outbox"
    <3>1. /\ OutboxType' /\ OutboxUsed' /\ In("done")' = In("done")
          /\ \A d \in Envelopes : outbox[d].req \in Requests => outbox'[d].req = outbox[d].req
      BY <2>1, OutboxEnqueue DEF Enqueue, DeliveryIndInv, TypeOK
    <3>2. {} \in SUBSET Envelopes /\ In("done")' \subseteq In("done") \cup {}
      BY <3>1
    <3>3. UNCHANGED <<replicaVars, carrier, queue>>
      BY <1>1, <2>1 DEF Enqueue
    <3> QED BY <3>1, <3>2, <3>3, OutboxFrame
  <2>2. CASE carrier # "outbox"
    <3>1. /\ QueueType' /\ QueueUsed' /\ outbox' = outbox
          /\ \A k \in Envelopes : queue[k].req \in Requests => queue'[k] = queue[k]
          /\ \A k \in Envelopes : queue'[k] = queue[k] \/ queue'[k].place = "pending"
      BY <2>2, QueueEnqueue DEF Enqueue, DeliveryIndInv, TypeOK
    <3>2. OutboxType' /\ OutboxUsed' /\ SeenIsErased'
      BY <1>1, <3>1 DEF DeliveryIndInv, TypeOK, OutboxType, OutboxUsed, SeenIsErased
    <3>3. /\ \A e \in Envelopes : ReqOf(e) \in Requests => ReqOf(e)' = ReqOf(e)
          /\ \A e \in Envelopes : Delivered(e)' => Delivered(e)
      BY <1>1, <2>2, <3>1 DEF ReqOf, Delivered
    <3>4. \A m \in Envelopes : queue[m].place \in {"processing", "done"}
                                   => queue'[m].place \in {"processing", "done"}
      BY <3>1 DEF DeliveryIndInv, QueueUsed
    <3>5. carrier' = carrier /\ \A p \in Replicas : old'[p] \subseteq old[p]
      BY <1>1
    <3> QED BY <3>1, <3>2, <3>3, <3>4, <3>5 DEF Frame
  <2> QED BY <2>1, <2>2
<1>3. TypeOK'
  BY <1>1, <1>2 DEF DeliveryIndInv, TypeOK, FanoutType, NoAcks
<1> QED BY <1>1, <1>2, <1>3, NoWorkerMoves

-----------------------------------------------------------------------------
(* The theorems. *)

LEMMA DeliveryInit == Init => DeliveryIndInv
<1> SUFFICES ASSUME Init PROVE DeliveryIndInv
  OBVIOUS
<1> USE DEF Init
<1>1. OutboxType /\ QueueType /\ OutboxUsed /\ QueueUsed
  BY DEF OutboxInit, QueueInit, Unused, OutboxType, QueueType, OutboxUsed, QueueUsed
<1>2. FanoutType /\ SeenIsErased
  BY FanoutAssumption DEF FanoutInit, FanoutType, SeenIsErased, NoAcks
<1>3. TypeOK
  <2>1. Idle \in Jobs
    BY DEF Jobs
  <2> QED BY <1>1, <1>2, <2>1 DEF FanoutInit, TypeOK
<1>4. \A w \in Workers : WorkerInv(w)
  BY DEF FanoutInit, WorkerInv, JobInv, HeldInv, AnswerInv, DoneInv, NoAcks
<1>5. DeliveredIsErased /\ ClaimedOnce
  BY DEF OutboxInit, QueueInit, Unused, DeliveredIsErased, Delivered, ClaimedOnce
<1> QED BY <1>1, <1>2, <1>3, <1>4, <1>5 DEF DeliveryIndInv

LEMMA DeliveryStep == DeliveryIndInv /\ [Next]_vars => DeliveryIndInv'
<1> SUFFICES ASSUME DeliveryIndInv, [Next]_vars PROVE DeliveryIndInv'
  OBVIOUS
<1>1. CASE UNCHANGED vars
  <2>1. /\ UNCHANGED <<replicaVars, carrierVars, boundVars>> /\ acks' = acks /\ job' = job
    BY <1>1 DEF vars
  <2>2. /\ Frame /\ OutboxUsed' /\ QueueUsed' /\ SeenIsErased' /\ OutboxType' /\ QueueType'
    BY <2>1, SameWorld
  <2>3. TypeOK'
    BY <2>1, <2>2 DEF DeliveryIndInv, TypeOK, FanoutType, NoAcks
  <2> QED BY <2>1, <2>2, <2>3, NoWorkerMoves
<1>2. ASSUME NEW w \in Workers, WorkerStep(w) PROVE DeliveryIndInv'
  BY <1>2, ListOutboxStep, DequeueStep, ClaimStep, DequeuedStep, TakeStep, SendStep,
     SettleOutboxStep, MarkDoneStep, MarkFailedStep, MoveFailedStep, SettleQueueStep,
     EndBatchStep DEF WorkerStep
<1> QED BY <1>1, <1>2, CrashStep, RequeueStep, MessageReappearsStep, EnqueueStep,
           ReplicaStepStep DEF Next

LEMMA DeliveryInvariance == Spec => []DeliveryIndInv
  BY DeliveryInit, DeliveryStep, PTL DEF Spec

\* Every reachable state is of the types the outbox, the queues, the fan-out and
\* their workers work with, and a worker has answers only while it publishes.
THEOREM DeliveryTyped == Spec => []TypeOK
<1>1. DeliveryIndInv => TypeOK
  BY DEF DeliveryIndInv
<1> QED BY <1>1, DeliveryInvariance, PTL

\* An intent is on record as delivered (mark_done of the outbox, ack of a queue)
\* only when a quorum of the replicas holds none of its vectors, for any number
\* of replicas, quorum and workers that retry, crash, and overtake each other.
THEOREM DeliveredIsErasedAlways == Spec => []DeliveredIsErased
<1>1. DeliveryIndInv => DeliveredIsErased
  BY DEF DeliveryIndInv
<1> QED BY <1>1, DeliveryInvariance, PTL

\* A request that ReplicaWorker._seen lets a replica acknowledge without any work
\* is erased there, whatever threads handle it at the same time.
THEOREM SeenIsErasedAlways == Spec => []SeenIsErased
<1>1. DeliveryIndInv => SeenIsErased
  BY DEF DeliveryIndInv
<1> QED BY <1>1, DeliveryInvariance, PTL

\* dequeue of the file queue and of Redis gives a message to one consumer only.
THEOREM ClaimedOnceAlways == Spec => []ClaimedOnce
<1>1. DeliveryIndInv => ClaimedOnce
  BY DEF DeliveryIndInv
<1> QED BY <1>1, DeliveryInvariance, PTL
=============================================================================
