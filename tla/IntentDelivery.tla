---------------------------- MODULE IntentDelivery ----------------------------
(***************************************************************************)
(* Delete intents on their way from the primary to the replicas: a carrier *)
(* (the file outbox with its dispatcher, or one of the queues with a       *)
(* consumer) hands them to workers, and each worker publishes them through *)
(* the fan-out coordinator.  docs/HOOKS.md has a production deployment put *)
(* the two together.  Workers run side by side, take the same intents, and *)
(* may end at any point.                                                   *)
(***************************************************************************)
EXTENDS ReplicaFanout, FileOutbox, QueueTransports

CONSTANTS
    Carriers,        \* which carriers a deployment may use
    DeliveryFaults,  \* which failures the environment may produce
    MaxIntents,      \* bound: carrier -> the envelopes it is given
    MaxCrashes, MaxRequeues  \* bounds

\* "torn": a worker ends while it writes the count of attempts.
ASSUME DeliveryAssumption ==
    /\ Carriers \subseteq {"outbox", "file", "redis", "sqs"}
    /\ DeliveryFaults \subseteq {"torn"}
    /\ MaxIntents \in [Carriers -> 0 .. MaxEnvelopes]
    /\ MaxCrashes \in Nat /\ MaxRequeues \in Nat

VARIABLES
    carrier,
    job,     \* worker -> what it does
    crashes, requeues

boundVars   == <<crashes, requeues>>
carrierVars == <<carrier, outbox, queue>>
vars == <<fanoutVars, carrierVars, job, boundVars>>

\* todo: envelopes of the batch, with the attempts that were read; held:
\* messages this worker has taken from its queue; env, n: the one in hand.
Idle == [at |-> "idle", todo |-> {}, held |-> {}, env |-> 0, n |-> 0]

Jobs == [at: {"idle", "claim", "loop", "publish", "done", "failed", "move"},
         todo: SUBSET (Envelopes \X Nat), held: SUBSET Envelopes,
         env: 0 .. MaxEnvelopes, n: Nat]

TypeOK ==
    /\ FanoutType /\ OutboxType /\ QueueType
    /\ carrier \in Carriers
    /\ job \in [Workers -> Jobs]
    /\ \A w \in Workers : job[w].at \in {"idle", "claim", "loop"} => acks[w] = NoAcks
    /\ crashes \in 0 .. MaxCrashes /\ requeues \in 0 .. MaxRequeues

Init ==
    /\ FanoutInit /\ OutboxInit /\ QueueInit
    /\ carrier \in Carriers
    /\ job = [w \in Workers |-> Idle]
    /\ crashes = 0 /\ requeues = 0

Goto(w, j) == job' = [job EXCEPT ![w] = j]

\* The request of the envelope that worker w has in hand.
Req(w) == IF carrier = "outbox" THEN outbox[job[w].env].req ELSE queue[job[w].env].req

\* The replica hook of a workflow, or enqueue_delete_intent.
Enqueue(r) ==
    /\ IF carrier = "outbox" THEN enqueue(r) /\ UNCHANGED queue
                             ELSE enqueue_delete_intent(r) /\ UNCHANGED outbox
    /\ \A e \in Envelopes :
           e > MaxIntents[carrier] =>
               outbox'[e].req = NoRequest /\ queue'[e].req = NoRequest
    /\ UNCHANGED <<fanoutVars, carrier, job, boundVars>>

-----------------------------------------------------------------------------
(* Taking intents from the carrier. *)

\* dispatch_pending: all pending files are read at the start.
ListOutbox(w) ==
    /\ carrier = "outbox"
    /\ job[w] = Idle
    /\ Listable /\ In("pending") # {}
    /\ Goto(w, [Idle EXCEPT !.at = "loop",
                            !.todo = {<<e, outbox[e].pending>> : e \in In("pending")}])
    /\ UNCHANGED <<fanoutVars, carrierVars, boundVars>>

\* dequeue(max_messages), which takes its messages one by one.
Dequeue(w) ==
    /\ carrier # "outbox"
    /\ job[w] = Idle
    /\ \E S \in SUBSET Waiting \ {{}} :
           Goto(w, [Idle EXCEPT !.at = "claim", !.todo = S \X {0}])
    /\ UNCHANGED <<fanoutVars, carrierVars, boundVars>>

\* Mutant: the file is copied to processing instead of moved.
ClaimShared(w) ==
    /\ job[w].at = "claim"
    /\ \E x \in job[w].todo :
        /\ MoveMessage(x[1], "processing")
        /\ Goto(w, [job[w] EXCEPT !.todo = @ \ {x}, !.held = @ \cup {x[1]}])
    /\ UNCHANGED <<fanoutVars, carrier, outbox, boundVars>>

\* A message is taken; a file that another consumer took first raises, which
\* leaves those taken before it in processing.
Claim(w) ==
    /\ job[w].at = "claim"
    /\ \E x \in job[w].todo :
        LET m    == x[1]
            more == [job[w] EXCEPT !.todo = @ \ {x}]
            mine == [more EXCEPT !.held = @ \cup {m}]
        IN  \/ carrier = "file" /\ Replaceable(m) /\ MoveMessage(m, "processing") /\ Goto(w, mine)
            \/ carrier = "file" /\ ~Replaceable(m) /\ UNCHANGED queue /\ Goto(w, Idle)
            \/ carrier = "redis" /\ lpop(m) /\ Goto(w, mine)
            \/ carrier = "sqs" /\ receive_message(m) /\ Goto(w, mine)
            \/ /\ carrier \in {"redis", "sqs"} /\ ~Replaceable(m)
               /\ UNCHANGED queue
               /\ Goto(w, more)
    /\ UNCHANGED <<fanoutVars, carrier, outbox, boundVars>>

Dequeued(w) ==
    /\ job[w].at = "claim"
    /\ job[w].todo = {}
    /\ Goto(w, [job[w] EXCEPT !.at = "loop", !.todo = job[w].held \X {0}])
    /\ UNCHANGED <<fanoutVars, carrierVars, boundVars>>

-----------------------------------------------------------------------------
(* Publishing one intent and settling it. *)

Take(w) ==
    /\ job[w].at = "loop"
    /\ \E x \in job[w].todo :
           Goto(w, [job[w] EXCEPT !.at = "publish", !.todo = @ \ {x}, !.env = x[1], !.n = x[2]])
    /\ Publish(w)
    /\ UNCHANGED <<carrierVars, boundVars>>

\* One send of the fan-out goes on.
Send(w) ==
    /\ job[w].at = "publish"
    /\ \E p \in Replicas :
        \/ CheckSeen(w, p, Req(w)) \/ Handle(w, p, Req(w))
        \/ Serve(w, p, Req(w)) \/ SendFails(w, p, Req(w))
    /\ UNCHANGED <<carrierVars, job, boundVars>>

Back(w) == [job[w] EXCEPT !.at = "loop", !.env = 0, !.n = 0]

\* dispatch_pending with the result: mark_done and mark_failed first look if the
\* file is still there; the count of an attempt is written anyway.
SettleOutbox(w) ==
    LET e == job[w].env
        n == job[w].n
    IN  /\ job[w].at = "publish" /\ AllAnswered(w)
        /\ carrier = "outbox"
        /\ \E met \in QuorumMet(w) :
            \/ /\ met
               /\ Goto(w, IF e \in In("pending") THEN [job[w] EXCEPT !.at = "done"] ELSE Back(w))
               /\ UNCHANGED outbox
            \/ /\ ~met /\ n + 1 >= MaxAttempts
               /\ Goto(w, IF e \in In("pending") THEN [job[w] EXCEPT !.at = "failed"] ELSE Back(w))
               /\ UNCHANGED outbox
            \/ /\ ~met /\ n + 1 < MaxAttempts
               /\ write_attempt(e, n + 1)
               /\ Goto(w, Back(w))
        /\ acks' = [acks EXCEPT ![w] = NoAcks]
        /\ UNCHANGED <<replicaVars, carrier, queue, boundVars>>

\* The move of mark_done; a file that is gone raises into the except branch,
\* whose mark_failed does not find it either.
MarkDone(w) ==
    LET e == job[w].env
        n == job[w].n + 1
    IN  /\ job[w].at = "done"
        /\ \/ e \in In("pending") /\ mark_done(e)
           \/ e \notin In("pending") /\ n < MaxAttempts /\ write_attempt(e, n)
           \/ e \notin In("pending") /\ n >= MaxAttempts /\ UNCHANGED outbox
        /\ Goto(w, Back(w))
        /\ UNCHANGED <<fanoutVars, carrier, queue, boundVars>>

\* mark_failed writes the last count, then moves the file; one that another
\* dispatcher moved in between raises, and is left to it.
MarkFailed(w) ==
    /\ job[w].at = "failed"
    /\ write_attempt(job[w].env, job[w].n + 1)
    /\ Goto(w, [job[w] EXCEPT !.at = "move"])
    /\ UNCHANGED <<fanoutVars, carrier, queue, boundVars>>

MoveFailed(w) ==
    /\ job[w].at = "move"
    /\ IF job[w].env \in In("pending") THEN move_failed(job[w].env) ELSE UNCHANGED outbox
    /\ Goto(w, Back(w))
    /\ UNCHANGED <<fanoutVars, carrier, queue, boundVars>>

\* Mutant: the answers to this publish are still there for the next one.
SettleKeepsAnswers(w) ==
    /\ job[w].at = "publish" /\ AllAnswered(w)
    /\ carrier # "outbox"
    /\ MoveMessage(job[w].env, "done")
    /\ Goto(w, Back(w))
    /\ UNCHANGED <<fanoutVars, carrier, outbox, boundVars>>

\* The consumer acknowledges a message whose quorum was met, and leaves another
\* one where it is.
SettleQueue(w) ==
    /\ job[w].at = "publish" /\ AllAnswered(w)
    /\ carrier # "outbox"
    /\ \E met \in QuorumMet(w) :
        \/ met /\ carrier = "file" /\ ack_file(job[w].env)
        \/ met /\ carrier = "sqs" /\ ack_sqs(job[w].env)
        \/ (met => carrier = "redis") /\ UNCHANGED queue
    /\ acks' = [acks EXCEPT ![w] = NoAcks]
    /\ Goto(w, Back(w))
    /\ UNCHANGED <<replicaVars, carrier, outbox, boundVars>>

EndBatch(w) ==
    /\ job[w].at = "loop"
    /\ job[w].todo = {}
    /\ Goto(w, Idle)
    /\ UNCHANGED <<fanoutVars, carrierVars, boundVars>>

-----------------------------------------------------------------------------
(* The environment. *)

\* A worker ends: with all the others where they are threads of one process.
\* What it has sent may still be served, and a file it was writing is torn.
Crash(w) ==
    LET ended == IF transport = "inprocess" THEN Workers ELSE {w}
    IN  /\ crashes < MaxCrashes
        /\ transport = "inprocess" \/ job[w] # Idle
        /\ crashes' = crashes + 1
        /\ job' = [v \in Workers |-> IF v \in ended THEN Idle ELSE job[v]]
        /\ acks' = [v \in Workers |-> IF v \in ended THEN NoAcks ELSE acks[v]]
        /\ IF transport = "inprocess" THEN ForgetSeen ELSE UNCHANGED seen
        /\ \/ UNCHANGED late
           \/ /\ transport = "http" /\ "late" \in FanoutFaults /\ job[w].at = "publish"
              /\ late' = late \cup {<<p, Req(w)>> : p \in {q \in Replicas : acks[w][q] = "sent"}}
        /\ \/ UNCHANGED outbox
           \/ /\ "torn" \in DeliveryFaults /\ carrier = "outbox"
              /\ \/ job[w].at = "failed"
                 \/ /\ job[w].at = "publish" /\ AllAnswered(w) /\ FALSE \in QuorumMet(w)
                    /\ job[w].n + 1 < MaxAttempts
              /\ write_attempt(job[w].env, TornFile)
    /\ UNCHANGED <<transport, old, mapped, restores, carrier, queue, requeues>>

Requeue(e) ==
    /\ requeues < MaxRequeues
    /\ requeues' = requeues + 1
    /\ requeue_failed(e)
    /\ UNCHANGED <<fanoutVars, carrier, queue, job, crashes>>

MessageReappears(m) ==
    /\ carrier = "sqs"
    /\ VisibilityTimeout(m)
    /\ UNCHANGED <<fanoutVars, carrier, outbox, job, boundVars>>

ReplicaStep(p) ==
    /\ RestoreIds(p) \/ \E r \in Requests : ServeLate(p, r)
    /\ UNCHANGED <<carrierVars, job, boundVars>>

WorkerStep(w) ==
    \/ ListOutbox(w) \/ Dequeue(w) \/ Claim(w) \/ Dequeued(w) \/ Take(w) \/ Send(w)
    \/ SettleOutbox(w) \/ MarkDone(w) \/ MarkFailed(w) \/ MoveFailed(w)
    \/ SettleQueue(w) \/ EndBatch(w)

Next ==
    \/ \E r \in Requests : Enqueue(r)
    \/ \E w \in Workers : WorkerStep(w) \/ Crash(w)
    \/ \E e \in Envelopes : Requeue(e) \/ MessageReappears(e)
    \/ \E p \in Replicas : ReplicaStep(p)

Spec == Init /\ [][Next]_vars

\* A worker that runs goes on, its sends included (send has a time-out), and
\* is called again.
FairSpec == Spec /\ \A w \in Workers : WF_vars(WorkerStep(w))

-----------------------------------------------------------------------------
(* Properties. *)

\* The carrier has put envelope e on record as delivered.  Redis takes a message
\* off before anything is done ("at-most-once") and records nothing.
Delivered(e) ==
    CASE carrier = "outbox"          -> e \in In("done")
      [] carrier \in {"file", "sqs"} -> queue[e].place = "done"
      [] OTHER                       -> FALSE

\* An intent is on record as delivered only when a quorum of replicas holds none
\* of the vectors it was made for: whoever else worked on the same intent, and
\* whatever was retried, late, lost or restarted on the way.
DeliveredIsErased ==
    \A e \in Envelopes :
        Delivered(e) => ErasedAtQuorum(IF carrier = "outbox" THEN outbox[e].req ELSE queue[e].req)

\* What a replica worker remembers as done, and will acknowledge unseen, is
\* erased there, also when the same request is being applied by two threads.
SeenIsErased == \A p \in Replicas : seen[p] \cap old[p] = {}

\* The file queue and Redis hand a message to one consumer only.
ClaimedOnce ==
    carrier \in {"file", "redis"} =>
        \A v, w \in Workers : v # w => job[v].held \cap job[w].held = {}

\* No intent stays pending: it is settled by dispatchers that overwrite each
\* other's count of attempts and bring back files the other has moved (unless
\* a crash in the middle of a write left a file that list_pending cannot read).
OutboxSettles ==
    \A e \in Envelopes : []<>(e \notin In("pending") \/ ~Listable)

\* "Replicated hard-delete intent (idempotent by request_id)": an intent that a
\* quorum of the replicas has carried out does not end as failed.
ErasedIntentSucceeds ==
    \A e \in In("failed") : ~ErasedAtQuorum(outbox[e].req)
=============================================================================
