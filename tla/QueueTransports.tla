---------------------------- MODULE QueueTransports ----------------------------
(***************************************************************************)
(* integrations/queue_transports.py: three queues that carry the same      *)
(* intents.  A message is pending (a file of queue/pending, an item of the *)
(* Redis list, a visible SQS message), in processing (a file of that       *)
(* directory, an SQS message hidden by its visibility time-out), or done   *)
(* (a file of queue/done, popped from the list, deleted from SQS).         *)
(***************************************************************************)
EXTENDS Intents

VARIABLE queue   \* envelope -> where its message is, and its request

QueueType ==
    queue \in [Envelopes -> [place: {"none", "pending", "processing", "done"},
                             req: Requests \cup {NoRequest}]]

QueueInit == queue = [m \in Envelopes |-> [place |-> "none", req |-> NoRequest]]

Waiting == {m \in Envelopes : queue[m].place = "pending"}

\* enqueue, of any transport.
enqueue_delete_intent(r) ==
    \E m \in Envelopes :
        /\ queue[m].place = "none"
        /\ \A k \in Envelopes : k < m => queue[k].place # "none"
        /\ queue' = [queue EXCEPT ![m] = [place |-> "pending", req |-> r]]

MoveMessage(m, to) == queue' = [queue EXCEPT ![m].place = to]

\* FileQueueTransport.dequeue: the rename takes a file for one consumer only;
\* it raises when another one was faster.
Replaceable(m) == queue[m].place = "pending"

\* RedisListTransport.dequeue: LPOP takes the message off for good.
lpop(m) == queue[m].place = "pending" /\ MoveMessage(m, "done")

\* SqsTransport.dequeue: the message is hidden until its time-out, an external
\* event.
receive_message(m) == queue[m].place = "pending" /\ MoveMessage(m, "processing")
VisibilityTimeout(m) == queue[m].place = "processing" /\ MoveMessage(m, "pending")

\* FileQueueTransport.ack
ack_file(m) ==
    IF queue[m].place = "processing" THEN MoveMessage(m, "done") ELSE UNCHANGED queue

\* SqsTransport.ack: delete_message.
ack_sqs(m) == MoveMessage(m, "done")
=============================================================================
