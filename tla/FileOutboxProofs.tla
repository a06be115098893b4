--------------------------- MODULE FileOutboxProofs ---------------------------
(***************************************************************************)
(* Lemmas about the operations of FileOutbox, which the proofs of both its *)
(* users rest on: the workflow that fills it and the workers that drain    *)
(* it.                                                                     *)
(***************************************************************************)
EXTENDS FileOutbox, TLAPS

\* A file is that of a request.
OutboxUsed ==
    \A e \in Envelopes :
        outbox[e].pending # NoFile \/ outbox[e].done # NoFile \/ outbox[e].failed # NoFile
            => outbox[e].req \in Requests

USE IntentsAssumption, OutboxAssumption DEF NoRequest, NoFile, TornFile, FileContent, In

\* A file of the outbox is written, or moved to failed or back: nothing else is
\* on record as done.
LEMMA OutboxWrite ==
    ASSUME OutboxType, OutboxUsed, NEW e \in Envelopes, outbox[e].req \in Requests,
           NEW n \in FileContent,
           write_attempt(e, n) \/ move_failed(e) \/ requeue_failed(e)
    PROVE  /\ OutboxType' /\ OutboxUsed'
           /\ \A d \in Envelopes : outbox'[d].req = outbox[d].req
           /\ In("done")' = In("done")
  BY DEF OutboxType, OutboxUsed, write_attempt, move_failed, requeue_failed, move

LEMMA OutboxDone ==
    ASSUME OutboxType, OutboxUsed, NEW e \in Envelopes, outbox[e].req \in Requests,
           mark_done(e)
    PROVE  /\ OutboxType' /\ OutboxUsed'
           /\ \A d \in Envelopes : outbox'[d].req = outbox[d].req
           /\ In("done")' \subseteq In("done") \cup {e}
  BY DEF OutboxType, OutboxUsed, mark_done, move

\* A new envelope takes a place that was free.
LEMMA OutboxEnqueue ==
    ASSUME OutboxType, OutboxUsed, NEW r \in Requests, enqueue(r)
    PROVE  /\ OutboxType' /\ OutboxUsed'
           /\ \A d \in Envelopes : outbox[d].req \in Requests => outbox'[d].req = outbox[d].req
           /\ In("done")' = In("done")
<1>1. PICK e \in Free : outbox' = [outbox EXCEPT ![e].req = r, ![e].pending = 0]
  BY DEF enqueue
<1>2. e \in Envelopes /\ outbox[e].req = NoRequest
  BY <1>1 DEF Free
<1>3. /\ outbox'[e] = [outbox[e] EXCEPT !.req = r, !.pending = 0]
      /\ \A d \in Envelopes : d # e => outbox'[d] = outbox[d]
      /\ DOMAIN outbox' = Envelopes
  BY <1>1, <1>2 DEF OutboxType
<1>4. /\ outbox'[e].req = r /\ outbox'[e].pending = 0
      /\ outbox'[e].done = outbox[e].done /\ outbox'[e].failed = outbox[e].failed
  BY <1>2, <1>3 DEF OutboxType
<1>5. OutboxType'
  <2>1. outbox'[e] \in [req: Requests \cup {NoRequest}, pending: FileContent,
                        done: FileContent, failed: FileContent]
    <3> HIDE DEF FileContent
    <3>1. outbox[e] \in [req: Requests \cup {NoRequest}, pending: FileContent,
                         done: FileContent, failed: FileContent]
      BY <1>2 DEF OutboxType
    <3>2. 0 \in FileContent
      BY DEF FileContent
    <3> QED BY <1>3, <3>1, <3>2
  <2>2. outbox' = [outbox EXCEPT ![e] = outbox'[e]]
    BY <1>1, <1>2 DEF OutboxType
  <2> HIDE DEF FileContent
  <2> QED BY <1>2, <2>1, <2>2 DEF OutboxType
<1>6. OutboxUsed'
  BY <1>3, <1>4 DEF OutboxUsed
<1>7. In("done")' = In("done")
  <2>1. \A d \in Envelopes : outbox'[d].done = outbox[d].done
    BY <1>3, <1>4
  <2>2. \A d \in Envelopes : outbox'[d]["done"] = outbox[d]["done"]
    BY <2>1
  <2> QED BY <2>2
<1> QED BY <1>2, <1>3, <1>5, <1>6, <1>7
=============================================================================
