------------------------------ MODULE FileOutbox ------------------------------
(***************************************************************************)
(* integrations/outbox.py: one JSON file per envelope, in the directories  *)
(* pending, done and failed.  Nothing but the file system keeps two        *)
(* dispatchers apart, so that an envelope may have a file in more than one *)
(* of them.                                                                *)
(***************************************************************************)
EXTENDS Intents

CONSTANT MaxAttempts   \* OutboxDispatcher.max_attempts

ASSUME OutboxAssumption == MaxAttempts \in Nat \ {0}

VARIABLE outbox  \* envelope -> its request, and the attempts its file records per directory

NoFile   == -1
TornFile == -2   \* a write that a crash cut off: JSON that does not parse
FileContent == Nat \cup {NoFile, TornFile}
Unused   == [req |-> NoRequest, pending |-> NoFile, done |-> NoFile, failed |-> NoFile]

OutboxType ==
    outbox \in [Envelopes -> [req: Requests \cup {NoRequest}, pending: FileContent,
                              done: FileContent, failed: FileContent]]

OutboxInit == outbox = [e \in Envelopes |-> Unused]

In(dir)  == {e \in Envelopes : outbox[e][dir] # NoFile}
Free     == {e \in Envelopes : outbox[e].req = NoRequest}

\* list_pending reads every file and raises on one it cannot parse.
Listable == \A e \in Envelopes : outbox[e].pending # TornFile

\* A new file under pending.
enqueue(r) ==
    \E e \in Free :
        /\ \A f \in Free : e <= f
        /\ outbox' = [outbox EXCEPT ![e].req = r, ![e].pending = 0]

\* shutil.move
move(e, from, to) ==
    outbox' = [outbox EXCEPT ![e][to] = outbox[e][from], ![e][from] = NoFile]

\* mark_done, once src.is_file() was true.
mark_done(e) == move(e, "pending", "done")

\* The count of a failed attempt: the write makes the file again if another
\* dispatcher has moved it.  Bound: counts from MaxAttempts on, which all mean
\* that no attempt is left, are kept as MaxAttempts.
write_attempt(e, n) ==
    outbox' = [outbox EXCEPT ![e].pending = IF n > MaxAttempts THEN MaxAttempts ELSE n]

\* Mutant: the file is copied, not moved.
MoveFailedByCopy(e) == outbox' = [outbox EXCEPT ![e].failed = outbox[e].pending]

\* The end of mark_failed, after it has written the last count.
move_failed(e) == move(e, "pending", "failed")

\* requeue_failed: the file comes back as it is, attempts included.
requeue_failed(e) ==
    /\ e \in In("failed")
    /\ move(e, "failed", "pending")
=============================================================================
