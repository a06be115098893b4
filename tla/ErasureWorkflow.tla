--------------------------- MODULE ErasureWorkflow ---------------------------
(***************************************************************************)
(* The erasure tickets of integrations/workflow.py as the API of           *)
(* api/main.py runs them: create and advance a workflow kept in a JSON     *)
(* file, erase its ids through ErasureService on the native index, enqueue *)
(* the replica intent, call the webhook, save.  Handlers run one at a time *)
(* on the event loop, but the process may end between any two effects of   *)
(* one: index, receipts, workflow and outbox files then stay as they are,  *)
(* and the id registry is read back from its last save.  Rows of the index *)
(* are reached only through the labels that registry gives their ids.      *)
(***************************************************************************)
EXTENDS FileOutbox, FiniteSets

CONSTANTS
    Ids,           \* business ids
    NumLabels,     \* bound: labels are 0 .. NumLabels - 1
    IdsOf,         \* request -> the ids it asks to erase
    NeedsReplica,  \* requests with require_replica
    NeedsWebhook,  \* requests that require a document-store or backup hook
    FlowFaults,    \* which failures the environment may produce
    MaxIngests, MaxCalls, MaxCrashes  \* bounds

\* "contention": a durable delete raises; "hook": a hook raises; "save", "log":
\* the registry file or the receipt log cannot be written, which is ignored.
ASSUME FlowAssumption ==
    /\ IdsOf \in [Requests -> SUBSET Ids \ {{}}]
    /\ NeedsReplica \subseteq Requests /\ NeedsWebhook \subseteq Requests
    /\ FlowFaults \subseteq {"contention", "hook", "save", "log"}
    /\ NumLabels \in Nat
    /\ MaxIngests \in Nat /\ MaxCalls \in Nat /\ MaxCrashes \in Nat

Labels   == 0 .. (NumLabels - 1)
NoLabel  == -1
Vectors  == Ids \X (1 .. MaxIngests)  \* whose, and the ingest it came with
NoVector == <<"none", 0>>             \* a row of zeros, or no row
Registry == [Ids -> Labels \cup {NoLabel}]

VARIABLES
    (* Durable. *)
    vec,      \* label -> the vector in that row
    size,     \* how many rows the index has
    saved,    \* id -> label, in id_registry.json
    ticket,   \* request -> its workflow file
    log,      \* requests with a complete receipt in receipts.jsonl
    lost,     \* requests whose complete receipt could not be appended (history)
    (* In the process. *)
    forward,  \* id -> label, in the registry
    astray,   \* ids whose row a restart left without its label (history)
    handler,  \* what the running handler is and does next
    draft,    \* the workflow that advance works on
    todo, skips, errors,  \* the loop of ErasureService.delete
    batch,    \* envelopes that dispatch_pending has listed
    (* Bounds. *)
    ingests, calls, crashes

durableVars == <<vec, size, saved, ticket, log, lost, outbox>>
loopVars    == <<todo, skips, errors>>
countVars   == <<ingests, calls, crashes>>
registryVars == <<forward, astray>>
vars == <<durableVars, registryVars, handler, draft, loopVars, batch, countVars>>

\* live, residual, replica, webhook: the steps of STEP_ORDER; the three hooks
\* after replica_fanout are one here, as _run_optional treats them alike.
\* asked is history: the vectors the ids had when the ticket was opened.
NoTicket == [status |-> "none", live |-> "pending", residual |-> "pending",
             replica |-> "pending", webhook |-> "pending", asked |-> {}]

\* caller: who asked for the delete; env: the intent that dispatch works on.
At(step, r, caller, e) == [step |-> step, req |-> r, caller |-> caller, env |-> e]
Idle == [step |-> "idle", env |-> 0]
Dispatching == [step |-> "dispatch", env |-> 0]
Ingesting == [step |-> "ingest", env |-> 0]

Handlers ==
    {Idle, Dispatching, Ingesting}
        \cup [step: {"erase", "replica", "webhook", "save", "done", "failed", "move"}, req: Requests,
              caller: {"advance", "api", "dispatch"}, env: 0 .. MaxEnvelopes]

StepStates == {"pending", "done", "failed", "skipped"}

TicketType ==
    [status: {"none", "open", "in_progress", "complete", "blocked"},
     live: StepStates, residual: StepStates, replica: StepStates, webhook: StepStates,
     asked: SUBSET Vectors]

TypeOK ==
    /\ OutboxType
    /\ vec \in [Labels -> Vectors \cup {NoVector}] /\ size \in 0 .. NumLabels
    /\ forward \in Registry /\ saved \in Registry /\ astray \in SUBSET Ids
    /\ ticket \in [Requests -> TicketType]
    /\ log \in SUBSET Requests /\ lost \in SUBSET Requests
    /\ handler \in Handlers
    /\ draft \in TicketType
    /\ todo \in SUBSET Ids /\ skips \in Nat /\ errors \in Nat
    /\ batch \in SUBSET Envelopes
    /\ ingests \in 0 .. MaxIngests /\ calls \in 0 .. MaxCalls /\ crashes \in 0 .. MaxCrashes

Init ==
    /\ OutboxInit
    /\ vec = [l \in Labels |-> NoVector] /\ size = 0
    /\ forward = [i \in Ids |-> NoLabel] /\ saved = forward /\ astray = {}
    /\ ticket = [r \in Requests |-> NoTicket]
    /\ log = {} /\ lost = {}
    /\ handler = Idle
    /\ draft = NoTicket
    /\ todo = {} /\ skips = 0 /\ errors = 0
    /\ batch = {}
    /\ ingests = 0 /\ calls = 0 /\ crashes = 0

Call ==
    /\ handler = Idle
    /\ calls < MaxCalls
    /\ calls' = calls + 1
    /\ UNCHANGED <<ingests, crashes>>

\* Mutant: a label that is in use is given to a second id.
RegistrationsSharing(ids) ==
    {f \in Registry :
        \A i \in Ids : IF i \in ids /\ forward[i] = NoLabel THEN f[i] \in Labels
                                                          ELSE f[i] = forward[i]}

\* register for each of these ids: a known one keeps its label, another gets the
\* next label or the one the caller names, which must be free.
Registrations(ids) ==
    {f \in Registry :
        /\ \A i \in Ids : IF i \in ids /\ forward[i] = NoLabel THEN f[i] \in Labels
                                                             ELSE f[i] = forward[i]
        /\ \A i, j \in Ids : f[i] = f[j] /\ f[i] # NoLabel => i = j}

\* id_registry.save, whose OSError the handlers swallow.
SaveRegistry == saved' = forward \/ ("save" \in FlowFaults /\ saved' = saved)

\* POST /v1/ids/register; also an ingest that is refused once it has registered
\* its ids, which saves nothing.
Register(ids) ==
    /\ Call
    /\ forward' \in Registrations(ids)
    /\ saved' \in {saved, forward'}
    /\ UNCHANGED <<vec, size, astray, ticket, log, lost, outbox, handler, draft, loopVars, batch>>

\* POST /v1/vectors/ingest with replace_index and checkpoint: the index now holds
\* the rows of these ids only; ids of an earlier ingest stay in the registry.
Load(ids) ==
    /\ handler = Idle
    /\ ingests < MaxIngests
    /\ ingests' = ingests + 1
    /\ forward' \in Registrations(ids)
    /\ vec' = [l \in Labels |-> IF \E i \in ids : forward'[i] = l
                               THEN <<CHOOSE i \in ids : forward'[i] = l, ingests + 1>>
                               ELSE NoVector]
    /\ \E top \in ids :
        /\ \A i \in ids : forward'[i] <= forward'[top]
        /\ size' = forward'[top] + 1
    /\ astray' = {}
    /\ handler' = Ingesting
    /\ UNCHANGED <<saved, ticket, log, lost, outbox, draft, loopVars, batch, calls, crashes>>

\* The registry is saved last.
IngestSave ==
    /\ handler.step = "ingest"
    /\ SaveRegistry
    /\ handler' = Idle
    /\ UNCHANGED <<vec, size, ticket, log, lost, outbox, registryVars, draft, loopVars, batch, countVars>>

\* The rows that hold a vector of one of these ids.
RowsOf(ids) == {l \in Labels : vec[l] # NoVector /\ vec[l][1] \in ids}

\* POST /v1/erasure-requests: the file of the request is written afresh.
Create(r) ==
    /\ Call
    /\ ticket' = [ticket EXCEPT ![r] =
           [NoTicket EXCEPT !.status = "open",
                            !.asked = {vec[l] : l \in RowsOf(IdsOf[r])}]]
    /\ UNCHANGED <<vec, size, saved, log, lost, outbox, registryVars, handler, draft, loopVars, batch>>

-----------------------------------------------------------------------------
(* ErasureService.delete(request), called by advance, by dispatch, or by    *)
(* POST /v1/collections/{c}/delete.                                         *)

StartDelete(r, caller, e) ==
    /\ handler' = At("erase", r, caller, e)
    /\ todo' = IdsOf[r]
    /\ skips' = 0
    /\ errors' = 0

\* The loop's variables go out of scope.
EndLoop == todo' = {} /\ skips' = 0 /\ errors' = 0

\* One id: an unknown one is skipped.  Of a known one the row of its label is
\* wiped durably, whosever it is, and the id dropped; or the delete raises,
\* before or after the wipe, or for a label beyond the index.
EraseOne ==
    /\ handler.step = "erase"
    /\ \E i \in todo :
        LET l     == forward[i]
            wiped == [vec EXCEPT ![l] = NoVector]
        IN  /\ todo' = todo \ {i}
            /\ \/ /\ l = NoLabel
                  /\ skips' = skips + 1
                  /\ UNCHANGED <<vec, forward, errors>>
               \/ /\ l # NoLabel /\ l < size
                  /\ vec' = wiped
                  /\ forward' = [forward EXCEPT ![i] = NoLabel]
                  /\ UNCHANGED <<skips, errors>>
               \/ /\ l # NoLabel /\ l < size /\ "contention" \in FlowFaults
                  /\ vec' \in {vec, wiped}
                  /\ errors' = errors + 1
                  /\ UNCHANGED <<forward, skips>>
               \/ /\ l >= size
                  /\ errors' = errors + 1
                  /\ UNCHANGED <<vec, forward, skips>>
    /\ UNCHANGED <<size, saved, ticket, log, lost, outbox, astray, handler, draft, batch, countVars>>

\* Mutant: a delete that raised does not count against the receipt.
StatusIgnoringErrors == IF skips > 0 THEN "partial" ELSE "complete"

\* _derive_status, on a backend without compact().
Status ==
    LET erased == Cardinality(IdsOf[handler.req]) - skips - errors
    IN  CASE skips = 0 /\ errors = 0                -> "complete"
          [] skips + errors > 0 /\ erased > 0       -> "partial"
          [] OTHER -> IF errors = 0 THEN "partial" ELSE "failed"

\* Every id was wiped and read back as zeros, or there was nothing to read.
Erased == Cardinality(IdsOf[handler.req]) > skips + errors

\* AppendOnlyReceiptLog.append, whose OSError the service swallows.
AppendReceipt ==
    LET done == {r \in {handler.req} : Status = "complete"}
    IN  \/ log' = log \cup done /\ UNCHANGED lost
        \/ "log" \in FlowFaults /\ lost' = lost \cup done /\ UNCHANGED log

\* The receipt is appended to the log, and the caller goes on.
Receipt ==
    /\ handler.step = "erase"
    /\ todo = {}
    /\ AppendReceipt
    /\ CASE handler.caller = "advance" ->
                /\ draft' = [draft EXCEPT
                       !.live = IF Status = "complete" THEN "done" ELSE "failed",
                       !.residual = IF @ = "done" \/ Erased THEN "done" ELSE "skipped"]
                /\ handler' = At("replica", handler.req, "advance", 0)
                /\ UNCHANGED saved
         [] handler.caller = "api" ->
                /\ SaveRegistry
                /\ handler' = Idle
                /\ UNCHANGED draft
         [] handler.caller = "dispatch" ->
                /\ handler' = [handler EXCEPT
                       !.step = IF Status = "complete" THEN "done" ELSE "failed"]
                /\ UNCHANGED <<saved, draft>>
    /\ EndLoop
    /\ UNCHANGED <<vec, size, ticket, outbox, registryVars, batch, countVars>>

\* Before any ingest there is no index, and the API answers 409.
IndexLoaded == size > 0

DeleteRequest(r) ==
    /\ Call
    /\ IndexLoaded
    /\ StartDelete(r, "api", 0)
    /\ UNCHANGED <<durableVars, registryVars, draft, batch>>

-----------------------------------------------------------------------------
(* ErasureWorkflowRunner.advance. *)

\* A complete workflow is returned as it is.
Advance(r) ==
    /\ Call
    /\ IndexLoaded
    /\ ticket[r].status \notin {"none", "complete"}
    /\ draft' = [ticket[r] EXCEPT !.status = "in_progress"]
    /\ IF ticket[r].live = "done"
       THEN handler' = At("replica", r, "advance", 0) /\ UNCHANGED loopVars
       ELSE StartDelete(r, "advance", 0)
    /\ UNCHANGED <<durableVars, registryVars, batch>>

\* _run_optional on one hook: skipped when not required, else run.
Optional(state, required, result) ==
    IF state = "done" THEN "done" ELSE IF required THEN result ELSE "skipped"

\* Mutant: the step is done although nothing was enqueued.
ReplicaForgotten ==
    /\ handler.step = "replica"
    /\ draft' = [draft EXCEPT !.replica = Optional(@, handler.req \in NeedsReplica, "done")]
    /\ handler' = At("webhook", handler.req, "advance", 0)
    /\ UNCHANGED <<durableVars, registryVars, loopVars, batch, countVars>>

\* The replica hook enqueues the intent in the outbox, or raises.
ReplicaHook ==
    /\ handler.step = "replica"
    /\ LET run == draft.replica # "done" /\ handler.req \in NeedsReplica
           after(result) == [draft EXCEPT
               !.replica = Optional(@, handler.req \in NeedsReplica, result)]
       IN  \/ run /\ enqueue(handler.req) /\ draft' = after("done")
           \/ run /\ "hook" \in FlowFaults /\ draft' = after("failed") /\ UNCHANGED outbox
           \/ ~run /\ draft' = after("done") /\ UNCHANGED outbox
    /\ handler' = At("webhook", handler.req, "advance", 0)
    /\ UNCHANGED <<vec, size, saved, ticket, log, lost, registryVars, loopVars, batch, countVars>>

WebhookHook ==
    /\ handler.step = "webhook"
    /\ \E result \in {"done"} \cup {x \in {"failed"} : "hook" \in FlowFaults} :
           draft' = [draft EXCEPT
               !.webhook = Optional(@, handler.req \in NeedsWebhook, result)]
    /\ handler' = At("save", handler.req, "advance", 0)
    /\ UNCHANGED <<durableVars, registryVars, loopVars, batch, countVars>>

\* Mutant: a workflow whose live delete failed takes that step's own status.
ComputeStatusOfStep(w, r) == IF w.live = "failed" THEN w.live ELSE "complete"

\* _compute_status.
ComputeStatus(w, r) ==
    LET bad(step, required) == required /\ step \notin {"done", "skipped"}
    IN  IF \/ w.live = "failed"
           \/ w.residual = "failed"
           \/ bad(w.replica, r \in NeedsReplica)
           \/ bad(w.webhook, r \in NeedsWebhook)
        THEN "blocked" ELSE "complete"

SaveTicket ==
    /\ handler.step = "save"
    /\ ticket' = [ticket EXCEPT ![handler.req] =
           [draft EXCEPT !.status = ComputeStatus(draft, handler.req)]]
    /\ handler' = Idle
    /\ draft' = NoTicket
    /\ UNCHANGED <<vec, size, saved, log, lost, outbox, registryVars, loopVars, batch, countVars>>

-----------------------------------------------------------------------------
(* POST /v1/outbox/dispatch: every pending intent is applied locally again. *)

Dispatch ==
    /\ handler = Idle
    /\ In("pending") # {}
    /\ batch' = In("pending")
    /\ handler' = Dispatching
    /\ UNCHANGED <<durableVars, registryVars, draft, loopVars, countVars>>

DispatchOne ==
    /\ handler.step = "dispatch"
    /\ \E e \in batch : StartDelete(outbox[e].req, "dispatch", e)
    /\ UNCHANGED <<durableVars, registryVars, draft, batch, countVars>>

\* dispatch_pending goes on with the next envelope.
NextEnvelope ==
    /\ batch' = batch \ {handler.env}
    /\ handler' = Dispatching

DispatchDone ==
    /\ handler.step = "done"
    /\ mark_done(handler.env)
    /\ NextEnvelope
    /\ UNCHANGED <<vec, size, saved, ticket, log, lost, registryVars, draft, loopVars, countVars>>

\* The count of attempts is written; after the last one mark_failed then moves
\* the file.
DispatchFailed ==
    LET n == outbox[handler.env].pending + 1
    IN  /\ handler.step = "failed"
        /\ write_attempt(handler.env, n)
        /\ IF n < MaxAttempts THEN NextEnvelope
                              ELSE handler' = [handler EXCEPT !.step = "move"] /\ UNCHANGED batch
        /\ UNCHANGED <<vec, size, saved, ticket, log, lost, registryVars, draft, loopVars, countVars>>

DispatchMove ==
    /\ handler.step = "move"
    /\ move_failed(handler.env)
    /\ NextEnvelope
    /\ UNCHANGED <<vec, size, saved, ticket, log, lost, registryVars, draft, loopVars, countVars>>

DispatchEnd ==
    /\ handler.step = "dispatch"
    /\ batch = {}
    /\ handler' = Idle
    /\ UNCHANGED <<durableVars, registryVars, draft, loopVars, batch, countVars>>

\* An operator requeues a failed intent.
Requeue(e) ==
    /\ Call
    /\ requeue_failed(e)
    /\ UNCHANGED <<vec, size, saved, ticket, log, lost, registryVars, handler, draft, loopVars, batch>>

\* The process ends and starts again; a clean shutdown saves the registry.
Restart ==
    /\ crashes < MaxCrashes
    /\ crashes' = crashes + 1
    /\ \/ saved' = saved
       \/ handler = Idle /\ saved' = forward
    /\ forward' = saved'
    /\ astray' = astray \cup {i \in Ids : \E l \in RowsOf({i}) : saved'[i] # l}
    /\ handler' = Idle
    /\ draft' = NoTicket
    /\ EndLoop
    /\ batch' = {}
    /\ UNCHANGED <<vec, size, ticket, log, lost, outbox, ingests, calls>>

Running ==
    IngestSave \/ EraseOne \/ Receipt \/ ReplicaHook \/ WebhookHook \/ SaveTicket
        \/ DispatchOne \/ DispatchDone \/ DispatchFailed \/ DispatchMove \/ DispatchEnd

Next ==
    \/ Running \/ Dispatch \/ Restart
    \/ \E ids \in SUBSET Ids \ {{}} : Load(ids) \/ Register(ids)
    \/ \E r \in Requests : Create(r) \/ Advance(r) \/ DeleteRequest(r)
    \/ \E e \in Envelopes : Requeue(e)

Spec == Init /\ [][Next]_vars

\* A handler that started runs on, and a worker keeps calling dispatch.
FairSpec == Spec /\ WF_vars(Running) /\ WF_vars(Dispatch)

-----------------------------------------------------------------------------
(* Properties. *)

\* A ticket is complete only when none of the vectors its ids had when it was
\* opened is left: through labels that are dropped and given again, rows an
\* ingest replaces, skipped ids, retries, and restarts between any two of erase,
\* save and checkpoint.  The one exception is an id in astray: its row was loaded
\* and the process ended before, or without, saving the label.  The registry
\* then resolves the id to another row, whose zeros pass for its erasure.
CompleteMeansErased ==
    \A r \in Requests :
        ticket[r].status = "complete" =>
            \A x \in ticket[r].asked, l \in Labels : vec[l] = x => x[1] \in astray

\* A delete, of a ticket, a dispatch or the API, wipes rows of the ids it was
\* asked to erase and of no other (or of one that is astray).
OnlyAskedErased ==
    [][\A l \in Labels :
           vec[l] # NoVector /\ vec'[l] # vec[l] /\ ingests' = ingests =>
               /\ handler.step = "erase"
               /\ vec[l][1] \in IdsOf[handler.req] \cup astray]_vars

\* A complete ticket has its complete receipt in the append-only log (or the
\* append of that receipt failed, which the service ignores), and, when it
\* requires replicas, its intent in the outbox: what export attaches to it
\* exists, whatever crash came between.
CompleteHasEvidence ==
    \A r \in Requests :
        ticket[r].status = "complete" =>
            /\ r \in log \cup lost
            /\ r \in NeedsReplica =>
                   \E e \in Envelopes : outbox[e].req = r

\* No intent stays pending: every one is settled, as done or as failed.
IntentsSettle == \A e \in Envelopes : []<>(e \notin In("pending"))
=============================================================================
