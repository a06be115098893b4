------------------------- MODULE ErasureWorkflowProofs -------------------------
(***************************************************************************)
(* Proofs about ErasureWorkflow, for any ids, labels, requests, ingests,   *)
(* calls, crashes, envelopes and attempts, and every fault.                *)
(***************************************************************************)
EXTENDS ErasureWorkflow, FileOutboxProofs, TLAPS

-----------------------------------------------------------------------------
(* The inductive invariant. *)

\* The vectors that ticket w of request r asks for are those of its ids, from
\* ingests that have been.
AskedInv(w, r) == \A x \in w.asked : x[1] \in IdsOf[r] /\ x[2] <= ingests

\* Vector x is in no row, or its id is astray.
Gone(x) == \A l \in Labels : vec[l] = x => x[1] \in astray

\* A delete that is done left a receipt and none of those vectors.
LiveInv(w, r) ==
    w.live = "done" => r \in log \cup lost /\ \A x \in w.asked : Gone(x)

\* A fan-out that is required is not skipped, and left its intent.
ReplicaInv(w, r) ==
    r \in NeedsReplica =>
        /\ w.replica # "skipped"
        /\ w.replica = "done" => \E e \in Envelopes : outbox[e].req = r

\* What "complete" rests on.
StatusInv(w, r) ==
    w.status = "complete" => w.live = "done" /\ (r \in NeedsReplica => w.replica = "done")

TicketInv(w, r) == AskedInv(w, r) /\ LiveInv(w, r) /\ ReplicaInv(w, r) /\ StatusInv(w, r)

\* The ticket that advance works on; its delete has come to an end before the hooks.
AdvanceInv ==
    handler.step \in {"erase", "replica", "webhook", "save"} =>
        /\ handler.caller = "advance" =>
               TicketInv(draft, handler.req) /\ draft.status = "in_progress"
        /\ handler.step # "erase" =>
               handler.caller = "advance" /\ draft.live \in {"done", "failed"}

\* Without a skip or an error, the ids that the loop is through with have no row.
LoopInv ==
    handler.step = "erase" =>
        /\ todo \subseteq IdsOf[handler.req]
        /\ skips = 0 /\ errors = 0 =>
               \A i \in IdsOf[handler.req] \ todo, l \in Labels :
                   vec[l] # NoVector /\ vec[l][1] = i => i \in astray

\* A registry gives no label to two ids.
Injective(f) == \A i, j \in Ids : f[i] = f[j] /\ f[i] # NoLabel => i = j

\* A row came with an ingest that has been, and the registry gives its id that
\* row's label, unless the id is astray.
RowsInv ==
    \A l \in Labels :
        vec[l] # NoVector =>
            /\ vec[l][2] <= ingests
            /\ vec[l][1] \notin astray => forward[vec[l][1]] = l

LabelsInv == RowsInv /\ Injective(forward) /\ Injective(saved)

\* Intents that dispatch has listed are those of requests.
BatchInv ==
    /\ \A e \in batch : outbox[e].req \in Requests
    /\ handler.step \in {"done", "failed", "move"} => handler.env \in batch
    /\ handler.step = "erase" /\ handler.caller = "dispatch" => handler.env \in batch

FlowIndInv ==
    /\ TypeOK /\ OutboxUsed
    /\ LabelsInv
    /\ \A r \in Requests : TicketInv(ticket[r], r)
    /\ AdvanceInv /\ LoopInv /\ BatchInv

USE IntentsAssumption, OutboxAssumption, FlowAssumption DEF NoRequest, NoFile, TornFile,
    FileContent, In, At, durableVars, registryVars, loopVars, countVars

-----------------------------------------------------------------------------
(* What all steps have in common. *)

\* Receipts stay, envelopes keep their requests, and rows stay or go and what is
\* astray stays so, or all rows give way to those of a later ingest.
Frame ==
    /\ ingests' \in {ingests, ingests + 1}
    /\ log \cup lost \subseteq log' \cup lost'
    /\ \/ /\ \A l \in Labels : vec'[l] = vec[l] \/ vec'[l] = NoVector
          /\ astray \subseteq astray'
       \/ \A l \in Labels : vec'[l] = NoVector \/ vec'[l][2] = ingests + 1
    /\ \A e \in Envelopes : outbox[e].req \in Requests => outbox'[e].req = outbox[e].req

LEMMA VectorFields ==
    /\ \A x \in Vectors : x[1] \in Ids /\ x[2] \in 1 .. MaxIngests /\ x = <<x[1], x[2]>>
    /\ \A x \in Vectors : x # NoVector
    /\ \A i \in Ids, n \in 1 .. MaxIngests :
           <<i, n>> \in Vectors /\ <<i, n>>[1] = i /\ <<i, n>>[2] = n
    /\ NoVector[2] = 0
  BY DEF Vectors, NoVector

\* So a ticket that nobody writes stays right.
LEMMA KeptTicket ==
    ASSUME TypeOK, Frame, NEW w \in TicketType, NEW r \in Requests, TicketInv(w, r)
    PROVE  TicketInv(w, r)'
<1> USE DEF TicketInv
<1>1. \A x \in w.asked : x[1] \in Ids /\ x[2] \in 1 .. MaxIngests /\ x # NoVector
  BY VectorFields DEF TicketType
<1>2. IdsOf[r] \subseteq Ids /\ ingests \in Nat
  BY DEF TypeOK
<1>3. AskedInv(w, r)'
  BY <1>1, <1>2 DEF Frame, AskedInv
<1>4. LiveInv(w, r)'
  <2>1. ASSUME NEW x \in w.asked, Gone(x) PROVE Gone(x)'
    <3>1. x[2] \in Nat /\ x[2] <= ingests /\ x # NoVector
      BY <1>1 DEF AskedInv
    <3> QED BY <1>2, <2>1, <3>1 DEF Gone, Frame
  <2>2. log \cup lost \subseteq log' \cup lost'
    BY DEF Frame
  <2> QED BY <2>1, <2>2 DEF LiveInv
<1>5. ReplicaInv(w, r)'
  BY DEF Frame, ReplicaInv
<1>6. StatusInv(w, r)'
  BY DEF StatusInv
<1> QED BY <1>3, <1>4, <1>5, <1>6

LEMMA FrameStep ==
    ASSUME FlowIndInv, Frame, TypeOK', OutboxUsed', UNCHANGED ticket, LabelsInv',
           AdvanceInv', LoopInv', BatchInv'
    PROVE  FlowIndInv'
<1>1. ASSUME NEW r \in Requests PROVE TicketInv(ticket[r], r)'
  <2>1. ticket[r] \in TicketType /\ TicketInv(ticket[r], r)
    BY DEF FlowIndInv, TypeOK
  <2> QED BY <2>1, KeptTicket
          DEF FlowIndInv, TicketInv, AskedInv, LiveInv, Gone, ReplicaInv, StatusInv
<1> QED BY <1>1 DEF FlowIndInv

\* The index, the receipts and the count of ingests stay.
LEMMA StillFrame ==
    ASSUME FlowIndInv, UNCHANGED <<vec, log, lost, ingests>>, astray \subseteq astray',
           \A e \in Envelopes : outbox[e].req \in Requests => outbox'[e].req = outbox[e].req
    PROVE  Frame
  BY DEF FlowIndInv, TypeOK, Frame

LEMMA StillLabels ==
    ASSUME FlowIndInv, UNCHANGED <<vec, registryVars, ingests>>, saved' \in {saved, forward}
    PROVE  LabelsInv'
  BY DEF FlowIndInv, LabelsInv, RowsInv, Injective

\* No handler runs, or one that erases nothing.
LEMMA HandlerAtRest ==
    ASSUME handler' \in {Idle, Dispatching, Ingesting}, \A e \in batch' : outbox'[e].req \in Requests
    PROVE  AdvanceInv' /\ LoopInv' /\ BatchInv'
  BY DEF Idle, Dispatching, Ingesting, AdvanceInv, LoopInv, BatchInv

LEMMA HandlerTypes ==
    /\ Idle \in Handlers /\ Dispatching \in Handlers /\ Ingesting \in Handlers
    /\ NoTicket \in TicketType
    /\ \A st \in {"erase", "replica", "webhook", "save", "done", "failed", "move"}, r \in Requests,
          c \in {"advance", "api", "dispatch"}, e \in 0 .. MaxEnvelopes :
              At(st, r, c, e) \in Handlers
  BY DEF Handlers, Idle, Dispatching, Ingesting, NoTicket, TicketType, StepStates

\* A handler that is not idle.
LEMMA HandlerFields ==
    ASSUME TypeOK,
           handler.step \in {"erase", "replica", "webhook", "save", "done", "failed", "move"}
    PROVE  /\ handler.req \in Requests /\ handler.caller \in {"advance", "api", "dispatch"}
           /\ handler.env \in 0 .. MaxEnvelopes
  BY DEF TypeOK, Handlers, Idle, Dispatching, Ingesting

-----------------------------------------------------------------------------
(* The calls. *)

\* What register gives: labels for all these ids, and none of them twice.
LEMMA Registered ==
    ASSUME TypeOK, NEW ids \in SUBSET Ids, NEW f \in Registrations(ids)
    PROVE  /\ f \in Registry /\ Injective(f)
           /\ \A i \in ids : f[i] \in Labels
           /\ \A i \in Ids : forward[i] # NoLabel => f[i] = forward[i]
  BY DEF Registrations, Registry, Injective, TypeOK

LEMMA RegisterStep ==
    ASSUME FlowIndInv, NEW ids \in SUBSET Ids, Register(ids)
    PROVE  FlowIndInv'
<1>1. /\ UNCHANGED <<vec, size, astray, ticket, log, lost, outbox, handler, draft, loopVars, batch>>
      /\ forward' \in Registrations(ids) /\ saved' \in {saved, forward'}
  BY DEF Register
<1>2. calls' \in 0 .. MaxCalls /\ UNCHANGED <<ingests, crashes>> /\ handler = Idle
  BY DEF Register, Call, FlowIndInv, TypeOK
<1>3. /\ forward' \in Registry /\ Injective(forward')
      /\ \A i \in Ids : forward[i] # NoLabel => forward'[i] = forward[i]
  BY <1>1, Registered DEF FlowIndInv
<1>4. TypeOK' /\ OutboxUsed'
  BY <1>1, <1>2, <1>3 DEF FlowIndInv, TypeOK, OutboxType, OutboxUsed
<1>5. LabelsInv'
  <2>1. Injective(saved')
    BY <1>1, <1>3 DEF FlowIndInv, LabelsInv
  <2>2. RowsInv'
    <3> SUFFICES ASSUME NEW l \in Labels, vec[l] # NoVector
                 PROVE  /\ vec[l][2] <= ingests
                        /\ vec[l][1] \notin astray => forward'[vec[l][1]] = l
      BY <1>1, <1>2 DEF RowsInv
    <3>1. vec[l] \in Vectors /\ l # NoLabel
      BY DEF FlowIndInv, TypeOK, Labels, NoLabel
    <3> QED BY <1>3, <3>1, VectorFields DEF FlowIndInv, LabelsInv, RowsInv
  <2> QED BY <1>3, <2>1, <2>2 DEF LabelsInv, Injective
<1>6. AdvanceInv' /\ LoopInv' /\ BatchInv'
  BY <1>1, <1>2, HandlerAtRest DEF FlowIndInv, BatchInv
<1>7. Frame
  BY <1>1, <1>2, StillFrame
<1> QED BY <1>1, <1>4, <1>5, <1>6, <1>7, FrameStep

LEMMA LoadStep ==
    ASSUME FlowIndInv, NEW ids \in SUBSET Ids, Load(ids)
    PROVE  FlowIndInv'
<1>1. /\ UNCHANGED <<saved, ticket, log, lost, outbox, draft, loopVars, batch, calls, crashes>>
      /\ forward' \in Registrations(ids) /\ astray' = {} /\ handler' = Ingesting
      /\ ingests' = ingests + 1 /\ ingests < MaxIngests
  BY DEF Load
<1>2. /\ forward' \in Registry /\ Injective(forward') /\ \A i \in ids : forward'[i] \in Labels
  BY <1>1, Registered DEF FlowIndInv
<1>3. ingests \in Nat /\ ingests + 1 \in 1 .. MaxIngests
  BY <1>1 DEF FlowIndInv, TypeOK
<1>4. ASSUME NEW l \in Labels
      PROVE  \/ vec'[l] = NoVector
             \/ \E i \in ids : vec'[l] = <<i, ingests + 1>> /\ forward'[i] = l
  <2>1. CASE \E i \in ids : forward'[i] = l
    <3>1. vec'[l] = <<CHOOSE i \in ids : forward'[i] = l, ingests + 1>>
      BY <2>1 DEF Load
    <3>2. /\ (CHOOSE i \in ids : forward'[i] = l) \in ids
          /\ forward'[CHOOSE i \in ids : forward'[i] = l] = l
      BY <2>1
    <3> QED BY <3>1, <3>2
  <2>2. CASE ~ \E i \in ids : forward'[i] = l
    BY <2>2 DEF Load
  <2> QED BY <2>1, <2>2
<1>5. vec' \in [Labels -> Vectors \cup {NoVector}]
  <2>1. \A l \in Labels : vec'[l] \in Vectors \cup {NoVector}
    <3>1. \A i \in ids : <<i, ingests + 1>> \in Vectors
      BY <1>3 DEF Vectors
    <3>2. ASSUME NEW l \in Labels PROVE vec'[l] \in Vectors \cup {NoVector}
      <4>1. CASE vec'[l] = NoVector
        BY <4>1
      <4>2. CASE \E i \in ids : vec'[l] = <<i, ingests + 1>> /\ forward'[i] = l
        BY <3>1, <4>2
      <4> QED BY <1>4, <4>1, <4>2
    <3> QED BY <3>2
  <2>2. vec' = [l \in Labels |-> vec'[l]]
    BY DEF Load
  <2> QED BY <2>1, <2>2
<1>6. size' \in 0 .. NumLabels
  BY <1>2 DEF Load, Labels
<1>7. TypeOK' /\ OutboxUsed'
  BY <1>1, <1>2, <1>3, <1>5, <1>6, HandlerTypes DEF FlowIndInv, TypeOK, OutboxType, OutboxUsed
<1>8. LabelsInv'
  <2>1. RowsInv'
    <3> SUFFICES ASSUME NEW l \in Labels, vec'[l] # NoVector
                 PROVE  vec'[l][2] <= ingests' /\ forward'[vec'[l][1]] = l
      BY DEF RowsInv
    <3> QED BY <1>1, <1>3, <1>4, VectorFields
  <2> QED BY <1>1, <1>2, <2>1 DEF FlowIndInv, LabelsInv, Injective
<1>9. AdvanceInv' /\ LoopInv' /\ BatchInv'
  BY <1>1, HandlerAtRest DEF FlowIndInv, BatchInv
<1>10. Frame
  <2>1. \A l \in Labels : vec'[l] = NoVector \/ vec'[l][2] = ingests + 1
    BY <1>3, <1>4, VectorFields
  <2> QED BY <1>1, <2>1 DEF Frame
<1> QED BY <1>1, <1>7, <1>8, <1>9, <1>10, FrameStep

LEMMA IngestSaveStep ==
    ASSUME FlowIndInv, IngestSave
    PROVE  FlowIndInv'
<1>1. /\ UNCHANGED <<vec, size, ticket, log, lost, outbox, registryVars, draft, loopVars, batch, countVars>>
      /\ handler' = Idle /\ saved' \in {saved, forward}
  BY DEF IngestSave, SaveRegistry
<1>2. TypeOK' /\ OutboxUsed'
  BY <1>1, HandlerTypes DEF FlowIndInv, TypeOK, OutboxType, OutboxUsed
<1>3. AdvanceInv' /\ LoopInv' /\ BatchInv'
  BY <1>1, HandlerAtRest DEF FlowIndInv, BatchInv
<1>4. Frame /\ LabelsInv'
  BY <1>1, StillFrame, StillLabels
<1> QED BY <1>1, <1>2, <1>3, <1>4, FrameStep

LEMMA CreateStep ==
    ASSUME FlowIndInv, NEW r \in Requests, Create(r)
    PROVE  FlowIndInv'
<1> DEFINE S == {vec[l] : l \in RowsOf(IdsOf[r])}
<1>1. UNCHANGED <<vec, size, saved, log, lost, outbox, registryVars, handler, draft, loopVars, batch>>
  BY DEF Create
<1>2. calls' \in 0 .. MaxCalls /\ UNCHANGED <<ingests, crashes>> /\ handler = Idle
  BY DEF Create, Call, FlowIndInv, TypeOK
<1>3. PICK w : w = [NoTicket EXCEPT !.status = "open", !.asked = S]
  OBVIOUS
<1>4. ticket' = [ticket EXCEPT ![r] = w]
  BY <1>3 DEF Create
<1>5. S \in SUBSET Vectors /\ \A x \in S : x[1] \in IdsOf[r] /\ x[2] <= ingests
  BY DEF FlowIndInv, TypeOK, LabelsInv, RowsInv, RowsOf
<1> HIDE DEF S
<1>6. /\ w \in TicketType /\ w.status = "open" /\ w.live = "pending" /\ w.replica = "pending"
      /\ w.asked = S
  BY <1>3, <1>5 DEF TicketType, NoTicket, StepStates
<1>7. Frame
  BY <1>1, <1>2, StillFrame
<1>8. ticket'[r] = w /\ \A q \in Requests \ {r} : ticket'[q] = ticket[q]
  BY <1>4 DEF FlowIndInv, TypeOK
<1>9. TypeOK' /\ OutboxUsed' /\ LabelsInv'
  BY <1>1, <1>2, <1>4, <1>6, StillLabels DEF FlowIndInv, TypeOK, OutboxType, OutboxUsed
<1>10. AdvanceInv' /\ LoopInv' /\ BatchInv'
  BY <1>1, <1>2, HandlerAtRest DEF FlowIndInv, BatchInv
<1>11. ASSUME NEW q \in Requests PROVE TicketInv(ticket[q], q)'
  <2>1. CASE q = r
    BY <1>2, <1>5, <1>6, <1>8, <2>1
       DEF TicketInv, AskedInv, LiveInv, Gone, ReplicaInv, StatusInv
  <2>2. CASE q # r
    <3>1. ticket[q] \in TicketType /\ TicketInv(ticket[q], q) /\ TypeOK
      BY DEF FlowIndInv, TypeOK
    <3>2. ticket'[q] = ticket[q]
      BY <1>8, <2>2
    <3> QED BY <1>7, <3>1, <3>2, KeptTicket
            DEF TicketInv, AskedInv, LiveInv, Gone, ReplicaInv, StatusInv
  <2> QED BY <2>1, <2>2
<1> QED BY <1>9, <1>10, <1>11 DEF FlowIndInv

\* A delete begins.
LEMMA StartStep ==
    ASSUME FlowIndInv, NEW r \in Requests, NEW c \in {"advance", "api", "dispatch"},
           NEW e \in 0 .. MaxEnvelopes, StartDelete(r, c, e),
           UNCHANGED <<durableVars, registryVars, batch, ingests, crashes>>,
           calls' \in 0 .. MaxCalls, draft' \in TicketType,
           c = "advance" => TicketInv(draft, r)' /\ draft'.status = "in_progress",
           c = "dispatch" => e \in batch
    PROVE  FlowIndInv'
<1>1. handler' = At("erase", r, c, e) /\ todo' = IdsOf[r] /\ skips' = 0 /\ errors' = 0
  BY DEF StartDelete
<1>2. Frame /\ LabelsInv'
  BY StillFrame, StillLabels
<1>3. TypeOK' /\ OutboxUsed'
  BY <1>1, HandlerTypes DEF FlowIndInv, TypeOK, OutboxType, OutboxUsed
<1>4. handler'.step = "erase" /\ handler'.req = r /\ handler'.caller = c /\ handler'.env = e
  BY <1>1
<1>5. AdvanceInv'
  BY <1>4 DEF AdvanceInv, TicketInv, AskedInv, LiveInv, Gone, ReplicaInv, StatusInv
<1>6. LoopInv'
  BY <1>1, <1>4 DEF LoopInv
<1>7. BatchInv'
  BY <1>4 DEF FlowIndInv, BatchInv
<1> QED BY <1>2, <1>3, <1>5, <1>6, <1>7, FrameStep

LEMMA DeleteRequestStep ==
    ASSUME FlowIndInv, NEW r \in Requests, DeleteRequest(r)
    PROVE  FlowIndInv'
<1>1. /\ StartDelete(r, "api", 0) /\ UNCHANGED <<durableVars, registryVars, draft, batch>>
      /\ calls' \in 0 .. MaxCalls /\ UNCHANGED <<ingests, crashes>>
  BY DEF DeleteRequest, Call, FlowIndInv, TypeOK
<1>2. draft' \in TicketType /\ 0 \in 0 .. MaxEnvelopes
  BY <1>1 DEF FlowIndInv, TypeOK
<1> QED BY <1>1, <1>2, StartStep

LEMMA AdvanceStep ==
    ASSUME FlowIndInv, NEW r \in Requests, Advance(r)
    PROVE  FlowIndInv'
<1>1. /\ UNCHANGED <<durableVars, registryVars, batch, ingests, crashes>> /\ calls' \in 0 .. MaxCalls
      /\ draft' = [ticket[r] EXCEPT !.status = "in_progress"] /\ 0 \in 0 .. MaxEnvelopes
  BY DEF Advance, Call, FlowIndInv, TypeOK
<1>2. ticket[r] \in TicketType /\ TicketInv(ticket[r], r)
  BY DEF FlowIndInv, TypeOK
<1>3. /\ draft' \in TicketType /\ draft'.status = "in_progress" /\ draft'.live = ticket[r].live
      /\ draft'.replica = ticket[r].replica /\ draft'.asked = ticket[r].asked
  BY <1>1, <1>2 DEF TicketType
<1>4. TicketInv(draft, r)'
  BY <1>1, <1>2, <1>3 DEF TicketInv, AskedInv, LiveInv, Gone, ReplicaInv, StatusInv
<1>5. CASE StartDelete(r, "advance", 0)
  BY <1>1, <1>3, <1>4, <1>5, StartStep
<1>6. CASE ticket[r].live = "done" /\ handler' = At("replica", r, "advance", 0) /\ UNCHANGED loopVars
  <2>1. handler'.step = "replica" /\ handler'.req = r /\ handler'.caller = "advance"
    BY <1>6
  <2>2. AdvanceInv'
    BY <1>3, <1>4, <1>6, <2>1
       DEF AdvanceInv, TicketInv, AskedInv, LiveInv, Gone, ReplicaInv, StatusInv
  <2>3. LoopInv' /\ BatchInv'
    BY <1>1, <2>1 DEF FlowIndInv, LoopInv, BatchInv
  <2>4. TypeOK' /\ OutboxUsed'
    BY <1>1, <1>3, <1>6, HandlerTypes DEF FlowIndInv, TypeOK, OutboxType, OutboxUsed
  <2>5. Frame /\ LabelsInv'
    BY <1>1, StillFrame, StillLabels
  <2> QED BY <1>1, <2>2, <2>3, <2>4, <2>5, FrameStep
<1> QED BY <1>5, <1>6 DEF Advance

-----------------------------------------------------------------------------
(* The delete. *)

\* What one turn of the loop does: the row of the label of id i goes, or nothing.
EraseTurn(i) ==
    /\ todo' = todo \ {i}
    /\ skips' \in {skips, skips + 1} /\ errors' \in {errors, errors + 1}
    /\ \/ /\ forward[i] \in Labels /\ vec' = [vec EXCEPT ![forward[i]] = NoVector]
          /\ \/ forward' = [forward EXCEPT ![i] = NoLabel]
             \/ forward' = forward /\ errors' = errors + 1
       \/ vec' = vec /\ forward' = forward /\ (skips' = skips + 1 \/ errors' = errors + 1)

LEMMA EraseTurns ==
    ASSUME FlowIndInv, EraseOne
    PROVE  \E i \in todo : EraseTurn(i)
<1>1. PICK i \in todo : EraseOne!2!(i)
  BY DEF EraseOne
<1>2. forward[i] = NoLabel \/ forward[i] \in Labels
  BY DEF FlowIndInv, TypeOK, Registry
<1> QED BY <1>1, <1>2 DEF EraseTurn, FlowIndInv, TypeOK

LEMMA EraseOneStep ==
    ASSUME FlowIndInv, EraseOne
    PROVE  FlowIndInv'
<1>1. /\ UNCHANGED <<size, saved, ticket, log, lost, outbox, astray, handler, draft, batch, countVars>>
      /\ handler.step = "erase"
  BY DEF EraseOne
<1>2. PICK i \in todo : EraseTurn(i)
  BY EraseTurns
<1>3. /\ vec \in [Labels -> Vectors \cup {NoVector}] /\ i \in Ids /\ skips \in Nat /\ errors \in Nat
      /\ forward \in Registry /\ ingests \in Nat
  BY <1>2 DEF FlowIndInv, TypeOK
<1>4. \A l \in Labels : vec'[l] = vec[l] \/ vec'[l] = NoVector
  BY <1>2, <1>3 DEF EraseTurn
<1>5. Frame
  BY <1>1, <1>3, <1>4 DEF Frame
<1>6. TypeOK' /\ OutboxUsed'
  <2>1. vec' \in [Labels -> Vectors \cup {NoVector}] /\ forward' \in Registry
    BY <1>2, <1>3 DEF EraseTurn, Registry
  <2>2. todo' \in SUBSET Ids /\ skips' \in Nat /\ errors' \in Nat
    BY <1>2, <1>3 DEF EraseTurn, FlowIndInv, TypeOK
  <2> QED BY <1>1, <2>1, <2>2 DEF FlowIndInv, TypeOK, OutboxType, OutboxUsed
<1>7. LabelsInv'
  <2>1. RowsInv'
    <3> SUFFICES ASSUME NEW l \in Labels, vec'[l] # NoVector
                 PROVE  /\ vec'[l][2] <= ingests
                        /\ vec'[l][1] \notin astray => forward'[vec'[l][1]] = l
      BY <1>1 DEF RowsInv
    <3>1. vec'[l] = vec[l] /\ vec[l] \in Vectors
      BY <1>3, <1>4
    <3>2. vec[l][2] <= ingests /\ (vec[l][1] \notin astray => forward[vec[l][1]] = l)
      BY <3>1 DEF FlowIndInv, LabelsInv, RowsInv
    <3>3. vec[l][1] = i => forward[i] # l \/ forward' = forward
      BY <1>2, <1>3, <3>1 DEF EraseTurn
    <3>4. vec[l][1] # i => forward'[vec[l][1]] = forward[vec[l][1]]
      BY <1>2, <1>3, <3>1, VectorFields DEF EraseTurn, Registry
    <3> QED BY <3>1, <3>2, <3>3, <3>4
  <2>2. Injective(forward)'
    <3>1. Injective(forward)
      BY DEF FlowIndInv, LabelsInv
    <3>2. \A j \in Ids : forward'[j] = forward[j] \/ forward'[j] = NoLabel
      BY <1>2, <1>3 DEF EraseTurn, Registry
    <3> QED BY <3>1, <3>2 DEF Injective
  <2> QED BY <1>1, <2>1, <2>2 DEF FlowIndInv, LabelsInv, Injective
<1>8. AdvanceInv'
  <2>1. draft \in TicketType /\ handler.req \in Requests /\ TypeOK
    BY <1>1, HandlerFields DEF FlowIndInv, TypeOK
  <2> QED BY <1>1, <1>5, <2>1, KeptTicket
          DEF FlowIndInv, AdvanceInv, TicketInv, AskedInv, LiveInv, Gone, ReplicaInv, StatusInv
<1>9. LoopInv'
  <2>1. todo' \subseteq IdsOf[handler'.req]
    BY <1>1, <1>2 DEF FlowIndInv, LoopInv, EraseTurn
  <2>2. ASSUME skips' = 0, errors' = 0, NEW j \in IdsOf[handler'.req] \ todo', NEW l \in Labels,
               vec'[l] # NoVector, vec'[l][1] = j
        PROVE  j \in astray'
    <3>1. skips = 0 /\ errors = 0
      BY <1>2, <1>3, <2>2 DEF EraseTurn
    <3>2. forward[i] \in Labels /\ vec' = [vec EXCEPT ![forward[i]] = NoVector]
      BY <1>2, <2>2, <3>1 DEF EraseTurn
    <3>3. vec'[l] = vec[l] /\ l # forward[i]
      BY <1>3, <1>4, <2>2, <3>2
    <3>4. CASE j = i
      BY <1>1, <2>2, <3>3, <3>4 DEF FlowIndInv, LabelsInv, RowsInv
    <3>5. CASE j # i
      <4>1. j \in IdsOf[handler.req] \ todo
        BY <1>1, <1>2, <2>2, <3>5 DEF EraseTurn
      <4> QED BY <1>1, <2>2, <3>1, <3>3, <4>1 DEF FlowIndInv, LoopInv
    <3> QED BY <3>4, <3>5
  <2> QED BY <2>1, <2>2 DEF LoopInv
<1>10. BatchInv'
  BY <1>1 DEF FlowIndInv, BatchInv
<1> QED BY <1>1, <1>5, <1>6, <1>7, <1>8, <1>9, <1>10, FrameStep

LEMMA StatusComplete ==
    ASSUME FlowIndInv, Status = "complete"
    PROVE  skips = 0 /\ errors = 0
  BY DEF FlowIndInv, TypeOK, Status

\* The receipt of a delete without skips or errors stands for wiped vectors.
LEMMA ReceiptAdvance ==
    ASSUME FlowIndInv, handler.step = "erase", todo = {}, handler.caller = "advance",
           AppendReceipt, EndLoop,
           draft' = [draft EXCEPT
               !.live = IF Status = "complete" THEN "done" ELSE "failed",
               !.residual = IF @ = "done" \/ Erased THEN "done" ELSE "skipped"],
           handler' = At("replica", handler.req, "advance", 0),
           UNCHANGED <<vec, size, ticket, registryVars, countVars, saved, outbox, batch>>
    PROVE  FlowIndInv'
<1> DEFINE r == handler.req
<1>1. /\ draft \in TicketType /\ TicketInv(draft, r) /\ draft.status = "in_progress"
      /\ r \in Requests /\ TypeOK
  BY HandlerFields DEF FlowIndInv, AdvanceInv, TypeOK
<1>2. PICK live \in {"done", "failed"}, residual \in {"done", "skipped"} :
        /\ draft' = [draft EXCEPT !.live = live, !.residual = residual]
        /\ live = "done" => Status = "complete"
  <2>1. PICK residual \in {"done", "skipped"} :
            residual = IF draft.residual = "done" \/ Erased THEN "done" ELSE "skipped"
    OBVIOUS
  <2>2. PICK live \in {"done", "failed"} : live = IF Status = "complete" THEN "done" ELSE "failed"
    OBVIOUS
  <2>3. draft' = [draft EXCEPT !.live = live, !.residual = residual]
    BY <2>1, <2>2
  <2>4. live = "done" => Status = "complete"
    BY <2>2
  <2> QED BY <2>3, <2>4
<1>3. /\ draft' \in TicketType /\ draft'.live = live /\ draft'.replica = draft.replica
      /\ draft'.asked = draft.asked /\ draft'.status = draft.status
  BY <1>1, <1>2 DEF TicketType, StepStates
<1>4. /\ log' \in SUBSET Requests /\ lost' \in SUBSET Requests
      /\ log \cup lost \subseteq log' \cup lost'
      /\ Status = "complete" => r \in log' \cup lost'
  BY <1>1 DEF AppendReceipt, TypeOK
<1>5. Frame /\ LabelsInv'
  BY <1>4, StillLabels DEF Frame, FlowIndInv, TypeOK
<1>6. handler'.step = "replica" /\ handler'.req = r /\ handler'.caller = "advance"
  OBVIOUS
<1>7. TicketInv(draft, handler.req)'
  <2>1. AskedInv(draft, handler.req)' /\ ReplicaInv(draft, handler.req)'
    BY <1>1, <1>3, <1>6 DEF TicketInv, AskedInv, ReplicaInv
  <2>2. LiveInv(draft, handler.req)'
    <3>1. ASSUME live = "done", NEW x \in draft.asked PROVE Gone(x)
      <4>1. \A i \in IdsOf[r], l \in Labels : vec[l] # NoVector /\ vec[l][1] = i => i \in astray
        BY <1>2, <3>1, StatusComplete DEF FlowIndInv, LoopInv
      <4>2. x # NoVector /\ x[1] \in IdsOf[r]
        BY <1>1, VectorFields DEF TicketType, TicketInv, AskedInv
      <4> QED BY <4>1, <4>2 DEF Gone
    <3> QED BY <1>2, <1>3, <1>4, <1>6, <3>1 DEF LiveInv, Gone
  <2>3. StatusInv(draft, handler.req)'
    BY <1>1, <1>3 DEF StatusInv
  <2> QED BY <2>1, <2>2, <2>3 DEF TicketInv
<1>8. AdvanceInv'
  BY <1>1, <1>3, <1>6, <1>7 DEF AdvanceInv
<1>9. LoopInv' /\ BatchInv'
  BY <1>6 DEF FlowIndInv, LoopInv, BatchInv
<1>10. TypeOK' /\ OutboxUsed'
  BY <1>1, <1>3, <1>4, HandlerTypes DEF FlowIndInv, TypeOK, EndLoop, OutboxType, OutboxUsed
<1> QED BY <1>5, <1>8, <1>9, <1>10, FrameStep

LEMMA ReceiptStep ==
    ASSUME FlowIndInv, Receipt
    PROVE  FlowIndInv'
<1>1. /\ handler.step = "erase" /\ todo = {} /\ AppendReceipt /\ EndLoop
      /\ UNCHANGED <<vec, size, ticket, outbox, registryVars, batch, countVars>>
  BY DEF Receipt
<1>2. handler.req \in Requests /\ handler.caller \in {"advance", "api", "dispatch"} /\ TypeOK
  BY <1>1, HandlerFields DEF FlowIndInv
<1>3. CASE handler.caller = "advance"
  BY <1>1, <1>3, ReceiptAdvance DEF Receipt
<1>4. /\ log' \in SUBSET Requests /\ lost' \in SUBSET Requests
      /\ log \cup lost \subseteq log' \cup lost'
  BY <1>1, <1>2 DEF AppendReceipt, TypeOK
<1>5. Frame
  BY <1>1, <1>4 DEF Frame, FlowIndInv, TypeOK
<1>6. CASE handler.caller = "api"
  <2>1. saved' \in {saved, forward} /\ handler' = Idle /\ UNCHANGED draft
    BY <1>6 DEF Receipt, SaveRegistry
  <2>2. LabelsInv'
    BY <1>1, <2>1, StillLabels
  <2>3. AdvanceInv' /\ LoopInv' /\ BatchInv'
    BY <1>1, <2>1, HandlerAtRest DEF FlowIndInv, BatchInv
  <2>4. TypeOK' /\ OutboxUsed'
    BY <1>1, <1>4, <2>1, HandlerTypes DEF FlowIndInv, TypeOK, EndLoop, OutboxType, OutboxUsed
  <2> QED BY <1>1, <1>5, <2>2, <2>3, <2>4, FrameStep
<1>7. CASE handler.caller = "dispatch"
  <2>1. PICK st \in {"done", "failed"} :
            handler' = [handler EXCEPT !.step = st] /\ UNCHANGED <<saved, draft>>
    BY <1>7 DEF Receipt
  <2>2. handler' \in Handlers /\ handler'.step = st /\ handler'.env = handler.env
    BY <1>1, <2>1 DEF FlowIndInv, TypeOK, Handlers, Idle, Dispatching, Ingesting
  <2>3. LabelsInv'
    BY <1>1, <2>1, StillLabels
  <2>4. AdvanceInv' /\ LoopInv' /\ BatchInv'
    BY <1>1, <1>7, <2>2 DEF AdvanceInv, LoopInv, BatchInv, FlowIndInv
  <2>5. TypeOK' /\ OutboxUsed'
    BY <1>1, <1>4, <2>1, <2>2 DEF FlowIndInv, TypeOK, EndLoop, OutboxType, OutboxUsed
  <2> QED BY <1>1, <1>5, <2>3, <2>4, <2>5, FrameStep
<1> QED BY <1>2, <1>3, <1>6, <1>7

-----------------------------------------------------------------------------
(* The hooks, and the end of advance. *)

\* One of the optional steps has a result, and the draft is otherwise the same.
LEMMA HookStep ==
    ASSUME FlowIndInv, handler.step \in {"replica", "webhook"},
           NEW st \in {"webhook", "save"}, handler' = At(st, handler.req, "advance", 0),
           draft' \in TicketType, draft'.live = draft.live, draft'.asked = draft.asked,
           draft'.status = draft.status, ReplicaInv(draft, handler.req)',
           OutboxType', OutboxUsed',
           \A e \in Envelopes : outbox[e].req \in Requests => outbox'[e].req = outbox[e].req,
           UNCHANGED <<vec, size, saved, ticket, log, lost, registryVars, loopVars, batch, countVars>>
    PROVE  FlowIndInv'
<1>1. /\ TicketInv(draft, handler.req) /\ draft.status = "in_progress"
      /\ draft.live \in {"done", "failed"} /\ handler.req \in Requests
  BY HandlerFields DEF FlowIndInv, AdvanceInv
<1>2. handler'.step = st /\ handler'.req = handler.req /\ handler'.caller = "advance"
  OBVIOUS
<1>3. Frame /\ LabelsInv'
  BY StillFrame, StillLabels
<1>4. TicketInv(draft, handler.req)'
  BY <1>1, <1>2 DEF TicketInv, AskedInv, LiveInv, Gone, StatusInv
<1>5. AdvanceInv'
  BY <1>1, <1>2, <1>4 DEF AdvanceInv
<1>6. LoopInv'
  BY <1>2 DEF LoopInv
<1>7. BatchInv'
  BY <1>2 DEF FlowIndInv, TypeOK, BatchInv
<1>8. TypeOK'
  BY <1>1, HandlerTypes DEF FlowIndInv, TypeOK
<1> QED BY <1>3, <1>5, <1>6, <1>7, <1>8, FrameStep

LEMMA ReplicaHookStep ==
    ASSUME FlowIndInv, ReplicaHook
    PROVE  FlowIndInv'
<1> DEFINE r == handler.req
<1>1. /\ handler.step = "replica" /\ handler' = At("webhook", r, "advance", 0)
      /\ UNCHANGED <<vec, size, saved, ticket, log, lost, registryVars, loopVars, batch, countVars>>
  BY DEF ReplicaHook
<1>2. draft \in TicketType /\ r \in Requests /\ TicketInv(draft, r) /\ OutboxType /\ OutboxUsed
  BY <1>1, HandlerFields DEF FlowIndInv, AdvanceInv, TypeOK
<1>3. PICK result \in {"done", "failed"} :
        /\ draft' = [draft EXCEPT !.replica = Optional(@, r \in NeedsReplica, result)]
        /\ \/ enqueue(r)
           \/ /\ UNCHANGED outbox
              /\ result = "failed" \/ draft.replica = "done" \/ r \notin NeedsReplica
  BY DEF ReplicaHook
<1>4. PICK a \in StepStates :
        /\ a = Optional(draft.replica, r \in NeedsReplica, result)
        /\ draft' = [draft EXCEPT !.replica = a]
  BY <1>3 DEF Optional, StepStates
<1>5. /\ draft' \in TicketType /\ draft'.live = draft.live /\ draft'.asked = draft.asked
      /\ draft'.status = draft.status /\ draft'.replica = a
  BY <1>2, <1>4 DEF TicketType
<1>6. /\ OutboxType' /\ OutboxUsed'
      /\ \A e \in Envelopes : outbox[e].req \in Requests => outbox'[e].req = outbox[e].req
  <2>1. CASE enqueue(r)
    BY <1>2, <2>1, OutboxEnqueue
  <2>2. CASE UNCHANGED outbox
    BY <1>2, <2>2 DEF OutboxType, OutboxUsed
  <2> QED BY <1>3, <2>1, <2>2
<1>7. ReplicaInv(draft, handler.req)'
  <2> SUFFICES ASSUME r \in NeedsReplica
               PROVE  a # "skipped" /\ (a = "done" => \E e \in Envelopes : outbox'[e].req = r)
    BY <1>1, <1>5 DEF ReplicaInv
  <2>1. a \in {"done", "failed"} /\ (a = "done" => draft.replica = "done" \/ result = "done")
    BY <1>4 DEF Optional
  <2>2. draft.replica = "done" => \E e \in Envelopes : outbox'[e].req = r
    BY <1>2, <1>6 DEF TicketInv, ReplicaInv
  <2>3. enqueue(r) => \E e \in Envelopes : outbox'[e].req = r
    BY <1>2 DEF enqueue, Free, OutboxType
  <2> QED BY <1>3, <2>1, <2>2, <2>3
<1> QED BY <1>1, <1>5, <1>6, <1>7, HookStep

LEMMA WebhookHookStep ==
    ASSUME FlowIndInv, WebhookHook
    PROVE  FlowIndInv'
<1>1. /\ handler.step = "webhook" /\ handler' = At("save", handler.req, "advance", 0)
      /\ UNCHANGED <<durableVars, registryVars, loopVars, batch, countVars>>
  BY DEF WebhookHook
<1>2. draft \in TicketType /\ TicketInv(draft, handler.req) /\ OutboxType /\ OutboxUsed
  BY <1>1 DEF FlowIndInv, AdvanceInv, TypeOK
<1>3. PICK result \in {"done", "failed"} :
        draft' = [draft EXCEPT !.webhook = Optional(@, handler.req \in NeedsWebhook, result)]
  BY DEF WebhookHook
<1>4. PICK a \in StepStates : draft' = [draft EXCEPT !.webhook = a]
  BY <1>2, <1>3 DEF Optional, StepStates
<1>5. /\ draft' \in TicketType /\ draft'.live = draft.live /\ draft'.asked = draft.asked
      /\ draft'.status = draft.status /\ draft'.replica = draft.replica
  BY <1>2, <1>4 DEF TicketType
<1>6. ReplicaInv(draft, handler.req)' /\ OutboxType' /\ OutboxUsed'
  BY <1>1, <1>2, <1>5 DEF TicketInv, ReplicaInv, OutboxType, OutboxUsed
<1>7. \A e \in Envelopes : outbox'[e].req = outbox[e].req
  BY <1>1
<1> QED BY <1>1, <1>5, <1>6, <1>7, HookStep

LEMMA SaveTicketStep ==
    ASSUME FlowIndInv, SaveTicket
    PROVE  FlowIndInv'
<1> DEFINE r == handler.req
<1>1. /\ handler.step = "save" /\ handler' = Idle /\ draft' = NoTicket
      /\ UNCHANGED <<vec, size, saved, log, lost, outbox, registryVars, loopVars, batch, countVars>>
  BY DEF SaveTicket
<1>2. /\ draft \in TicketType /\ r \in Requests /\ TicketInv(draft, r) /\ TypeOK
      /\ draft.live \in {"done", "failed"}
  BY <1>1, HandlerFields DEF FlowIndInv, AdvanceInv, TypeOK
<1>3. PICK a \in {"blocked", "complete"} : a = ComputeStatus(draft, r)
  BY DEF ComputeStatus
<1>4. a = "complete" => draft.live = "done" /\ (r \in NeedsReplica => draft.replica = "done")
  BY <1>2, <1>3 DEF ComputeStatus, TicketInv, ReplicaInv
<1>5. PICK w : w = [draft EXCEPT !.status = a]
  OBVIOUS
<1>6. /\ w \in TicketType /\ w.live = draft.live /\ w.asked = draft.asked
      /\ w.status = a /\ w.replica = draft.replica
  BY <1>2, <1>5 DEF TicketType
<1>7. ticket' = [ticket EXCEPT ![r] = w]
  BY <1>3, <1>5 DEF SaveTicket
<1>8. ticket'[r] = w /\ \A q \in Requests \ {r} : ticket'[q] = ticket[q]
  BY <1>2, <1>7 DEF TypeOK
<1>9. Frame
  BY <1>1, StillFrame
<1>10. TypeOK' /\ OutboxUsed' /\ LabelsInv'
  BY <1>1, <1>2, <1>6, <1>7, HandlerTypes, StillLabels
     DEF FlowIndInv, TypeOK, OutboxType, OutboxUsed
<1>11. AdvanceInv' /\ LoopInv' /\ BatchInv'
  BY <1>1, HandlerAtRest DEF FlowIndInv, BatchInv
<1>12. ASSUME NEW q \in Requests PROVE TicketInv(ticket[q], q)'
  <2>1. CASE q = r
    BY <1>1, <1>2, <1>4, <1>6, <1>8, <2>1
       DEF TicketInv, AskedInv, LiveInv, Gone, ReplicaInv, StatusInv
  <2>2. CASE q # r
    <3>1. ticket[q] \in TicketType /\ TicketInv(ticket[q], q) /\ ticket'[q] = ticket[q]
      BY <1>8, <2>2 DEF FlowIndInv, TypeOK
    <3> QED BY <1>2, <1>9, <3>1, KeptTicket
            DEF TicketInv, AskedInv, LiveInv, Gone, ReplicaInv, StatusInv
  <2> QED BY <2>1, <2>2
<1> QED BY <1>10, <1>11, <1>12 DEF FlowIndInv

-----------------------------------------------------------------------------
(* The dispatcher, the operator and the process. *)

LEMMA DispatchStep ==
    ASSUME FlowIndInv, Dispatch
    PROVE  FlowIndInv'
<1>1. /\ batch' = In("pending") /\ handler' = Dispatching
      /\ UNCHANGED <<durableVars, registryVars, draft, loopVars, countVars>>
  BY DEF Dispatch
<1>2. Frame /\ LabelsInv'
  BY <1>1, StillFrame, StillLabels
<1>3. \A e \in batch' : e \in Envelopes /\ outbox'[e].req \in Requests
  BY <1>1 DEF FlowIndInv, OutboxUsed
<1>4. AdvanceInv' /\ LoopInv' /\ BatchInv'
  BY <1>1, <1>3, HandlerAtRest
<1>5. TypeOK' /\ OutboxUsed'
  BY <1>1, <1>3, HandlerTypes DEF FlowIndInv, TypeOK, OutboxType, OutboxUsed
<1> QED BY <1>1, <1>2, <1>4, <1>5, FrameStep

LEMMA DispatchOneStep ==
    ASSUME FlowIndInv, DispatchOne
    PROVE  FlowIndInv'
<1>1. PICK e \in batch : StartDelete(outbox[e].req, "dispatch", e)
  BY DEF DispatchOne
<1>2. UNCHANGED <<durableVars, registryVars, draft, batch, countVars>>
  BY DEF DispatchOne
<1>3. outbox[e].req \in Requests /\ e \in 0 .. MaxEnvelopes
  BY DEF FlowIndInv, BatchInv, TypeOK, Envelopes
<1>4. calls' \in 0 .. MaxCalls /\ draft' \in TicketType
  BY <1>2 DEF FlowIndInv, TypeOK
<1> QED BY <1>1, <1>2, <1>3, <1>4, StartStep

\* The outcome is put on record in the outbox, and dispatch goes on.
LEMMA SettleStep ==
    ASSUME FlowIndInv, OutboxType', OutboxUsed', NextEnvelope,
           \A d \in Envelopes : outbox'[d].req = outbox[d].req,
           UNCHANGED <<vec, size, saved, ticket, log, lost, registryVars, draft, loopVars, countVars>>
    PROVE  FlowIndInv'
<1>1. Frame /\ LabelsInv'
  BY StillFrame, StillLabels
<1>2. AdvanceInv' /\ LoopInv' /\ BatchInv'
  BY HandlerAtRest DEF NextEnvelope, FlowIndInv, BatchInv, TypeOK
<1>3. TypeOK'
  BY HandlerTypes DEF NextEnvelope, FlowIndInv, TypeOK
<1> QED BY <1>1, <1>2, <1>3, FrameStep

\* The envelope that is to be settled.
LEMMA SettledEnvelope ==
    ASSUME FlowIndInv, handler.step \in {"done", "failed", "move"}
    PROVE  /\ handler.env \in Envelopes /\ outbox[handler.env].req \in Requests
           /\ outbox[handler.env].pending + 1 \in FileContent /\ OutboxType /\ OutboxUsed
  BY DEF FlowIndInv, BatchInv, TypeOK, OutboxType

LEMMA DispatchDoneStep ==
    ASSUME FlowIndInv, DispatchDone
    PROVE  FlowIndInv'
<1>1. handler.step = "done" /\ mark_done(handler.env) /\ NextEnvelope
  BY DEF DispatchDone
<1>2. OutboxType' /\ OutboxUsed' /\ \A d \in Envelopes : outbox'[d].req = outbox[d].req
  BY <1>1, SettledEnvelope, OutboxDone
<1> QED BY <1>1, <1>2, SettleStep DEF DispatchDone

LEMMA DispatchMoveStep ==
    ASSUME FlowIndInv, DispatchMove
    PROVE  FlowIndInv'
<1>1. handler.step = "move" /\ move_failed(handler.env) /\ NextEnvelope
  BY DEF DispatchMove
<1>2. OutboxType' /\ OutboxUsed' /\ \A d \in Envelopes : outbox'[d].req = outbox[d].req
  BY <1>1, SettledEnvelope, OutboxWrite
<1> QED BY <1>1, <1>2, SettleStep DEF DispatchMove

LEMMA DispatchFailedStep ==
    ASSUME FlowIndInv, DispatchFailed
    PROVE  FlowIndInv'
<1>1. /\ handler.step = "failed"
      /\ write_attempt(handler.env, outbox[handler.env].pending + 1)
      /\ UNCHANGED <<vec, size, saved, ticket, log, lost, registryVars, draft, loopVars, countVars>>
  BY DEF DispatchFailed
<1>2. OutboxType' /\ OutboxUsed' /\ \A d \in Envelopes : outbox'[d].req = outbox[d].req
  BY <1>1, SettledEnvelope, OutboxWrite
<1>3. CASE NextEnvelope
  BY <1>1, <1>2, <1>3, SettleStep
<1>4. CASE handler' = [handler EXCEPT !.step = "move"] /\ UNCHANGED batch
  <2>1. handler' \in Handlers /\ handler'.step = "move" /\ handler'.env = handler.env
    BY <1>1, <1>4 DEF FlowIndInv, TypeOK, Handlers, Idle, Dispatching, Ingesting
  <2>2. Frame /\ LabelsInv'
    BY <1>1, <1>2, StillFrame, StillLabels
  <2>3. AdvanceInv' /\ LoopInv' /\ BatchInv'
    BY <1>1, <1>2, <1>4, <2>1 DEF AdvanceInv, LoopInv, BatchInv, FlowIndInv, TypeOK
  <2>4. TypeOK'
    BY <1>1, <1>2, <1>4, <2>1 DEF FlowIndInv, TypeOK
  <2> QED BY <1>1, <1>2, <2>2, <2>3, <2>4, FrameStep
<1> QED BY <1>3, <1>4 DEF DispatchFailed

LEMMA DispatchEndStep ==
    ASSUME FlowIndInv, DispatchEnd
    PROVE  FlowIndInv'
<1>1. handler' = Idle /\ UNCHANGED <<durableVars, registryVars, draft, loopVars, batch, countVars>>
  BY DEF DispatchEnd
<1>2. Frame /\ LabelsInv'
  BY <1>1, StillFrame, StillLabels
<1>3. AdvanceInv' /\ LoopInv' /\ BatchInv'
  BY <1>1, HandlerAtRest DEF FlowIndInv, BatchInv
<1>4. TypeOK' /\ OutboxUsed'
  BY <1>1, HandlerTypes DEF FlowIndInv, TypeOK, OutboxType, OutboxUsed
<1> QED BY <1>1, <1>2, <1>3, <1>4, FrameStep

LEMMA RequeueStep ==
    ASSUME FlowIndInv, NEW e \in Envelopes, Requeue(e)
    PROVE  FlowIndInv'
<1>1. /\ requeue_failed(e) /\ handler = Idle /\ UNCHANGED <<ingests, crashes>>
      /\ UNCHANGED <<vec, size, saved, ticket, log, lost, registryVars, handler, draft, loopVars, batch>>
  BY DEF Requeue, Call
<1>2. calls' \in 0 .. MaxCalls
  BY DEF Requeue, Call, FlowIndInv, TypeOK
<1>3. outbox[e].req \in Requests /\ 0 \in FileContent
  BY <1>1 DEF requeue_failed, FlowIndInv, OutboxUsed
<1>4. /\ OutboxType' /\ OutboxUsed' /\ \A d \in Envelopes : outbox'[d].req = outbox[d].req
  BY <1>1, <1>3, OutboxWrite DEF FlowIndInv, TypeOK
<1>5. Frame /\ LabelsInv'
  BY <1>1, <1>4, StillFrame, StillLabels
<1>6. AdvanceInv' /\ LoopInv' /\ BatchInv'
  BY <1>1, <1>4, HandlerAtRest DEF FlowIndInv, BatchInv, TypeOK
<1>7. TypeOK'
  BY <1>1, <1>2, <1>4 DEF FlowIndInv, TypeOK
<1> QED BY <1>1, <1>4, <1>5, <1>6, <1>7, FrameStep

LEMMA RestartStep ==
    ASSUME FlowIndInv, Restart
    PROVE  FlowIndInv'
<1>1. /\ handler' = Idle /\ draft' = NoTicket /\ EndLoop /\ batch' = {}
      /\ UNCHANGED <<vec, size, ticket, log, lost, outbox, ingests, calls>>
      /\ saved' \in {saved, forward} /\ forward' = saved'
      /\ astray' = astray \cup {i \in Ids : \E l \in RowsOf({i}) : saved'[i] # l}
  BY DEF Restart
<1>2. crashes' \in 0 .. MaxCrashes
  BY DEF Restart, FlowIndInv, TypeOK
<1>3. Frame
  BY <1>1, StillFrame
<1>4. AdvanceInv' /\ LoopInv' /\ BatchInv'
  BY <1>1, HandlerAtRest
<1>5. TypeOK' /\ OutboxUsed'
  BY <1>1, <1>2, HandlerTypes DEF FlowIndInv, TypeOK, EndLoop, OutboxType, OutboxUsed
<1>6. LabelsInv'
  <2>1. RowsInv'
    <3> SUFFICES ASSUME NEW l \in Labels, vec[l] # NoVector
                 PROVE  /\ vec[l][2] <= ingests
                        /\ vec[l][1] \notin astray' => forward'[vec[l][1]] = l
      BY <1>1 DEF RowsInv
    <3>1. vec[l][1] \in Ids /\ l \in RowsOf({vec[l][1]})
      BY VectorFields DEF FlowIndInv, TypeOK, RowsOf
    <3> QED BY <1>1, <3>1 DEF FlowIndInv, LabelsInv, RowsInv
  <2> QED BY <1>1, <2>1 DEF FlowIndInv, LabelsInv, Injective
<1> QED BY <1>1, <1>3, <1>4, <1>5, <1>6, FrameStep

-----------------------------------------------------------------------------
(* The theorems. *)

LEMMA FlowInit == Init => FlowIndInv
<1> SUFFICES ASSUME Init PROVE FlowIndInv
  OBVIOUS
<1>1. TypeOK /\ OutboxUsed
  BY HandlerTypes DEF Init, OutboxInit, Unused, TypeOK, Registry, OutboxType, OutboxUsed
<1>2. \A r \in Requests : TicketInv(ticket[r], r)
  BY DEF Init, NoTicket, TicketInv, AskedInv, LiveInv, ReplicaInv, StatusInv
<1>3. AdvanceInv /\ LoopInv /\ BatchInv /\ LabelsInv
  BY DEF Init, Idle, AdvanceInv, LoopInv, BatchInv, LabelsInv, RowsInv, Injective
<1> QED BY <1>1, <1>2, <1>3 DEF FlowIndInv

LEMMA FlowNext == FlowIndInv /\ [Next]_vars => FlowIndInv'
<1> SUFFICES ASSUME FlowIndInv, [Next]_vars PROVE FlowIndInv'
  OBVIOUS
<1>1. CASE UNCHANGED vars
  BY <1>1 DEF vars, FlowIndInv, TypeOK, OutboxType, OutboxUsed, TicketInv, AskedInv, LiveInv,
              Gone, LabelsInv, RowsInv, Injective, ReplicaInv, StatusInv, AdvanceInv, LoopInv, BatchInv
<1>2. CASE Running
  BY <1>2, IngestSaveStep, EraseOneStep, ReceiptStep, ReplicaHookStep, WebhookHookStep, SaveTicketStep,
     DispatchOneStep, DispatchDoneStep, DispatchFailedStep, DispatchMoveStep, DispatchEndStep
     DEF Running
<1> QED BY <1>1, <1>2, DispatchStep, RestartStep, LoadStep, RegisterStep, CreateStep, AdvanceStep,
           DeleteRequestStep, RequeueStep DEF Next

LEMMA FlowInvariance == Spec => []FlowIndInv
  BY FlowInit, FlowNext, PTL DEF Spec

\* Every reachable state is of the types the workflow file, the handlers and the
\* outbox work with.
THEOREM WorkflowTyped == Spec => []TypeOK
<1>1. FlowIndInv => TypeOK
  BY DEF FlowIndInv
<1> QED BY <1>1, FlowInvariance, PTL

\* _compute_status says "complete" only of a ticket none of whose vectors is left
\* in any row, with any number of labels, retries, ingests and restarts between
\* erase and save; vectors whose label a restart has lost are the exception.
THEOREM CompleteMeansErasedAlways == Spec => []CompleteMeansErased
<1>1. FlowIndInv => CompleteMeansErased
  BY DEF FlowIndInv, TicketInv, LiveInv, Gone, StatusInv, CompleteMeansErased
<1> QED BY <1>1, FlowInvariance, PTL

\* A delete wipes no row but those of the ids it was given: labels that are
\* dropped, given again, named by callers or read back from an old file lead it to
\* no row of another id, other than one whose own label was lost.
THEOREM OnlyAskedErasedAlways == Spec => OnlyAskedErased
<1> DEFINE A == \A l \in Labels :
                   vec[l] # NoVector /\ vec'[l] # vec[l] /\ ingests' = ingests =>
                       /\ handler.step = "erase"
                       /\ vec[l][1] \in IdsOf[handler.req] \cup astray
<1>1. FlowIndInv /\ [Next]_vars => [A]_vars
  <2> SUFFICES ASSUME FlowIndInv, Next, NEW l \in Labels,
                      vec[l] # NoVector, vec'[l] # vec[l], ingests' = ingests
               PROVE  handler.step = "erase" /\ vec[l][1] \in IdsOf[handler.req] \cup astray
    OBVIOUS
  <2>1. CASE EraseOne
    <3>1. PICK i \in todo : EraseTurn(i)
      BY <2>1, EraseTurns
    <3>2. forward[i] = l
      BY <3>1 DEF EraseTurn, FlowIndInv, TypeOK
    <3>3. handler.step = "erase" /\ i \in IdsOf[handler.req] /\ i \in Ids
      BY <2>1 DEF EraseOne, FlowIndInv, LoopInv, TypeOK
    <3>4. vec[l][1] \in Ids /\ l # NoLabel
      BY VectorFields DEF FlowIndInv, TypeOK, Labels, NoLabel
    <3> QED BY <3>2, <3>3, <3>4 DEF FlowIndInv, LabelsInv, RowsInv, Injective
  <2>2. CASE \E ids \in SUBSET Ids \ {{}} : Load(ids)
    BY <2>2 DEF Load, FlowIndInv, TypeOK
  <2>3. CASE vec' = vec
    BY <2>3
  <2> QED BY <2>1, <2>2, <2>3 DEF Next, Running, IngestSave, Receipt, ReplicaHook, WebhookHook,
             SaveTicket, DispatchOne, DispatchDone, DispatchFailed, DispatchMove, DispatchEnd,
             Dispatch, Restart, Register, Create, Advance, DeleteRequest, Requeue
<1> QED BY <1>1, FlowInvariance, PTL DEF Spec, OnlyAskedErased

\* The evidence that export_package attaches to a complete ticket exists: its
\* receipt was appended (or that append failed), its replica intent was enqueued.
THEOREM CompleteHasEvidenceAlways == Spec => []CompleteHasEvidence
<1>1. FlowIndInv => CompleteHasEvidence
  BY DEF FlowIndInv, TicketInv, LiveInv, ReplicaInv, StatusInv, CompleteHasEvidence
<1> QED BY <1>1, FlowInvariance, PTL
=============================================================================
