# A TLA+ verification of hard deletion

The repository deletes vectors from HNSW indexes so that the floats are really
gone and search still works. This directory holds TLA+ models of the parts that
carry that promise, the TLC runs that check them, and theorems checked by TLAPS.
`PROJECT.json` lists components, runs, mutants, the map from definitions to source
lines, findings, hazards and theorems.

## The system

| Part | State it keeps | Operations | What makes it correct |
|---|---|---|---|
| Write-ahead log, `api/wal.py` | `index.wal`: BEGIN and COMMIT records; transaction counter | append, scan, list uncommitted | a record that was returned as written is found again; the scan survives a torn tail |
| Persistence engine, `api/persistence.py` | `index.bin`, `index.bin.tmp`, io lock | durable delete, atomic flush, bootstrap, replay, checkpoint | a committed erasure leaves no copy; a crash resurrects nothing; recovery ends |
| Stripe locks, `src/neighborhood_locks.hpp` | one reader/writer lock per stripe | exclusive guard on a region, shared cursor, time-out | exclusion; repairs do not deadlock |
| Native index, `src/hnsw_helper.hpp` | matrix, adjacency lists, entry point | erase (wipe, repair), search, load, save | erased nodes are cut off, live ones stay connected, lists are written under locks |
| Id registry, `integrations/id_registry.py` | id to label, label to id, next label | register, drop, save, load | the two dictionaries are inverse; no label has two ids |
| Erasure service, `integrations/erase_service.py` with `compact_policy.py`, `delete_strategy.py` | pending deletes of the policy | batch delete, rebuild, residual proof, receipt | `complete` means erased; postponed rebuilds are not forgotten |
| Adapters, `integrations/{hnswlib,faiss,qdrant,weaviate}_adapter.py` | matrix, the engine's own copies, heal mirror, names of points | add, hard delete, compact | all copies agree after a rebuild; others stay searchable |
| Chroma wrapper, `integrations/chroma_hook.py` | Chroma's own ids (external) | add, delete by ids or filter | no soft delete when the hard one failed |
| Workflow, `integrations/workflow.py` | one JSON file per request | create, advance | a complete ticket is erased and has its evidence |
| Outbox, `integrations/outbox.py` | files in pending, done, failed | enqueue, dispatch, requeue | every intent is settled, also by two dispatchers |
| Queues, `integrations/queue_transports.py` | a directory, a Redis list or an SQS queue | enqueue, dequeue, ack | one consumer per message where the queue says so |
| Fan-out, `integrations/replica_fanout.py` | requests a worker has done; answers of a publish | publish, handle, send | what counts as delivered is erased at a quorum |
| Key vaults, `compliance/crypto_shred.py`, `kms_backends.py` | wrapped keys, destroyed entities, a key file | provision, encrypt, decrypt, shred | a destroyed key stays destroyed; one key per entity |
| Receipt log, API, hooks | `receipts.jsonl`; handlers | append; `/delete`, `/search`, `/v1/...` | |

The API calls the persistence engine directly (`/delete`) or through the erasure service
(collection delete, workflow, dispatch); the engine calls the native index, which takes
the stripe locks. The Chroma wrapper calls an erasure service over one of the adapters. A
workflow puts its intent into the outbox (or a queue); a dispatcher or consumer publishes
it to the replicas, each of which is the same API with its own index and registry; its
crypto-shred hook calls a key vault. Handlers are `async def` functions with synchronous
bodies, so two handlers never interleave; threads come from programs that use the engine,
the log ("Thread-safe") and the C++ index as a library, which is what they are locked for.
The binding `src/healer.cpp` never releases the GIL, so Python threads do not interleave
inside the index: what is said below about concurrent erases and searches is for C++
users. What is hard: a crash between any two file operations and another one in recovery;
threads that flush and erase at once; regions that are locked, given back and locked
again; searches that follow stale copies; batches, rebuilds and tickets that fail half
way; two dispatchers on one directory; requests and answers that are lost, late or
repeated; key services that forget.

## Modules

| Module | Models | Composed of |
|---|---|---|
| `DurableDelete` | log, engine, boot, crashes | |
| `ErasureContract` | abstract: vectors arrive, vanish, are acknowledged as erased | |
| `DurableContract` | the refinement mapping from the one to the other | `DurableDelete`, `ErasureContract` (INSTANCE) |
| `NeighborhoodLocks` | stripe locks | |
| `MnRu` | the repair as functions on a graph | |
| `GraphHeal` | erases and searches as threads | `NeighborhoodLocks`, `MnRu` |
| `IdRegistry`, `CompactPolicy` | registry, policy | |
| `DualStore` | what all adapters keep | `IdRegistry` |
| `HnswlibAdapter`, `FaissAdapter`, `ClientAdapter` | the operations of each engine (the last one: Qdrant and Weaviate) | `DualStore` |
| `EraseService` | service and Chroma wrapper | registry, policy, the three adapters (INSTANCE) |
| `Intents`, `FileOutbox` | intents and their files | |
| `ErasureWorkflow` | tickets, local dispatch, restarts | `FileOutbox` |
| `QueueTransports` | the three queues | `Intents` |
| `ReplicaFanout` | coordinator, transports, replicas | `Intents` |
| `IntentDelivery` | workers that carry intents to the replicas | `FileOutbox`, `QueueTransports`, `ReplicaFanout` |
| `KeyShred` | vaults and key services | |
| `MC...` | instances for TLC | |
| `...Proofs` | the theorems on the module of that name | `GraphHealProofs` has those on the locks too and uses `MnRuProofs`, the lemmas on the repair; the proofs of workflow and delivery share `FileOutboxProofs` |

### DurableDelete

`pc` of an actor is the line it has reached in `hard_delete_and_heal`, `_replay_one`
or `atomic_flush_index`; each append, wipe, save, sync, rename and directory sync is
an action. `disk` is what the process sees of `index.bin` and its temporary file,
`durable` what the last directory sync has made permanent; `Crash` chooses between
them, may cut an unsynced snapshot short and may tear the record being appended.
`AppendFails` is an append that raised with nothing written or with the record
written and the fsync failing. A vector is the pair of its ingest and its label, so
that a label that is ingested again is another vector. An exception ends a client's
call and leaves its BEGIN in the log; during boot it ends the process.

### NeighborhoodLocks, MnRu, GraphHeal

Lock operations carry the names of the C++ methods. A mutex is external: a request is
granted at some moment when it is free and may time out while it is not. Releasing all
stripes of a guard is one step. The repair is a function of the graph: sever, take the
pairs of orphans from the closest on (the order of the code's sort), insert, evict. Its
loops are recursive functions on numbers, so that it can be reasoned about. One layer
stands for all (the code repairs each alike) and a vector is a point on a line, 0 once
wiped. The unlocked reads of `collect_heal_region_unlocked` ("best-effort snapshot") are
atomic here; torn reads of a `std::vector` are not modelled. A search has fewer than 16
nodes to see, so it keeps all it finds; without an upper layer there is no greedy descent.

Two history variables mark what the code gets wrong, so that the properties can say what
it gets right. `capped` becomes true when `max_m` has made a repair come out otherwise than
it would with room in every list: an edge was evicted or turned away. `late` has the threads
that were overtaken, between their last look at the region and their locks, by a repair that
changed it. `ErasedSevered`, `LiveConnected` and `SearchSkipsErased` speak of an index that
is not capped, `WritesLocked` of repairs that are not late; `HealsUnderLocks` is the last one
without that exception, as the comment of `heal_graph_structure` has it.

### EraseService and its parts

One action per element of a batch, one for the rebuild, one for the receipt, one for
Chroma. Calls are sequential (the adapters have no lock). The matrix row is `zero` after a
wipe; where the engine's copy is then depends on the adapter: `marked` in hnswlib, gone
from FAISS unless `remove_ids` raised, gone from the server unless its client raised, in
which case the erase is an error and the mapping stays. What is left is `Residue`. A row
that was added as a vector of zeros is `blank`: a rebuild takes it for a wiped one and drops
it. A rebuild that raises may leave the new index empty or half filled. A batch with
`idempotent=False` (`strict`) raises at the first unknown id (`BreakOff`) with the rows before
it wiped and unmapped and the policy not told; `lost` has these rows until the next rebuild,
and `ResidueTracked` says that nothing else is lost track of. At this size the
adaptive strategy always asks for a rebuild, so the runs have it on and off. The residual
proof reads the rows back and may, if a checkpoint file is named, be told that it still
holds the floats. A point of a server goes by its business id (`ext`), so that two rows
may share one: a label that is freed and registered for another id keeps the old name, and the
delete of one row takes the other's point, which `OthersStaySearchable` exempts.

### ErasureWorkflow

`vec` has the rows of the native index by label, through the engine, whose crash safety
`DurableDelete` is about: here a durable delete has happened or has not, or it raised before
or after the wipe. A vector is named by its id and its ingest. A row is reached only through
the label the registry has for the id: `forward` in memory, `saved` in `id_registry.json`.
`Load` is an ingest that is checkpointed and replaces the index; it gives known ids their old
label and others a free one, and ids of an earlier ingest stay in the registry. `IngestSave`
is a step of its own; only some handlers save the registry, and a save or a receipt append
that fails is ignored. A delete of a label beyond the index is an error here; that its intent
stays in the log is the finding of `DurablePoison`. `Restart` falls between any two effects
and reads the registry as it was last saved.

That file may be older than the index. After a delete and a new ingest of an id under
another label, whose save failed or was not reached, a restart has the id at its old label:
a ticket then wipes that row, which is zero already, reads zeros back and is complete with
the vector still in its new row. The model has this behaviour (TLC refutes
`CompleteMeansErased` without its exception). `astray` has the ids whose
row a restart has left without its label, until the next ingest; the properties say that this
is the only way for a complete ticket to be untrue, or for a delete to wipe somebody else's
row.

The three hooks after `replica_fanout` are treated alike and are one step. The replica hook
is the outbox hook without immediate dispatch. Only complete receipts are recorded in `log`.
There is one collection. Outbox files that a crash tears are in `IntentDelivery` only.

### FileOutbox, QueueTransports, ReplicaFanout, IntentDelivery

An envelope may have a file in several directories at once, each with the attempts it
records: nothing but the file system keeps dispatchers apart. `mark_failed` writes the last
count and then moves the file, in two steps that a crash or another dispatcher may come
between; counts from `MaxAttempts` on are kept as `MaxAttempts`. A worker of
`IntentDelivery` is a call of `dispatch_pending` or a queue consumer. It lists or claims,
publishes to all replicas, and settles; the test whether a file is there and the move that
follows are two steps, as are the look at `_seen` and the apply of a replica worker. A
request over HTTP is served with its answer arriving or lost, or fails, or is served after
the time-out (`late`). `old[p]` has the requests whose vectors replica `p` held when they
were made, `mapped[p]` the requests whose ids its registry resolves: a delete of unmapped
ids is a partial receipt and hence a failure, and a restart with the last saved registry
brings mappings back without vectors. `QuorumMet` is a set of outcomes, because an answer
that breaks off raises through `publish`. The queue consumer is not in the repository;
docs/HOOKS.md line 68 says what it does. A crash that loses nothing (an idle HTTP worker)
is left out.

### KeyShred

Keys are numbers; a wrapped key or a ciphertext is the pair of its entity and key. The
vault's lock makes `provision` one step, the service's call included, while `decrypt` and
`shred` leave the lock before they call the service, and a cloud backend leaves its own
before the network. `issued` are wrapped keys that callers have had made by `wrap_dek` and
keep beside their ciphertexts (`store_wrapped`); the vault hands out none. A write of the
key file that fails leaves it as it was or torn, since `write_text` truncates first.
`acked` are the keys of entities whose receipt says, in its message, that the key is
destroyed; `shredded = True`, which is all the hook reads, is there also when the
destruction raised, and the code does not keep that promise after a restart. `Start` reads
the key file, or writes it anew when a master key was given.

## Runs

Passing runs:

- `DurableCrashes` (2 threads, 1 label, 2 deletes, 2 ingests, 2 crashes, torn records,
  failing files): types, `CommittedErased`, `NoResurrection`, `BootRetiresAll` and
  `KeepsContract`, the refinement. Two threads are what it takes for a snapshot to be
  saved between another delete's BEGIN and its wipe; two crashes give a crash in recovery;
  two ingests a label that is used again.
- `DurableLive`: `EventuallyServes`. Fairness: a process manager restarts the process
  and threads that can run do. Faults are bounded. Torn records and bad labels are off:
  the findings below show that with them the process may never serve again.
- `HealPair` (8 labels as ingest links them, 7 stripes so that two labels collide, two
  threads that erase and one that searches, 3 calls in all, `max_m` 4; 1.2 million states):
  the lock properties, `RepairsIsolated`, `ErasedSevered`, `LiveConnected`,
  `SearchSkipsErased`, `WritesLocked`. Eight nodes are the smallest ring on which 2-hop
  regions overlap without being everything. Three calls are three erases, or two and a
  search. With lists of three and `max_m` 4, some repairs hit the cap and others do not.
- `ServiceBatch` (2 ids, 3 labels, 4 calls, batches of up to 2 ids, idempotent or not, with
  vectors of zeros, all engines, modes and faults):
  `MappingsAgree`, `ResidueTracked`, `CompleteIsErased`, `ChromaFailsClosed`,
  `OthersStaySearchable`. Four calls suffice for add, delete with a failed rebuild, add
  again, delete.
- `WorkflowCrash` (2 tickets that share an id, 2 labels, 3 calls, 2 ingests, 2 envelopes,
  1 crash; 2.4 million states): `CompleteMeansErased`, `OnlyAskedErased`,
  `CompleteHasEvidence`, `IntentsSettle`. Fairness: a handler that started runs on, and a
  worker keeps calling dispatch. Two labels let each id have either, or one id move from one
  to the other. Two envelopes are all that three calls and a crash can enqueue.

- `FanoutDelivery` (2 workers, 2 replicas that must both answer, 1 request, every carrier,
  both transports, all faults, 1 crash, 1 requeue, 1 registry that comes back):
  `DeliveredIsErased`, `SeenIsErased`, `ClaimedOnce`, `OutboxSettles`. The file queue and
  Redis carry two messages of the request, so that a consumer can lose the second after it
  has claimed the first; two attempts make one retry and one failure. With a quorum of all
  replicas each of them matters to `DeliveredIsErased`. Fairness: a worker that can go on
  does, since `send` has a time-out and dispatch is called again and again; nothing is
  assumed of crashes, requeues, late requests or the visibility time-out.
- `ShredKeys` (2 threads, 2 entities, 3 keys, 2 shreds, 2 restarts, every service, all
  faults): `ShredHolds`, `NoLateDecrypt`, `OneKeyPerEntity`. Three keys are one for each
  entity and one more after a restart; two shreds let one call race another.

All runs switch deadlock checking off: the systems may stop when the bounded calls are
used up.

Runs that end in a counterexample, each a disagreement between the code and what a
comment or document says (quoted in `PROJECT.json`):

- `DurableTornTail`: a torn tail is ignored but not cut off; the next append makes the log
  unreadable.
- `DurablePoison`: a delete of a label the index does not have logs an intent that every
  later boot fails on.
- `HealStaleRegion` (3 erases): the region is looked at twice; with three
  erases that is not enough, and a list is written without its lock.
- `FanoutRetry`: when the answer of one replica is lost, the endpoint fails every retry of
  the intent it has carried out, and the dispatcher gives it up.
- `ShredForgotten`: a cloud backend forgets what it destroyed when the process restarts.

Known limits of the repair, without a run of their own:

- Full lists. With one healer, no searcher, 7 nodes and stripes, the links of ingest,
  `Coordinates = {1, 3}`, `MaxM = 3` and two erases TLC refutes `ErasedSevered` once its
  condition `~capped` is taken away. The links
  fill the lists, so the first repair evicts edges that led back; then the 2-hop region of
  another node, which follows outgoing edges, no longer has every node that points at it,
  and its erase returns with an inbound edge left, though src/README.md line 397 says
  "Sever edges into/out of \(q\)".
- The entry point moves to the first other label, erased or not, so that erasing labels 0
  and 1 makes 0 the entry again (`NextEntry`); `SearchSkipsErased` exempts the node where a
  search enters.

The local dispatch of
`POST /v1/outbox/dispatch` cannot succeed for ids the workflow has erased, for the same
reason as `FanoutRetry`; `WorkflowCrash` has it end in `failed`. `OutboxSettles` exempts an
outbox with a file torn by a crash: `list_pending` raises on it for all intents.

Every property of a passing run has a mutant in `PROJECT.json`: a plausible bug in a
mapped definition, defined next to it, that violates the property.

## Theorems

All theorems hold for every value of the constants that the named assumptions allow: any
number of threads, ids, labels, requests, replicas, calls, crashes and restarts, and any
subset of the faults. The assumptions say only what kind of value a constant is (that
bounds are numbers, that the value for "none" is not one of the things it stands for, that
the replicas are finitely many and the quorum is one of them); TLC evaluates them in every
run. What the theorems on the repair assume beyond that is said there. No property of a
run is inductive as it stands; each proof names the strengthening, which was model-checked
with the bounds of the run before it was proved. There is one lemma per action, and below
it one step per part that the action can disturb.

`DurableDeleteProofs`: `TypeCorrect`; and, provided that the fsync of the directory does
not fail silently (`"dirsync" \notin Faults`, `api/persistence.py` line 117),
`CommittedErasedAlways`, `NoResurrectionAlways`, `BootRetiresAllAlways` and
`Refinement`. A snapshot under way may hold a vector
that is committed later. `IndInv` adds what connects the steps: only the holder of the
io lock is between save and directory sync; transaction ids in the log do not exceed the
counter and belong to one actor; an actor past its wipe has its row gone from memory,
past its save from the temporary file, past the rename from `index.bin`, past the sync
from `durable`; every copy anywhere of a vector comes from an ingest that has happened,
and a copy that a logged intent names is covered by an uncommitted record, which is what
recovery will replay. The refinement maps
held vectors to the rows of memory and files, erased ones to those with a COMMIT.

`GraphHealProofs`, locks: `LocksExclude` and `LocksNeverDeadlock`. A thread's exclusive
stripes all lie below those it still wants, so
in a group that waits in a circle the holder of the greatest contended stripe waits for a
greater one. Every behaviour of the index is one of the
lock manager (`UsesLocks`), hence `IndexExcludes` and `IndexNeverDeadlocks`.
`RepairsIsolatedAlways` is the part of the locking of regions that holds whatever happens:
a repair has the stripes of the region that it saw last (`RegionLocks`), and a search that
copies a list has its stripe (`CursorLock`), so by exclusion they do not meet. What it does
not say, and `HealStaleRegion` refutes, is that this region is still the one to repair.
`WritesLockedAlways` is what remains of that, for any graph, threads and number of erases: a
repair that nobody overtook in the window after its last look writes a list only under its
lock. Its region is then the current one (`RegionCurrent`): a repair of another node that
changes it before the locks are there puts the thread into `late`, one that comes after has a
disjoint region and leaves this one as it is (`OtherRepairKeepsRegion`); and the repair changes
nothing outside its region (`HealLocal`). With one thread that erases and any number that
search nobody is ever late (`NobodyLate`), so that `HealsUnderLocksAlone` has the claim of the
comment without exception: the case of the Python binding.

`GraphHealProofs`, graph. For every graph, cap and number of threads: `IndexTyped`, and
`SeveredForGood`, that a node without edges never gets one again, whatever is evicted
around it. `ErasedSeveredAlways`, `SearchSkipsErasedAlways` and `LiveConnectedAlways` hold for
the index that `POST /ingest` makes (`IngestIndex`: links -1, 1, 2), of any size from four
labels on, any `max_m`, points, stripes and number of threads and erases, until `max_m` first
turns an edge away. Below four labels a label would be its own neighbour or another's
twice. After `max_m` has turned an edge away they are not true of the code, as the known limit
on full lists shows. `MutualSevered` says what is to blame: when all edges go both ways and no
list is longer than `max_m` (`MutualIndex`; `RingIsMutual`: a plain ring), erased nodes are
severed whatever the cap evicts. It is the one-way link, to the label after the next, that
an eviction can leave behind. Connectedness does not follow there: an eviction may cut the
graph.

That two erases overlap, and that the region of one may be stale when it writes, makes
these hard: `ErasedSevered` needs that a repair's stale region still has every node that
links to its target. `FreeInv` therefore has, besides lists without repeats and loops
(`Tidy`): every edge is answered by one back or by a common neighbour of its ends
(`Covered`), so that 2-hop regions are complete; all that links to the target of a repair is
in the region it has seen or among the target's neighbours (`SeenLinks`), since a link that
another repair adds in the meantime goes both ways when no edge is turned away; and the live
part is connected (`Connected`: no proper part of it has all its neighbours), from which the
walk of `ReachableFrom` follows by counting steps. As long as the index is not capped each
repair is the one it would be with room for all, and `HealRoomy` says what that one does.
The search property follows from `AllSevered` although searches follow stale copies of lists
(`SearchFresh`). With edges that go both ways a stale region does no harm at all: the target's
own list names all that link to it, and `MutualInv` only says that they stay so.

`MnRuProofs` has the lemmas that all this rests on. The library's induction theorems take
an operator as parameter, which the provers cannot instantiate, so `SetInduction` derives
induction for *sets* of numbers from the library's well-foundedness, and
`LoopRuns` from it that a loop has a run in which a given invariant, a set of states per
round, holds after every round; each loop of the repair is then used through its invariant
only. The other lemmas say what `remove_label`,
`Evict`, `EnsureCapacity`, `CommitHalfEdge` and `InsertEdge` add, remove and leave alone,
that `Before` orders candidates totally so that the closest exists, that a repair touches
only its region (`HealLocal`), joins all orphans when there is room (`HealRoomy`), keeps
answered edges, connection and mutual edges (`HealKeepsCover`, `HealKeepsConnected`,
`HealMutual`).

`EraseServiceProofs`: `ServiceTyped`, `MappingsAgreeAlways`, `ResidueTrackedAlways`,
`CompleteIsErasedAlways`, and the action properties `ChromaFailsClosedAlways` and
`OthersStaySearchableAlways`. `ServiceIndInv` follows a batch through the service. While
it loops, every label the caller meant is done or still to come unless an id was skipped
or refused (`LoopInv`); after the loop all are done, and rebuilt, put off or kept out of a
rebuild on purpose (`AfterInv`); a row that is done stays wiped
(`WipedInv`), which needs that `_deleted` and the matrix agree and that the engine has
nothing without a row (`RowInv`). For `ResidueTracked` the count that is kept is of wiped
rows with floats and without a mapping against the pending deletes *and* those of the
running batch, of which the policy hears only at the end, or never, when the batch breaks off
(`Untracked` leaves out what is in `lost`). What each adapter does to
matrix, engine and mirror is stated once for all three (`WipeEffect`, `CompactEffect`,
`CompactFailsEffect`, `IndexRowsEffect`); the other lemmas use only that.

`ErasureWorkflowProofs`: `WorkflowTyped`, `CompleteMeansErasedAlways`,
`OnlyAskedErasedAlways`, `CompleteHasEvidenceAlways`. `LabelsInv` is what lets a label
stand for a row: the registry gives every row's id that row's label unless the id is
astray, and neither the registry nor its file gives a label to two ids. `TicketInv` holds
of the ticket in the file and of the copy that `advance` works on, which is what a crash
may lose: a delete that is done left its receipt and none of the vectors asked for, a
fan-out that is done left its intent, and `complete` rests on both. `LoopInv` is what the
erase loop has established so far. That a later ingest of the same id does no harm rests
on vectors being named by their ingest, which never exceeds the number of ingests.

`IntentDeliveryProofs`: `DeliveryTyped`, `DeliveredIsErasedAlways`, `SeenIsErasedAlways`,
`ClaimedOnceAlways`. An answer that a worker has counts only for the request it has in
hand (`AnswerInv`), a worker about to settle an intent knows of a quorum (`DoneInv`), a
message that a consumer has is not there for another (`HeldInv`), and envelopes keep their
requests while files move (`OutboxUsed`, with its lemmas in `FileOutboxProofs`). Replicas
only lose the vectors in question, so a quorum once reached remains (`StillErased`).

`KeyShredProofs`: `KeysTyped`, `ShredHoldsAlways`, `NoLateDecryptAlways`, `OneKeyAlways`.
What is on record as destroyed is in no table and in the lists the service will go by, on
file too where it reads its file (`AckedInv`); a thread between its steps has what it
needs for that (`ShredderInv`, `DecrypterInv`, `EncrypterInv`): one that began to decrypt
after the receipt holds another key than that of its ciphertext, and one that encrypts
holds the key of the record unless the entity has been shredded under it.

Only model-checked: the liveness properties (`EventuallyServes`, `IntentsSettle`,
`OutboxSettles`), which need fairness. Every other property of a passing run is stated by a
theorem, those on the graph under the assumptions given above.

## Not modelled

Silent short writes to the log; half-written registry and ticket files; several
collections on one native index; upper layers; the files of hnswlib and FAISS; power loss
after a key file was written; point ids of Qdrant; memory that is shared with other
libraries (`vendor_attach.py`), tenancy, authentication, metrics, recall measurement,
bindings. `PROJECT.json` has the reasons.

## Plan

Done: the durable core with its contract and proofs; locks, repair and search; the
service over all adapters; workflow, outbox, queues and fan-out; key shredding; and the
proofs of every safety property of the passing runs.

Left, in this order:

1. Which evictions keep an index connected when its lists are full.
2. The workflow as an implementation of `ErasureContract`.
