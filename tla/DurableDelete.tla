---------------------------- MODULE DurableDelete ----------------------------
(***************************************************************************)
(* The durable delete of api/persistence.py over api/wal.py: an intent is  *)
(* logged (BEGIN), the vector is wiped in memory, a snapshot is written to *)
(* index.bin.tmp and renamed over index.bin, and the intent is retired     *)
(* (COMMIT).  A crash may fall between any two of these steps; the next    *)
(* boot replays every BEGIN that has no COMMIT.                            *)
(*                                                                         *)
(* A vector is identified by the ingest that brought it (its generation)   *)
(* and its label, so an image of the index is a function from labels to    *)
(* generations.  WAL records carry the generation that their label held    *)
(* when they were written: a history field that no action reads.           *)
(***************************************************************************)
EXTENDS Integers, FiniteSets

CONSTANTS
    Clients,      \* threads that call the engine
    Recovery,     \* the startup thread that runs bootstrap()
    Nobody,       \* the free state of the io lock
    NumLabels,    \* labels are 0 .. NumLabels - 1
    Faults,       \* which failures the environment may produce
    MaxRequests,  \* bound on the deletes that are asked for
    MaxGen,       \* bound on the ingests
    MaxCrashes    \* bound on the crashes of the process

ASSUME ActorsAssumption ==
    /\ Recovery \notin Clients
    /\ Nobody \notin Clients \cup {Recovery}

ASSUME NumLabelsAssumption == NumLabels \in Nat \ {0}

ASSUME BoundsAssumption ==
    MaxRequests \in Nat /\ MaxGen \in Nat /\ MaxCrashes \in Nat

\* "contention": a stripe lock times out; "io": a file operation raises;
\* "torn": a crash leaves part of a WAL record; "dirsync": fsync of the
\* directory raises and is swallowed; "range": a caller names a label the
\* loaded index does not have.
ASSUME FaultsAssumption ==
    Faults \subseteq {"contention", "io", "torn", "dirsync", "range"}

Actors == Clients \cup {Recovery}
Labels == 0 .. (NumLabels - 1)

Zero   == 0      \* a row of zeros: a wiped vector, or a gap of a dense ingest
Absent == -1     \* a label beyond the number of elements

Cells  == {Absent} \cup Nat
Image  == [Labels -> Cells]
Empty  == [l \in Labels |-> Absent]

Begins == [tx: Nat, node: Labels, gen: Cells]

VARIABLES
    (* On disk. *)
    begun,      \* BEGIN records of index.wal
    committed,  \* transaction ids of the COMMIT records of index.wal
    tail,       \* end of index.wal: "clean", "torn" or "corrupt"
    disk,       \* index.bin and index.bin.tmp, as the running process sees them
    durable,    \* index.bin and index.bin.tmp, as the last directory fsync left them
    (* In the process. *)
    phase,      \* "down", "recovering" or "up"
    mem,        \* the default C++ index
    txCounter,  \* WriteAheadLog._tx_counter
    ioLock,     \* PersistenceEngine._io_lock
    pending,    \* what recover_uncommitted has still to replay
    replay,     \* the record _replay_one works on
    pc, node, tx,  \* per actor: its next step and the locals of its call
    (* History and bounds. *)
    failed,     \* transactions whose caller got an error since the last boot
    gen, requests, crashes

walVars   == <<begun, committed, tail>>
diskVars  == <<disk, durable>>
bootVars  == <<phase, txCounter, pending, replay>>
callVars  == <<node, tx>>
countVars == <<gen, requests, crashes>>
vars == <<walVars, diskVars, bootVars, mem, ioLock, pc, callVars, failed, countVars>>

PCs == {"idle", "begin", "erase", "lock", "save", "sync", "replace",
        "dirsync", "commit", "retire"}

\* Steps that append to index.wal, and steps taken under the io lock.
Appending == {"begin", "commit", "retire"}
Holding   == {"save", "sync", "replace", "dirsync"}

Files == [bin: Image, tmp: Image]

TypeOK ==
    /\ begun \in SUBSET Begins
    /\ committed \in SUBSET Nat
    /\ tail \in {"clean", "torn", "corrupt"}
    /\ disk \in Files
    /\ durable \in Files
    /\ phase \in {"down", "recovering", "up"}
    /\ mem \in Image
    /\ txCounter \in Nat
    /\ ioLock \in Actors \cup {Nobody}
    /\ pending \in SUBSET Begins
    /\ replay \in Begins
    /\ pc \in [Actors -> PCs]
    /\ node \in [Actors -> Labels]
    /\ tx \in [Actors -> Nat]
    /\ failed \in SUBSET Nat
    /\ gen \in Nat
    /\ requests \in Nat
    /\ crashes \in Nat

NoRecord == [tx |-> 0, node |-> 0, gen |-> Absent]
NoFiles  == [bin |-> Empty, tmp |-> Empty]
AllIdle  == [p \in Actors |-> "idle"]

\* A fresh data directory and a process that has not started.
Init ==
    /\ begun = {}
    /\ committed = {}
    /\ tail = "clean"
    /\ disk = NoFiles
    /\ durable = NoFiles
    /\ phase = "down"
    /\ mem = Empty
    /\ txCounter = 0
    /\ ioLock = Nobody
    /\ pending = {}
    /\ replay = NoRecord
    /\ pc = AllIdle
    /\ node = [p \in Actors |-> 0]
    /\ tx = [p \in Actors |-> 0]
    /\ failed = {}
    /\ gen = 0
    /\ requests = 0
    /\ crashes = 0

-----------------------------------------------------------------------------
(* Reading the log. *)

Loaded(image) == \E l \in Labels : image[l] # Absent

\* An append after a torn record makes the next scan misread both.
TailAfterAppend == IF tail = "torn" THEN "corrupt" ELSE tail

\* What a torn append may leave: a short tail the scan ignores, or, behind an
\* earlier torn record, bytes that no longer parse.
TailsAfterTear ==
    CASE tail = "clean" -> {"torn"}
      [] tail = "torn"  -> {"torn", "corrupt"}
      [] OTHER          -> {"corrupt"}

\* Mutant: a COMMIT is matched to a BEGIN by its node instead of its id.
UncommittedByNode ==
    {r \in begun : \A s \in begun : s.node = r.node => s.tx \notin committed}

\* BEGIN records with no COMMIT.
Uncommitted == {r \in begun : r.tx \notin committed}

TxIds == {0} \cup {r.tx : r \in begun} \cup committed

-----------------------------------------------------------------------------
(* Starting and stopping. *)

\* Everything the process held is gone; the files stay.
ProcessGone ==
    /\ phase' = "down"
    /\ mem' = Empty
    /\ txCounter' = 0
    /\ ioLock' = Nobody
    /\ pending' = {}
    /\ replay' = NoRecord
    /\ pc' = AllIdle
    /\ failed' = {}
    /\ crashes' = crashes + 1
    /\ UNCHANGED <<callVars, gen, requests>>

\* WriteAheadLog.__init__ scans the log for the greatest transaction id (a
\* corrupt log raises here), bootstrap loads index.bin when there is one and
\* lists the uncommitted deletes; with no index they are left for later.
Boot ==
    /\ phase = "down"
    /\ crashes <= MaxCrashes
    /\ tail # "corrupt"
    /\ \E m \in TxIds : (\A t \in TxIds : t <= m) /\ txCounter' = m
    /\ mem' = disk.bin
    /\ pending' = IF Loaded(disk.bin) THEN Uncommitted ELSE {}
    /\ phase' = "recovering"
    /\ UNCHANGED <<walVars, diskVars, replay, ioLock, pc, callVars, failed, countVars>>

\* The next record of the sorted list, replayed under a new transaction.
ReplayOne ==
    /\ phase = "recovering"
    /\ pc[Recovery] = "idle"
    /\ \E r \in pending :
        /\ \A s \in pending : r.tx <= s.tx
        /\ pending' = pending \ {r}
        /\ replay' = r
        /\ node' = [node EXCEPT ![Recovery] = r.node]
    /\ pc' = [pc EXCEPT ![Recovery] = "begin"]
    /\ UNCHANGED <<walVars, diskVars, phase, txCounter, mem, ioLock, tx, failed, countVars>>

\* bootstrap returns and the API serves requests.
FinishRecovery ==
    /\ phase = "recovering"
    /\ pc[Recovery] = "idle"
    /\ pending = {}
    /\ phase' = "up"
    /\ UNCHANGED <<walVars, diskVars, txCounter, pending, replay, mem, ioLock, pc,
                   callVars, failed, countVars>>

\* Mutant: the rows that were not written are not rows of the image at all.
CutRows(image, k) == [l \in 0 .. (k - 1) |-> image[l]]

\* The first k rows of a snapshot that was cut short.
Cut(image, k) == [l \in Labels |-> IF l < k THEN image[l] ELSE Absent]

\* Power loss: the directory is as last synced or as last seen, a snapshot that
\* was not fsynced may be cut short, and a record being appended may be torn.
Crash ==
    /\ phase # "down"
    /\ crashes < MaxCrashes
    /\ \/ UNCHANGED tail
       \/ /\ "torn" \in Faults
          /\ \E p \in Actors : pc[p] \in Appending
          /\ tail' \in TailsAfterTear
    /\ \E k \in 0 .. NumLabels :
        LET at(step) == \E p \in Actors : pc[p] = step
            written  == IF at("save") THEN mem ELSE disk.tmp
            seen     == IF at("save") \/ at("sync")
                        THEN [disk EXCEPT !.tmp = Cut(written, k)] ELSE disk
        IN disk' \in {seen, durable}
    /\ durable' = disk'
    /\ ProcessGone
    /\ UNCHANGED <<begun, committed>>

-----------------------------------------------------------------------------
(* One delete: hard_delete_and_heal, and _replay_one for Recovery. *)

Goto(p, step) == pc' = [pc EXCEPT ![p] = step]

\* The call raises.  A client gets an error and the BEGIN stays in the log (an
\* append that raised has used up its transaction id); during bootstrap the
\* exception ends the process.
Raise(p) ==
    LET own == IF pc[p] = "begin" THEN txCounter + 1 ELSE tx[p]
    IN  IF p = Recovery
        THEN ProcessGone
        ELSE /\ Goto(p, "idle")
             /\ ioLock' = IF ioLock = p THEN Nobody ELSE ioLock
             /\ txCounter' = IF pc[p] = "begin" THEN own ELSE txCounter
             /\ failed' = failed \cup {own}
             /\ UNCHANGED <<phase, pending, replay, mem, callVars, countVars>>

\* The environment may make Recovery fail only as often as it may crash.
MayFail(p, fault) == fault \in Faults /\ (p = Recovery => crashes < MaxCrashes)

RequestDelete(c, l) ==
    /\ phase = "up"
    /\ pc[c] = "idle"
    /\ requests < MaxRequests
    /\ mem[l] = Absent => "range" \in Faults
    /\ requests' = requests + 1
    /\ node' = [node EXCEPT ![c] = l]
    /\ Goto(c, "begin")
    /\ UNCHANGED <<walVars, diskVars, bootVars, mem, ioLock, tx, failed, gen, crashes>>

Intent(p) == [tx |-> txCounter + 1, node |-> node[p], gen |-> mem[node[p]]]

\* append_begin_delete: the record is durable before memory is touched.
AppendBegin(p) ==
    /\ pc[p] = "begin"
    /\ txCounter' = txCounter + 1
    /\ tx' = [tx EXCEPT ![p] = txCounter + 1]
    /\ begun' = begun \cup {Intent(p)}
    /\ tail' = TailAfterAppend
    /\ Goto(p, "erase")
    /\ UNCHANGED <<committed, diskVars, phase, pending, replay, mem, ioLock, node,
                   failed, countVars>>

\* Mutant: the intent is retired before the index is published.
EraseThenCommit(p) ==
    /\ pc[p] = "erase"
    /\ mem[node[p]] # Absent
    /\ mem' = [mem EXCEPT ![node[p]] = Zero]
    /\ Goto(p, "commit")
    /\ UNCHANGED <<walVars, diskVars, bootVars, ioLock, callVars, failed, countVars>>

\* erase_node: the row is overwritten with zeros and the graph healed.
EraseNode(p) ==
    /\ pc[p] = "erase"
    /\ mem[node[p]] # Absent
    /\ mem' = [mem EXCEPT ![node[p]] = Zero]
    /\ Goto(p, "lock")
    /\ UNCHANGED <<walVars, diskVars, bootVars, ioLock, callVars, failed, countVars>>

\* ensure_node throws: no such label, or no index.
EraseOutOfRange(p) ==
    /\ pc[p] = "erase"
    /\ mem[node[p]] = Absent
    /\ Raise(p)
    /\ UNCHANGED <<walVars, diskVars>>

\* Every retry of erase_node timed out on a stripe lock: before the wipe, or
\* after it, in the healing that follows.
EraseContended(p) ==
    /\ pc[p] = "erase"
    /\ mem[node[p]] # Absent
    /\ MayFail(p, "contention")
    /\ \/ Raise(p)
       \/ /\ p # Recovery
          /\ Goto(p, "idle")
          /\ mem' = [mem EXCEPT ![node[p]] = Zero]
          /\ failed' = failed \cup {tx[p]}
          /\ UNCHANGED <<bootVars, ioLock, callVars, countVars>>
    /\ UNCHANGED <<walVars, diskVars>>

\* atomic_flush_index: take the lock and unlink a stale temporary file.
FlushBegin(p) ==
    /\ pc[p] = "lock"
    /\ ioLock = Nobody
    /\ ioLock' = p
    /\ disk' = [disk EXCEPT !.tmp = Empty]
    /\ Goto(p, "save")
    /\ UNCHANGED <<walVars, durable, bootVars, mem, callVars, failed, countVars>>

\* save_index writes the snapshot of the whole index.
SaveIndex(p) ==
    /\ pc[p] = "save"
    /\ disk' = [disk EXCEPT !.tmp = mem]
    /\ Goto(p, "sync")
    /\ UNCHANGED <<walVars, durable, bootVars, mem, ioLock, callVars, failed, countVars>>

\* The best-effort fsync of the data directory.
SyncDirectory ==
    \/ durable' = disk
    \/ "dirsync" \in Faults /\ durable' = durable

SyncTemp(p) ==
    /\ pc[p] = "sync"
    /\ SyncDirectory
    /\ Goto(p, "replace")
    /\ UNCHANGED <<walVars, disk, bootVars, mem, ioLock, callVars, failed, countVars>>

\* os.replace(index.bin.tmp, index.bin).
ReplaceIndex(p) ==
    /\ pc[p] = "replace"
    /\ disk' = [bin |-> disk.tmp, tmp |-> Empty]
    /\ Goto(p, "dirsync")
    /\ UNCHANGED <<walVars, durable, bootVars, mem, ioLock, callVars, failed, countVars>>

\* Mutant: the directory is not synced after the rename.
FlushEndNoSync(p) ==
    /\ pc[p] = "dirsync"
    /\ ioLock' = Nobody
    /\ Goto(p, IF tx[p] = 0 THEN "idle" ELSE "commit")
    /\ UNCHANGED <<walVars, diskVars, bootVars, mem, callVars, failed, countVars>>

\* Mutant: the lock is not released.
FlushEndLeaksLock(p) ==
    /\ pc[p] = "dirsync"
    /\ SyncDirectory
    /\ Goto(p, IF tx[p] = 0 THEN "idle" ELSE "commit")
    /\ UNCHANGED <<walVars, disk, bootVars, mem, ioLock, callVars, failed, countVars>>

\* The rename is synced and the lock released; a checkpoint (tx 0) ends here.
FlushEnd(p) ==
    /\ pc[p] = "dirsync"
    /\ SyncDirectory
    /\ ioLock' = Nobody
    /\ Goto(p, IF tx[p] = 0 THEN "idle" ELSE "commit")
    /\ UNCHANGED <<walVars, disk, bootVars, mem, callVars, failed, countVars>>

\* Writing, syncing or renaming the snapshot raises.
FlushFails(p) ==
    /\ pc[p] \in {"save", "sync", "replace"}
    /\ MayFail(p, "io")
    /\ IF pc[p] = "save"
       THEN \E k \in 0 .. NumLabels : disk' = [disk EXCEPT !.tmp = Cut(mem, k)]
       ELSE UNCHANGED disk
    /\ Raise(p)
    /\ UNCHANGED <<walVars, durable>>

\* append_commit: the intent is retired; the client's call returns success.
AppendCommit(p) ==
    /\ pc[p] = "commit"
    /\ committed' = committed \cup {tx[p]}
    /\ tail' = TailAfterAppend
    /\ Goto(p, IF p = Recovery THEN "retire" ELSE "idle")
    /\ UNCHANGED <<begun, diskVars, bootVars, mem, ioLock, callVars, failed, countVars>>

\* Mutant: only the transaction of the replay itself is committed.
RetireOwnOnly ==
    /\ pc[Recovery] = "retire"
    /\ Goto(Recovery, "idle")
    /\ UNCHANGED <<walVars, diskVars, bootVars, mem, ioLock, callVars, failed, countVars>>

\* _replay_one also commits the transaction the crash had orphaned.
RetireReplayed ==
    /\ pc[Recovery] = "retire"
    /\ committed' = committed \cup {replay.tx}
    /\ tail' = TailAfterAppend
    /\ Goto(Recovery, "idle")
    /\ UNCHANGED <<begun, diskVars, bootVars, mem, ioLock, callVars, failed, countVars>>

\* What the log gets from the append that p is at.
Record(p) ==
    /\ begun' = IF pc[p] = "begin" THEN begun \cup {Intent(p)} ELSE begun
    /\ committed' = CASE pc[p] = "commit" -> committed \cup {tx[p]}
                      [] pc[p] = "retire" -> committed \cup {replay.tx}
                      [] OTHER            -> committed
    /\ tail' = TailAfterAppend

\* The append raises: in the write, which leaves nothing, or in the fsync, when
\* the record is already in the file.
AppendFails(p) ==
    /\ pc[p] \in Appending
    /\ MayFail(p, "io")
    /\ UNCHANGED walVars \/ Record(p)
    /\ Raise(p)
    /\ UNCHANGED diskVars

-----------------------------------------------------------------------------
(* Ingest and checkpoint. *)

\* save_initial_checkpoint publishes the index without touching the log.
Checkpoint(c) ==
    /\ phase = "up"
    /\ pc[c] = "idle"
    /\ Loaded(mem)
    /\ tx' = [tx EXCEPT ![c] = 0]
    /\ Goto(c, "lock")
    /\ UNCHANGED <<walVars, diskVars, bootVars, mem, ioLock, node, failed, countVars>>

\* POST /ingest: a dense matrix up to the greatest label, zeros in the gaps,
\* replaces the index (or becomes it, when none is loaded), and is
\* checkpointed when the request says so.
Ingest(c, rows, replaceIndex, checkpoint) ==
    /\ phase = "up"
    /\ pc[c] = "idle"
    /\ gen < MaxGen
    /\ replaceIndex \/ ~Loaded(mem)
    /\ gen' = gen + 1
    /\ \E top \in rows :
        /\ \A l \in rows : l <= top
        /\ mem' = [l \in Labels |-> IF l \in rows THEN gen + 1
                                    ELSE IF l < top THEN Zero ELSE Absent]
    /\ tx' = [tx EXCEPT ![c] = 0]
    /\ Goto(c, IF checkpoint THEN "lock" ELSE "idle")
    /\ UNCHANGED <<walVars, diskVars, bootVars, ioLock, node, failed, requests, crashes>>

-----------------------------------------------------------------------------

Step(p) ==
    \/ AppendBegin(p) \/ EraseNode(p) \/ EraseOutOfRange(p) \/ EraseContended(p)
    \/ FlushBegin(p) \/ SaveIndex(p) \/ SyncTemp(p) \/ ReplaceIndex(p) \/ FlushEnd(p)
    \/ FlushFails(p) \/ AppendCommit(p) \/ AppendFails(p)

Startup == Boot \/ ReplayOne \/ FinishRecovery \/ RetireReplayed

Request(c) ==
    \/ \E l \in Labels : RequestDelete(c, l)
    \/ Checkpoint(c)
    \/ \E rows \in SUBSET Labels, replaceIndex, checkpoint \in BOOLEAN :
           Ingest(c, rows, replaceIndex, checkpoint)

Next ==
    \/ Startup
    \/ Crash
    \/ \E p \in Actors : Step(p)
    \/ \E c \in Clients : Request(c)

Spec == Init /\ [][Next]_vars

\* The process manager restarts a process that ended and threads keep running;
\* nobody has to send requests, and nothing has to crash.
Fairness == WF_vars(Startup) /\ \A p \in Actors : WF_vars(Step(p))

FairSpec == Spec /\ Fairness

-----------------------------------------------------------------------------
(* Properties. *)

HeldBy(files, r) == files.bin[r.node] = r.gen \/ files.tmp[r.node] = r.gen

\* Once the COMMIT of a delete is in the log, the vector the delete was asked to
\* erase is in no file of the data directory (index.bin, a left-over
\* index.bin.tmp, or what a power loss would bring back) and not in memory:
\* "intent retired" of hard_delete_and_heal and _replay_one.
CommittedErased ==
    \A r \in begun :
        r.tx \in committed /\ r.gen > Zero
            => ~HeldBy(disk, r) /\ ~HeldBy(durable, r) /\ mem[r.node] # r.gen

\* While the API serves, a vector whose delete was logged is in memory only if
\* that delete is still on its way in this process, or this process has told
\* its caller that it failed: a crash never resurrects it.
NoResurrection ==
    phase = "up" =>
        \A r \in begun :
            r.gen > Zero /\ mem[r.node] = r.gen =>
                \/ r.tx \in failed
                \/ \E c \in Clients : pc[c] = "erase" /\ tx[c] = r.tx

\* When bootstrap hands over to the API with an index loaded, the log holds no
\* delete without its COMMIT: the replay and the transaction it replays are
\* both closed, however many crashes came before.
BootRetiresAll ==
    [][phase = "recovering" /\ phase' = "up" /\ Loaded(mem) => Uncommitted = {}]_vars

\* A process that goes down comes back to serving: recovery terminates.
EventuallyServes == []<>(phase = "up")

\* "A short read at EOF is treated as a torn write [...] and is ignored
\* (safe ...)": a torn append never makes the log unreadable.
TornTailIgnored == tail # "corrupt"

\* "Guarantees state convergence after a crash": every record recovery sets
\* out to replay names a row of the index it has loaded.
PendingReplayable ==
    phase = "recovering" => \A r \in pending : mem[r.node] # Absent

=============================================================================
