-------------------------- MODULE NeighborhoodLocks --------------------------
(***************************************************************************)
(* The striped reader/writer locks of src/neighborhood_locks.hpp.  A       *)
(* thread takes the stripes of a region exclusively, in ascending order,   *)
(* and gives all of them back when one times out; or it walks the graph    *)
(* with a cursor that holds one stripe in shared mode and takes the next   *)
(* before it drops the current one.                                        *)
(*                                                                         *)
(* The mutexes themselves (std::shared_timed_mutex) belong to the C++      *)
(* library: a request is granted at some moment when no conflicting holder *)
(* is left, and can time out at any moment when there is one.              *)
(***************************************************************************)
EXTENDS Integers

CONSTANTS
    Threads,    \* callers of the index
    NumNodes,   \* labels are 0 .. NumNodes - 1
    PoolSize    \* number of stripes

ASSUME NumNodesAssumption == NumNodes \in Nat \ {0}

ASSUME PoolSizeAssumption == PoolSize \in Nat \ {0}

Nodes == 0 .. (NumNodes - 1)
Stripes == 0 .. (PoolSize - 1)
NoStripe == -1

VARIABLES
    want,    \* per thread: stripes its ExclusiveGuard has still to lock
    excl,    \* per thread: stripes its ExclusiveGuard has locked
    ask,     \* per thread: the stripe a SharedGuard waits for
    share    \* per thread: stripes held in shared mode

lockVars == <<want, excl, ask, share>>

LocksTypeOK ==
    /\ want \in [Threads -> SUBSET Stripes]
    /\ excl \in [Threads -> SUBSET Stripes]
    /\ ask \in [Threads -> Stripes \cup {NoStripe}]
    /\ share \in [Threads -> SUBSET Stripes]

LocksInit ==
    /\ want = [t \in Threads |-> {}]
    /\ excl = [t \in Threads |-> {}]
    /\ ask = [t \in Threads |-> NoStripe]
    /\ share = [t \in Threads |-> {}]

stripe_of(n) == n % PoolSize

unique_stripes(nodes) == {stripe_of(n) : n \in nodes}

\* What a thread has in hand decides what it may ask for.
HoldsNothing(t) == want[t] = {} /\ excl[t] = {} /\ ask[t] = NoStripe /\ share[t] = {}
Granted(t)      == want[t] = {} /\ excl[t] # {}
Shares(t)       == ask[t] = NoStripe /\ share[t] # {}

Lowest(t, s) == s \in want[t] /\ \A r \in want[t] : s <= r

\* Mutant: a stripe that has readers is taken for free.
FreeOfWriters(t, s) == \A u \in Threads \ {t} : s \notin excl[u]

FreeForWriter(t, s) == \A u \in Threads \ {t} : s \notin excl[u] /\ s \notin share[u]

FreeForReader(t, s) == \A u \in Threads \ {t} : s \notin excl[u]

-----------------------------------------------------------------------------
(* ExclusiveGuard. *)

acquire_exclusive(t, nodes) ==
    /\ HoldsNothing(t)
    /\ want' = [want EXCEPT ![t] = unique_stripes(nodes)]
    /\ UNCHANGED <<excl, ask, share>>

\* Mutant: the stripes are locked in the order the region happens to have.
LockAny(t) ==
    /\ \E s \in want[t] :
        /\ FreeForWriter(t, s)
        /\ want' = [want EXCEPT ![t] = @ \ {s}]
        /\ excl' = [excl EXCEPT ![t] = @ \cup {s}]
    /\ UNCHANGED <<ask, share>>

\* try_lock_for on the next stripe of the sorted list.
LockNext(t) ==
    /\ \E s \in want[t] :
        /\ Lowest(t, s)
        /\ FreeForWriter(t, s)
        /\ want' = [want EXCEPT ![t] = @ \ {s}]
        /\ excl' = [excl EXCEPT ![t] = @ \cup {s}]
    /\ UNCHANGED <<ask, share>>

\* The next stripe stays taken for the whole timeout: everything is rolled back.
ExclusiveTimeout(t) ==
    /\ \E s \in want[t] : Lowest(t, s) /\ ~FreeForWriter(t, s)
    /\ want' = [want EXCEPT ![t] = {}]
    /\ excl' = [excl EXCEPT ![t] = {}]
    /\ UNCHANGED <<ask, share>>

release(t) ==
    /\ Granted(t)
    /\ excl' = [excl EXCEPT ![t] = {}]
    /\ UNCHANGED <<want, ask, share>>

\* A guard is released and the next region is asked for.
reacquire(t, nodes) ==
    /\ Granted(t)
    /\ excl' = [excl EXCEPT ![t] = {}]
    /\ want' = [want EXCEPT ![t] = unique_stripes(nodes)]
    /\ UNCHANGED <<ask, share>>

-----------------------------------------------------------------------------
(* SharedGuard and SharedLockCursor. *)

enter(t, n) ==
    /\ HoldsNothing(t)
    /\ ask' = [ask EXCEPT ![t] = stripe_of(n)]
    /\ UNCHANGED <<want, excl, share>>

\* advance: a stripe the cursor holds already is kept.
advance(t, n) ==
    /\ Shares(t)
    /\ ask' = [ask EXCEPT ![t] = IF stripe_of(n) \in share[t] THEN NoStripe ELSE stripe_of(n)]
    /\ UNCHANGED <<want, excl, share>>

\* The stripe asked for is held, and only then the previous one is dropped.
LockShared(t) ==
    /\ ask[t] # NoStripe
    /\ FreeForReader(t, ask[t])
    /\ share' = [share EXCEPT ![t] = {ask[t]}]
    /\ ask' = [ask EXCEPT ![t] = NoStripe]
    /\ UNCHANGED <<want, excl>>

\* The exception unwinds the cursor, which drops what it held.
SharedTimeout(t) ==
    /\ ask[t] # NoStripe
    /\ ~FreeForReader(t, ask[t])
    /\ ask' = [ask EXCEPT ![t] = NoStripe]
    /\ share' = [share EXCEPT ![t] = {}]
    /\ UNCHANGED <<want, excl>>

leave(t) ==
    /\ Shares(t)
    /\ share' = [share EXCEPT ![t] = {}]
    /\ UNCHANGED <<want, excl, ask>>

-----------------------------------------------------------------------------

LocksNext ==
    \E t \in Threads :
        \/ \E nodes \in SUBSET Nodes : acquire_exclusive(t, nodes) \/ reacquire(t, nodes)
        \/ LockNext(t) \/ ExclusiveTimeout(t) \/ release(t)
        \/ \E n \in Nodes : enter(t, n) \/ advance(t, n)
        \/ LockShared(t) \/ SharedTimeout(t) \/ leave(t)

LocksSpec == LocksInit /\ [][LocksNext]_lockVars

-----------------------------------------------------------------------------
(* Properties. *)

\* A stripe that one thread holds exclusively is held by no other thread in
\* either mode, through time-outs, roll-backs and hand-overs.
Exclusion ==
    \A t, u \in Threads :
        t # u => excl[t] \cap (excl[u] \cup share[u]) = {}

\* t waits for a stripe that u has locked for writing.
WaitsFor(t, u) == \E s \in want[t] : Lowest(t, s) /\ s \in excl[u]

\* "Multi-node acquires always lock stripes in ascending order to avoid deadlock
\* between concurrent heal regions": in no group of threads does every member
\* wait for a stripe that another member has locked exclusively.
HealersNeverDeadlock ==
    \A group \in SUBSET Threads :
        group # {} => \E t \in group : \A u \in group : ~WaitsFor(t, u)
=============================================================================
