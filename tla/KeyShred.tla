------------------------------- MODULE KeyShred -------------------------------
(***************************************************************************)
(* compliance/crypto_shred.py and compliance/kms_backends.py: embeddings   *)
(* are encrypted under one data key (DEK) per entity, and an entity is     *)
(* erased from backups by destroying its key.  The vault keeps its records *)
(* under its own lock, but calls the key service outside of it when it     *)
(* decrypts and when it shreds; threads of the process run in any order,   *)
(* and the process may end between any two steps.                          *)
(*                                                                         *)
(* Keys are numbers, a ciphertext or a wrapped key is the pair of entity   *)
(* and key: whoever has the right key can open it, nobody else can.        *)
(***************************************************************************)
EXTENDS Integers, FiniteSets

CONSTANTS
    Entities, Threads,
    Backends,     \* which vault or key service a deployment may run
    KeyFaults,    \* which failures the environment may produce
    MaxKeys, MaxRestarts, MaxShreds  \* bounds

\* memory: CryptoShredVault; the others are KmsCryptoShredVault over file:
\* LocalFileKMS with a path, file_master: with a path and a master key, cloud:
\* AwsKmsBackend, GcpKmsBackend or VaultTransitBackend.
ASSUME BackendsAssumption == Backends \subseteq {"memory", "file", "file_master", "cloud"}

\* "persist": the key file cannot be written; "remote": a call of the cloud
\* service raises; "torn": the process ends in the middle of a write.
ASSUME KeyAssumption ==
    /\ KeyFaults \subseteq {"persist", "remote", "torn"}
    /\ MaxKeys \in Nat /\ MaxRestarts \in Nat /\ MaxShreds \in Nat

VARIABLES
    backend,
    up,         \* the process runs
    records,    \* vault: entity -> its key, wrapped, or 0
    shredded,   \* vault: entities it has shredded
    wrapped,    \* LocalFileKMS._wrapped: entity -> key, or 0
    destroyed,  \* entities the key service refuses
    file,       \* the key file
    thread,     \* what each thread does
    lastKey, restarts, shreds,
    (* Observed. *)
    issued,     \* wrapped keys that an application has stored beside its ciphertexts
    ciphers,    \* ciphertexts made
    fresh,      \* those made since the process started
    acked,      \* keys whose shred receipt says that they are destroyed
    opened      \* ciphertexts opened by a decrypt that came after that receipt

vaultVars   == <<records, shredded>>
serviceVars == <<wrapped, destroyed, file>>
boundVars   == <<lastKey, restarts, shreds>>
seenVars    == <<issued, ciphers, fresh, acked, opened>>
vars == <<backend, up, vaultVars, serviceVars, thread, boundVars, seenVars>>

Keys    == 1 .. MaxKeys
NoKeys  == [e \in Entities |-> 0]
NoFile  == [state |-> "none", wrapped |-> NoKeys, destroyed |-> {}]
TornFile == [NoFile EXCEPT !.state = "torn"]
OnFile  == backend \in {"file", "file_master"}

\* at: the step; ent, key: the entity and the key in hand; ct: the key of the
\* ciphertext to open; late: its receipt was there before; todo: ids to shred.
At(step, e, k, c, late, todo) ==
    [at |-> step, ent |-> e, key |-> k, ct |-> c, late |-> late, todo |-> todo]
Idle == [at |-> "idle"]

Pairs == Entities \X Keys

Working == [at: {"encrypt", "unwrap", "remote", "open", "shred", "destroy", "receipt"},
            ent: Entities, key: Nat, ct: Nat, late: BOOLEAN, todo: SUBSET Entities]

TypeOK ==
    /\ backend \in Backends /\ up \in BOOLEAN
    /\ records \in [Entities -> 0 .. MaxKeys] /\ wrapped \in [Entities -> 0 .. MaxKeys]
    /\ shredded \subseteq Entities /\ destroyed \subseteq Entities
    /\ file.state \in {"none", "ok", "torn"}
    /\ file.wrapped \in [Entities -> 0 .. MaxKeys] /\ file.destroyed \subseteq Entities
    /\ OnFile /\ up => file.state # "none" /\ file.destroyed \subseteq destroyed
    /\ thread \in [Threads -> {Idle} \cup Working]
    /\ lastKey \in 0 .. MaxKeys /\ restarts \in 0 .. MaxRestarts /\ shreds \in 0 .. MaxShreds
    /\ issued \subseteq Pairs /\ ciphers \subseteq Pairs
    /\ fresh \subseteq ciphers /\ acked \subseteq Pairs /\ opened \subseteq ciphers

Saved(w, d) == [state |-> "ok", wrapped |-> w, destroyed |-> d]

\* LocalFileKMS.__init__ on a path without a file writes an empty one.
Init ==
    /\ backend \in Backends
    /\ up = TRUE
    /\ records = NoKeys /\ shredded = {} /\ wrapped = NoKeys /\ destroyed = {}
    /\ file = IF OnFile THEN Saved(NoKeys, {}) ELSE NoFile
    /\ thread = [t \in Threads |-> Idle]
    /\ lastKey = 0 /\ restarts = 0 /\ shreds = 0
    /\ issued = {} /\ ciphers = {} /\ fresh = {} /\ acked = {} /\ opened = {}

Goto(t, s) == thread' = [thread EXCEPT ![t] = s]

-----------------------------------------------------------------------------
(* The key services. *)

\* _persist: the file is written, or the write raises, before write_text has
\* truncated the file or after it.
persist == file' = Saved(wrapped', destroyed')
PersistFails == "persist" \in KeyFaults /\ file' \in {file, TornFile}

\* wrap_dek of a new key, with its outcome.
wrap_dek(e, k, ok) ==
    \/ /\ OnFile
       /\ wrapped' = [wrapped EXCEPT ![e] = k]
       /\ UNCHANGED destroyed
       /\ IF ok THEN persist ELSE PersistFails
    \/ /\ backend = "cloud"
       /\ ok \/ "remote" \in KeyFaults
       /\ UNCHANGED serviceVars
    \/ backend = "memory" /\ ok /\ UNCHANGED serviceVars

\* The key that unwrap_dek gives for a wrapped key k: the file service prefers
\* the one it stores.
Unwrapped(e, k) == IF OnFile /\ wrapped[e] # 0 THEN wrapped[e] ELSE k

-----------------------------------------------------------------------------
(* encrypt: the key is looked up or made under the vault's lock, which is    *)
(* held while the service wraps it; the plaintext is encrypted after that.   *)

\* Mutant: a key is made although there is one.
ProvisionAgain(t, e) ==
    /\ thread[t] = Idle /\ up /\ e \notin shredded /\ e \notin destroyed
    /\ lastKey < MaxKeys
    /\ lastKey' = lastKey + 1
    /\ wrap_dek(e, lastKey', TRUE)
    /\ records' = [records EXCEPT ![e] = lastKey']
    /\ Goto(t, At("encrypt", e, lastKey', 0, FALSE, {}))
    /\ UNCHANGED <<backend, up, shredded, restarts, shreds, seenVars>>

provision(t, e) ==
    /\ thread[t] = Idle /\ up
    /\ e \notin shredded
    /\ \/ /\ records[e] # 0
          /\ e \notin destroyed
          /\ Goto(t, At("encrypt", e, Unwrapped(e, records[e]), 0, FALSE, {}))
          /\ UNCHANGED <<records, serviceVars, lastKey>>
       \/ /\ records[e] = 0
          /\ e \notin destroyed
          /\ lastKey < MaxKeys
          /\ lastKey' = lastKey + 1
          /\ \E ok \in BOOLEAN :
              /\ wrap_dek(e, lastKey', ok)
              /\ records' = [records EXCEPT ![e] = IF ok THEN lastKey' ELSE 0]
              /\ Goto(t, IF ok THEN At("encrypt", e, lastKey', 0, FALSE, {}) ELSE Idle)
    /\ UNCHANGED <<backend, up, shredded, restarts, shreds, seenVars>>

encrypt(t) ==
    /\ thread[t].at = "encrypt"
    /\ ciphers' = ciphers \cup {<<thread[t].ent, thread[t].key>>}
    /\ fresh' = fresh \cup {<<thread[t].ent, thread[t].key>>}
    /\ Goto(t, Idle)
    /\ UNCHANGED <<backend, up, vaultVars, serviceVars, boundVars, issued, acked, opened>>

\* An application that has asked provision for the key has the service wrap it,
\* "to store beside ciphertext".
store_wrapped(t) ==
    LET w == thread[t]
    IN  /\ w.at = "encrypt" /\ backend # "memory"
        /\ \/ /\ w.ent \in destroyed
              /\ UNCHANGED <<serviceVars, issued>>
           \/ /\ w.ent \notin destroyed
              /\ \E ok \in BOOLEAN :
                  /\ wrap_dek(w.ent, w.key, ok)
                  /\ issued' = IF ok THEN issued \cup {<<w.ent, w.key>>} ELSE issued
        /\ Goto(t, Idle)
        /\ UNCHANGED <<backend, up, vaultVars, boundVars, ciphers, fresh, acked, opened>>

-----------------------------------------------------------------------------
(* decrypt: the record is read under the lock, unwrapped after it.           *)

\* Mutant: the vault does not look at its own list.
DecryptShredded(t, e, c) ==
    /\ thread[t] = Idle /\ up
    /\ Goto(t, At("unwrap", e, IF records[e] = 0 THEN c ELSE records[e], c,
                  <<e, c>> \in acked, {}))
    /\ UNCHANGED <<backend, up, vaultVars, serviceVars, boundVars, seenVars>>

decrypt(t, e, c) ==
    /\ thread[t] = Idle /\ up
    /\ e \notin shredded /\ records[e] # 0
    /\ Goto(t, At(IF backend = "memory" THEN "open" ELSE "unwrap", e, records[e], c,
                  <<e, c>> \in acked, {}))
    /\ UNCHANGED <<backend, up, vaultVars, serviceVars, boundVars, seenVars>>

\* unwrap_dek: refused for a destroyed entity.  The file service holds its lock
\* throughout; a cloud backend looks at its list first and calls after it.
unwrap_dek(t) ==
    LET w == thread[t]
    IN  /\ w.at = "unwrap"
        /\ Goto(t, IF w.ent \in destroyed THEN Idle
                   ELSE [w EXCEPT !.at = IF backend = "cloud" THEN "remote" ELSE "open",
                                  !.key = Unwrapped(w.ent, w.key)])
        /\ UNCHANGED <<backend, up, vaultVars, serviceVars, boundVars, seenVars>>

RemoteDecrypt(t) ==
    /\ thread[t].at = "remote"
    /\ \/ Goto(t, [thread[t] EXCEPT !.at = "open"])
       \/ "remote" \in KeyFaults /\ Goto(t, Idle)
    /\ UNCHANGED <<backend, up, vaultVars, serviceVars, boundVars, seenVars>>

\* AES-GCM opens the ciphertext under its own key only.
Open(t) ==
    LET w == thread[t]
    IN  /\ w.at = "open"
        /\ opened' = IF w.key = w.ct /\ w.late THEN opened \cup {<<w.ent, w.ct>>} ELSE opened
        /\ Goto(t, Idle)
        /\ UNCHANGED <<backend, up, vaultVars, serviceVars, boundVars, issued, ciphers, fresh,
                       acked>>

-----------------------------------------------------------------------------
(* shred, as the hook of hooks.py calls it for one entity after another.     *)

CallHook(t, S) ==
    /\ thread[t] = Idle /\ up
    /\ shreds < MaxShreds
    /\ shreds' = shreds + 1
    /\ \E e \in S : Goto(t, At("shred", e, 0, 0, FALSE, S \ {e}))
    /\ UNCHANGED <<backend, up, vaultVars, serviceVars, lastKey, restarts, seenVars>>

\* The record is dropped under the vault's lock.
shred(t) ==
    /\ thread[t].at = "shred"
    /\ records' = [records EXCEPT ![thread[t].ent] = 0]
    /\ shredded' = shredded \cup {thread[t].ent}
    /\ Goto(t, [thread[t] EXCEPT !.at = IF backend = "memory" THEN "receipt" ELSE "destroy",
                                 !.key = 1])
    /\ UNCHANGED <<backend, up, serviceVars, boundVars, seenVars>>

\* The key service forgets the key, outside that lock.  An exception of its
\* write is turned into the message of the receipt (key = 0 stands for it).
destroy_entity_key(t) ==
    LET e == thread[t].ent
    IN  /\ thread[t].at = "destroy"
        /\ wrapped' = [wrapped EXCEPT ![e] = 0]
        /\ destroyed' = destroyed \cup {e}
        /\ \/ /\ IF OnFile THEN persist ELSE file' = file
              /\ Goto(t, [thread[t] EXCEPT !.at = "receipt"])
           \/ /\ OnFile /\ PersistFails
              /\ Goto(t, [thread[t] EXCEPT !.at = "receipt", !.key = 0])
        /\ UNCHANGED <<backend, up, vaultVars, boundVars, seenVars>>

\* Mutant: the receipt does not look at what the service said.
ReceiptAnyway(t) ==
    LET w == thread[t]
    IN  /\ w.at = "receipt"
        /\ acked' = acked \cup {<<w.ent, k>> : k \in 1 .. lastKey}
        /\ Goto(t, Idle)
        /\ UNCHANGED <<backend, up, vaultVars, serviceVars, boundVars, issued, ciphers, fresh,
                       opened>>

\* The receipt, and the next id of the hook.
Receipt(t) ==
    LET w == thread[t]
    IN  /\ w.at = "receipt"
        /\ acked' = IF w.key = 0 THEN acked ELSE acked \cup {<<w.ent, k>> : k \in 1 .. lastKey}
        /\ IF w.todo = {} THEN Goto(t, Idle)
           ELSE \E e \in w.todo : Goto(t, At("shred", e, 0, 0, FALSE, w.todo \ {e}))
        /\ UNCHANGED <<backend, up, vaultVars, serviceVars, boundVars, issued, ciphers, fresh,
                       opened>>

-----------------------------------------------------------------------------
(* The process ends, and starts again. *)

Crash ==
    /\ up
    /\ restarts < MaxRestarts
    /\ restarts' = restarts + 1
    /\ up' = FALSE
    /\ \/ UNCHANGED file
       \/ OnFile /\ "torn" \in KeyFaults /\ file' = TornFile
    /\ records' = NoKeys /\ shredded' = {} /\ wrapped' = NoKeys /\ destroyed' = {}
    /\ thread' = [t \in Threads |-> Idle]
    /\ fresh' = {}
    /\ UNCHANGED <<backend, lastKey, shreds, issued, ciphers, acked, opened>>

\* Mutant: the list of destroyed entities is not read back.
StartForgets ==
    /\ ~up
    /\ backend = "file" => file.state = "ok"
    /\ wrapped' = file.wrapped
    /\ up' = TRUE
    /\ UNCHANGED <<backend, vaultVars, destroyed, file, thread, boundVars, seenVars>>

\* LocalFileKMS.__init__: a given master key means that the file is not read
\* but written anew; a torn file raises.
Start ==
    /\ ~up
    /\ CASE backend = "file" ->
              /\ file.state = "ok"
              /\ wrapped' = file.wrapped
              /\ destroyed' = file.destroyed
              /\ UNCHANGED file
         [] backend = "file_master" -> file' = Saved(NoKeys, {}) /\ UNCHANGED <<wrapped, destroyed>>
         [] OTHER -> UNCHANGED serviceVars
    /\ up' = TRUE
    /\ UNCHANGED <<backend, vaultVars, thread, boundVars, seenVars>>

Next ==
    \/ \E t \in Threads :
        \/ \E e \in Entities : provision(t, e)
        \/ encrypt(t) \/ store_wrapped(t)
        \/ \E e \in Entities, c \in Keys : <<e, c>> \in ciphers /\ decrypt(t, e, c)
        \/ unwrap_dek(t) \/ RemoteDecrypt(t) \/ Open(t)
        \/ \E S \in SUBSET Entities \ {{}} : CallHook(t, S)
        \/ shred(t) \/ destroy_entity_key(t) \/ Receipt(t)
    \/ Crash \/ Start

Spec == Init /\ [][Next]_vars

-----------------------------------------------------------------------------
(* Properties. *)

\* The vault with its record, or anybody who kept the wrapped key, can get at k;
\* the file service gives the key it stores to everybody.
CanUnwrap(e, k) ==
    /\ up
    /\ e \notin destroyed
    /\ IF backend = "memory" THEN records[e] = k
       ELSE /\ records[e] = k \/ <<e, k>> \in issued \/ wrapped[e] = k
            /\ Unwrapped(e, k) = k

\* "DEK unwrap fails forever": once a receipt says that the key of an entity is
\* destroyed, none of the keys it had can be unwrapped again, by any thread and
\* after any restart.
ShredIsForever == \A e \in Entities, k \in Keys : <<e, k>> \in acked => ~CanUnwrap(e, k)

\* The same as far as the code gets: a cloud backend keeps its list of
\* destroyed entities in memory, and so, in effect, does the file service that
\* is given its master key, so that a restart, and nothing else, undoes a shred
\* there; the file service that reads its file never forgets.
ShredHolds ==
    \A e \in Entities, k \in Keys :
        <<e, k>> \in acked /\ CanUnwrap(e, k)
            => restarts > 0 /\ backend \in {"cloud", "file_master"}

\* A decrypt that starts after that receipt never returns plaintext made under
\* a key of before it, not even when the process was restarted in between and
\* has forgotten what it shredded.
NoLateDecrypt == opened = {}

\* While the process runs, every ciphertext it made for an entity it has not
\* shredded can be opened: threads that meet an entity for the first time at
\* once agree on one key, in the vault and in the key service.
OneKeyPerEntity ==
    \A e \in Entities, k \in Keys :
        <<e, k>> \in fresh /\ e \notin shredded
            => records[e] = k /\ Unwrapped(e, records[e]) = k
=============================================================================
