---------------------------- MODULE KeyShredProofs ----------------------------
(***************************************************************************)
(* Proofs about KeyShred, for any number of entities, threads, keys,       *)
(* shreds and restarts, every key service and every fault.                 *)
(***************************************************************************)
EXTENDS KeyShred, TLAPS

-----------------------------------------------------------------------------
(* The inductive invariant. *)

\* Threads run in a process that runs, and a process that is down has crashed.
ProcessInv ==
    /\ \A t \in Threads : thread[t].at # "idle" => up
    /\ ~up => restarts > 0 /\ records = NoKeys /\ shredded = {} /\ wrapped = NoKeys
                           /\ destroyed = {} /\ fresh = {}

\* An entity that is shredded has no record, one that is destroyed no stored
\* key; the file service stores the key of the record.
TableInv ==
    /\ \A e \in shredded : records[e] = 0
    /\ \A e \in destroyed : wrapped[e] = 0
    /\ \A e \in file.destroyed : file.wrapped[e] = 0
    /\ ~OnFile => wrapped = NoKeys
    /\ \A e \in Entities : OnFile /\ records[e] # 0 => wrapped[e] = records[e]

\* Keys that a table holds have been made.
KeyInv ==
    /\ \A e \in Entities :
           records[e] <= lastKey /\ wrapped[e] <= lastKey /\ file.wrapped[e] <= lastKey
    /\ \A e \in Entities, k \in Keys : <<e, k>> \in acked => k <= lastKey

\* What is on record as destroyed is in no table, and in the lists that the
\* service will go by.
AckedInv ==
    \A e \in Entities, k \in Keys : <<e, k>> \in acked =>
        /\ records[e] # k /\ wrapped[e] # k
        /\ up /\ backend # "memory" /\ (restarts = 0 \/ backend = "file") => e \in destroyed
        /\ backend = "file" /\ file.state = "ok" => e \in file.destroyed

\* What a thread that shreds has done.
ShredderInv ==
    \A t \in Threads :
        /\ thread[t].at \in {"destroy", "receipt"} => thread[t].ent \in shredded
        /\ thread[t].at = "receipt" /\ thread[t].key # 0 /\ backend # "memory"
               => /\ thread[t].ent \in destroyed
                  /\ OnFile /\ file.state = "ok" => thread[t].ent \in file.destroyed

\* What a thread that decrypts has in hand.
DecrypterInv ==
    \A t \in Threads : thread[t].at \in {"unwrap", "remote", "open"} =>
        /\ <<thread[t].ent, thread[t].ct>> \in ciphers
        /\ thread[t].key # 0
        /\ thread[t].late => /\ <<thread[t].ent, thread[t].ct>> \in acked
                             /\ thread[t].key # thread[t].ct

\* A thread that encrypts, and a ciphertext that it has made, use the key of the
\* record; the service will not wrap that key once it is on record as destroyed.
EncrypterInv ==
    /\ \A t \in Threads : thread[t].at = "encrypt" =>
           /\ thread[t].key \in Keys
           /\ thread[t].ent \notin shredded => records[thread[t].ent] = thread[t].key
           /\ thread[t].key <= lastKey
           /\ backend # "memory" /\ <<thread[t].ent, thread[t].key>> \in acked
                  => thread[t].ent \in destroyed
    /\ \A e \in Entities, k \in Keys :
           <<e, k>> \in fresh /\ e \notin shredded => records[e] = k

KeyIndInv ==
    /\ TypeOK /\ ProcessInv /\ TableInv /\ KeyInv /\ AckedInv
    /\ ShredderInv /\ DecrypterInv /\ EncrypterInv
    /\ opened = {}

-----------------------------------------------------------------------------

USE KeyAssumption DEF Goto, At, Idle, Working, Pairs, Keys, NoKeys, OnFile, vaultVars,
                      serviceVars, boundVars, seenVars

LEMMA WorkingThread ==
    ASSUME TypeOK, NEW t \in Threads, thread[t].at # "idle"
    PROVE  thread[t] \in Working
  BY DEF TypeOK

\* A key is looked up, or made and wrapped.
LEMMA ProvisionStep ==
    ASSUME KeyIndInv, NEW t \in Threads, NEW e \in Entities, provision(t, e)
    PROVE  KeyIndInv'
<1> USE DEF KeyIndInv
<1>1. TypeOK'
  <2>1. thread' \in [Threads -> {Idle} \cup Working]
    <3>1. \A k \in Nat : At("encrypt", e, k, 0, FALSE, {}) \in Working
      OBVIOUS
    <3>2. Unwrapped(e, records[e]) \in Nat /\ lastKey + 1 \in Nat
      BY DEF Unwrapped, TypeOK
    <3>3. \/ thread' = [thread EXCEPT ![t] = Idle]
          \/ \E k \in Nat : thread' = [thread EXCEPT ![t] = At("encrypt", e, k, 0, FALSE, {})]
      BY <3>2 DEF provision
    <3>4. PICK s \in {Idle} \cup Working : thread' = [thread EXCEPT ![t] = s]
      BY <3>1, <3>3
    <3> QED BY <3>4 DEF TypeOK
  <2>2. lastKey' \in 0 .. MaxKeys
    BY DEF provision, TypeOK
  <2>3. records' \in [Entities -> 0 .. MaxKeys] /\ wrapped' \in [Entities -> 0 .. MaxKeys]
    BY DEF provision, wrap_dek, TypeOK
  <2>4. /\ destroyed' = destroyed
        /\ file' = file \/ file' = Saved(wrapped', destroyed) \/ file' = TornFile
    BY DEF provision, wrap_dek, persist, PersistFails
  <2> QED BY <2>1, <2>2, <2>3, <2>4 DEF provision, Saved, TornFile, NoFile, TypeOK
<1>2. ProcessInv'
  BY DEF provision, wrap_dek, persist, PersistFails, Unwrapped, Saved, TornFile, NoFile, TypeOK, ProcessInv
<1>3. TableInv'
  BY DEF provision, wrap_dek, persist, PersistFails, Unwrapped, Saved, TornFile, NoFile, TypeOK, TableInv
<1>4. KeyInv'
  BY DEF provision, wrap_dek, persist, PersistFails, Unwrapped, Saved, TornFile, NoFile, TypeOK, KeyInv
<1>5. AckedInv'
  BY DEF provision, wrap_dek, persist, PersistFails, Unwrapped, Saved, TornFile, NoFile, KeyInv, ProcessInv,
         TypeOK, AckedInv
<1>6. ShredderInv'
  BY DEF provision, wrap_dek, persist, PersistFails, Unwrapped, Saved, TornFile, NoFile, TypeOK, ShredderInv
<1>7. DecrypterInv'
  BY DEF provision, wrap_dek, persist, PersistFails, Unwrapped, Saved, TornFile, NoFile, TypeOK, DecrypterInv
<1>8. EncrypterInv'
  BY DEF provision, wrap_dek, persist, PersistFails, Unwrapped, Saved, TornFile, NoFile, TableInv, KeyInv,
         AckedInv, TypeOK, EncrypterInv
<1>9. (opened = {})'
  BY DEF provision
<1> QED BY <1>1, <1>2, <1>3, <1>4, <1>5, <1>6, <1>7, <1>8, <1>9

\* A ciphertext is made.
LEMMA EncryptStep ==
    ASSUME KeyIndInv, NEW t \in Threads, encrypt(t)
    PROVE  KeyIndInv'
<1> USE DEF KeyIndInv
<1>1. TypeOK'
  BY DEF encrypt, EncrypterInv, TypeOK
<1>2. ProcessInv'
  BY DEF encrypt, TypeOK, ProcessInv
<1>3. ShredderInv'
  BY DEF encrypt, TypeOK, ShredderInv
<1>4. DecrypterInv'
  BY DEF encrypt, TypeOK, DecrypterInv
<1>5. EncrypterInv'
  BY DEF encrypt, TypeOK, EncrypterInv
<1>6. (TableInv /\ KeyInv /\ AckedInv /\ opened = {})'
  BY DEF encrypt, TableInv, KeyInv, AckedInv
<1> QED BY <1>1, <1>2, <1>3, <1>4, <1>5, <1>6

\* An application has the key wrapped.
LEMMA StoreWrappedStep ==
    ASSUME KeyIndInv, NEW t \in Threads, store_wrapped(t)
    PROVE  KeyIndInv'
<1> USE DEF KeyIndInv
<1> DEFINE w == thread[t]
<1>1. /\ w \in Working /\ w.key \in Keys /\ w.ent \in Entities /\ w.key <= lastKey
      /\ w.ent \notin shredded => records[w.ent] = w.key
      /\ backend # "memory"
      /\ w.ent \notin destroyed => <<w.ent, w.key>> \notin acked
  BY WorkingThread DEF store_wrapped, EncrypterInv
<1>2. /\ thread' = [thread EXCEPT ![t] = Idle]
      /\ UNCHANGED <<backend, up, vaultVars, boundVars, ciphers, fresh, acked, opened, destroyed>>
  BY DEF store_wrapped, wrap_dek
<1>3. \/ UNCHANGED <<wrapped, file>>
      \/ /\ OnFile /\ w.ent \notin destroyed /\ wrapped' = [wrapped EXCEPT ![w.ent] = w.key]
         /\ file' = file \/ file' = Saved(wrapped', destroyed) \/ file' = TornFile
  BY <1>1 DEF store_wrapped, wrap_dek, persist, PersistFails
<1>4. issued' \subseteq Pairs
  BY <1>1 DEF store_wrapped, TypeOK
<1>5. wrapped' \in [Entities -> 0 .. MaxKeys]
  BY <1>1, <1>3 DEF TypeOK
<1> HIDE DEF w
<1>6. TypeOK'
  BY <1>2, <1>3, <1>4, <1>5 DEF Saved, TornFile, NoFile, TypeOK
<1>7. ProcessInv'
  <2>1. up
    BY DEF store_wrapped, ProcessInv
  <2> QED BY <1>2, <2>1 DEF TypeOK, ProcessInv
<1>8. TableInv'
  <2>1. \A e \in destroyed : wrapped'[e] = 0
    BY <1>1, <1>3 DEF TypeOK, TableInv
  <2>2. \A e \in file'.destroyed : file'.wrapped[e] = 0
    BY <1>3, <2>1 DEF Saved, TornFile, NoFile, TableInv
  <2>3. \A e \in Entities : OnFile /\ records[e] # 0 => wrapped'[e] = records[e]
    BY <1>1, <1>3 DEF TypeOK, TableInv
  <2> QED BY <1>2, <1>3, <2>1, <2>2, <2>3 DEF TableInv
<1>9. KeyInv'
  BY <1>1, <1>2, <1>3 DEF Saved, TornFile, NoFile, TypeOK, KeyInv
<1>10. AckedInv'
  <2>1. \A e \in Entities, k \in Keys : <<e, k>> \in acked => wrapped'[e] # k
    BY <1>1, <1>3 DEF TypeOK, AckedInv
  <2>2. \A e \in Entities, k \in Keys :
            <<e, k>> \in acked /\ backend = "file" /\ file'.state = "ok" => e \in file'.destroyed
    <3>1. up
      BY DEF store_wrapped, ProcessInv
    <3> QED BY <1>3, <3>1 DEF Saved, TornFile, NoFile, AckedInv
  <2> QED BY <1>2, <2>1, <2>2 DEF AckedInv
<1>11. ShredderInv'
  BY <1>2, <1>3 DEF Saved, TornFile, NoFile, TypeOK, ShredderInv
<1>12. DecrypterInv'
  BY <1>2 DEF TypeOK, DecrypterInv
<1>13. EncrypterInv'
  BY <1>2 DEF TypeOK, EncrypterInv
<1>14. (opened = {})'
  BY <1>2
<1> QED BY <1>6, <1>7, <1>8, <1>9, <1>10, <1>11, <1>12, <1>13, <1>14

\* The record is read.
LEMMA DecryptStep ==
    ASSUME KeyIndInv, NEW t \in Threads, NEW e \in Entities, NEW c \in Keys,
           <<e, c>> \in ciphers, decrypt(t, e, c)
    PROVE  KeyIndInv'
<1> USE DEF KeyIndInv
<1>1. TypeOK'
  BY DEF decrypt, TypeOK
<1>2. ProcessInv'
  BY DEF decrypt, TypeOK, ProcessInv
<1>3. ShredderInv'
  BY DEF decrypt, TypeOK, ShredderInv
<1>4. DecrypterInv'
  BY DEF decrypt, AckedInv, TableInv, TypeOK, DecrypterInv
<1>5. EncrypterInv'
  BY DEF decrypt, TypeOK, EncrypterInv
<1>6. (TableInv /\ KeyInv /\ AckedInv /\ opened = {})'
  BY DEF decrypt, TableInv, KeyInv, AckedInv
<1> QED BY <1>1, <1>2, <1>3, <1>4, <1>5, <1>6

\* The key in hand becomes the one that the service prefers.
LEMMA UnwrapDekStep ==
    ASSUME KeyIndInv, NEW t \in Threads, unwrap_dek(t)
    PROVE  KeyIndInv'
<1> USE DEF KeyIndInv
<1>1. TypeOK'
  <2>1. thread[t] \in Working /\ Unwrapped(thread[t].ent, thread[t].key) \in Nat
    BY WorkingThread DEF unwrap_dek, Unwrapped, TypeOK
  <2>2. thread' \in [Threads -> {Idle} \cup Working]
    BY <2>1 DEF unwrap_dek, TypeOK
  <2> QED BY <2>2 DEF unwrap_dek, TypeOK
<1>2. ProcessInv'
  BY DEF unwrap_dek, Unwrapped, TypeOK, ProcessInv
<1>3. ShredderInv'
  BY DEF unwrap_dek, Unwrapped, TypeOK, ShredderInv
<1>4. DecrypterInv'
  BY DEF unwrap_dek, Unwrapped, AckedInv, ProcessInv, TypeOK, DecrypterInv
<1>5. EncrypterInv'
  BY DEF unwrap_dek, Unwrapped, TypeOK, EncrypterInv
<1>6. (TableInv /\ KeyInv /\ AckedInv /\ opened = {})'
  BY DEF unwrap_dek, TableInv, KeyInv, AckedInv
<1> QED BY <1>1, <1>2, <1>3, <1>4, <1>5, <1>6

\* The call of a cloud service comes back.
LEMMA RemoteDecryptStep ==
    ASSUME KeyIndInv, NEW t \in Threads, RemoteDecrypt(t)
    PROVE  KeyIndInv'
<1> USE DEF KeyIndInv
<1>1. TypeOK'
  BY DEF RemoteDecrypt, TypeOK
<1>2. ProcessInv'
  BY DEF RemoteDecrypt, TypeOK, ProcessInv
<1>3. ShredderInv'
  BY DEF RemoteDecrypt, TypeOK, ShredderInv
<1>4. DecrypterInv'
  BY DEF RemoteDecrypt, TypeOK, DecrypterInv
<1>5. EncrypterInv'
  BY DEF RemoteDecrypt, TypeOK, EncrypterInv
<1>6. (TableInv /\ KeyInv /\ AckedInv /\ opened = {})'
  BY DEF RemoteDecrypt, TableInv, KeyInv, AckedInv
<1> QED BY <1>1, <1>2, <1>3, <1>4, <1>5, <1>6

\* AES-GCM with the key in hand.
LEMMA OpenStep ==
    ASSUME KeyIndInv, NEW t \in Threads, Open(t)
    PROVE  KeyIndInv'
<1> USE DEF KeyIndInv
<1>1. TypeOK'
  BY DEF Open, DecrypterInv, TypeOK
<1>2. ProcessInv'
  BY DEF Open, TypeOK, ProcessInv
<1>3. ShredderInv'
  BY DEF Open, TypeOK, ShredderInv
<1>4. DecrypterInv'
  BY DEF Open, TypeOK, DecrypterInv
<1>5. EncrypterInv'
  BY DEF Open, TypeOK, EncrypterInv
<1>6. (opened = {})'
  BY DEF Open, TypeOK, DecrypterInv
<1>7. (TableInv /\ KeyInv /\ AckedInv)'
  BY DEF Open, TableInv, KeyInv, AckedInv
<1> QED BY <1>1, <1>2, <1>3, <1>4, <1>5, <1>6, <1>7

\* A batch of shreds begins.
LEMMA CallHookStep ==
    ASSUME KeyIndInv, NEW t \in Threads, NEW S \in SUBSET Entities \ {{}}, CallHook(t, S)
    PROVE  KeyIndInv'
<1> USE DEF KeyIndInv
<1>1. TypeOK'
  BY DEF CallHook, TypeOK
<1>2. ProcessInv'
  BY DEF CallHook, TypeOK, ProcessInv
<1>3. ShredderInv'
  BY DEF CallHook, TypeOK, ShredderInv
<1>4. DecrypterInv'
  BY DEF CallHook, TypeOK, DecrypterInv
<1>5. EncrypterInv'
  BY DEF CallHook, TypeOK, EncrypterInv
<1>6. (TableInv /\ KeyInv /\ AckedInv /\ opened = {})'
  BY DEF CallHook, TableInv, KeyInv, AckedInv
<1> QED BY <1>1, <1>2, <1>3, <1>4, <1>5, <1>6

\* The vault drops the record.
LEMMA ShredStep ==
    ASSUME KeyIndInv, NEW t \in Threads, shred(t)
    PROVE  KeyIndInv'
<1> USE DEF KeyIndInv
<1>1. TypeOK'
  <2>1. thread[t] \in Working
    BY WorkingThread DEF shred
  <2>2. thread' \in [Threads -> {Idle} \cup Working]
    BY <2>1 DEF shred, TypeOK
  <2>3. records' \in [Entities -> 0 .. MaxKeys] /\ shredded' \subseteq Entities
    BY <2>1 DEF shred, TypeOK
  <2> QED BY <2>2, <2>3 DEF shred, TypeOK
<1>2. ProcessInv'
  BY DEF shred, TypeOK, ProcessInv
<1>3. TableInv'
  BY DEF shred, TypeOK, TableInv
<1>4. KeyInv'
  BY DEF shred, TypeOK, KeyInv
<1>5. AckedInv'
  BY DEF shred, TypeOK, AckedInv
<1>6. ShredderInv'
  BY DEF shred, TypeOK, ShredderInv
<1>7. DecrypterInv'
  BY DEF shred, TypeOK, DecrypterInv
<1>8. EncrypterInv'
  BY DEF shred, TypeOK, EncrypterInv
<1>9. (opened = {})'
  BY DEF shred
<1> QED BY <1>1, <1>2, <1>3, <1>4, <1>5, <1>6, <1>7, <1>8, <1>9

\* The service drops the key, with or without its file.
LEMMA DestroyStep ==
    ASSUME KeyIndInv, NEW t \in Threads, destroy_entity_key(t)
    PROVE  KeyIndInv'
<1> USE DEF KeyIndInv
<1>w. /\ thread[t] \in Working
      /\ [thread[t] EXCEPT !.at = "receipt"] \in Working
      /\ [thread[t] EXCEPT !.at = "receipt", !.key = 0] \in Working
  BY WorkingThread DEF destroy_entity_key
<1>t. PICK w \in Working :
          /\ thread' = [thread EXCEPT ![t] = w]
          /\ w.at = "receipt" /\ w.ent = thread[t].ent
          /\ OnFile /\ w.key # 0 => persist
  BY <1>w DEF destroy_entity_key
<1>1. TypeOK'
  <2>1. thread' \in [Threads -> {Idle} \cup Working]
    BY <1>t DEF TypeOK
  <2>2. wrapped' \in [Entities -> 0 .. MaxKeys] /\ destroyed' \subseteq Entities
    BY <1>w DEF destroy_entity_key, TypeOK
  <2>3. file' = file \/ file' = Saved(wrapped', destroyed') \/ file' = TornFile
    BY DEF destroy_entity_key, persist, PersistFails
  <2> QED BY <2>1, <2>2, <2>3 DEF destroy_entity_key, Saved, TornFile, NoFile, TypeOK
<1>2. ProcessInv'
  BY DEF destroy_entity_key, persist, PersistFails, Saved, TornFile, NoFile, TypeOK, ProcessInv
<1>3. TableInv'
  <2>1. file' = file \/ file' = Saved(wrapped', destroyed') \/ file' = TornFile
    BY DEF destroy_entity_key, persist, PersistFails
  <2>2. records[thread[t].ent] = 0
    BY DEF destroy_entity_key, ShredderInv, TableInv
  <2>3. \A e \in destroyed' : wrapped'[e] = 0
    BY <1>w DEF destroy_entity_key, TypeOK, TableInv
  <2>4. \A e \in file'.destroyed : file'.wrapped[e] = 0
    BY <2>1, <2>3 DEF Saved, TornFile, NoFile, TableInv
  <2>5. ~OnFile => wrapped' = NoKeys
    BY <1>w DEF destroy_entity_key, TypeOK, TableInv
  <2>6. \A e \in Entities : OnFile /\ records[e] # 0 => wrapped'[e] = records[e]
    BY <1>w, <2>2 DEF destroy_entity_key, TypeOK, TableInv
  <2> QED BY <2>3, <2>4, <2>5, <2>6 DEF destroy_entity_key, TableInv
<1>4. KeyInv'
  BY DEF destroy_entity_key, persist, PersistFails, Saved, TornFile, NoFile, TypeOK, KeyInv
<1>5. AckedInv'
  BY DEF destroy_entity_key, persist, PersistFails, Saved, TornFile, NoFile, ProcessInv, TableInv, TypeOK,
         AckedInv
<1>6. ShredderInv'
  <2>1. file' = file \/ file' = Saved(wrapped', destroyed') \/ file' = TornFile
    BY DEF destroy_entity_key, persist, PersistFails
  <2> QED BY <1>t, <2>1 DEF destroy_entity_key, persist, Saved, TornFile, NoFile, TypeOK,
                            ShredderInv
<1>7. DecrypterInv'
  BY <1>t DEF destroy_entity_key, TypeOK, DecrypterInv
<1>8. EncrypterInv'
  BY <1>t DEF destroy_entity_key, TypeOK, EncrypterInv
<1>9. (opened = {})'
  BY DEF destroy_entity_key
<1> QED BY <1>1, <1>2, <1>3, <1>4, <1>5, <1>6, <1>7, <1>8, <1>9

\* The keys of the entity are on record as destroyed.
LEMMA ReceiptStep ==
    ASSUME KeyIndInv, NEW t \in Threads, Receipt(t)
    PROVE  KeyIndInv'
<1> USE DEF KeyIndInv
<1>1. TypeOK'
  <2>1. thread[t] \in Working
    BY WorkingThread DEF Receipt
  <2>2. thread' \in [Threads -> {Idle} \cup Working]
    <3>1. \A e \in thread[t].todo :
              At("shred", e, 0, 0, FALSE, thread[t].todo \ {e}) \in Working
      BY <2>1
    <3>2. PICK s \in {Idle} \cup Working : thread' = [thread EXCEPT ![t] = s]
      BY <3>1 DEF Receipt
    <3> QED BY <3>2 DEF TypeOK
  <2>3. acked' \subseteq Pairs
    BY <2>1 DEF Receipt, TypeOK
  <2> QED BY <2>2, <2>3 DEF Receipt, TypeOK
<1>2. ProcessInv'
  BY DEF Receipt, TypeOK, ProcessInv
<1>3. KeyInv'
  BY DEF Receipt, TypeOK, KeyInv
<1>4. AckedInv'
  BY DEF Receipt, ShredderInv, TableInv, ProcessInv, TypeOK, AckedInv
<1>5. ShredderInv'
  BY DEF Receipt, TypeOK, ShredderInv
<1>6. DecrypterInv'
  BY DEF Receipt, TypeOK, DecrypterInv
<1>7. EncrypterInv'
  BY DEF Receipt, ShredderInv, TypeOK, EncrypterInv
<1>8. (TableInv /\ opened = {})'
  BY DEF Receipt, TableInv
<1> QED BY <1>1, <1>2, <1>3, <1>4, <1>5, <1>6, <1>7, <1>8

\* All but the key file is gone.
LEMMA CrashStep ==
    ASSUME KeyIndInv, Crash
    PROVE  KeyIndInv'
<1> USE DEF KeyIndInv
<1>1. TypeOK'
  <2>1. /\ NoKeys \in [Entities -> 0 .. MaxKeys]
        /\ [t \in Threads |-> Idle] \in [Threads -> {Idle} \cup Working]
    OBVIOUS
  <2>2. file' = file \/ file' = [state |-> "torn", wrapped |-> NoKeys, destroyed |-> {}]
    BY DEF Crash, TornFile, NoFile
  <2>3. /\ file'.state \in {"none", "ok", "torn"} /\ file'.destroyed \subseteq Entities
        /\ file'.wrapped \in [Entities -> 0 .. MaxKeys]
    BY <2>1, <2>2 DEF TypeOK
  <2>4. restarts' \in 0 .. MaxRestarts
    BY DEF Crash, TypeOK
  <2> QED BY <2>1, <2>3, <2>4 DEF Crash, TypeOK
<1>2. ProcessInv'
  BY DEF Crash, TornFile, NoFile, TypeOK, ProcessInv
<1>3. TableInv'
  BY DEF Crash, TornFile, NoFile, TypeOK, TableInv
<1>4. KeyInv'
  BY DEF Crash, TornFile, NoFile, TypeOK, KeyInv
<1>5. AckedInv'
  BY DEF Crash, TornFile, NoFile, TypeOK, AckedInv
<1>6. ShredderInv'
  BY DEF Crash, TornFile, NoFile, TypeOK, ShredderInv
<1>7. DecrypterInv'
  BY DEF Crash, TornFile, NoFile, TypeOK, DecrypterInv
<1>8. EncrypterInv'
  BY DEF Crash, TornFile, NoFile, TypeOK, EncrypterInv
<1>9. (opened = {})'
  BY DEF Crash
<1> QED BY <1>1, <1>2, <1>3, <1>4, <1>5, <1>6, <1>7, <1>8, <1>9

\* The lists come back from the key file, or do not.
LEMMA StartStep ==
    ASSUME KeyIndInv, Start
    PROVE  KeyIndInv'
<1> USE DEF KeyIndInv
<1>1. TypeOK'
  BY DEF Start, Saved, TypeOK
<1>2. ProcessInv'
  BY DEF Start, Saved, TypeOK, ProcessInv
<1>3. TableInv'
  BY DEF Start, Saved, ProcessInv, TypeOK, TableInv
<1>4. KeyInv'
  BY DEF Start, Saved, ProcessInv, TypeOK, KeyInv
<1>5. AckedInv'
  BY DEF Start, Saved, ProcessInv, TableInv, TypeOK, AckedInv
<1>6. ShredderInv'
  BY DEF Start, Saved, ProcessInv, TypeOK, ShredderInv
<1>7. DecrypterInv'
  BY DEF Start, Saved, TypeOK, DecrypterInv
<1>8. EncrypterInv'
  BY DEF Start, Saved, ProcessInv, TypeOK, EncrypterInv
<1>9. (opened = {})'
  BY DEF Start
<1> QED BY <1>1, <1>2, <1>3, <1>4, <1>5, <1>6, <1>7, <1>8, <1>9


LEMMA KeyInit == Init => KeyIndInv
<1> SUFFICES ASSUME Init PROVE KeyIndInv
  OBVIOUS
<1> USE DEF Init
<1>1. file = NoFile \/ file = Saved(NoKeys, {})
  OBVIOUS
<1>2. TypeOK
  BY <1>1 DEF TypeOK, NoFile, Saved
<1>3. ProcessInv /\ TableInv /\ KeyInv /\ AckedInv
  BY <1>1 DEF ProcessInv, TableInv, KeyInv, AckedInv, NoFile, Saved
<1>4. ShredderInv /\ DecrypterInv /\ EncrypterInv
  BY DEF ShredderInv, DecrypterInv, EncrypterInv
<1> QED BY <1>2, <1>3, <1>4 DEF KeyIndInv

LEMMA KeyNext == KeyIndInv /\ [Next]_vars => KeyIndInv'
<1> SUFFICES ASSUME KeyIndInv, [Next]_vars PROVE KeyIndInv'
  OBVIOUS
<1>1. CASE UNCHANGED vars
  BY <1>1 DEF vars, KeyIndInv, TypeOK,
              ProcessInv, TableInv, KeyInv, AckedInv, ShredderInv, DecrypterInv, EncrypterInv
<1>2. CASE Next
  BY <1>2, ProvisionStep, EncryptStep, StoreWrappedStep, DecryptStep, UnwrapDekStep,
     RemoteDecryptStep, OpenStep, CallHookStep, ShredStep, DestroyStep, ReceiptStep, CrashStep, StartStep DEF Next
<1> QED BY <1>1, <1>2

\* Every reachable state satisfies the invariant.
LEMMA KeyInvariance == Spec => []KeyIndInv
  BY KeyInit, KeyNext, PTL DEF Spec

-----------------------------------------------------------------------------
(* The properties. *)

\* The vault, the services and their file stay within their types, and the file
\* never lists an entity that a running service has forgotten.
THEOREM KeysTyped == Spec => []TypeOK
<1>1. KeyIndInv => TypeOK
  BY DEF KeyIndInv
<1> QED BY <1>1, KeyInvariance, PTL

\* A key whose destruction a receipt has stated cannot be unwrapped: in any
\* process that has not been restarted, and with the file service that reads its
\* key file after any number of crashes.
THEOREM ShredHoldsAlways == Spec => []ShredHolds
<1>1. KeyIndInv => ShredHolds
  <2> SUFFICES ASSUME KeyIndInv, NEW e \in Entities, NEW k \in Keys,
                      <<e, k>> \in acked, CanUnwrap(e, k)
               PROVE  restarts > 0 /\ backend \in {"cloud", "file_master"}
    BY DEF ShredHolds
  <2>1. backend \in {"memory", "file", "file_master", "cloud"}
    BY BackendsAssumption DEF KeyIndInv, TypeOK
  <2>2. backend # "memory"
    BY DEF KeyIndInv, AckedInv, CanUnwrap
  <2>3. ~(restarts = 0 \/ backend = "file")
    BY <2>2 DEF KeyIndInv, AckedInv, CanUnwrap
  <2> QED BY <2>1, <2>2, <2>3 DEF KeyIndInv, TypeOK
<1> QED BY <1>1, KeyInvariance, PTL

\* No decrypt that starts after the receipt opens what was encrypted before it,
\* whatever threads race and however often the process is restarted.
THEOREM NoLateDecryptAlways == Spec => []NoLateDecrypt
<1>1. KeyIndInv => NoLateDecrypt
  BY DEF KeyIndInv, NoLateDecrypt
<1> QED BY <1>1, KeyInvariance, PTL

\* Threads that encrypt for one entity use one key, and the vault and the file
\* service both keep that key.
THEOREM OneKeyAlways == Spec => []OneKeyPerEntity
<1>1. KeyIndInv => OneKeyPerEntity
  BY DEF KeyIndInv, OneKeyPerEntity, EncrypterInv, TableInv, Unwrapped
<1> QED BY <1>1, KeyInvariance, PTL
=============================================================================
