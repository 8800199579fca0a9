------------------------------- MODULE LocalKms -------------------------------
(***************************************************************************)
(* LocalKms of knowledge-core (kms/local.rs): keys live in a map behind a  *)
(* RwLock and in one file each.  Every operation changes the map under the *)
(* lock, releases it, and brings the file up to date afterwards, so that   *)
(* operations of other tasks on the same key come in between.              *)
(*                                                                         *)
(* A key is its creation date, its version, its material and the versions  *)
(* it keeps from before; dates and materials are drawn from a counter.     *)
(* Encryption and signatures use the map and change nothing.               *)
(***************************************************************************)
EXTENDS Naturals, Sequences, SequencesExt

CONSTANTS
  Keys,          \* key ids
  Tasks,         \* tasks calling the KMS
  NoKey,         \* no entry, no file
  TornKey,          \* a file that does not deserialize
  MaxPrevious,   \* MAX_PREVIOUS_VERSIONS
  MaxCalls,      \* bound: calls
  MaxCrashes,    \* bound: crashes of the process
  MaxFailures    \* bound: failing or dropped calls

ASSUME KmsConstants ==
  /\ Keys # {} /\ MaxPrevious \in Nat \ {0}
  /\ MaxCalls \in Nat /\ MaxCrashes \in Nat /\ MaxFailures \in Nat

VARIABLES
  kmsStore,  \* key_store: store[k] is a stored key or NoKey
  kmsDisk,   \* disk[k]: the stored key in k's file, NoKey or Torn
  kmsPc,     \* pc[t]: "idle", "reread", "save" or "unlink"
  kmsKey,    \* key[t]: the key t's call is about
  kmsCopy,   \* copy[t]: the stored key t is about to write
  minted,    \* materials generated so far
  kmsAcked,  \* history: what the last successful call on k left behind
  gone,      \* history: creation dates of the keys destroy_key answered for
  disturbed, \* history: calls on k overlapped or failed, or a crash tore k's file
  kmsCalls, kmsCrashes, kmsFailures

kmsHistory == <<kmsAcked, gone, disturbed>>
kmsBounds  == <<kmsCalls, kmsCrashes, kmsFailures>>
kmsVars    == <<kmsStore, kmsDisk, kmsPc, kmsKey, kmsCopy, minted, kmsHistory, kmsBounds>>

Versions   == [version : Nat, material : Nat]
StoredKeys == [born : Nat, version : Nat, material : Nat, previous : Seq(Versions)]

ASSUME KmsMarks == NoKey # TornKey /\ {NoKey, TornKey} \cap StoredKeys = {}

KmsInit ==
  /\ kmsStore  = [k \in Keys |-> NoKey]
  /\ kmsDisk   = [k \in Keys |-> NoKey]
  /\ kmsPc     = [t \in Tasks |-> "idle"]
  /\ kmsKey    = [t \in Tasks |-> CHOOSE k \in Keys : TRUE]
  /\ kmsCopy   = [t \in Tasks |-> NoKey]
  /\ minted    = 0
  /\ kmsAcked  = [k \in Keys |-> NoKey]
  /\ gone      = [k \in Keys |-> {}]
  /\ disturbed = [k \in Keys |-> FALSE]
  /\ kmsCalls  = 0 /\ kmsCrashes = 0 /\ kmsFailures = 0

Busy(k) == \E t \in Tasks : kmsPc[t] # "idle" /\ kmsKey[t] = k

-----------------------------------------------------------------------------
(* Stored keys *)

Fresh == [born |-> minted + 1, version |-> 1, material |-> minted + 1, previous |-> << >>]

\* The last MaxPrevious members of s.
Capped(s) == IF Len(s) > MaxPrevious THEN SubSeq(s, Len(s) - MaxPrevious + 1, Len(s)) ELSE s

\* Mistake: the version is not counted up.
SameVersion(sk) ==
  [sk EXCEPT !.material = minted + 1,
             !.previous = Capped(Append(@, [version |-> sk.version, material |-> sk.material]))]

Rotated(sk) ==
  [born     |-> sk.born,
   version  |-> sk.version + 1,
   material |-> minted + 1,
   previous |-> Capped(Append(sk.previous, [version |-> sk.version, material |-> sk.material]))]

-----------------------------------------------------------------------------
(* Operations.  The first step of each holds the write lock. *)

Begin(t, k, next) ==
  /\ kmsPc[t] = "idle"
  /\ kmsCalls < MaxCalls
  /\ kmsCalls'  = kmsCalls + 1
  /\ kmsPc'     = [kmsPc EXCEPT ![t] = next]
  /\ kmsKey'    = [kmsKey EXCEPT ![t] = k]
  /\ disturbed' = [disturbed EXCEPT ![k] = @ \/ Busy(k)]
  /\ UNCHANGED <<kmsDisk, kmsAcked, kmsCrashes, kmsFailures>>

\* create_key and create_signing_key replace what is there.
Create(t, k) ==
  /\ Begin(t, k, "save")
  /\ kmsStore' = [kmsStore EXCEPT ![k] = Fresh]
  /\ kmsCopy'  = [kmsCopy EXCEPT ![t] = Fresh]
  /\ minted'   = minted + 1
  /\ UNCHANGED gone

Rotate(t, k) ==
  /\ kmsStore[k] # NoKey
  /\ Begin(t, k, "reread")
  /\ kmsStore' = [kmsStore EXCEPT ![k] = Rotated(@)]
  /\ minted'   = minted + 1
  /\ UNCHANGED <<kmsCopy, gone>>

Destroy(t, k) ==
  /\ Begin(t, k, "unlink")
  /\ kmsStore' = [kmsStore EXCEPT ![k] = NoKey]
  /\ UNCHANGED <<kmsCopy, minted, gone>>

\* Mistake: what is saved is rotated once more.
RotatedAgain(t) == Rotated(kmsStore[kmsKey[t]])

ToSave(t) == kmsStore[kmsKey[t]]

\* rotate_key takes the read lock for a second look; a key that is gone by now
\* is not saved, and the rotation still succeeds.
Reread(t) ==
  /\ kmsPc[t] = "reread"
  /\ \/ /\ kmsStore[kmsKey[t]] = NoKey
        /\ kmsPc' = [kmsPc EXCEPT ![t] = "idle"]
        /\ UNCHANGED kmsCopy
     \/ /\ kmsStore[kmsKey[t]] # NoKey
        /\ kmsPc'   = [kmsPc EXCEPT ![t] = "save"]
        /\ kmsCopy' = [kmsCopy EXCEPT ![t] = ToSave(t)]
  /\ UNCHANGED <<kmsStore, kmsDisk, kmsKey, minted, kmsHistory, kmsBounds>>

\* Mistake: the file is written only when it is new.
SavedOnce(t) == IF kmsDisk[kmsKey[t]] = NoKey THEN [kmsDisk EXCEPT ![kmsKey[t]] = kmsCopy[t]] ELSE kmsDisk

Saved(t) == [kmsDisk EXCEPT ![kmsKey[t]] = kmsCopy[t]]

Save(t) ==
  /\ kmsPc[t] = "save"
  /\ kmsDisk'  = Saved(t)
  /\ kmsAcked' = [kmsAcked EXCEPT ![kmsKey[t]] = kmsCopy[t]]
  /\ kmsPc'    = [kmsPc EXCEPT ![t] = "idle"]
  /\ kmsCopy'  = [kmsCopy EXCEPT ![t] = NoKey]
  /\ UNCHANGED <<kmsStore, kmsKey, minted, gone, disturbed, kmsBounds>>

Unlink(t) ==
  /\ kmsPc[t] = "unlink"
  /\ kmsDisk'  = [kmsDisk EXCEPT ![kmsKey[t]] = NoKey]
  /\ kmsAcked' = [kmsAcked EXCEPT ![kmsKey[t]] = NoKey]
  /\ gone'     = IF kmsStore[kmsKey[t]] = NoKey /\ kmsAcked[kmsKey[t]] # NoKey
                  THEN [gone EXCEPT ![kmsKey[t]] = @ \cup {kmsAcked[kmsKey[t]].born}] ELSE gone
  /\ kmsPc' = [kmsPc EXCEPT ![t] = "idle"]
  /\ UNCHANGED <<kmsStore, kmsKey, kmsCopy, minted, disturbed, kmsBounds>>

\* Writing or removing the file fails, or the future is dropped at its await.
\* What was done to the map stays.
Fail(t) ==
  /\ kmsPc[t] # "idle"
  /\ kmsFailures < MaxFailures
  /\ kmsFailures' = kmsFailures + 1
  /\ disturbed'   = [disturbed EXCEPT ![kmsKey[t]] = TRUE]
  /\ kmsPc'       = [kmsPc EXCEPT ![t] = "idle"]
  /\ kmsCopy'     = [kmsCopy EXCEPT ![t] = NoKey]
  /\ \/ UNCHANGED kmsDisk
     \/ kmsPc[t] = "save" /\ kmsDisk' = [kmsDisk EXCEPT ![kmsKey[t]] = TornKey]
  /\ UNCHANGED <<kmsStore, kmsKey, minted, kmsAcked, gone, kmsCalls, kmsCrashes>>

\* load_keys_from_disk: a file that does not deserialize is passed over.
Loaded(files) == [k \in Keys |-> IF files[k] = TornKey THEN NoKey ELSE files[k]]

\* The process dies and comes back through from_config.  fs::write empties the
\* file before it writes: the files being saved may be left torn.
Crash ==
  /\ kmsCrashes < MaxCrashes
  /\ kmsCrashes' = kmsCrashes + 1
  /\ \E torn \in SUBSET {kmsKey[t] : t \in {u \in Tasks : kmsPc[u] = "save"}} :
       /\ kmsDisk'      = [k \in Keys |-> IF k \in torn THEN TornKey ELSE kmsDisk[k]]
       /\ disturbed' = [k \in Keys |-> disturbed[k] \/ k \in torn]
  /\ kmsStore' = Loaded(kmsDisk')
  /\ kmsPc'    = [t \in Tasks |-> "idle"]
  /\ kmsCopy'  = [t \in Tasks |-> NoKey]
  /\ UNCHANGED <<kmsKey, minted, kmsAcked, gone, kmsCalls, kmsFailures>>

KmsNext ==
  \/ \E t \in Tasks, k \in Keys : Create(t, k) \/ Rotate(t, k) \/ Destroy(t, k)
  \/ \E t \in Tasks : Reread(t) \/ Save(t) \/ Unlink(t) \/ Fail(t)
  \/ Crash

KmsSpec == KmsInit /\ [][KmsNext]_kmsVars
-----------------------------------------------------------------------------
(* Properties *)

KmsTypeOK ==
  /\ kmsStore \in [Keys -> StoredKeys \cup {NoKey}]
  /\ kmsDisk \in [Keys -> StoredKeys \cup {NoKey, TornKey}]
  /\ kmsPc \in [Tasks -> {"idle", "reread", "save", "unlink"}]
  /\ kmsKey \in [Tasks -> Keys]
  /\ kmsCopy \in [Tasks -> StoredKeys \cup {NoKey}]
  /\ minted \in Nat
  /\ kmsAcked \in [Keys -> StoredKeys \cup {NoKey}]
  /\ gone \in [Keys -> SUBSET Nat]
  /\ disturbed \in [Keys -> BOOLEAN]
  /\ kmsCalls \in Nat /\ kmsCrashes \in Nat /\ kmsFailures \in Nat

\* Everything known of key k: in the map, in its file, on the way there.
Records(k) ==
  ({kmsStore[k], kmsDisk[k]} \cup {kmsCopy[t] : t \in {u \in Tasks : kmsKey[u] = k}}) \ {NoKey, TornKey}

\* A stored key keeps the versions just before its own, as many as it may.
LinedUp(sk) ==
  /\ Len(sk.previous) = IF sk.version - 1 < MaxPrevious THEN sk.version - 1 ELSE MaxPrevious
  /\ \A i \in 1 .. Len(sk.previous) :
       sk.previous[i].version = sk.version - Len(sk.previous) - 1 + i

\* The versions a stored key can still be used with.
Usable(sk) == {[version |-> sk.version, material |-> sk.material]} \cup Range(sk.previous)

\* However calls overlap, fail and crash, a key in the map, in its file or on the
\* way there keeps the versions just before its own without a gap, and a version
\* of it means one material in all of them.  The file never runs ahead of the map:
\* no version reaches the file that the same key in the map does not have.
LineagesAgree ==
  /\ KmsTypeOK
  /\ \A k \in Keys : \A sk \in Records(k) : LinedUp(sk)
  /\ \A k \in Keys : \A a, b \in Records(k) : a.born = b.born =>
       \A v \in Usable(a), w \in Usable(b) : v.version = w.version => v.material = w.material
  /\ \A k \in Keys :
       kmsStore[k] # NoKey /\ kmsDisk[k] \notin {NoKey, TornKey} /\ kmsDisk[k].born = kmsStore[k].born =>
         kmsDisk[k].version <= kmsStore[k].version

\* While nobody works on a key, and as long as calls on it neither overlapped
\* nor failed and no crash tore its file, map and file hold what the last
\* successful call left behind, whatever crashes in between.
Durable ==
  \A k \in Keys : ~disturbed[k] /\ ~Busy(k) => kmsStore[k] = kmsAcked[k] /\ kmsDisk[k] = kmsAcked[k]

-----------------------------------------------------------------------------
(* What KeyManagementService::destroy_key promises and the code does not keep. *)

\* A key that was created, and then destroyed, is not in the map again.
DestroyedStaysDestroyed == \A k \in Keys : kmsStore[k] # NoKey => kmsStore[k].born \notin gone[k]
=============================================================================
