------------------------------ MODULE DataKeys ------------------------------
(***************************************************************************)
(* The keys of knowledge-core beyond the KMS itself: the scheduler that    *)
(* rotates them and the data keys of envelope encryption with their cache. *)
(* The two share no state.                                                 *)
(***************************************************************************)
EXTENDS Naturals, Sequences, FiniteSets, SequencesExt

(***************************************************************************)
(* KeyRotationScheduler of knowledge-core (kms/rotation.rs): the schedule, *)
(* the history, the tasks start() spawns and the callers of rotate_now.    *)
(*                                                                         *)
(* The KMS behind it is what its trait promises: rotate_key makes the next *)
(* version and answers with it, or fails (LocalKms models how it does so). *)
(* start() forgets the task it started before, which goes on; stop() and   *)
(* drop abort the last one only.  Events go to a receiver that is dropped  *)
(* at once and are left out.                                               *)
(***************************************************************************)

CONSTANTS
  RotKeys, RotWorkers, RotCallers,
  RotInterval,    \* interval_seconds of every key
  RotMaxTime,     \* bound: clock
  RotMaxVersions  \* bound: rotations of a key

ASSUME RotConstants == {RotInterval, RotMaxTime, RotMaxVersions} \subseteq Nat

VARIABLES
  rotNow,      \* the clock
  rotVersion,  \* rotVersion[k]: the version of k in the KMS
  rotNext,     \* rotNext[k]: next_rotation of k in the schedule
  rotHist,     \* the history: [key, version]
  rotWorker,   \* rotWorker[w]: a spawned task: its step, the due keys it has
               \*   left, the one in hand, the time it read, what it was answered
  rotHandle,   \* the task stop() would abort: {} or its singleton
  rotCall,     \* rotCall[c]: a rotate_now: its step, key and version
  rotLost      \* history: rotations whose task was aborted before it recorded them

rotVars == <<rotNow, rotVersion, rotNext, rotHist, rotWorker, rotHandle, rotCall, rotLost>>

RotInit ==
  /\ rotNow = 0 /\ rotHist = << >> /\ rotHandle = {} /\ rotLost = {}
  /\ rotVersion = [k \in RotKeys |-> 1]
  /\ rotNext    = << >>
  /\ rotWorker  = [w \in RotWorkers |-> [at |-> "new", due |-> {}, key |-> {}, now |-> 0, made |-> {}]]
  /\ rotCall    = [c \in RotCallers |-> [at |-> "idle", made |-> {}]]

-----------------------------------------------------------------------------
RotRegister(k) ==
  /\ rotNext' = [x \in DOMAIN rotNext \cup {k} |->
                   IF x = k THEN rotNow + RotInterval ELSE rotNext[x]]
  /\ UNCHANGED <<rotNow, rotVersion, rotHist, rotWorker, rotHandle, rotCall, rotLost>>

RotUnregister(k) ==
  /\ k \in DOMAIN rotNext
  /\ rotNext' = [x \in DOMAIN rotNext \ {k} |-> rotNext[x]]
  /\ UNCHANGED <<rotNow, rotVersion, rotHist, rotWorker, rotHandle, rotCall, rotLost>>

RotStart(w) ==
  /\ rotWorker[w].at = "new"
  /\ rotWorker' = [rotWorker EXCEPT ![w].at = "tick"]
  /\ rotHandle' = {w}
  /\ UNCHANGED <<rotNow, rotVersion, rotNext, rotHist, rotCall, rotLost>>

\* The task ends at its next await; what it was answered is forgotten.
RotStop ==
  \E w \in rotHandle :
    /\ rotHandle' = {}
    /\ rotLost'   = rotLost \cup rotWorker[w].made
    /\ rotWorker' = [rotWorker EXCEPT ![w] = [@ EXCEPT !.at = "done", !.due = {}, !.key = {}, !.made = {}]]
    /\ UNCHANGED <<rotNow, rotVersion, rotNext, rotHist, rotCall>>

RotReschedule(k, now) ==
  rotNext' = IF k \in DOMAIN rotNext THEN [rotNext EXCEPT ![k] = now + RotInterval] ELSE rotNext

\* A tick of the task: it notes the due keys and the time.
RotTick(w) ==
  /\ rotWorker[w].at = "tick"
  /\ LET due == {k \in DOMAIN rotNext : rotNow >= rotNext[k]}
     IN  /\ due # {}
         /\ rotWorker' = [rotWorker EXCEPT ![w] = [at |-> "rotate", due |-> due, key |-> {}, now |-> rotNow, made |-> {}]]
  /\ UNCHANGED <<rotNow, rotVersion, rotNext, rotHist, rotHandle, rotCall, rotLost>>

\* It rotates one of them, or fails to.
RotRotate(w) ==
  /\ rotWorker[w].at = "rotate"
  /\ \E k \in rotWorker[w].due :
       \/ /\ rotVersion[k] < RotMaxVersions
          /\ rotVersion' = [rotVersion EXCEPT ![k] = @ + 1]
          /\ rotWorker'  = [rotWorker EXCEPT ![w] = [@ EXCEPT
                              !.at = "record", !.key = {k},
                              !.made = {[key |-> k, version |-> rotVersion[k] + 1]}]]
       \/ /\ rotWorker' = [rotWorker EXCEPT ![w] = [@ EXCEPT !.at = "reschedule", !.key = {k}]]
          /\ UNCHANGED rotVersion
  /\ UNCHANGED <<rotNow, rotNext, rotHist, rotHandle, rotCall, rotLost>>

\* Mistake: the record names the version the key has by now.
RotRecordCurrent(r) == [r EXCEPT !.version = rotVersion[r.key]]

RotRecordOf(r) == r

\* It records what it rotated, ...
RotRecord(w) ==
  /\ rotWorker[w].at = "record"
  /\ \E r \in rotWorker[w].made : rotHist' = Append(rotHist, RotRecordOf(r))
  /\ rotWorker' = [rotWorker EXCEPT ![w] = [@ EXCEPT !.at = "reschedule", !.made = {}]]
  /\ UNCHANGED <<rotNow, rotVersion, rotNext, rotHandle, rotCall, rotLost>>

\* ... and schedules the key anew, rotated or not, from the time of the tick.
RotPostpone(w) ==
  /\ rotWorker[w].at = "reschedule"
  /\ \E k \in rotWorker[w].key : RotReschedule(k, rotWorker[w].now)
  /\ LET left == rotWorker[w].due \ rotWorker[w].key
     IN  rotWorker' = [rotWorker EXCEPT ![w] = [@ EXCEPT
           !.at = IF left = {} THEN "tick" ELSE "rotate", !.due = left, !.key = {}]]
  /\ UNCHANGED <<rotNow, rotVersion, rotHist, rotHandle, rotCall, rotLost>>

-----------------------------------------------------------------------------
\* rotate_now rotates whether or not the key is due or registered, ...
RotCall(c, k) ==
  /\ rotCall[c].at = "idle" /\ rotVersion[k] < RotMaxVersions
  /\ rotVersion' = [rotVersion EXCEPT ![k] = @ + 1]
  /\ rotCall'    = [rotCall EXCEPT ![c] = [at |-> "reschedule",
                                           made |-> {[key |-> k, version |-> rotVersion[k] + 1]}]]
  /\ UNCHANGED <<rotNow, rotNext, rotHist, rotWorker, rotHandle, rotLost>>

\* ... schedules it anew ...
RotCallReschedule(c) ==
  /\ rotCall[c].at = "reschedule"
  /\ \E r \in rotCall[c].made : RotReschedule(r.key, rotNow)
  /\ rotCall' = [rotCall EXCEPT ![c].at = "record"]
  /\ UNCHANGED <<rotNow, rotVersion, rotHist, rotWorker, rotHandle, rotLost>>

\* ... and records it.
RotCallRecord(c) ==
  /\ rotCall[c].at = "record"
  /\ \E r \in rotCall[c].made : rotHist' = Append(rotHist, RotRecordOf(r))
  /\ rotCall' = [rotCall EXCEPT ![c] = [at |-> "idle", made |-> {}]]
  /\ UNCHANGED <<rotNow, rotVersion, rotNext, rotWorker, rotHandle, rotLost>>

RotTime ==
  /\ rotNow < RotMaxTime
  /\ rotNow' = rotNow + 1
  /\ UNCHANGED <<rotVersion, rotNext, rotHist, rotWorker, rotHandle, rotCall, rotLost>>

RotStep ==
  \/ \E k \in RotKeys : RotRegister(k) \/ RotUnregister(k)
  \/ \E w \in RotWorkers : RotStart(w) \/ RotTick(w) \/ RotRotate(w) \/ RotRecord(w) \/ RotPostpone(w)
  \/ \E c \in RotCallers : RotCallReschedule(c) \/ RotCallRecord(c) \/ \E k \in RotKeys : RotCall(c, k)
  \/ RotStop \/ RotTime

RotSpec == RotInit /\ [][RotStep]_rotVars
-----------------------------------------------------------------------------
(* Properties *)

RotPending ==
  (UNION {rotWorker[w].made : w \in RotWorkers}) \cup (UNION {rotCall[c].made : c \in RotCallers})

\* However tasks and callers interleave, the history holds each rotation of a
\* key exactly once: those made so far are recorded, about to be, or were lost
\* to an aborted task; and no key is scheduled further than one interval ahead.
RotHistoryExact ==
  LET made == {[key |-> k, version |-> v] : k \in RotKeys, v \in 2 .. RotMaxVersions}
      done == {r \in made : r.version <= rotVersion[r.key]}
      kept == {rotHist[i] : i \in DOMAIN rotHist}
  IN  /\ Cardinality(kept) = Len(rotHist)
      /\ kept \cup RotPending \cup rotLost = done
      /\ kept \cap (RotPending \cup rotLost) = {}
      /\ \A k \in DOMAIN rotNext : rotNext[k] <= rotNow + RotInterval

-----------------------------------------------------------------------------
(***************************************************************************)
(* Envelope encryption (kms/envelope.rs): data is encrypted with a key of  *)
(* its own (a DEK) that a KMS made, and the opened DEKs are kept in a cache *)
(* of limited size and age.  encrypt_data, encrypt_batch and encrypt_large *)
(* are one operation on a list of pieces, as are the three that decrypt.   *)
(*                                                                         *)
(* The KMS is what the trait promises: it makes a fresh DEK, opens it again *)
(* and encrypts with it, or fails.  A DEK stands for its id and for its    *)
(* key, and a ciphertext is the key and the piece.                         *)
(***************************************************************************)

CONSTANTS
  EnvTasks,
  EnvCapacity,  \* cache_size
  EnvTtl,       \* age at which a cached DEK is no longer used: an hour
  EnvPiece,     \* chunk_size of encrypt_large
  EnvSizes,     \* lengths of the data
  EnvMaxDeks,   \* bound: DEKs made
  EnvMaxTime    \* bound: the clock

ASSUME EnvConstants ==
  /\ EnvCapacity \in Nat \ {0} /\ EnvPiece \in Nat \ {0} /\ EnvTtl \in Nat \ {0}
  /\ EnvSizes \subseteq Nat /\ {EnvMaxDeks, EnvMaxTime} \subseteq Nat

VARIABLES
  envCache,   \* least recently put first: [dek, key, expires]
  envLock,    \* the task that holds the cache's lock for writing, or EnvFree
  envTask,    \* envTask[t]: what it does, the pieces left, the DEK in hand, what is done
  envStored,  \* lists of enveloped pieces that an encryption returned, with their data
  envAnswers, \* history: [want, got] of the decryptions that succeeded
  envBroken,  \* history: a decryption failed although the KMS did not
  envDeks,    \* DEKs made so far
  envTime

envVars == <<envCache, envLock, envTask, envStored, envAnswers, envBroken, envDeks, envTime>>

EnvFree == "free"
EnvCall(op, left, data) == [op |-> op, left |-> left, dek |-> 0, done |-> << >>, data |-> data]
EnvIdle == EnvCall("idle", << >>, << >>)

\* A piece before it is encrypted.
EnvPlain(text) == [dek |-> 0, key |-> 0, text |-> text]

EnvInit ==
  /\ envCache = << >> /\ envLock = EnvFree
  /\ envTask = [t \in EnvTasks |-> EnvIdle]
  /\ envStored = {} /\ envAnswers = {}
  /\ envBroken = FALSE
  /\ envDeks = 0 /\ envTime = 0

EnvData(size) == [i \in 1 .. size |-> i]

\* Mistake: the last piece is left out when it is not a whole one.
EnvWholePieces(data) ==
  IF Len(data) <= EnvPiece THEN <<data>>
  ELSE [i \in 1 .. Len(data) \div EnvPiece |-> SubSeq(data, (i - 1) * EnvPiece + 1, i * EnvPiece)]

\* data.chunks(chunk_size); short data, even none, is one piece.
EnvPieces(data) ==
  IF Len(data) <= EnvPiece THEN <<data>>
  ELSE [i \in 1 .. (Len(data) + EnvPiece - 1) \div EnvPiece |->
          SubSeq(data, (i - 1) * EnvPiece + 1, IF i * EnvPiece < Len(data) THEN i * EnvPiece ELSE Len(data))]

EnvBegin(t, size) ==
  /\ envTask[t] = EnvIdle
  /\ envTask' = [envTask EXCEPT ![t] =
       EnvCall("generate", [i \in DOMAIN EnvPieces(EnvData(size)) |-> EnvPlain(EnvPieces(EnvData(size))[i])],
               EnvData(size))]
  /\ UNCHANGED <<envCache, envLock, envStored, envAnswers, envBroken, envDeks, envTime>>

\* A call of the KMS fails: the operation returns the error with nothing of what
\* it has done, and lets go of the lock.
EnvFail(t) ==
  /\ envTask[t].op \in {"generate", "locked", "encrypt", "ask"}
  /\ envTask' = [envTask EXCEPT ![t] = EnvIdle]
  /\ envLock' = IF envLock = t THEN EnvFree ELSE envLock
  /\ UNCHANGED <<envCache, envStored, envAnswers, envBroken, envDeks, envTime>>

\* generate_dek
EnvGenerate(t) ==
  /\ envTask[t].op = "generate" /\ envDeks < EnvMaxDeks
  /\ envDeks' = envDeks + 1
  /\ envTask' = [envTask EXCEPT ![t] = [@ EXCEPT !.op = "generated", !.dek = envDeks + 1]]
  /\ UNCHANGED <<envCache, envLock, envStored, envAnswers, envBroken, envTime>>

\* dek_cache.write(), held while the KMS opens the DEK
EnvTakeLock(t) ==
  /\ envTask[t].op = "generated" /\ envLock = EnvFree
  /\ envLock' = t
  /\ envTask' = [envTask EXCEPT ![t].op = "locked"]
  /\ UNCHANGED <<envCache, envStored, envAnswers, envBroken, envDeks, envTime>>

\* Mistake: nothing is removed for the new one.
EnvPutMore(cache, dek) == Append(cache, [dek |-> dek, key |-> dek, expires |-> envTime + EnvTtl])

\* LruCache::put; peek leaves the order alone, so the oldest entry goes.
EnvPut(cache, dek) ==
  LET all == Append(cache, [dek |-> dek, key |-> dek, expires |-> envTime + EnvTtl])
  IN  IF Len(all) > EnvCapacity THEN Tail(all) ELSE all

EnvRemember(t) ==
  /\ envTask[t].op = "locked"
  /\ envCache' = EnvPut(envCache, envTask[t].dek)
  /\ envLock' = EnvFree
  /\ envTask' = [envTask EXCEPT ![t].op = "encrypt"]
  /\ UNCHANGED <<envStored, envAnswers, envBroken, envDeks, envTime>>

\* kms.encrypt; behind the last piece the operation returns.
EnvEncrypt(t) ==
  /\ envTask[t].op = "encrypt"
  /\ LET me   == envTask[t]
         done == Append(me.done, [Head(me.left) EXCEPT !.dek = me.dek, !.key = me.dek])
     IN  IF Len(me.left) > 1
           THEN /\ envTask' = [envTask EXCEPT ![t] =
                     [me EXCEPT !.op = "generate", !.left = Tail(me.left), !.done = done]]
                /\ UNCHANGED envStored
           ELSE /\ envTask' = [envTask EXCEPT ![t] = EnvIdle]
                /\ envStored' = envStored \cup {[data |-> me.data, pieces |-> done]}
  /\ UNCHANGED <<envCache, envLock, envAnswers, envBroken, envDeks, envTime>>

EnvOpen(t, e) ==
  /\ envTask[t] = EnvIdle /\ e \in envStored
  /\ envTask' = [envTask EXCEPT ![t] = EnvCall("open", e.pieces, e.data)]
  /\ UNCHANGED <<envCache, envLock, envStored, envAnswers, envBroken, envDeks, envTime>>

\* A piece is open; behind the last one the answer is what they hold, in order.
EnvOpened(t, text) ==
  LET me   == envTask[t]
      done == Append(me.done, EnvPlain(text))
  IN  IF Len(me.left) > 1
        THEN /\ envTask' = [envTask EXCEPT ![t] =
                  [me EXCEPT !.op = "open", !.left = Tail(me.left), !.done = done]]
             /\ UNCHANGED envAnswers
        ELSE /\ envTask' = [envTask EXCEPT ![t] = EnvIdle]
             /\ envAnswers' = envAnswers \cup {[want |-> me.data, got |-> FlattenSeq([i \in DOMAIN done |-> done[i].text])]}

\* Mistake: any entry will do.
EnvCachedAny(dek) == {i \in 1 .. Len(envCache) : envTime < envCache[i].expires}

\* The entries under a DEK's id that are still good.
EnvCached(dek) == {i \in 1 .. Len(envCache) : envCache[i].dek = dek /\ envTime < envCache[i].expires}

\* decrypt_data with the cache, under its lock for reading: AES-GCM refuses a key
\* that is not the one that encrypted.  Without an entry the KMS is asked.
EnvTryCache(t) ==
  /\ envTask[t].op = "open" /\ envLock = EnvFree
  /\ LET piece == Head(envTask[t].left)
     IN  IF EnvCached(piece.dek) = {}
           THEN envTask' = [envTask EXCEPT ![t].op = "ask"] /\ UNCHANGED <<envAnswers, envBroken>>
         ELSE IF \E i \in EnvCached(piece.dek) : envCache[i].key = piece.key
           THEN EnvOpened(t, piece.text) /\ UNCHANGED envBroken
           ELSE /\ envTask' = [envTask EXCEPT ![t] = EnvIdle]
                /\ envBroken' = TRUE /\ UNCHANGED envAnswers
  /\ UNCHANGED <<envCache, envLock, envStored, envDeks, envTime>>

\* kms.decrypt
EnvAskKms(t) ==
  /\ envTask[t].op = "ask"
  /\ EnvOpened(t, Head(envTask[t].left).text)
  /\ UNCHANGED <<envCache, envLock, envStored, envBroken, envDeks, envTime>>

EnvClear ==
  /\ envLock = EnvFree /\ envCache # << >>
  /\ envCache' = << >>
  /\ UNCHANGED <<envLock, envTask, envStored, envAnswers, envBroken, envDeks, envTime>>

EnvTick == envTime < EnvMaxTime /\ envTime' = envTime + 1
             /\ UNCHANGED <<envCache, envLock, envTask, envStored, envAnswers, envBroken, envDeks>>

EnvNext ==
  \/ \E t \in EnvTasks :
       \/ \E size \in EnvSizes : EnvBegin(t, size)
       \/ \E e \in envStored : EnvOpen(t, e)
       \/ EnvFail(t) \/ EnvGenerate(t) \/ EnvTakeLock(t) \/ EnvRemember(t) \/ EnvEncrypt(t)
       \/ EnvTryCache(t) \/ EnvAskKms(t)
  \/ EnvClear \/ EnvTick

EnvSpec == EnvInit /\ [][EnvNext]_envVars

-----------------------------------------------------------------------------

\* Whatever was encrypted opens again as it was, whole and in order, with the
\* cache and without it, unless the KMS fails; a key in the cache is the one its
\* id names, once, and the cache keeps to its size.
EnvelopesOpen ==
  /\ \A a \in envAnswers : a.got = a.want
  /\ ~envBroken
  /\ Len(envCache) <= EnvCapacity
  /\ \A i, j \in 1 .. Len(envCache) :
       /\ envCache[i].key = envCache[i].dek /\ envCache[i].dek \in 1 .. envDeks
       /\ envCache[i].dek = envCache[j].dek => i = j

\* Keys: what the scheduler records of its rotations is what happened, and what was
\* put into an envelope comes out of it.
KeysSound == RotHistoryExact /\ EnvelopesOpen
=============================================================================
