---------------------------- MODULE TwoLevelCache ----------------------------
(***************************************************************************)
(* CacheManager of knowledge-core (cache/cache_manager.rs) over L1Cache    *)
(* (moka, in memory) and L2Cache (Redis).  Every access to a level is an   *)
(* await of its own, so calls on the same key come in between; entries of  *)
(* either level may expire or be evicted at any time, and a command to     *)
(* Redis may fail, having been carried out or not.  A value is the number  *)
(* of the set() that brought it; 0 is no entry.                            *)
(***************************************************************************)
EXTENDS Naturals, FiniteSets

CONSTANTS
  CacheKeys, CacheCallers,
  CacheMaxSets,    \* bound: calls of set
  CacheMaxRemoves, \* bound: calls of invalidate, invalidate_prefix and clear
  CacheMaxFailures \* bound: failing commands

ASSUME CacheConstants == {CacheMaxSets, CacheMaxRemoves, CacheMaxFailures} \subseteq Nat

VARIABLES
  cachePolicy,    \* write_policy; "none" before the manager is built
  cacheL1, cacheL2,
  cacheCall,      \* cacheCall[c]: its step, the keys it is about, its value
  cacheSets, cacheRemoves, cacheFailures,
  cacheLast,      \* history: cacheLast[k]: what the last finished call left k at
  cacheDisturbed, \* history: keys on which a write overlapped another call, or
                  \*   met a failure
  cacheWritten    \* history: values Redis took

cacheVars == <<cachePolicy, cacheL1, cacheL2, cacheCall, cacheSets, cacheRemoves, cacheFailures,
               cacheLast, cacheDisturbed, cacheWritten>>

CacheIdle == [at |-> "idle", keys |-> {}, val |-> 0]

CacheInit ==
  /\ cachePolicy = "none"
  /\ cacheL1 = [k \in CacheKeys |-> 0] /\ cacheL2 = [k \in CacheKeys |-> 0]
  /\ cacheCall = [c \in CacheCallers |-> CacheIdle]
  /\ cacheSets = 0 /\ cacheRemoves = 0 /\ cacheFailures = 0
  /\ cacheLast = [k \in CacheKeys |-> 0] /\ cacheDisturbed = {} /\ cacheWritten = {}

CacheReads  == {"get", "fill"}
CacheWrites == {"set1", "set2", "remove2", "remove1", "flush"}

\* Keys some call of one of these kinds is at.
CacheBusy(steps) == UNION {cacheCall[c].keys : c \in {x \in CacheCallers : cacheCall[x].at \in steps}}

\* A call starts; a write that meets another call, or a read that meets a write.
CacheStart(c, at, keys, val) ==
  /\ cachePolicy # "none" /\ cacheCall[c].at = "idle"
  /\ cacheCall' = [cacheCall EXCEPT ![c] = [at |-> at, keys |-> keys, val |-> val]]
  /\ cacheDisturbed' = cacheDisturbed \cup
       (keys \cap CacheBusy(IF at \in CacheReads THEN CacheWrites ELSE CacheReads \cup CacheWrites))
  /\ UNCHANGED <<cachePolicy, cacheFailures, cacheWritten>>

CacheGoTo(c, at) == cacheCall' = [cacheCall EXCEPT ![c] = IF at = "idle" THEN CacheIdle ELSE [@ EXCEPT !.at = at]]

CacheKept == <<cachePolicy, cacheSets, cacheRemoves>>

\* A command to Redis fails.
CacheFails(keys) ==
  /\ cacheFailures < CacheMaxFailures
  /\ cacheFailures' = cacheFailures + 1
  /\ cacheDisturbed' = cacheDisturbed \cup keys

CacheBuild(p) ==
  /\ cachePolicy = "none" /\ cachePolicy' = p
  /\ UNCHANGED <<cacheL1, cacheL2, cacheCall, cacheSets, cacheRemoves, cacheFailures,
                 cacheLast, cacheDisturbed, cacheWritten>>

-----------------------------------------------------------------------------
\* get: a hit in L1 answers at once and changes nothing, a miss asks L2, ...
CacheGet(c, k) ==
  /\ cacheL1[k] = 0
  /\ CacheStart(c, "get", {k}, 0)
  /\ UNCHANGED <<cacheL1, cacheL2, cacheSets, cacheRemoves, cacheLast>>

\* ... which misses (or fails, which is logged), or whose value ...
CacheLookup(c) ==
  /\ cacheCall[c].at = "get"
  /\ \E k \in cacheCall[c].keys :
       cacheCall' = [cacheCall EXCEPT ![c] =
         IF cacheL2[k] = 0 THEN CacheIdle ELSE [at |-> "fill", keys |-> {k}, val |-> cacheL2[k]]]
  /\ UNCHANGED <<CacheKept, cacheL1, cacheL2, cacheFailures, cacheLast, cacheDisturbed, cacheWritten>>

\* ... is put into L1.
CacheFill(c) ==
  /\ cacheCall[c].at = "fill"
  /\ cacheL1' = [k \in CacheKeys |-> IF k \in cacheCall[c].keys THEN cacheCall[c].val ELSE cacheL1[k]]
  /\ CacheGoTo(c, "idle")
  /\ UNCHANGED <<CacheKept, cacheL2, cacheFailures, cacheLast, cacheDisturbed, cacheWritten>>

\* set: through L2 to L1, L1 and then L2, or neither.
CacheSet(c, k) ==
  /\ cachePolicy # "WriteAround" /\ cacheSets < CacheMaxSets
  /\ cacheSets' = cacheSets + 1
  /\ CacheStart(c, IF cachePolicy = "WriteThrough" THEN "set2" ELSE "set1", {k}, cacheSets + 1)
  /\ UNCHANGED <<cacheL1, cacheL2, cacheRemoves, cacheLast>>

\* What follows the write of a level; the call's end makes its value the last.
CacheAfterSet(c, at) ==
  /\ CacheGoTo(c, at)
  /\ cacheLast' = IF at # "idle" THEN cacheLast
                  ELSE [k \in CacheKeys |-> IF k \in cacheCall[c].keys THEN cacheCall[c].val ELSE cacheLast[k]]

CacheSet1(c) ==
  /\ cacheCall[c].at = "set1"
  /\ cacheL1' = [k \in CacheKeys |-> IF k \in cacheCall[c].keys THEN cacheCall[c].val ELSE cacheL1[k]]
  /\ CacheAfterSet(c, IF cachePolicy = "WriteThrough" THEN "idle" ELSE "set2")
  /\ UNCHANGED <<CacheKept, cacheL2, cacheFailures, cacheDisturbed, cacheWritten>>

CacheStored2(c) ==
  /\ cacheL2' = [k \in CacheKeys |-> IF k \in cacheCall[c].keys THEN cacheCall[c].val ELSE cacheL2[k]]
  /\ cacheWritten' = cacheWritten \cup {cacheCall[c].val}

\* Mistake: a failed write to L2 does not end the call.
CacheFailureIgnored == IF cachePolicy = "WriteThrough" THEN "set1" ELSE "idle"

\* A failed write to L2 ends the call: an error when writing through, else logged.
CacheAfterFailure == "idle"

CacheSet2(c) ==
  /\ cacheCall[c].at = "set2"
  /\ \/ /\ CacheStored2(c)
        /\ CacheAfterSet(c, IF cachePolicy = "WriteThrough" THEN "set1" ELSE "idle")
        /\ UNCHANGED <<cacheFailures, cacheDisturbed>>
     \/ /\ CacheFails(cacheCall[c].keys)
        /\ CacheStored2(c) \/ UNCHANGED <<cacheL2, cacheWritten>>
        /\ CacheGoTo(c, CacheAfterFailure)
        /\ UNCHANGED cacheLast
  /\ UNCHANGED <<CacheKept, cacheL1>>

\* invalidate and invalidate_prefix: L2, whose error is logged, then L1 ...
CacheInvalidate(c, keys) ==
  /\ cacheRemoves < CacheMaxRemoves
  /\ cacheRemoves' = cacheRemoves + 1
  /\ CacheStart(c, "remove2", keys, 0)
  /\ UNCHANGED <<cacheL1, cacheL2, cacheSets, cacheLast>>

\* ... and clear: L1 first, then L2.
CacheClear(c) ==
  /\ cacheRemoves < CacheMaxRemoves
  /\ cacheRemoves' = cacheRemoves + 1
  /\ cacheL1' = [k \in CacheKeys |-> 0]
  /\ CacheStart(c, "flush", CacheKeys, 0)
  /\ UNCHANGED <<cacheL2, cacheSets, cacheLast>>

CacheRemoved(c, level) == [k \in CacheKeys |-> IF k \in cacheCall[c].keys THEN 0 ELSE level[k]]

CacheRemove2(c) ==
  /\ cacheCall[c].at \in {"remove2", "flush"}
  /\ LET next == IF cacheCall[c].at = "flush" THEN "idle" ELSE "remove1"
     IN  \/ /\ cacheL2' = CacheRemoved(c, cacheL2)
            /\ CacheAfterSet(c, next)
            /\ UNCHANGED <<cacheFailures, cacheDisturbed>>
         \/ /\ CacheFails(cacheCall[c].keys)
            /\ CacheAfterSet(c, next)
            /\ UNCHANGED cacheL2
  /\ UNCHANGED <<CacheKept, cacheL1, cacheWritten>>

CacheRemove1(c) ==
  /\ cacheCall[c].at = "remove1"
  /\ cacheL1' = CacheRemoved(c, cacheL1)
  /\ CacheAfterSet(c, "idle")
  /\ UNCHANGED <<CacheKept, cacheL2, cacheFailures, cacheDisturbed, cacheWritten>>

\* An entry of a level expires or is evicted.
CacheExpire(k) ==
  /\ \/ cacheL1[k] # 0 /\ cacheL1' = [cacheL1 EXCEPT ![k] = 0] /\ UNCHANGED cacheL2
     \/ cacheL2[k] # 0 /\ cacheL2' = [cacheL2 EXCEPT ![k] = 0] /\ UNCHANGED cacheL1
  /\ UNCHANGED <<CacheKept, cacheCall, cacheFailures, cacheLast, cacheDisturbed, cacheWritten>>

CacheNext ==
  \/ \E p \in {"WriteThrough", "WriteBehind", "WriteAround"} : CacheBuild(p)
  \/ \E c \in CacheCallers :
       \/ \E k \in CacheKeys : CacheGet(c, k) \/ CacheSet(c, k)
       \/ \E keys \in (SUBSET CacheKeys) \ {{}} : CacheInvalidate(c, keys)
       \/ CacheLookup(c) \/ CacheFill(c) \/ CacheSet1(c) \/ CacheSet2(c)
       \/ CacheClear(c) \/ CacheRemove2(c) \/ CacheRemove1(c)
  \/ \E k \in CacheKeys : CacheExpire(k)

CacheSpec == CacheInit /\ [][CacheNext]_cacheVars
-----------------------------------------------------------------------------
(* Properties *)

\* Under write-through, a value in L1 is one Redis took, whatever fails and
\* whoever else writes.  And a key on which writes kept to themselves and met
\* no failure is never served stale: each level holds its last value or
\* nothing, even while gets fill L1 and entries expire.
CacheCoherent ==
  \A k \in CacheKeys :
    /\ cachePolicy = "WriteThrough" /\ cacheL1[k] # 0 => cacheL1[k] \in cacheWritten
    /\ k \notin cacheDisturbed \cup CacheBusy(CacheWrites) =>
         {cacheL1[k], cacheL2[k]} \subseteq {0, cacheLast[k]}
=============================================================================
