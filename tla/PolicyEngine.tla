----------------------------- MODULE PolicyEngine -----------------------------
(***************************************************************************)
(* The policy engine of knowledge-api (authz/engine.rs): the cache of      *)
(* decisions, single and batched calls, and the change of policies under   *)
(* running calls.                                                          *)
(*                                                                         *)
(* A call awaits the locks of the cache and of the store; each is a step.  *)
(* Metrics and the log of decisions are left out.                          *)
(***************************************************************************)
EXTENDS Policies

CONSTANTS
  PolCallers,
  PolRequests,   \* requests; CacheKey tells them apart
  PolLists,      \* the policy lists the store holds, one after the other
  PolCapacity,   \* cache capacity
  PolTTL,        \* CACHE_TTL_SECS
  PolMaxBatch,   \* MAX_BATCH_SIZE
  PolMaxTime, PolMaxCalls \* bounds: clock, calls

\* What any of the lists holds, and whom requests name.
PolPolicies   == UNION {ToSet(PolLists[v]) : v \in DOMAIN PolLists}
PolPrincipals == {r.principal.id : r \in PolRequests}

ASSUME PolConstants ==
  /\ PolCapacity \in Nat \ {0}
  /\ PolLists \in Seq(Seq(PolPolicies)) /\ PolLists # << >>
  /\ {PolTTL, PolMaxBatch, PolMaxTime, PolMaxCalls} \subseteq Nat

-----------------------------------------------------------------------------
(* The engine *)

VARIABLES
  polVersion,  \* the store holds PolLists[polVersion]
  polCache,    \* the LRU cache: [request, decision, at, and as history the
               \*   versions it was evaluated on], least recently put first
  polCall,     \* polCall[c]: the step of a call, whether it is a batch, requests
               \*   to look up, missed ones, principals to load for, the
               \*   versions read for each; as history its answers and what was
               \*   cleared before
  polNow,      \* the clock
  polCalls,    \* calls made
  polCleared,  \* history: the version at the last reload_policies
  polRaced     \* history: an evaluation begun before a reload was cached after

polVars == <<polVersion, polCache, polCall, polNow, polCalls, polCleared, polRaced>>

PolIdle == [at |-> "idle", batch |-> FALSE, todo |-> << >>, missed |-> << >>, loads |-> << >>,
            got |-> [p \in PolPrincipals |-> << >>], answers |-> << >>, since |-> 1]

PolInit ==
  /\ polVersion = 1 /\ polCache = << >> /\ polNow = 0 /\ polCalls = 0
  /\ polCleared = 1 /\ polRaced = FALSE
  /\ polCall = [c \in PolCallers |-> PolIdle]

PolGoTo(c, r) == polCall' = [polCall EXCEPT ![c] = r]

\* authorize of one request, or authorize_batch of several, up to its limit.
PolAsk(c, rs, batch) ==
  /\ polCall[c].at \in {"idle", "done"} /\ polCalls < PolMaxCalls
  /\ IF batch THEN Len(rs) <= PolMaxBatch ELSE Len(rs) = 1
  /\ polCalls' = polCalls + 1
  /\ PolGoTo(c, [PolIdle EXCEPT !.at = "lookup", !.batch = batch, !.todo = rs, !.since = polCleared])
  /\ UNCHANGED <<polVersion, polCache, polNow, polCleared, polRaced>>

PolFresh(e) == polNow - e.at < PolTTL

\* The principals whose policies are loaded, each followed by one load for
\* every request of his that was missed.
PolLoadsFor(rs) ==
  LET mine(p) == {i \in DOMAIN rs : rs[i].principal.id = p}
      isFirst(i) == \A j \in mine(rs[i].principal.id) : i <= j
  IN  FlattenSeq([i \in DOMAIN rs |->
        LET p == rs[i].principal.id
        IN  IF isFirst(i) THEN [j \in 1 .. Cardinality(mine(p)) + 1 |-> p] ELSE << >>])

PolLookup(c) ==
  LET me == polCall[c]
      r  == Head(me.todo)
      hits == {i \in DOMAIN polCache : polCache[i].request = r /\ PolFresh(polCache[i])}
      next == [me EXCEPT !.todo = Tail(@)]
      asked == IF hits = {} THEN [next EXCEPT !.missed = Append(@, r)]
               ELSE [next EXCEPT !.answers = Append(@, polCache[CHOOSE i \in hits : TRUE])]
  IN  /\ me.at = "lookup" /\ me.todo # << >>
      /\ PolGoTo(c, IF asked.todo # << >> THEN asked
                    ELSE IF asked.missed = << >> THEN [asked EXCEPT !.at = "done"]
                    ELSE [asked EXCEPT !.at = "load", !.loads = PolLoadsFor(asked.missed)])
      /\ UNCHANGED <<polVersion, polCache, polNow, polCalls, polCleared, polRaced>>

\* One read of the store, for a principal or for a resource and action: the
\* store answers either with the whole list.
PolLoad(c) ==
  LET me == polCall[c]
      next == [me EXCEPT !.loads = Tail(@), !.got[Head(me.loads)] = Append(@, polVersion)]
  IN  /\ me.at = "load"
      /\ PolGoTo(c, IF next.loads = << >> THEN [next EXCEPT !.at = "decide"] ELSE next)
      /\ UNCHANGED <<polVersion, polCache, polNow, polCalls, polCleared, polRaced>>

\* A single call joins its two lists by id, the first keeping its place; a
\* batch puts its lists one behind the other.
PolJoined(vs, batch) ==
  LET lists  == [i \in DOMAIN vs |-> PolLists[vs[i]]]
      known  == {p.id : p \in ToSet(lists[1])}
      joined == [i \in DOMAIN lists[2] |-> IF lists[2][i].id \in known THEN << >> ELSE <<lists[2][i]>>]
  IN  IF batch THEN FlattenSeq(lists) ELSE lists[1] \o FlattenSeq(joined)

\* put: a new entry, or an old one renewed, is the last to be dropped.
PolPut(e) ==
  LET kept == RemoveFirstMatch(polCache, LAMBDA x : x.request = e.request)
      all  == Append(kept, e)
  IN  IF Len(all) > PolCapacity THEN Tail(all) ELSE all

\* It evaluates a missed request and caches the decision.
PolDecide(c) ==
  LET me == polCall[c]
      r  == Head(me.missed)
      vs == me.got[r.principal.id]
      e  == [request |-> r, decision |-> Evaluate(r, PolJoined(vs, me.batch)), at |-> polNow, versions |-> vs]
      next == [me EXCEPT !.missed = Tail(@), !.answers = Append(@, e)]
  IN  /\ me.at = "decide"
      /\ polCache' = PolPut(e)
      /\ polRaced' = (polRaced \/ \E i \in DOMAIN vs : vs[i] < polCleared)
      /\ PolGoTo(c, IF next.missed = << >> THEN [next EXCEPT !.at = "done", !.got = PolIdle.got] ELSE next)
      /\ UNCHANGED <<polVersion, polNow, polCalls, polCleared>>

\* The store fails, or the caller drops the call: what is cached stays cached.
PolBreak(c) ==
  /\ polCall[c].at \in {"lookup", "load", "decide"}
  /\ PolGoTo(c, PolIdle)
  /\ UNCHANGED <<polVersion, polCache, polNow, polCalls, polCleared, polRaced>>

\* DbPolicyStore::reload_policies: the store takes the next list.
PolSwap ==
  /\ polVersion < Len(PolLists)
  /\ polVersion' = polVersion + 1
  /\ UNCHANGED <<polCache, polCall, polNow, polCalls, polCleared, polRaced>>

\* Mistake: the engine counts the policies and keeps its decisions.
PolReloadKeeps ==
  /\ polCleared' = polVersion
  /\ UNCHANGED <<polVersion, polCache, polCall, polNow, polCalls, polRaced>>

\* AuthorizationEngine::reload_policies clears the cache.
PolReload ==
  /\ polCache' = << >> /\ polCleared' = polVersion
  /\ UNCHANGED <<polVersion, polCall, polNow, polCalls, polRaced>>

PolTick ==
  /\ polNow < PolMaxTime
  /\ polNow' = polNow + 1
  /\ UNCHANGED <<polVersion, polCache, polCall, polCalls, polCleared, polRaced>>

PolNext ==
  \/ \E c \in PolCallers :
       \/ \E r \in PolRequests : PolAsk(c, <<r>>, FALSE)
       \/ \E r, s \in PolRequests : PolAsk(c, <<r, s>>, TRUE)
       \/ PolLookup(c) \/ PolLoad(c) \/ PolDecide(c) \/ PolBreak(c)
  \/ PolSwap \/ PolReload \/ PolTick

PolSpec == PolInit /\ [][PolNext]_polVars
-----------------------------------------------------------------------------
(* Properties *)

\* What some policies say of a request, without regard to their order.
Verdict(r, ps) ==
  /\ \E p \in ps : p.effect = "Allow" /\ Matches(r, p) = "true"
  /\ \A p \in ps : p.effect = "Deny" => Matches(r, p) \notin {"true", "error"}

\* A policy was edited in place between two lists.
PolEdited(v, w) ==
  \E p \in ToSet(PolLists[v]), q \in ToSet(PolLists[w]) : p.id = q.id /\ p # q

\* Every decision, cached or new, of a single call or a batch, is the verdict
\* of one list the store held while it was made (a single call whose two reads
\* saw an edit of one policy excepted: it keeps the old form of that policy and
\* takes the rest of the new list), and, unless an evaluation overtook a reload,
\* a call sees no list older than the last reload before it.
PolDecisionsCurrent ==
  \A c \in PolCallers : \A i \in DOMAIN polCall[c].answers :
    LET a  == polCall[c].answers[i]
        vs == {a.versions[k] : k \in DOMAIN a.versions}
    IN  /\ \/ \E v \in vs : a.decision.allowed = Verdict(a.request, ToSet(PolLists[v]))
           \/ \E v, w \in vs : PolEdited(v, w)
        /\ ~polRaced => \A v \in vs : v >= polCall[c].since
=============================================================================
