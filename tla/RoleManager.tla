------------------------------ MODULE RoleManager ------------------------------
(***************************************************************************)
(* The role manager of knowledge-api (rbac/manager.rs): creation of roles  *)
(* under one another, their assignment to users and its revocation, and    *)
(* permission checks, which read a user's assignments through a cache.     *)
(*                                                                         *)
(* Every call to the store and every lock of the cache is awaited, so each *)
(* is a step.  The manager never changes a role it created, which is why   *)
(* the walk from roles to their parents is one step and the cache of roles *)
(* is left out; so are the sources of an assignment and the ABAC           *)
(* conditions, which has_permission does not evaluate.                     *)
(***************************************************************************)
EXTENDS Naturals, FiniteSets

CONSTANTS
  RbCallers,
  RbUsers,
  RbTemplates,   \* a role by its id: [name, grants, parents]; grants is a set
                 \*   of permissions [id, type, actions]
  RbSystem,      \* ids of the built-in roles
  RbUntil,       \* the times assignments end; RbNever for those that do not
  RbNever,
  RbTTL,         \* ASSIGNMENT_CACHE_TTL_SECS
  RbMaxTime, RbMaxCalls \* bounds: clock, calls

ASSUME RbConstants ==
  /\ {RbTTL, RbMaxTime, RbMaxCalls, RbNever} \subseteq Nat /\ RbNever > RbMaxTime
  /\ RbSystem \subseteq DOMAIN RbTemplates
  \* The built-in roles inherit from one another, and none from itself.
  /\ \A r \in RbSystem : RbTemplates[r].parents \subseteq RbSystem
  /\ \A S \in SUBSET RbSystem : S # {} => \E r \in S : RbTemplates[r].parents \cap S = {}

VARIABLES
  rbRoles,     \* the store: ids of the roles there
  rbAssigned,  \* the store: a user's assignments [role, until]
  rbCache,     \* the cache: for a user, {} or one [list, at, stale]; stale is
               \*   history: the change of that list is not going to remove it
  rbCall,      \* rbCall[c]: the step and arguments of a call, what it loaded;
               \*   as history the lists the user had meanwhile
  rbNow,
  rbCalls

rbVars == <<rbRoles, rbAssigned, rbCache, rbCall, rbNow, rbCalls>>

RbIdle == [at |-> "idle"]

RbInit ==
  /\ rbRoles = {} /\ rbNow = 0 /\ rbCalls = 0
  /\ rbAssigned = [u \in RbUsers |-> {}] /\ rbCache = [u \in RbUsers |-> {}]
  /\ rbCall = [c \in RbCallers |-> RbIdle]

RbGoTo(c, r) == rbCall' = [rbCall EXCEPT ![c] = r]

RbStart(c, r) ==
  /\ rbCall[c].at \in {"idle", "done"} /\ rbCalls < RbMaxCalls
  /\ rbCalls' = rbCalls + 1
  /\ RbGoTo(c, r)
  /\ UNCHANGED <<rbRoles, rbAssigned, rbCache, rbNow>>

-----------------------------------------------------------------------------
(* Roles *)

RbNamed(n) == {r \in rbRoles : RbTemplates[r].name = n}

\* create_role and initialize_system_roles: no role of that name may be there,
\* which for a built-in one means that there is nothing to do; the parents
\* must, and a role that were its own parent is refused.  The store is written
\* in a later step.
RbCreate(c, r) ==
  /\ RbNamed(RbTemplates[r].name) = {} /\ r \notin rbRoles
  /\ r \notin RbSystem => RbTemplates[r].parents \subseteq rbRoles \ {r}
  /\ RbStart(c, [at |-> "create", role |-> r])

RbCreated(c) ==
  /\ rbCall[c].at = "create"
  /\ rbRoles' = rbRoles \cup {rbCall[c].role}
  /\ RbGoTo(c, RbIdle)
  /\ UNCHANGED <<rbAssigned, rbCache, rbNow, rbCalls>>

\* The roles a walk over parent_roles visits: those not in the store are
\* passed over.
RbVisited(r) ==
  LET up[s \in DOMAIN RbTemplates] ==
        IF s \in rbRoles THEN {s} \cup UNION {up[p] : p \in RbTemplates[s].parents} ELSE {}
  IN  up[r]

\* effective_permissions: a role's own, and of those it inherits the ones with
\* an id of their own.
RbEffective(r) ==
  LET own == RbTemplates[r].grants
      inherited == UNION {RbTemplates[s].grants : s \in RbVisited(r) \ {r}}
  IN  own \cup {p \in inherited : \A q \in own : q.id # p.id}

RbActive(list) == {a \in list : a.until > rbNow}

RbGrants(list, type, action) ==
  \E a \in RbActive(list) : \E r \in RbVisited(a.role) : \E p \in RbEffective(r) :
    p.type = type /\ action \in p.actions

\* What the lists of a user and the roles say: whatever leads from an
\* assignment in force to a permission, however long the way.
RbHolds(list, type, action) ==
  \E a \in list, r \in rbRoles, p \in UNION {RbTemplates[s].grants : s \in rbRoles} :
    /\ a.until > rbNow /\ p \in RbTemplates[r].grants /\ p.type = type /\ action \in p.actions
    /\ \A S \in SUBSET rbRoles :
         (a.role \in S /\ \A s \in S : RbTemplates[s].parents \cap rbRoles \subseteq S) => r \in S

-----------------------------------------------------------------------------
(* Assignments *)

\* The lists of a user that calls on their way, or begun now, may answer from.
RbChanging(u) == {rbCall[c].before : c \in {d \in RbCallers : rbCall[d].at = "forget" /\ rbCall[d].user = u}}

\* assign_role looks for the role first; revoke_role goes to the store at once.
RbAssign(c, u, r, until) ==
  /\ r \in rbRoles
  /\ RbStart(c, [at |-> "write", op |-> "assign", user |-> u, entry |-> [role |-> r, until |-> until]])

RbRevoke(c, u, r) ==
  RbStart(c, [at |-> "write", op |-> "revoke", user |-> u, entry |-> [role |-> r, until |-> RbNever]])

RbWrite(c) ==
  LET me  == rbCall[c]
      now == IF me.op = "assign" THEN rbAssigned[me.user] \cup {me.entry}
             ELSE {a \in rbAssigned[me.user] : a.role # me.entry.role}
      witness(d) == rbCall[d].at \in {"peek", "load", "fill"} /\ rbCall[d].user = me.user
  IN  /\ me.at = "write"
      /\ rbAssigned' = [rbAssigned EXCEPT ![me.user] = now]
      /\ rbCall' = [d \in RbCallers |->
           IF d = c THEN [at |-> "forget", user |-> me.user, before |-> rbAssigned[me.user]]
           ELSE IF witness(d) THEN [rbCall[d] EXCEPT !.seen = @ \cup {now}] ELSE rbCall[d]]
      /\ UNCHANGED <<rbRoles, rbCache, rbNow, rbCalls>>

\* Mistake: the change is left to the entry's time.
RbForgetKeeps(c) ==
  /\ rbCall[c].at = "forget"
  /\ RbGoTo(c, RbIdle)
  /\ UNCHANGED <<rbRoles, rbAssigned, rbCache, rbNow, rbCalls>>

RbForget(c) ==
  /\ rbCall[c].at = "forget"
  /\ rbCache' = [rbCache EXCEPT ![rbCall[c].user] = {}]
  /\ RbGoTo(c, RbIdle)
  /\ UNCHANGED <<rbRoles, rbAssigned, rbNow, rbCalls>>

\* The store fails or the caller drops the call; dropped before it forgets, it
\* leaves the old list in the cache.
RbBreak(c) ==
  /\ rbCall[c].at \notin {"idle", "done"}
  /\ rbCache' = IF rbCall[c].at # "forget" THEN rbCache
                ELSE [rbCache EXCEPT ![rbCall[c].user] = {[e EXCEPT !.stale = TRUE] : e \in @}]
  /\ RbGoTo(c, RbIdle)
  /\ UNCHANGED <<rbRoles, rbAssigned, rbNow, rbCalls>>

-----------------------------------------------------------------------------
(* Checks *)

RbCheck(c, u, type, action) ==
  RbStart(c, [at |-> "peek", user |-> u, type |-> type, action |-> action,
              seen |-> {rbAssigned[u]} \cup RbChanging(u)])

RbAnswer(me, list, stale) ==
  [at |-> "done", ok |-> RbGrants(list, me.type, me.action), stale |-> stale,
   allowed |-> {RbHolds(s, me.type, me.action) : s \in me.seen}]

\* get_cached_or_load_assignments: a young entry answers, else the store is
\* asked and the cache filled.
RbPeek(c) ==
  LET me  == rbCall[c]
      hit == {e \in rbCache[me.user] : rbNow - e.at < RbTTL}
  IN  /\ me.at = "peek"
      /\ \/ \E e \in hit : RbGoTo(c, RbAnswer(me, e.list, e.stale))
         \/ hit = {} /\ RbGoTo(c, [me EXCEPT !.at = "load"])
      /\ UNCHANGED <<rbRoles, rbAssigned, rbCache, rbNow, rbCalls>>

RbLoad(c) ==
  LET me == rbCall[c]
  IN  /\ me.at = "load"
      /\ RbGoTo(c, [at |-> "fill", user |-> me.user, type |-> me.type, action |-> me.action,
                    seen |-> me.seen, list |-> rbAssigned[me.user]])
      /\ UNCHANGED <<rbRoles, rbAssigned, rbCache, rbNow, rbCalls>>

RbFill(c) ==
  LET me == rbCall[c]
  IN  /\ me.at = "fill"
      /\ rbCache' = [rbCache EXCEPT ![me.user] =
           {[list |-> me.list, at |-> rbNow, 
            stale |-> me.list \notin {rbAssigned[me.user]} \cup RbChanging(me.user)]}]
      /\ RbGoTo(c, RbAnswer(me, me.list, FALSE))
      /\ UNCHANGED <<rbRoles, rbAssigned, rbNow, rbCalls>>

\* Entries of other users push one out.
RbEvict(u) ==
  /\ rbCache[u] # {}
  /\ rbCache' = [rbCache EXCEPT ![u] = {}]
  /\ UNCHANGED <<rbRoles, rbAssigned, rbCall, rbNow, rbCalls>>

RbTick ==
  /\ rbNow < RbMaxTime
  /\ rbNow' = rbNow + 1
  /\ UNCHANGED <<rbRoles, rbAssigned, rbCache, rbCall, rbCalls>>

RbPermissions == UNION {RbTemplates[r].grants : r \in DOMAIN RbTemplates}

RbNext ==
  \/ \E c \in RbCallers :
       \/ \E r \in DOMAIN RbTemplates : RbCreate(c, r)
       \/ \E u \in RbUsers, r \in DOMAIN RbTemplates :
            RbRevoke(c, u, r) \/ \E t \in RbUntil : RbAssign(c, u, r, t)
       \/ \E u \in RbUsers, p \in RbPermissions : \E a \in p.actions : RbCheck(c, u, p.type, a)
       \/ RbCreated(c) \/ RbWrite(c) \/ RbForget(c) \/ RbBreak(c)
       \/ RbPeek(c) \/ RbLoad(c) \/ RbFill(c)
  \/ (\E u \in RbUsers : RbEvict(u)) \/ RbTick

RbSpec == RbInit /\ [][RbNext]_rbVars
-----------------------------------------------------------------------------
(* Properties *)

\* A check answers by a list of assignments the user had while it ran, expired
\* ones not counting although they are cached: one begun after a revocation
\* returned does not see the revoked role.  Excepted are answers from an entry
\* a reader put back behind a change's back, or whose change was dropped
\* before it reached the cache; they end with the entry's time.
RoleChecksCurrent ==
  \A c \in RbCallers : rbCall[c].at = "done" => rbCall[c].stale \/ rbCall[c].ok \in rbCall[c].allowed
=============================================================================
