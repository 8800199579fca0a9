-------------------------------- MODULE HttpGate --------------------------------
(***************************************************************************)
(* The way of an HTTP request of knowledge-api to its handler: login with  *)
(* its rate limiter, tokens, their revocation and expiry (auth.rs), the    *)
(* authentication and authorization layers (auth.rs, authz/middleware.rs)  *)
(* and the routes they lie on (router.rs).                                 *)
(*                                                                         *)
(* The limiter's lock is held for a whole call; between its two calls a    *)
(* login checks the password, while others run.  A request is awaited      *)
(* between the layers.  The engine's cache has a module of its own; here   *)
(* its verdict is that of the default policies.                            *)
(***************************************************************************)
EXTENDS Policies

CONSTANTS
  GateClients,
  GateUsers,    \* the configured users, with their roles
  GateMax, GateWindow, GateLockout, \* max_attempts, window, lockout
  GateExpiry,   \* jwt_expiry_hours
  GateLeeway,   \* how long the JWT library accepts a token beyond its exp
  GateMaxTime, GateMaxAttempts, GateMaxTokens, GateMaxRequests \* bounds: clock, attempts, tokens, requests

ASSUME GateConstants ==
  /\ {GateMax, GateLockout, GateExpiry} \subseteq Nat \ {0}
  /\ {GateWindow, GateLeeway, GateMaxTime, GateMaxAttempts, GateMaxTokens, GateMaxRequests} \subseteq Nat
  /\ GateMax > 1 /\ GateWindow < GateLockout \* 5 attempts, 5 and 15 minutes
  /\ \A u \in DOMAIN GateUsers : GateUsers[u] \in {"admin", "editor", "viewer"}

-----------------------------------------------------------------------------
(* Routes and what the layers make of them *)

\* The documents' routes, as the layers of the nested router see them; some
\* have the permission layer too.
GateRoutes ==
  {[method |-> "GET",    path |-> <<"documents">>,       permission |-> FALSE],
   [method |-> "GET",    path |-> <<"documents", "id">>, permission |-> FALSE],
   [method |-> "POST",   path |-> <<"documents">>,       permission |-> TRUE],
   [method |-> "DELETE", path |-> <<"documents", "id">>, permission |-> TRUE]}

GateCategory(method) ==
  CASE method \in {"GET", "HEAD", "OPTIONS"} -> "read"
    [] method \in {"POST", "PUT", "PATCH"} -> "write"
    [] method = "DELETE" -> "delete"
    [] OTHER -> "admin"

\* Role::has_permission; the permission layer maps methods like GateCategory.
GateHasPermission(role, permission) ==
  \/ role = "admin"
  \/ role \in {"editor", "serviceaccount"} /\ permission \in {"read", "write"}
  \/ role = "viewer" /\ permission = "read"

\* parse_resource_from_path
GateResourceType(path) ==
  IF Len(path) >= 4 /\ path[1] = "api"
  THEN CASE path[3] \in {"document", "documents"} -> "document"
         [] path[3] \in {"node", "nodes"} -> "node"
         [] path[3] \in {"user", "users"} -> "user"
         [] OTHER -> "system"
  ELSE "system"

\* build_action_and_resource_from_request; an action's name in two parts.
GateRequest(user, route) ==
  LET type == GateResourceType(route.path)
  IN  [principal |-> [id |-> user, type |-> "User", roles |-> {GateUsers[user]}, attrs |-> << >>, fields |-> << >>],
       action    |-> [id |-> <<type, GateCategory(route.method)>>, type |-> type, fields |-> << >>],
       resource  |-> [id |-> "any", type |-> type, attrs |-> << >>, fields |-> << >>],
       extra     |-> << >>]

GateNodes ==
  [n \in {"inScopes", "public"} |->
    IF n = "public"
    THEN [kind |-> "Attribute", attribute |-> "visibility", op |-> "Equals",
          value |-> [source |-> "Literal", literal |-> <<"String", <<"public">>>>]]
    ELSE [kind |-> "Attribute", attribute |-> "scope", op |-> "In",
          value |-> [source |-> "Principal", name |-> "scopes"]]]

\* DbPolicyStore::default_policies
GateDefaultPolicies ==
  LET policy(i, who, act, cond) ==
        [id |-> i, effect |-> "Allow", principal |-> who, action |-> act,
         resource |-> [kind |-> "Any"], conditions |-> cond]
      role(r) == [kind |-> "Role", role |-> r]
      prefix(c) == [kind |-> "Prefix", id |-> <<"document", c>>]
  IN  <<policy(1, role("admin"), [kind |-> "Any"], "none"),
        policy(2, role("editor"), prefix("read"), "none"),
        policy(3, role("editor"), prefix("write"), "none"),
        policy(4, role("viewer"), prefix("read"), "none"),
        policy(5, [kind |-> "Specific", type |-> "ServiceAccount", id |-> "*"], prefix("read"), "inScopes"),
        policy(6, [kind |-> "AnyAuthenticated"], [kind |-> "Specific", id |-> <<"document", "read">>], "public")>>

GateAllows(user, route) == Evaluate(GateRequest(user, route), GateDefaultPolicies).allowed

-----------------------------------------------------------------------------
VARIABLES
  gateNow,
  gateAttempts, \* the limiter's record of a user: {} or one [count, first, until]
  gateLogin,    \* gateLogin[c]: the user a client is logging in, or none
  gateTokens,   \* the tokens issued: [user, exp, revoked]; revoked is what the
                \*   blacklist holds of it, "no", "yes" or, cleaned up, "was"
  gateWay,      \* gateWay[c]: the request of a client and how far it is
  gatePassed,   \* history: for a user, the times of the attempts the limiter let
                \*   pass since it was last reset by a success
  gateTries, gateRequests \* how many logins and requests there were

gateVars == <<gateNow, gateAttempts, gateLogin, gateTokens, gateWay, gatePassed, gateTries, gateRequests>>

GateNobody == "nobody"
GateAtRest == [at |-> "rest"]

GateInit ==
  /\ gateNow = 0 /\ gateTries = 0 /\ gateRequests = 0
  /\ gateAttempts = [u \in DOMAIN GateUsers |-> {}]
  /\ gatePassed = [u \in DOMAIN GateUsers |-> << >>]
  /\ gateLogin = [c \in GateClients |-> GateNobody]
  /\ gateTokens = << >>
  /\ gateWay = [c \in GateClients |-> GateAtRest]

-----------------------------------------------------------------------------
(* Login *)

\* Mistake: a count ends with its window, not after it.
GateCurrentShort(u) ==
  LET old == {a \in gateAttempts[u] : a.until = 0 /\ gateNow - a.first < GateWindow}
  IN  IF old = {} THEN [count |-> 0, first |-> gateNow, until |-> 0] ELSE CHOOSE a \in old : TRUE

\* A record as check_and_record finds or makes it: a lock that is over or a
\* window that is over starts a new count.
GateCurrent(u) ==
  LET fresh == [count |-> 0, first |-> gateNow, until |-> 0]
      old   == {a \in gateAttempts[u] : a.until = 0 /\ gateNow - a.first <= GateWindow}
  IN  IF old = {} THEN fresh ELSE CHOOSE a \in old : TRUE

GateLockedOut(u) == \E a \in gateAttempts[u] : a.until # 0 /\ gateNow < a.until

\* check_and_record counts every attempt it lets pass, before the password is
\* looked at.
GateAttempt(c, u) ==
  LET now == GateCurrent(u)
      counted == [now EXCEPT !.count = @ + 1, !.until = IF now.count + 1 >= GateMax THEN gateNow + GateLockout ELSE @]
  IN  /\ gateLogin[c] = GateNobody /\ gateTries < GateMaxAttempts
      /\ ~GateLockedOut(u)
      /\ gateAttempts' = [gateAttempts EXCEPT ![u] = {counted}]
      /\ gatePassed' = [gatePassed EXCEPT ![u] = Append(@, gateNow)]
      /\ gateLogin' = [gateLogin EXCEPT ![c] = u]
      /\ gateTries' = gateTries + 1
      /\ UNCHANGED <<gateNow, gateTokens, gateWay, gateRequests>>

GateWrongPassword(c) ==
  /\ gateLogin[c] # GateNobody
  /\ gateLogin' = [gateLogin EXCEPT ![c] = GateNobody]
  /\ UNCHANGED <<gateNow, gateAttempts, gateTokens, gateWay, gatePassed, gateTries, gateRequests>>

\* record_success forgets the user's attempts, those of others among them; the
\* token is issued after.
GateLogsIn(c) ==
  LET u == gateLogin[c]
  IN  /\ u # GateNobody /\ Len(gateTokens) < GateMaxTokens
      /\ gateAttempts' = [gateAttempts EXCEPT ![u] = {}]
      /\ gatePassed' = [gatePassed EXCEPT ![u] = << >>]
      /\ gateTokens' = Append(gateTokens, [user |-> u, exp |-> gateNow + GateExpiry, revoked |-> "no"])
      /\ gateLogin' = [gateLogin EXCEPT ![c] = GateNobody]
      /\ UNCHANGED <<gateNow, gateWay, gateTries, gateRequests>>

-----------------------------------------------------------------------------
(* Tokens *)

\* revoke_token, with the token's own expiry.
GateRevoke(t) ==
  /\ gateTokens[t].revoked = "no"
  /\ gateTokens' = [gateTokens EXCEPT ![t].revoked = "yes"]
  /\ UNCHANGED <<gateNow, gateAttempts, gateLogin, gateWay, gatePassed, gateTries, gateRequests>>

\* Mistake: what is cleaned up is what is still in force.
GateCleanAll ==
  /\ gateTokens' = [t \in DOMAIN gateTokens |->
       IF gateTokens[t].revoked = "yes" THEN [gateTokens[t] EXCEPT !.revoked = "was"] ELSE gateTokens[t]]
  /\ gateTokens' # gateTokens
  /\ UNCHANGED <<gateNow, gateAttempts, gateLogin, gateWay, gatePassed, gateTries, gateRequests>>

\* cleanup_expired
GateClean ==
  /\ gateTokens' = [t \in DOMAIN gateTokens |->
       IF gateTokens[t].revoked = "yes" /\ gateTokens[t].exp <= gateNow
       THEN [gateTokens[t] EXCEPT !.revoked = "was"] ELSE gateTokens[t]]
  /\ gateTokens' # gateTokens
  /\ UNCHANGED <<gateNow, gateAttempts, gateLogin, gateWay, gatePassed, gateTries, gateRequests>>

\* validate_token: the library accepts a token some time beyond its exp, the
\* blacklist refuses it up to its exp.
GateValid(t) ==
  /\ gateNow <= gateTokens[t].exp + GateLeeway
  /\ ~(gateTokens[t].revoked = "yes" /\ gateTokens[t].exp > gateNow)

-----------------------------------------------------------------------------
(* Requests *)

\* auth_middleware: no token makes an anonymous request, a bad one ends it.
\* Token 0 stands for none.
GateEnter(c, t, route) ==
  /\ gateWay[c].at \in {"rest", "over"} /\ gateRequests < GateMaxRequests
  /\ gateRequests' = gateRequests + 1
  /\ gateWay' = [gateWay EXCEPT ![c] =
       [at |-> IF t # 0 /\ ~GateValid(t) THEN "over" ELSE "inside", token |-> t, route |-> route,
        status |-> 401, revoked |-> t # 0 /\ gateTokens[t].revoked # "no",
        live |-> t # 0 /\ gateNow < gateTokens[t].exp]]
  /\ UNCHANGED <<gateNow, gateAttempts, gateLogin, gateTokens, gatePassed, gateTries>>

\* authorization_middleware, then the permission layer where there is one.
GateStatus(t, route) ==
  LET user == gateTokens[t].user
  IN  CASE t = 0 -> 401
        [] t # 0 /\ ~GateAllows(user, route) -> 403
        [] t # 0 /\ GateAllows(user, route) /\ route.permission
             /\ ~GateHasPermission(GateUsers[user], GateCategory(route.method)) -> 403
        [] OTHER -> 200

GateDecides(c) ==
  LET w == gateWay[c]
  IN  /\ w.at = "inside"
      /\ gateWay' = [gateWay EXCEPT ![c] = [w EXCEPT !.at = "over", !.status = GateStatus(w.token, w.route)]]
      /\ UNCHANGED <<gateNow, gateAttempts, gateLogin, gateTokens, gatePassed, gateTries, gateRequests>>

GateTick ==
  /\ gateNow < GateMaxTime
  /\ gateNow' = gateNow + 1
  /\ UNCHANGED <<gateAttempts, gateLogin, gateTokens, gateWay, gatePassed, gateTries, gateRequests>>

GateNext ==
  \/ \E c \in GateClients :
       \/ \E u \in DOMAIN GateUsers : GateAttempt(c, u)
       \/ \E t \in 0 .. Len(gateTokens), route \in GateRoutes : GateEnter(c, t, route)
       \/ GateWrongPassword(c) \/ GateLogsIn(c) \/ GateDecides(c)
  \/ (\E t \in DOMAIN gateTokens : GateRevoke(t)) \/ GateClean \/ GateTick

GateSpec == GateInit /\ [][GateNext]_gateVars
-----------------------------------------------------------------------------
(* Properties *)

\* Between two successes of a user no window of the limiter's length sees more
\* than twice the attempts of one count less two: a window begins with its
\* first attempt and does not slide, so two counts may meet in one.
LoginsBounded ==
  \A u \in DOMAIN GateUsers : \A i, j \in DOMAIN gatePassed[u] :
    (i <= j /\ gatePassed[u][j] - gatePassed[u][i] <= GateWindow) => j - i + 1 <= 2 * GateMax - 2

\* Only a request with a token gets to a handler, none with one revoked before
\* and not yet expired, and only on routes its user's role is meant for.
OnlyEntitledServed ==
  \A c \in GateClients : LET w == gateWay[c] IN w.at = "over" /\ w.status = 200 =>
    /\ w.token # 0 /\ ~(w.revoked /\ w.live)
    /\ GateHasPermission(GateUsers[gateTokens[w.token].user], GateCategory(w.route.method))

\* The gate holds at the login and at every request.
GateSound == LoginsBounded /\ OnlyEntitledServed

\* What the roles and the default policies say of themselves: an editor reads
\* and writes documents, a viewer reads them.
RolesCanWork ==
  \A c \in GateClients : LET w == gateWay[c] IN
    (w.at = "over" /\ w.token # 0 /\ w.live /\ ~w.revoked
       /\ GateHasPermission(GateUsers[gateTokens[w.token].user], GateCategory(w.route.method)))
    => w.status # 403
=============================================================================
