----------------------------- MODULE CallLimits -----------------------------
(***************************************************************************)
(* What keeps callers from a service that is asked too often or does not   *)
(* answer: the token buckets of the MCP server, and the breaker, the       *)
(* backoff and the state machine of error-core. The two share no state.    *)
(***************************************************************************)
EXTENDS Naturals, Sequences, Functions

(***************************************************************************)
(* The token buckets of the MCP server (mcp/rate_limit/rate_limiter.rs).   *)
(* check_rate_limit and consume are one operation, of one token or several *)
(* of them; they make sure of a bucket and take from it in two steps, and  *)
(* a cleanup or a new configuration may come between.                      *)
(*                                                                         *)
(* Time is counted in ticks and a bucket refills by whole tokens; a key    *)
(* stands for a user and a tool.  The times reported to the caller and the *)
(* usage records are left out.                                             *)
(***************************************************************************)

CONSTANTS
  RateCallers, RateKeys,
  RateConfigs,   \* configurations [cap, rate], with the rate in tokens per tick
  RateDefault,   \* default_config
  RateCosts,     \* the tokens a call may ask for; check_rate_limit asks for 1
  RateExpiry,    \* age in ticks from which a cleanup removes a bucket: 3600 s
  RateMaxTime,   \* bound: the clock
  RateMaxCalls   \* bound: calls

\* In the time after which a bucket is cleaned up it would have filled (60 a
\* minute for an hour, against a burst of 10); cap is at least 1 as in the code.
ASSUME RateConstants ==
  /\ RateDefault \in RateConfigs
  /\ \A c \in RateConfigs : c.cap \in Nat \ {0} /\ c.rate \in Nat \ {0} /\ RateExpiry * c.rate >= c.cap
  /\ RateCosts \subseteq Nat /\ {RateExpiry, RateMaxTime, RateMaxCalls} \subseteq Nat

VARIABLES
  rateBuckets, \* rateBuckets[k]: [tokens, last, cap, rate], or RateNone
  rateCall,    \* rateCall[c]: the key and cost of a call between its two steps
  rateTime,
  rateCalls,   \* calls so far
  rateLog      \* history: rateLog[k]: the answers since its last configuration,
               \*   [at, cost, answer], "free" where the bucket had gone

rateVars == <<rateBuckets, rateCall, rateTime, rateCalls, rateLog>>

RateNone == [tokens |-> 0, last |-> 0, cap |-> 0, rate |-> 0]
RateIdle == [key |-> "none", cost |-> 0]

\* TokenBucket::new
RateFull(config) == [tokens |-> config.cap, last |-> rateTime, cap |-> config.cap, rate |-> config.rate]

RateInit ==
  /\ rateBuckets = [k \in RateKeys |-> RateNone]
  /\ rateCall = [c \in RateCallers |-> RateIdle]
  /\ rateTime = 0 /\ rateCalls = 0
  /\ rateLog = [k \in RateKeys |-> << >>]

\* entry(key).or_insert_with
RateEnsure(c, k, n) ==
  /\ rateCall[c] = RateIdle /\ rateCalls < RateMaxCalls
  /\ rateCall' = [rateCall EXCEPT ![c] = [key |-> k, cost |-> n]]
  /\ rateCalls' = rateCalls + 1
  /\ IF rateBuckets[k] = RateNone THEN rateBuckets' = [rateBuckets EXCEPT ![k] = RateFull(RateDefault)]
     ELSE UNCHANGED rateBuckets
  /\ UNCHANGED <<rateTime, rateLog>>

\* Mistake: a bucket grows past its capacity.
RateRefillUncapped(b) ==
  [b EXCEPT !.tokens = b.tokens + (rateTime - b.last) * b.rate, !.last = rateTime]

\* Mistake: a refill forgets to move last_refill.
RateRefillTwice(b) ==
  LET filled == b.tokens + (rateTime - b.last) * b.rate
  IN  [b EXCEPT !.tokens = IF filled < b.cap THEN filled ELSE b.cap]

RateRefill(b) ==
  LET filled == b.tokens + (rateTime - b.last) * b.rate
  IN  [b EXCEPT !.tokens = IF filled < b.cap THEN filled ELSE b.cap, !.last = rateTime]

RateAnswer(k, n, answer) ==
  rateLog' = [rateLog EXCEPT ![k] = Append(@, [at |-> rateTime, cost |-> n, answer |-> answer])]

\* get_mut and try_consume; without a bucket the call is allowed.
RateTry(c) ==
  /\ rateCall[c] # RateIdle
  /\ LET k == rateCall[c].key
         n == rateCall[c].cost
         b == RateRefill(rateBuckets[k])
     IN  IF rateBuckets[k] = RateNone THEN RateAnswer(k, n, "free") /\ UNCHANGED rateBuckets
         ELSE IF b.tokens >= n
           THEN /\ RateAnswer(k, n, "granted")
                /\ rateBuckets' = [rateBuckets EXCEPT ![k] = [b EXCEPT !.tokens = b.tokens - n]]
           ELSE /\ RateAnswer(k, n, "refused")
                /\ rateBuckets' = [rateBuckets EXCEPT ![k] = b]
  /\ rateCall' = [rateCall EXCEPT ![c] = RateIdle]
  /\ UNCHANGED <<rateTime, rateCalls>>

\* update_config: another, full bucket.
RateUpdate(k, config) ==
  /\ rateBuckets' = [rateBuckets EXCEPT ![k] = RateFull(config)]
  /\ rateLog' = [rateLog EXCEPT ![k] = << >>]
  /\ UNCHANGED <<rateCall, rateTime, rateCalls>>

\* cleanup_expired_buckets.  The next call makes a bucket with the default
\* configuration, whatever was set before.
RateCleanup ==
  /\ LET Old(k) == rateBuckets[k] # RateNone /\ rateTime - rateBuckets[k].last >= RateExpiry
         Set(k) == rateBuckets[k].cap # RateDefault.cap \/ rateBuckets[k].rate # RateDefault.rate
     IN  /\ rateBuckets' = [k \in RateKeys |-> IF Old(k) THEN RateNone ELSE rateBuckets[k]]
         /\ rateLog' = [k \in RateKeys |-> IF Old(k) /\ Set(k) THEN << >> ELSE rateLog[k]]
  /\ UNCHANGED <<rateCall, rateTime, rateCalls>>

RateTick == rateTime < RateMaxTime /\ rateTime' = rateTime + 1 /\ UNCHANGED <<rateBuckets, rateCall, rateCalls, rateLog>>

RateNext ==
  \/ \E c \in RateCallers : RateTry(c) \/ \E k \in RateKeys, n \in RateCosts : RateEnsure(c, k, n)
  \/ \E k \in RateKeys, config \in RateConfigs : RateUpdate(k, config)
  \/ RateCleanup
  \/ RateTick

RateSpec == RateInit /\ [][RateNext]_rateVars

-----------------------------------------------------------------------------
(* Properties *)

\* The configuration in force since the log of k began.
RateInForce(k) == IF rateBuckets[k] = RateNone THEN RateDefault ELSE rateBuckets[k]

\* What the bucket gave to the entries i to j of a log.
RateSpent(log, i, j) ==
  SumFunctionOnSet([x \in DOMAIN log |-> log[x].cost], {x \in i .. j : log[x].answer = "granted"})

\* A request for n at the end of a log's first j entries has room in every window
\* that ends with it.
RateRoom(log, j, n, at, config) ==
  /\ n <= config.cap
  /\ \A i \in 1 .. j : RateSpent(log, i, j) + n <= config.cap + config.rate * (at - log[i].at)

\* Whatever calls, cleanups and clocks do between the steps of a call: since a
\* key was configured, a request was granted exactly when no stretch of time up
\* to it held more than the capacity and what refills in it, except for one that
\* found the bucket gone.
RateExact ==
  \A k \in RateKeys : \A j \in DOMAIN rateLog[k] :
    LET log == rateLog[k] IN
    log[j].answer # "free" =>
      (log[j].answer = "granted" <=> RateRoom(log, j - 1, log[j].cost, log[j].at, RateInForce(k)))

-----------------------------------------------------------------------------
(***************************************************************************)
(* Recovery from errors (error-core, recovery/recovery_impl.rs): the       *)
(* recovery state machine, the exponential backoff and the circuit         *)
(* breaker.  Callers share them behind a lock: one asks the breaker, makes *)
(* its request and reports how it went, and others come in between, so a   *)
(* report may meet a breaker that has changed since the request was let    *)
(* through.                                                                *)
(*                                                                         *)
(* Times are ticks.  The multiplier is a natural number, and the jitter,   *)
(* which depends on the attempt alone, is left out.                        *)
(***************************************************************************)

CONSTANTS
  RecCallers,
  RecThreshold,    \* failure_threshold
  RecReset,        \* reset_timeout
  RecMaxAttempts,  \* max_attempts of the state machine and of the backoff
  RecDelays,       \* [initial, factor, max]: the delays of RetryConfig
  RecMaxTime,      \* bound: the clock
  RecMaxRequests   \* bound: requests and steps of the state machine

ASSUME RecConstants ==
  /\ {RecThreshold, RecReset, RecMaxAttempts, RecMaxTime, RecMaxRequests} \subseteq Nat
  /\ {RecDelays.initial, RecDelays.factor, RecDelays.max} \subseteq Nat
  /\ RecDelays.initial <= RecDelays.max /\ RecDelays.factor > 0

VARIABLES
  recBreaker,  \* [state, failures, last]; last is the time of the failure that opened it
  recWaits,    \* callers whose request was let through and not reported yet
  recMachine,  \* [state, attempts]
  recAttempt,  \* current_attempt of the backoff
  recTime,
  recCalls,    \* requests and steps so far
  recSeen      \* history: the time at which the breaker last opened, the last request
               \*   let through since then and the last refused; failures of the state
               \*   machine since it last recovered; the last two delays

recVars == <<recBreaker, recWaits, recMachine, recAttempt, recTime, recCalls, recSeen>>

RecNever == RecMaxTime + RecReset + 9

RecInit ==
  /\ recBreaker = [state |-> "Closed", failures |-> 0, last |-> RecNever]
  /\ recWaits = {}
  /\ recMachine = [state |-> "Initial", attempts |-> 0]
  /\ recAttempt = 0 /\ recTime = 0 /\ recCalls = 0
  /\ recSeen = [opened |-> RecNever, let |-> RecNever, refused |-> RecNever, lost |-> 0, delays |-> <<0, 0>>]

RecCall == recCalls < RecMaxRequests /\ recCalls' = recCalls + 1

-----------------------------------------------------------------------------
(* The circuit breaker *)

\* The timeout since the failure that opened the breaker is over.
RecElapsed == recTime - recBreaker.last > RecReset

\* allow_request.  Half-open lets everybody through.
RecAllow(c) ==
  /\ c \notin recWaits /\ RecCall
  /\ LET through == recBreaker.state # "Open" \/ RecElapsed
     IN  /\ recBreaker' = IF through /\ recBreaker.state = "Open"
                            THEN [recBreaker EXCEPT !.state = "HalfOpen"] ELSE recBreaker
         /\ recWaits' = IF through THEN recWaits \cup {c} ELSE recWaits
         /\ recSeen' = IF recSeen.opened = RecNever THEN recSeen
                       ELSE IF through THEN [recSeen EXCEPT !.let = recTime]
                       ELSE [recSeen EXCEPT !.refused = recTime]
  /\ UNCHANGED <<recMachine, recAttempt, recTime>>

\* record_success: only a half-open breaker is closed, and only then is the count
\* of failures cleared.
RecSuccess(c) ==
  /\ c \in recWaits
  /\ recWaits' = recWaits \ {c}
  /\ IF recBreaker.state = "HalfOpen"
       THEN /\ recBreaker' = [recBreaker EXCEPT !.state = "Closed", !.failures = 0]
            /\ recSeen' = [recSeen EXCEPT !.opened = RecNever, !.let = RecNever, !.refused = RecNever]
       ELSE UNCHANGED <<recBreaker, recSeen>>
  /\ UNCHANGED <<recMachine, recAttempt, recTime, recCalls>>

\* Mistake: a breaker that opens again keeps the time at which it first opened.
RecReopenedKeepsTime ==
  IF recBreaker.state = "HalfOpen" THEN [recBreaker EXCEPT !.state = "Open"]
  ELSE IF recBreaker.state = "Closed" THEN
    LET n == recBreaker.failures + 1
    IN  IF n >= RecThreshold THEN [state |-> "Open", failures |-> n, last |-> recTime]
                             ELSE [recBreaker EXCEPT !.failures = n]
  ELSE recBreaker

\* Mistake: a failure that is reported late makes an open breaker wait again.
RecLateFailureCounts == [state |-> "Open", failures |-> recBreaker.failures + 1, last |-> recTime]

\* record_failure
RecFailed ==
  IF recBreaker.state = "HalfOpen" THEN [recBreaker EXCEPT !.state = "Open", !.last = recTime]
  ELSE IF recBreaker.state = "Closed" THEN
    LET n == recBreaker.failures + 1
    IN  IF n >= RecThreshold THEN [state |-> "Open", failures |-> n, last |-> recTime]
                             ELSE [recBreaker EXCEPT !.failures = n]
  ELSE recBreaker

RecFailure(c) ==
  /\ c \in recWaits
  /\ recWaits' = recWaits \ {c}
  /\ recBreaker' = RecFailed
  /\ recSeen' = IF RecFailed.state = "Open" /\ recBreaker.state # "Open"
                  THEN [recSeen EXCEPT !.opened = recTime, !.let = RecNever, !.refused = RecNever]
                  ELSE recSeen
  /\ UNCHANGED <<recMachine, recAttempt, recTime, recCalls>>

-----------------------------------------------------------------------------
(* The recovery state machine *)

\* can_transition_to
RecTransitions ==
  {<<s, "Recovering">> : s \in {"Initial", "Failed", "CircuitOpen", "Degraded", "Recovered"}}
    \cup {<<"Recovering", s>> : s \in {"Recovered", "Failed", "CircuitOpen", "Degraded"}}
    \cup {<<"CircuitOpen", "Degraded">>}

\* start_recovery, open_circuit and activate_degradation; elsewhere they are refused.
RecMove(to) ==
  /\ RecCall
  /\ <<recMachine.state, to>> \in RecTransitions
  /\ recMachine' = [recMachine EXCEPT !.state = to]
  /\ UNCHANGED <<recBreaker, recWaits, recAttempt, recTime, recSeen>>

\* recover_success
RecRecovered ==
  /\ RecCall
  /\ <<recMachine.state, "Recovered">> \in RecTransitions
  /\ recMachine' = [state |-> "Recovered", attempts |-> 0]
  /\ recSeen' = [recSeen EXCEPT !.lost = 0]
  /\ UNCHANGED <<recBreaker, recWaits, recAttempt, recTime>>

\* Mistake: the attempts are forgotten when a recovery fails for good.
RecGiveUpForgets ==
  LET n == recMachine.attempts + 1
  IN  IF n >= RecMaxAttempts THEN [state |-> "Failed", attempts |-> 0]
                             ELSE [recMachine EXCEPT !.attempts = n]

\* recover_failed: the machine starts again with the attempts it has, so a recovery
\* begun after it gave up gives up at the first failure.
RecGiveUp ==
  LET n == recMachine.attempts + 1
  IN  IF n >= RecMaxAttempts THEN [state |-> "Failed", attempts |-> n]
                             ELSE [recMachine EXCEPT !.attempts = n]

RecLost ==
  /\ RecCall
  /\ recMachine.state = "Recovering"
  /\ recMachine' = RecGiveUp
  /\ recSeen' = [recSeen EXCEPT !.lost = @ + 1]
  /\ UNCHANGED <<recBreaker, recWaits, recAttempt, recTime>>

-----------------------------------------------------------------------------
(* The exponential backoff *)

\* multiplier.powi
RecPower[n \in 0 .. RecMaxAttempts] == IF n = 0 THEN 1 ELSE RecDelays.factor * RecPower[n - 1]

\* Mistake: the delay is not capped.
RecDelayUncapped(n) == RecDelays.initial * RecPower[n]

\* calculate_delay
RecDelay(n) ==
  LET d == RecDelays.initial * RecPower[n]
  IN  IF d < RecDelays.max THEN d ELSE RecDelays.max

\* next_delay; None behind the last attempt.
RecBackoff ==
  /\ RecCall
  /\ recAttempt < RecMaxAttempts
  /\ recSeen' = [recSeen EXCEPT !.delays = <<@[2], RecDelay(recAttempt)>>]
  /\ recAttempt' = recAttempt + 1
  /\ UNCHANGED <<recBreaker, recWaits, recMachine, recTime>>

\* reset
RecBackoffAgain ==
  /\ recAttempt # 0
  /\ recAttempt' = 0
  /\ recSeen' = [recSeen EXCEPT !.delays = <<0, 0>>]
  /\ UNCHANGED <<recBreaker, recWaits, recMachine, recTime, recCalls>>

RecTick == recTime < RecMaxTime /\ recTime' = recTime + 1
             /\ UNCHANGED <<recBreaker, recWaits, recMachine, recAttempt, recCalls, recSeen>>

RecNext ==
  \/ \E c \in RecCallers : RecAllow(c) \/ RecSuccess(c) \/ RecFailure(c)
  \/ \E to \in {"Recovering", "CircuitOpen", "Degraded"} : RecMove(to)
  \/ RecRecovered \/ RecLost \/ RecBackoff \/ RecBackoffAgain \/ RecTick

RecSpec == RecInit /\ [][RecNext]_recVars

-----------------------------------------------------------------------------

\* However late requests are reported: from the time a breaker opens or opens again
\* it lets nothing through for the timeout, and afterwards it refuses nothing; only a
\* breaker that has seen enough failures is open.
BreakerKeepsQuiet ==
  /\ recSeen.let # RecNever => recSeen.let > recSeen.opened + RecReset
  /\ recSeen.refused # RecNever => recSeen.refused <= recSeen.opened + RecReset
  /\ recBreaker.state # "Closed" => recSeen.opened # RecNever /\ recBreaker.failures >= RecThreshold

\* The machine counts the failures since it last recovered, over every restart, and
\* gives up with the last attempt; the delays grow up to the largest.
RecoveryCounts ==
  /\ recMachine.attempts = recSeen.lost
  /\ recMachine.state = "Failed" => recSeen.lost >= RecMaxAttempts
  /\ recSeen.delays[1] <= recSeen.delays[2] /\ recSeen.delays[2] <= RecDelays.max

RecoveryKept == BreakerKeepsQuiet /\ RecoveryCounts

\* What holds back too many calls: the rate limits grant exactly what they should, and
\* the breaker and the retries keep their times and counts.
LimitsExact == RateExact /\ RecoveryKept
=============================================================================
