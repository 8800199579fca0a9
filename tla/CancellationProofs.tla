-------------------------- MODULE CancellationProofs --------------------------
(***************************************************************************)
(* Theorems about what waits and is waited for: Cancellation, for every    *)
(* tree of tokens, any number of waiting tasks and of cancelling threads,  *)
(* the calls of LlmClient, for any callers, permits and attempts, and its  *)
(* streams, for any body and chunks, CallLimits, for any configurations,   *)
(* costs, thresholds and delays, and the MCP server, SessionManager and    *)
(* McpRegistries, for any callers, limits of a window and versions of a    *)
(* prompt, and the memories of an agent, AgentMemory, for any callers,     *)
(* entries and sizes of the window.                                        *)
(***************************************************************************)
EXTENDS Cancellation, LlmClient, CallLimits, McpRegistries, AgentMemory,
        CommonProofs, FiniteSetTheorems, WellFoundedInduction, TLAPS

\* A token heads its own chain, and the chain of its parent is part of it.
LEMMA ChainFacts ==
  ASSUME NEW t \in Tokens
  PROVE  /\ t \in Chain[t]
         /\ Chain[t] \subseteq Tokens
         /\ Parent[t] # NoToken => Parent[t] \in Tokens /\ Chain[Parent[t]] \subseteq Chain[t]
         /\ Parent[t] = NoToken => Chain[t] = {t}
  BY CancellationConstants

LEMMA TypeInit == Init => TypeOK
  BY DEF Init, TypeOK

LEMMA TypeStep ==
  ASSUME TypeOK, CancellationInv, [Next]_vars
  PROVE  TypeOK'
  <1>1. ASSUME NEW w \in Waiters, Await(w) PROVE TypeOK'
    BY <1>1, CancellationConstants DEF TypeOK, Await, IsCancelled
  <1>2. ASSUME NEW w \in Waiters, Check(w) PROVE TypeOK'
    <2>1. at[w] \in Tokens
      BY <1>2 DEF CancellationInv, Check
    <2>2. QED
      BY <1>2, <2>1, CancellationConstants DEF TypeOK, Check, Up
  <1>3. ASSUME NEW w \in Waiters, Subscribe(w) PROVE TypeOK'
    BY <1>3 DEF TypeOK, Subscribe
  <1>4. ASSUME NEW w \in Waiters, ListenToParent(w) PROVE TypeOK'
    BY <1>4 DEF TypeOK, ListenToParent
  <1>5. ASSUME NEW c \in Cancellers, NEW t \in Tokens, Cancel(c, t) PROVE TypeOK'
    BY <1>5 DEF TypeOK, Cancel
  <1>6. ASSUME NEW c \in Cancellers, Notify(c) PROVE TypeOK'
    BY <1>6 DEF TypeOK, Notify
  <1>7. CASE UNCHANGED vars
    BY <1>7 DEF TypeOK, vars
  <1>8. QED
    BY <1>1, <1>2, <1>3, <1>4, <1>5, <1>6, <1>7 DEF Next, Run

LEMMA InvInit == Init => CancellationInv
  BY DEF Init, CancellationInv, ReturnsOnlyIfCancelled, WalkMissesNoEarlierCancel,
         SleepersAreRegistered, Registered

\* What the invariant says of one waiter.
WaiterInv(w) ==
  /\ pc[w] = "done" => IsCancelled(TokenOf[w])
  /\ pc[w] \in {"subscribe", "listen", "wait"} => ~early[w]
  /\ pc[w] = "check" =>
       /\ at[w] \in Tokens
       /\ Chain[at[w]] \subseteq Chain[TokenOf[w]]
       /\ early[w] => IsCancelled(at[w])
  /\ pc[w] = "wait" => Registered(w) = {TokenOf[w], Parent[TokenOf[w]]} \ {NoToken}
  /\ pc[w] = "listen" => Registered(w) = {TokenOf[w]}
  /\ pc[w] \notin {"listen", "wait"} => Registered(w) = {}

FlagsBeforeNotify == \A c \in Cancellers : calling[c] # NoToken => cancelled[calling[c]]

LEMMA InvByWaiter ==
  CancellationInv <=> FlagsBeforeNotify /\ \A w \in Waiters : WaiterInv(w)
  BY DEF CancellationInv, FlagsBeforeNotify, WaiterInv, ReturnsOnlyIfCancelled,
         WalkMissesNoEarlierCancel, SleepersAreRegistered, Registered

\* A waiter is undisturbed by a step that leaves its own variables and its
\* registrations alone and clears no flag.
LEMMA WaiterKept ==
  ASSUME TypeOK, NEW w \in Waiters, WaiterInv(w),
         pc'[w] = pc[w], at'[w] = at[w], early'[w] = early[w],
         Registered(w)' = Registered(w),
         \A t \in Tokens : cancelled[t] => cancelled'[t]
  PROVE  WaiterInv(w)'
  <1>1. \A t \in Tokens : IsCancelled(t) => IsCancelled(t)'
    BY ChainFacts DEF IsCancelled
  <1>2. TokenOf[w] \in Tokens
    BY CancellationConstants
  <1>3. QED
    BY <1>1, <1>2 DEF WaiterInv

LEMMA Together ==
  ASSUME FlagsBeforeNotify', \A w \in Waiters : WaiterInv(w)'
  PROVE  CancellationInv'
  BY DEF CancellationInv, FlagsBeforeNotify, WaiterInv, ReturnsOnlyIfCancelled,
         WalkMissesNoEarlierCancel, SleepersAreRegistered, Registered

LEMMA AwaitKeeps ==
  ASSUME TypeOK, CancellationInv, NEW w \in Waiters, Await(w)
  PROVE  CancellationInv'
  <1>1. /\ pc' = [pc EXCEPT ![w] = "check"] /\ at' = [at EXCEPT ![w] = TokenOf[w]]
        /\ early' = [early EXCEPT ![w] = IsCancelled(TokenOf[w])]
        /\ cancelled' = cancelled /\ waker' = waker /\ calling' = calling /\ pc[w] = "idle"
    BY DEF Await
  <1>2. ASSUME NEW v \in Waiters \ {w} PROVE WaiterInv(v)'
    BY <1>1, <1>2, WaiterKept, InvByWaiter DEF TypeOK, Registered
  <1>3. WaiterInv(w)'
    <2>1. TokenOf[w] \in Tokens /\ WaiterInv(w)
      BY CancellationConstants, InvByWaiter
    <2>2. IsCancelled(TokenOf[w])' <=> IsCancelled(TokenOf[w])
      BY <1>1 DEF IsCancelled
    <2>3. pc'[w] = "check" /\ at'[w] = TokenOf[w] /\ early'[w] = IsCancelled(TokenOf[w])
      BY <1>1 DEF TypeOK
    <2>4. Registered(w)' = {}
      BY <1>1, <2>1 DEF WaiterInv, Registered
    <2>5. at'[w] \in Tokens /\ (early'[w] => IsCancelled(at[w])')
      BY <1>1, <2>1, <2>3 DEF IsCancelled
    <2>6. QED
      BY <2>1, <2>3, <2>4, <2>5 DEF WaiterInv
  <1>4. FlagsBeforeNotify'
    BY <1>1, InvByWaiter DEF FlagsBeforeNotify
  <1>5. QED
    BY <1>2, <1>3, <1>4, Together

LEMMA CheckKeeps ==
  ASSUME TypeOK, CancellationInv, NEW w \in Waiters, Check(w)
  PROVE  CancellationInv'
  <1>1. /\ cancelled' = cancelled /\ waker' = waker /\ calling' = calling /\ early' = early
        /\ pc[w] = "check"
        /\ \A v \in Waiters \ {w} : pc'[v] = pc[v] /\ at'[v] = at[v]
    BY DEF Check, TypeOK
  <1>2. ASSUME NEW v \in Waiters \ {w} PROVE WaiterInv(v)'
    BY <1>1, <1>2, WaiterKept, InvByWaiter DEF Registered
  <1>3. /\ at[w] \in Tokens /\ TokenOf[w] \in Tokens /\ WaiterInv(w)
        /\ Chain[at[w]] \subseteq Chain[TokenOf[w]]
        /\ Registered(w)' = {}
        /\ early[w] => IsCancelled(at[w])
    BY <1>1, CancellationConstants, InvByWaiter DEF WaiterInv, Registered
  <1>4. CASE cancelled[at[w]]
    <2>1. pc'[w] = "done"
      BY <1>4 DEF Check, TypeOK
    <2>2. IsCancelled(TokenOf[w])'
      BY <1>1, <1>3, <1>4, ChainFacts DEF IsCancelled
    <2>3. WaiterInv(w)'
      BY <1>3, <2>1, <2>2 DEF WaiterInv
    <2>4. QED
      BY <1>1, <1>2, <2>3, InvByWaiter, Together DEF FlagsBeforeNotify
  <1>5. CASE ~cancelled[at[w]]
    <2> DEFINE up == Parent[at[w]]
    <2>1. at'[w] = up /\ pc'[w] = IF up = NoToken THEN "subscribe" ELSE "check"
      BY <1>5 DEF Check, Up, TypeOK
    <2>2. Chain[at[w]] = {at[w]} \cup IF up = NoToken THEN {} ELSE Chain[up]
      BY <1>3, CancellationConstants
    <2>3. up = NoToken => ~early[w]
      BY <1>3, <1>5, <2>2 DEF IsCancelled
    <2>4. up # NoToken => /\ up \in Tokens
                          /\ Chain[up] \subseteq Chain[TokenOf[w]]
                          /\ early[w] => \E a \in Chain[up] : cancelled'[a]
      <3>1. up # NoToken => up \in Tokens /\ Chain[up] \subseteq Chain[at[w]]
        BY <1>3, ChainFacts
      <3>2. up # NoToken /\ early[w] => IsCancelled(up)
        BY <1>3, <1>5, <2>2 DEF IsCancelled
      <3>3. QED
        BY <1>1, <1>3, <3>1, <3>2 DEF IsCancelled
    <2>5. WaiterInv(w)'
      <3>1. CASE up = NoToken
        BY <1>1, <1>3, <2>1, <2>3, <3>1 DEF WaiterInv
      <3>2. CASE up # NoToken
        <4>1. at'[w] = up /\ pc'[w] = "check" /\ early'[w] = early[w]
          BY <1>1, <2>1, <3>2
        <4>2. early'[w] => IsCancelled(at[w])'
          BY <1>1, <2>4, <3>2, <4>1 DEF IsCancelled
        <4>3. QED
          BY <1>3, <2>4, <3>2, <4>1, <4>2 DEF WaiterInv
      <3>3. QED
        BY <3>1, <3>2
    <2>6. QED
      BY <1>1, <1>2, <2>5, InvByWaiter, Together DEF FlagsBeforeNotify
  <1>6. QED
    BY <1>4, <1>5

LEMMA SubscribeKeeps ==
  ASSUME TypeOK, CancellationInv, NEW w \in Waiters, Subscribe(w)
  PROVE  CancellationInv'
  <1>1. /\ cancelled' = cancelled /\ calling' = calling /\ early' = early /\ at' = at
        /\ pc[w] = "subscribe" /\ pc'[w] = "listen"
        /\ waker' = [waker EXCEPT ![TokenOf[w]] = @ \cup {w}]
        /\ \A v \in Waiters \ {w} : pc'[v] = pc[v]
    BY DEF Subscribe, TypeOK
  <1>2. ASSUME NEW v \in Waiters \ {w} PROVE WaiterInv(v)'
    <2>1. Registered(v)' = Registered(v)
      BY <1>1 DEF Registered, TypeOK
    <2>2. QED
      BY <1>1, <2>1, WaiterKept, InvByWaiter
  <1>3. TokenOf[w] \in Tokens /\ WaiterInv(w)
    BY CancellationConstants, InvByWaiter
  <1>4. Registered(w)' = {TokenOf[w]}
    BY <1>1, <1>3 DEF WaiterInv, Registered, TypeOK
  <1>5. WaiterInv(w)'
    BY <1>1, <1>3, <1>4 DEF WaiterInv
  <1>6. QED
    BY <1>1, <1>2, <1>5, InvByWaiter, Together DEF FlagsBeforeNotify

LEMMA ListenKeeps ==
  ASSUME TypeOK, CancellationInv, NEW w \in Waiters, ListenToParent(w)
  PROVE  CancellationInv'
  <1> DEFINE p == Parent[TokenOf[w]]
  <1>1. /\ cancelled' = cancelled /\ calling' = calling /\ early' = early /\ at' = at
        /\ pc[w] = "listen" /\ pc'[w] = "wait"
        /\ waker' = IF p = NoToken THEN waker ELSE [waker EXCEPT ![p] = @ \cup {w}]
        /\ \A v \in Waiters \ {w} : pc'[v] = pc[v]
    BY DEF ListenToParent, TypeOK
  <1>2. ASSUME NEW v \in Waiters \ {w} PROVE WaiterInv(v)'
    <2>1. Registered(v)' = Registered(v)
      BY <1>1 DEF Registered, TypeOK
    <2>2. QED
      BY <1>1, <2>1, WaiterKept, InvByWaiter
  <1>3. TokenOf[w] \in Tokens /\ WaiterInv(w) /\ Registered(w) = {TokenOf[w]}
    BY <1>1, CancellationConstants, InvByWaiter DEF WaiterInv
  <1>4. p # NoToken => p \in Tokens
    BY <1>3, CancellationConstants
  <1>5. Registered(w)' = {TokenOf[w], p} \ {NoToken}
    BY <1>1, <1>3, <1>4, CancellationConstants DEF Registered, TypeOK
  <1>6. WaiterInv(w)'
    BY <1>1, <1>3, <1>5 DEF WaiterInv
  <1>7. QED
    BY <1>1, <1>2, <1>6, InvByWaiter, Together DEF FlagsBeforeNotify

LEMMA CancelKeeps ==
  ASSUME TypeOK, CancellationInv, NEW c \in Cancellers, NEW t \in Tokens, Cancel(c, t)
  PROVE  CancellationInv'
  <1>1. /\ pc' = pc /\ at' = at /\ early' = early /\ waker' = waker
        /\ cancelled' = [cancelled EXCEPT ![t] = TRUE]
        /\ calling' = [calling EXCEPT ![c] = t]
    BY DEF Cancel
  <1>2. \A s \in Tokens : cancelled[s] => cancelled'[s]
    BY <1>1 DEF TypeOK
  <1>3. ASSUME NEW v \in Waiters PROVE WaiterInv(v)'
    BY <1>1, <1>2, WaiterKept, InvByWaiter DEF Registered
  <1>4. FlagsBeforeNotify'
    BY <1>1, InvByWaiter DEF FlagsBeforeNotify, TypeOK
  <1>5. QED
    BY <1>3, <1>4, Together

LEMMA NotifyKeeps ==
  ASSUME TypeOK, CancellationInv, NEW c \in Cancellers, Notify(c)
  PROVE  CancellationInv'
  <1> DEFINE t == calling[c]
  <1>1. /\ t \in Tokens /\ cancelled[t] /\ cancelled' = cancelled /\ at' = at /\ early' = early
        /\ pc' = [w \in Waiters |-> IF w \in waker[t] THEN "done" ELSE pc[w]]
        /\ waker' = [s \in Tokens |-> waker[s] \ waker[t]]
        /\ calling' = [calling EXCEPT ![c] = NoToken]
    BY InvByWaiter DEF Notify, TypeOK, FlagsBeforeNotify
  <1>2. ASSUME NEW v \in Waiters, v \notin waker[t] PROVE WaiterInv(v)'
    <2>1. Registered(v)' = Registered(v) /\ pc'[v] = pc[v]
      BY <1>1, <1>2 DEF Registered
    <2>2. QED
      BY <1>1, <2>1, WaiterKept, InvByWaiter
  <1>3. ASSUME NEW v \in Waiters, v \in waker[t] PROVE WaiterInv(v)'
    <2>1. t \in Registered(v) /\ WaiterInv(v) /\ TokenOf[v] \in Tokens
      BY <1>1, <1>3, InvByWaiter, CancellationConstants DEF Registered
    <2>2. t \in {TokenOf[v], Parent[TokenOf[v]]} \ {NoToken}
      <3>1. TokenOf[v] # NoToken
        BY <2>1, CancellationConstants
      <3>2. pc[v] \in {"listen", "wait"}
        BY <2>1 DEF WaiterInv
      <3>3. CASE pc[v] = "listen"
        BY <2>1, <3>1, <3>3 DEF WaiterInv
      <3>4. CASE pc[v] = "wait"
        BY <2>1, <3>4 DEF WaiterInv
      <3>5. QED
        BY <3>2, <3>3, <3>4
    <2>3. t \in Chain[TokenOf[v]]
      BY <2>1, <2>2, ChainFacts
    <2>4. IsCancelled(TokenOf[v])'
      BY <1>1, <2>3 DEF IsCancelled
    <2>5. pc'[v] = "done" /\ Registered(v)' = {}
      BY <1>1, <1>3 DEF Registered
    <2>6. QED
      BY <2>4, <2>5 DEF WaiterInv
  <1>4. FlagsBeforeNotify'
    BY <1>1, InvByWaiter DEF FlagsBeforeNotify, TypeOK
  <1>5. QED
    BY <1>2, <1>3, <1>4, Together

\* cancelled() returns only for cancelled tokens, a walk up the chain never
\* overlooks an earlier cancellation, and sleepers are registered where a
\* cancellation of their token or its parent finds them, on every tree.
THEOREM CancellationCorrect == Spec => []CancellationSafe
  <1>1. Init => TypeOK /\ CancellationInv
    BY TypeInit, InvInit
  <1>2. ASSUME TypeOK, CancellationInv, [Next]_vars
        PROVE  TypeOK' /\ CancellationInv'
    <2>1. CASE UNCHANGED vars
      <3>1. \A w \in Waiters : WaiterInv(w)'
        BY <1>2, <2>1, WaiterKept, InvByWaiter DEF vars, Registered
      <3>2. FlagsBeforeNotify'
        BY <1>2, <2>1, InvByWaiter DEF vars, FlagsBeforeNotify
      <3>3. QED
        BY <1>2, <3>1, <3>2, Together, TypeStep
    <2>2. CASE Next
      BY <1>2, <2>2, TypeStep, AwaitKeeps, CheckKeeps, SubscribeKeeps, ListenKeeps,
         CancelKeeps, NotifyKeeps DEF Next, Run
    <2>3. QED
      BY <1>2, <2>1, <2>2
  <1>3. QED
    BY <1>1, <1>2, PTL DEF Spec, CancellationSafe

\* The same for the two properties a caller relies on.
THEOREM CancellationIsSound ==
  Spec => [](ReturnsOnlyIfCancelled /\ WalkMissesNoEarlierCancel)
  <1>1. TypeOK /\ CancellationInv => ReturnsOnlyIfCancelled /\ WalkMissesNoEarlierCancel
    BY DEF CancellationInv
  <1>2. QED
    BY <1>1, CancellationCorrect, PTL DEF CancellationSafe

(***************************************************************************)
(* Calls of the LLM client                                                 *)
(***************************************************************************)

LlmTokens  == [n : Nat, refresh : BOOLEAN]
LlmSteps   == {"idle", "request", "permit", "slot", "send", "collect", "reading", "sleep"} \cup LlmAsking
LlmRecords == [kind : {"none", "complete", "stream"}, at : LlmSteps, failed : Nat, key : Nat,
               token : LlmTokens, seen : SUBSET Nat]

\* Whoever asks has seen every token that is good, a token in hand was good
\* when it was issued, and the key chosen was good meanwhile.
LlmCallInv(me, good) ==
  /\ me.kind = "none" <=> me.at = "idle"
  /\ me.at \in LlmAsking => good \subseteq me.seen
  /\ me.at = "store" => me.token.n \in me.seen
  /\ me.at \in {"slot", "send"} => me.key = 0 \/ me.key \in me.seen

\* The steps in which a call is in the API's queue, holds its permit, is in the
\* provider's queue, and holds that one's.
LlmInApi(me)      == (me.kind = "complete" /\ me.at # "request") \/ me.at \in {"permit", "reading"}
LlmServing(me)    == (me.kind = "complete" /\ me.at \notin {"request", "permit"}) \/ me.at = "reading"
LlmInProvider(me) == me.at \in {"slot", "send"}

LlmCompletes == {c \in LlmCallers : llmCall[c].kind = "complete"}

\* In a queue are those that should be, once each, and those that go on hold
\* one of the permits.
LlmPlaced(queue, permits, in, holding) ==
  /\ queue \in Seq(LlmCallers)
  /\ \A i, j \in DOMAIN queue : queue[i] = queue[j] => i = j
  /\ \A c \in LlmCallers : c \in in <=> \E i \in DOMAIN queue : queue[i] = c
  /\ \A c \in holding : c \in LlmCallers /\ LlmHolds(c, queue, permits)

LlmInv ==
  /\ llmCall \in [LlmCallers -> LlmRecords] /\ llmToken \in LlmTokens
  /\ llmGood \subseteq Nat /\ llmIssued \in Nat /\ llmOpen \in Nat /\ llmSilent \in Nat
  /\ \A c \in LlmCallers : LlmCallInv(llmCall[c], llmGood)
  /\ LlmPlaced(llmApi, LlmPermits, {c \in LlmCallers : LlmInApi(llmCall[c])}, LlmBusy \cup LlmInside({"reading"}))
  /\ LlmPlaced(llmProvider, LlmProviderPermits, {c \in LlmCallers : LlmInProvider(llmCall[c])}, LlmInside({"send"}))
  /\ llmOpen = llmSilent + Cardinality(LlmCompletes)

-----------------------------------------------------------------------------
(* Queues *)

\* What leaving a queue does to it.
LEMMA LlmLeft ==
  ASSUME NEW S, NEW q \in Seq(S), \A i, j \in DOMAIN q : q[i] = q[j] => i = j,
         NEW k \in DOMAIN q
  PROVE  /\ RemoveFirst(q, q[k]) \in Seq(S)
         /\ Len(RemoveFirst(q, q[k])) = Len(q) - 1
         /\ \A i \in 1 .. Len(q) - 1 : RemoveFirst(q, q[k])[i] = IF i < k THEN q[i] ELSE q[i + 1]
<1>1. DOMAIN q = 1 .. Len(q) /\ Len(q) \in Nat
  OBVIOUS
<1>2. SelectInSeq(q, LAMBDA v : v = q[k]) = k
  <2>1. PICK I : I = {i \in 1 .. Len(q) : q[i] = q[k]}
    OBVIOUS
  <2>2. I = {k}
    BY <1>1, <2>1
  <2>3. SelectInSeq(q, LAMBDA v : v = q[k]) = IF I # {} THEN Min(I) ELSE 0
    BY <2>1 DEF SelectInSeq
  <2>4. Min({k}) = k
    BY <1>1 DEF Min
  <2>. QED  BY <2>2, <2>3, <2>4
<1>3. RemoveFirst(q, q[k]) = SubSeq(q, 1, k - 1) \o SubSeq(q, k + 1, Len(q))
  BY <1>1, <1>2 DEF RemoveFirst, RemoveAt
<1>4. PICK a : a = SubSeq(q, 1, k - 1)
  OBVIOUS
<1>5. PICK b : b = SubSeq(q, k + 1, Len(q))
  OBVIOUS
<1>6. k \in 1 .. Len(q)
  BY <1>1
<1>7. a \in Seq(S) /\ Len(a) = k - 1 /\ \A i \in 1 .. k - 1 : a[i] = q[i]
  BY <1>4, <1>6
<1>8. b \in Seq(S) /\ Len(b) = Len(q) - k /\ \A i \in 1 .. Len(q) - k : b[i] = q[k + i]
  BY <1>5, <1>6
<1>9. a \o b \in Seq(S) /\ Len(a \o b) = Len(q) - 1
  BY <1>6, <1>7, <1>8
<1>10. ASSUME NEW i \in 1 .. Len(q) - 1
       PROVE  (a \o b)[i] = IF i < k THEN q[i] ELSE q[i + 1]
  <2>1. CASE i < k
    BY <2>1, <1>6, <1>7, <1>8
  <2>2. CASE ~ (i < k)
    <3>1. (a \o b)[i] = b[i - Len(a)]
      BY <2>2, <1>6, <1>7, <1>8
    <3>2. i - (k - 1) \in 1 .. Len(q) - k /\ k + (i - (k - 1)) = i + 1
      BY <2>2, <1>6
    <3>. QED  BY <2>2, <3>1, <3>2, <1>7, <1>8
  <2>. QED  BY <2>1, <2>2
<1>. QED  BY <1>3, <1>4, <1>5, <1>9, <1>10

\* One call takes a step: it stays where it is, perhaps to go on with a permit
\* it holds; or joins the queue; or leaves it.
LEMMA LlmPlacedStep ==
  ASSUME NEW p \in Nat, NEW q, NEW q2, NEW in, NEW in2, NEW holding, NEW holding2, NEW c \in LlmCallers,
         LlmPlaced(q, p, in, holding),
         in2 \ {c} = in \ {c}, holding2 \ {c} \subseteq holding \ {c},
         \/ q2 = q /\ (c \in in2 <=> c \in in) /\ (c \in holding2 => c \in holding \/ LlmHolds(c, q, p))
         \/ q2 = Append(q, c) /\ c \notin in /\ c \in in2 /\ c \notin holding2
         \/ q2 = RemoveFirst(q, c) /\ c \notin in2 /\ c \notin holding2
  PROVE  LlmPlaced(q2, p, in2, holding2)
<1>1. /\ q \in Seq(LlmCallers) /\ DOMAIN q = 1 .. Len(q) /\ Len(q) \in Nat
      /\ \A i, j \in DOMAIN q : q[i] = q[j] => i = j
      /\ \A d \in LlmCallers : d \in in <=> \E i \in DOMAIN q : q[i] = d
      /\ \A d \in holding : d \in LlmCallers /\ \E i \in DOMAIN q : i <= p /\ q[i] = d
  BY DEF LlmPlaced, LlmHolds
<1>2. CASE q2 = q /\ (c \in in2 <=> c \in in) /\ (c \in holding2 => c \in holding \/ LlmHolds(c, q, p))
  <2>1. \A d \in LlmCallers : d \in in2 <=> d \in in
    BY <1>2
  <2>2. \A d \in holding2 : d \in LlmCallers /\ LlmHolds(d, q, p)
    BY <1>2 DEF LlmPlaced
  <2>. QED  BY <1>1, <1>2, <2>1, <2>2 DEF LlmPlaced
<1>3. CASE q2 = Append(q, c) /\ c \notin in /\ c \in in2 /\ c \notin holding2
  <2>1. /\ q2 \in Seq(LlmCallers) /\ DOMAIN q2 = 1 .. Len(q) + 1
        /\ q2[Len(q) + 1] = c /\ \A i \in 1 .. Len(q) : q2[i] = q[i]
    BY ONLY <1>1, <1>3, c \in LlmCallers
  <2>2. \A i \in 1 .. Len(q) : q[i] # c
    BY <1>1, <1>3
  <2>3. \A i, j \in DOMAIN q2 : q2[i] = q2[j] => i = j
    <3>1. SUFFICES ASSUME NEW i \in 1 .. Len(q) + 1, NEW j \in 1 .. Len(q) + 1, q2[i] = q2[j] PROVE i = j
      BY <2>1
    <3>2. CASE i \in 1 .. Len(q) /\ j \in 1 .. Len(q)
      BY <3>1, <3>2, <1>1, <2>1
    <3>3. CASE ~ (i \in 1 .. Len(q) /\ j \in 1 .. Len(q))
      BY <3>1, <3>3, <1>1, <2>1, <2>2
    <3>. QED  BY <3>2, <3>3
  <2>4. \A d \in LlmCallers : d \in in2 <=> \E i \in DOMAIN q2 : q2[i] = d
    <3>1. SUFFICES ASSUME NEW d \in LlmCallers PROVE d \in in2 <=> \E i \in 1 .. Len(q) + 1 : q2[i] = d
      BY <2>1
    <3>2. CASE d = c
      <4>1. Len(q) + 1 \in 1 .. Len(q) + 1
        BY <1>1
      <4>. QED  BY ONLY <3>2, <4>1, <1>3, <2>1
    <3>3. CASE d # c
      <4>1. d \in in2 <=> \E i \in 1 .. Len(q) : q[i] = d
        BY <3>3, <1>1
      <4>2. (\E i \in 1 .. Len(q) : q[i] = d) <=> \E i \in 1 .. Len(q) + 1 : q2[i] = d
        <5>1. \A i \in 1 .. Len(q) + 1 : i \in 1 .. Len(q) \/ i = Len(q) + 1
          BY <1>1
        <5>2. \A i \in 1 .. Len(q) : i \in 1 .. Len(q) + 1
          BY <1>1
        <5>. QED  BY <3>3, <2>1, <5>1, <5>2
      <4>. QED  BY <4>1, <4>2
    <3>. QED  BY <3>2, <3>3
  <2>5. ASSUME NEW d \in holding2 PROVE d \in LlmCallers /\ LlmHolds(d, q2, p)
    <3>1. d \in holding
      BY <1>3, <2>5
    <3>2. PICK i \in 1 .. Len(q) : i <= p /\ q[i] = d
      BY <1>1, <3>1
    <3>3. i \in DOMAIN q2 /\ q2[i] = d
      BY <1>1, <2>1, <3>2
    <3>. QED  BY <1>1, <3>1, <3>2, <3>3 DEF LlmHolds
  <2>. QED  BY <2>1, <2>3, <2>4, <2>5 DEF LlmPlaced
<1>4. CASE q2 = RemoveFirst(q, c) /\ c \notin in2 /\ c \notin holding2
  <2>1. CASE c \notin in
    <3>1. q2 = q
      BY <1>1, <1>4, <2>1 DEF RemoveFirst
    <3>2. \A d \in LlmCallers : d \in in2 <=> d \in in
      BY <1>4, <2>1
    <3>3. \A d \in holding2 : d \in LlmCallers /\ LlmHolds(d, q, p)
      BY <1>4 DEF LlmPlaced
    <3>. QED  BY <1>1, <3>1, <3>2, <3>3 DEF LlmPlaced
  <2>2. CASE c \in in
    <3>1. PICK k \in 1 .. Len(q) : q[k] = c
      BY <1>1, <2>2
    <3>2. /\ q2 \in Seq(LlmCallers) /\ Len(q2) = Len(q) - 1
          /\ \A i \in 1 .. Len(q) - 1 : q2[i] = IF i < k THEN q[i] ELSE q[i + 1]
      <4>1. k \in DOMAIN q
        BY <1>1, <3>1
      <4>2. /\ RemoveFirst(q, q[k]) \in Seq(LlmCallers)
            /\ Len(RemoveFirst(q, q[k])) = Len(q) - 1
            /\ \A i \in 1 .. Len(q) - 1 : RemoveFirst(q, q[k])[i] = IF i < k THEN q[i] ELSE q[i + 1]
        <5>1. q \in Seq(LlmCallers) /\ \A i, j \in DOMAIN q : q[i] = q[j] => i = j
          BY <1>1
        <5>. QED  BY ONLY <4>1, <5>1, LlmLeft
      <4>3. q2 = RemoveFirst(q, q[k])
        BY <1>4, <3>1
      <4>. QED  BY ONLY <4>2, <4>3
    <3>3. DOMAIN q2 = 1 .. Len(q) - 1
      BY <3>2
    <3>4. PICK old : old = [i \in 1 .. Len(q) - 1 |-> IF i < k THEN i ELSE i + 1]
      OBVIOUS
    <3>5. \A i \in 1 .. Len(q) - 1 :
            q2[i] = q[old[i]] /\ old[i] \in 1 .. Len(q) /\ old[i] # k
      BY <1>1, <3>1, <3>2, <3>4
    <3>6. \A i, j \in 1 .. Len(q) - 1 : old[i] = old[j] => i = j
      BY <1>1, <3>1, <3>4
    <3>7. \A i, j \in DOMAIN q2 : q2[i] = q2[j] => i = j
      BY ONLY <1>1, <3>3, <3>5, <3>6
    <3>8. ASSUME NEW j \in 1 .. Len(q), j # k
          PROVE  \E i \in 1 .. Len(q) - 1 : i <= j /\ q2[i] = q[j]
      <4>1. CASE j < k
        <5>1. j \in 1 .. Len(q) - 1
          BY <4>1, <1>1, <3>1
        <5>. QED  BY <4>1, <5>1, <3>2
      <4>2. CASE ~ (j < k)
        <5>1. j - 1 \in 1 .. Len(q) - 1 /\ ~ (j - 1 < k) /\ j - 1 <= j /\ (j - 1) + 1 = j
          BY <4>2, <3>8, <1>1, <3>1
        <5>2. q2[j - 1] = q[(j - 1) + 1]
          BY <5>1, <3>2
        <5>. QED  BY <5>1, <5>2
      <4>. QED  BY <4>1, <4>2
    <3>9. ASSUME NEW d \in LlmCallers PROVE d \in in2 <=> \E i \in DOMAIN q2 : q2[i] = d
      <4>1. CASE d = c
        <5>1. \A i \in 1 .. Len(q) - 1 : q2[i] # c
          BY <1>1, <3>1, <3>5, SMTT(30)
        <5>. QED  BY <4>1, <5>1, <1>4, <3>3
      <4>2. CASE d # c
        <5>1. d \in in2 <=> \E i \in 1 .. Len(q) : q[i] = d
          BY <4>2, <1>1
        <5>2. (\E i \in 1 .. Len(q) : q[i] = d) => \E i \in 1 .. Len(q) - 1 : q2[i] = d
          BY <4>2, <3>1, <3>8
        <5>3. (\E i \in 1 .. Len(q) - 1 : q2[i] = d) => \E i \in 1 .. Len(q) : q[i] = d
          BY <3>5
        <5>. QED  BY <5>1, <5>2, <5>3, <3>3
      <4>. QED  BY <4>1, <4>2
    <3>10. ASSUME NEW d \in holding2 PROVE d \in LlmCallers /\ LlmHolds(d, q2, p)
      <4>1. d \in holding /\ d # c
        BY <1>4, <3>10
      <4>2. PICK j \in 1 .. Len(q) : j <= p /\ q[j] = d
        BY <1>1, <4>1
      <4>3. PICK i \in 1 .. Len(q) - 1 : i <= j /\ q2[i] = q[j]
        BY <3>1, <3>8, <4>1, <4>2
      <4>4. i <= p
        BY <4>2, <4>3
      <4>. QED  BY <1>1, <3>3, <4>1, <4>2, <4>3, <4>4 DEF LlmHolds
    <3>. QED  BY <3>2, <3>7, <3>9, <3>10 DEF LlmPlaced
  <2>. QED  BY <2>1, <2>2
<1>. QED  BY <1>2, <1>3, <1>4

\* No more go on than there are permits.
LEMMA LlmBounded ==
  ASSUME NEW p \in Nat, NEW q, NEW in, NEW holding, LlmPlaced(q, p, in, holding)
  PROVE  Cardinality(holding) <= p
<1>1. q \in Seq(LlmCallers) /\ DOMAIN q = 1 .. Len(q) /\ Len(q) \in Nat
  BY DEF LlmPlaced
<1>2. PICK n : n = IF p <= Len(q) THEN p ELSE Len(q)
  OBVIOUS
<1>11. n \in Nat /\ n <= p /\ n <= Len(q) /\ (n = p \/ n = Len(q))
  <2>1. PICK len : len = Len(q)
    OBVIOUS
  <2>2. len \in Nat /\ p \in Nat /\ n = IF p <= len THEN p ELSE len
    BY <1>1, <1>2, <2>1
  <2>3. n \in Nat /\ n <= p /\ n <= len /\ (n = p \/ n = len)
    BY ONLY <2>2
  <2>. QED  BY ONLY <2>1, <2>3
<1>3. PICK f : f = [i \in 1 .. n |-> q[i]]
  OBVIOUS
<1>4. PICK T : T = {f[i] : i \in 1 .. n}
  OBVIOUS
<1>5. f \in Surjection(1 .. n, T)
  BY <1>3, <1>4 DEF Surjection
<1>6. IsFiniteSet(1 .. n) /\ Cardinality(1 .. n) = n
  BY <1>11, FS_Interval
<1>7. IsFiniteSet(T) /\ Cardinality(T) <= n
  BY <1>5, <1>6, FS_Surjection
<1>8. holding \subseteq T
  <2>1. SUFFICES ASSUME NEW d \in holding PROVE d \in T
    OBVIOUS
  <2>2. PICK i \in 1 .. Len(q) : i <= p /\ q[i] = d
    BY <1>1 DEF LlmPlaced, LlmHolds
  <2>3. i \in 1 .. n
    <3>1. Len(q) \in Nat /\ i \in 1 .. Len(q) /\ i <= p /\ n \in Nat /\ (n = p \/ n = Len(q))
      BY <1>1, <1>11, <2>2
    <3>. QED  BY ONLY <3>1
  <2>. QED  BY <1>3, <1>4, <2>2, <2>3
<1>9. Cardinality(holding) <= Cardinality(T) /\ IsFiniteSet(holding)
  BY <1>7, <1>8, FS_Subset
<1>10. Cardinality(holding) \in Nat /\ Cardinality(T) \in Nat
  BY <1>7, <1>9, FS_CardinalityType
<1>. QED  BY <1>7, <1>9, <1>10, <1>11

-----------------------------------------------------------------------------
(* The steps *)

\* What becomes of one call's place in a queue: nothing, but it may go on with
\* a permit; it joins; it leaves.
LlmQueueStep(c, p, q, q2, was, is, held, holds) ==
  \/ q2 = q /\ (is <=> was) /\ (holds => held \/ LlmHolds(c, q, p))
  \/ q2 = Append(q, c) /\ ~was /\ is /\ ~holds
  \/ q2 = RemoveFirst(q, c) /\ ~is /\ ~holds

\* The event log keeps up with the completes that begin and end.
LlmLogStep(was, is) ==
  \/ UNCHANGED <<llmOpen, llmSilent>> /\ (is <=> was)
  \/ llmOpen' = llmOpen + 1 /\ UNCHANGED llmSilent /\ ~was /\ is
  \/ /\ was /\ ~is
     /\ \/ llmOpen' = llmOpen - 1 /\ UNCHANGED llmSilent
        \/ llmSilent' = llmSilent + 1 /\ UNCHANGED llmOpen

\* A step of one call that accounts for its queues and the log.
LEMMA LlmMove ==
  ASSUME LlmInv, NEW c \in LlmCallers,
         llmCall' \in [LlmCallers -> LlmRecords], llmToken' \in LlmTokens,
         llmGood' \subseteq Nat, llmIssued' \in Nat,
         \A d \in LlmCallers : d # c => llmCall'[d].kind = llmCall[d].kind /\ llmCall'[d].at = llmCall[d].at,
         \A d \in LlmCallers : LlmCallInv(llmCall'[d], llmGood'),
         LlmQueueStep(c, LlmPermits, llmApi, llmApi', LlmInApi(llmCall[c]), LlmInApi(llmCall'[c]),
                      LlmServing(llmCall[c]), LlmServing(llmCall'[c])),
         LlmQueueStep(c, LlmProviderPermits, llmProvider, llmProvider',
                      LlmInProvider(llmCall[c]), LlmInProvider(llmCall'[c]),
                      llmCall[c].at = "send", llmCall'[c].at = "send"),
         LlmLogStep(llmCall[c].kind = "complete", llmCall'[c].kind = "complete")
  PROVE  LlmInv'
<1>1. LlmPermits \in Nat /\ LlmProviderPermits \in Nat
  BY LlmConstants
<1>2. LlmPlaced(llmApi', LlmPermits, {d \in LlmCallers : LlmInApi(llmCall'[d])}, (LlmBusy \cup LlmInside({"reading"}))')
  <2>1. PICK in, in2 : /\ in = {d \in LlmCallers : LlmInApi(llmCall[d])}
                       /\ in2 = {d \in LlmCallers : LlmInApi(llmCall'[d])}
    OBVIOUS
  <2>2. PICK hold, hold2 : /\ hold = LlmBusy \cup LlmInside({"reading"})
                           /\ hold2 = (LlmBusy \cup LlmInside({"reading"}))'
    OBVIOUS
  <2>3. LlmPlaced(llmApi, LlmPermits, in, hold)
    BY <2>1, <2>2 DEF LlmInv
  <2>4. \A d \in LlmCallers : d # c => (d \in in2 <=> d \in in)
    BY <2>1 DEF LlmInApi
  <2>5. hold = {d \in LlmCallers : LlmServing(llmCall[d])} /\ hold2 = {d \in LlmCallers : LlmServing(llmCall'[d])}
    BY <2>2 DEF LlmServing, LlmBusy, LlmInside
  <2>6. \A d \in LlmCallers : d # c => (d \in hold2 <=> d \in hold)
    BY <2>5 DEF LlmServing
  <2>7. in2 \ {c} = in \ {c} /\ hold2 \ {c} \subseteq hold \ {c}
    BY <2>1, <2>4, <2>5, <2>6
  <2>8. LlmQueueStep(c, LlmPermits, llmApi, llmApi', c \in in, c \in in2, c \in hold, c \in hold2)
    <3>1. /\ c \in in <=> LlmInApi(llmCall[c])
          /\ c \in in2 <=> LlmInApi(llmCall'[c])
          /\ c \in hold <=> LlmServing(llmCall[c])
          /\ c \in hold2 <=> LlmServing(llmCall'[c])
      BY <2>1, <2>5
    <3>. QED  BY <3>1 DEF LlmQueueStep
  <2>9. LlmPlaced(llmApi', LlmPermits, in2, hold2)
    BY <1>1, <2>3, <2>7, <2>8, LlmPlacedStep DEF LlmQueueStep
  <2>. QED  BY <2>1, <2>2, <2>9
<1>3. LlmPlaced(llmProvider', LlmProviderPermits, {d \in LlmCallers : LlmInProvider(llmCall'[d])}, LlmInside({"send"})')
  <2>1. PICK in, in2 : /\ in = {d \in LlmCallers : LlmInProvider(llmCall[d])}
                       /\ in2 = {d \in LlmCallers : LlmInProvider(llmCall'[d])}
    OBVIOUS
  <2>2. PICK hold, hold2 : hold = LlmInside({"send"}) /\ hold2 = LlmInside({"send"})'
    OBVIOUS
  <2>3. LlmPlaced(llmProvider, LlmProviderPermits, in, hold)
    BY <2>1, <2>2 DEF LlmInv
  <2>4. hold = {d \in LlmCallers : llmCall[d].at = "send"} /\ hold2 = {d \in LlmCallers : llmCall'[d].at = "send"}
    BY <2>2 DEF LlmInside
  <2>5. in2 \ {c} = in \ {c} /\ hold2 \ {c} \subseteq hold \ {c}
    BY <2>1, <2>4 DEF LlmInProvider
  <2>6. LlmQueueStep(c, LlmProviderPermits, llmProvider, llmProvider', c \in in, c \in in2, c \in hold, c \in hold2)
    <3>1. /\ c \in in <=> LlmInProvider(llmCall[c])
          /\ c \in in2 <=> LlmInProvider(llmCall'[c])
          /\ c \in hold <=> llmCall[c].at = "send"
          /\ c \in hold2 <=> llmCall'[c].at = "send"
      BY <2>1, <2>4
    <3>. QED  BY <3>1 DEF LlmQueueStep
  <2>7. LlmPlaced(llmProvider', LlmProviderPermits, in2, hold2)
    BY <1>1, <2>3, <2>5, <2>6, LlmPlacedStep DEF LlmQueueStep
  <2>. QED  BY <2>1, <2>2, <2>7
<1>4. /\ llmOpen' \in Nat /\ llmSilent' \in Nat
      /\ llmOpen' = llmSilent' + Cardinality(LlmCompletes')
  <2>1. PICK S, S2, n : S = LlmCompletes /\ S2 = LlmCompletes' /\ n = Cardinality(S)
    OBVIOUS
  <2>2. /\ S \subseteq LlmCallers /\ (c \in S <=> llmCall[c].kind = "complete")
        /\ (c \in S2 <=> llmCall'[c].kind = "complete") /\ S2 \ {c} = S \ {c}
    BY <2>1 DEF LlmCompletes
  <2>3. IsFiniteSet(S)
    BY <2>2, LlmConstants, FS_Subset
  <2>4. n \in Nat
    BY <2>1, <2>3, FS_CardinalityType
  <2>5. llmOpen \in Nat /\ llmSilent \in Nat /\ llmOpen = llmSilent + n
    BY <2>1 DEF LlmInv
  <2>6. CASE UNCHANGED <<llmOpen, llmSilent>> /\ (c \in S2 <=> c \in S)
    <3>1. S2 = S
      <4>1. S2 \ {c} = S \ {c} /\ (c \in S2 <=> c \in S)
        BY <2>2, <2>6
      <4>. QED  BY ONLY <4>1
    <3>. QED  BY <2>1, <2>5, <2>6, <3>1
  <2>7. CASE llmOpen' = llmOpen + 1 /\ UNCHANGED llmSilent /\ c \notin S /\ c \in S2
    <3>1. S2 = S \cup {c}
      <4>1. S2 \ {c} = S \ {c} /\ c \in S2 /\ c \notin S
        BY <2>2, <2>7
      <4>. QED  BY ONLY <4>1
    <3>2. Cardinality(S2) = n + 1
      BY <3>1, <2>1, <2>3, <2>7, FS_AddElement
    <3>. QED  BY <2>1, <2>4, <2>5, <2>7, <3>2
  <2>8. CASE /\ c \in S /\ c \notin S2
             /\ \/ llmOpen' = llmOpen - 1 /\ UNCHANGED llmSilent
                \/ llmSilent' = llmSilent + 1 /\ UNCHANGED llmOpen
    <3>1. S2 = S \ {c}
      <4>1. S2 \ {c} = S \ {c} /\ c \in S /\ c \notin S2
        BY <2>2, <2>8
      <4>. QED  BY ONLY <4>1
    <3>2. Cardinality(S2) = n - 1 /\ IsFiniteSet(S2)
      BY <3>1, <2>1, <2>3, <2>8, FS_RemoveElement
    <3>3. Cardinality(S2) \in Nat
      BY <3>2, FS_CardinalityType
    <3>. QED  BY <2>1, <2>4, <2>5, <2>8, <3>2, <3>3
  <2>. QED  BY <2>2, <2>6, <2>7, <2>8 DEF LlmLogStep
<1>. QED  BY <1>2, <1>3, <1>4 DEF LlmInv

\* The same when nothing becomes of the other calls and of good tokens.
LEMMA LlmGoes ==
  ASSUME LlmInv, NEW c \in LlmCallers, NEW me \in LlmRecords, me = llmCall[c], NEW r \in LlmRecords,
         llmCall' = [llmCall EXCEPT ![c] = r], llmToken' \in LlmTokens,
         UNCHANGED <<llmGood, llmIssued>>, LlmCallInv(r, llmGood),
         LlmQueueStep(c, LlmPermits, llmApi, llmApi', LlmInApi(me), LlmInApi(r), LlmServing(me), LlmServing(r)),
         LlmQueueStep(c, LlmProviderPermits, llmProvider, llmProvider', LlmInProvider(me), LlmInProvider(r),
                      me.at = "send", r.at = "send"),
         LlmLogStep(me.kind = "complete", r.kind = "complete")
  PROVE  LlmInv'
<1>1. llmCall \in [LlmCallers -> LlmRecords]
  BY DEF LlmInv
<1>2. llmCall'[c] = r /\ llmCall' \in [LlmCallers -> LlmRecords]
  BY <1>1
<1>3. \A d \in LlmCallers : d # c => llmCall'[d] = llmCall[d]
  BY <1>1
<1>4. \A d \in LlmCallers : LlmCallInv(llmCall'[d], llmGood')
  BY <1>1, <1>2, <1>3 DEF LlmInv
<1>5. llmGood' \subseteq Nat /\ llmIssued' \in Nat
  BY DEF LlmInv
<1>. QED  BY <1>2, <1>3, <1>4, <1>5, LlmMove

\* A record with another step.
LEMMA LlmAt ==
  ASSUME NEW me \in LlmRecords, NEW step \in LlmSteps
  PROVE  /\ [me EXCEPT !.at = step] \in LlmRecords /\ [me EXCEPT !.at = step].at = step
         /\ [me EXCEPT !.at = step].kind = me.kind /\ [me EXCEPT !.at = step].seen = me.seen
         /\ [me EXCEPT !.at = step].token = me.token /\ [me EXCEPT !.at = step].key = me.key
  BY DEF LlmRecords

LEMMA LlmIdleTyped ==
  LlmIdle \in LlmRecords /\ LlmIdle.kind = "none" /\ LlmIdle.at = "idle" /\ LlmIdle.token \in LlmTokens
<1>1. PICK t : t = [n |-> 0, refresh |-> FALSE]
  OBVIOUS
<1>2. t \in LlmTokens
  BY <1>1 DEF LlmTokens
<1>3. LlmIdle = [kind |-> "none", at |-> "idle", failed |-> 0, key |-> 0, token |-> t, seen |-> {}]
  BY <1>1 DEF LlmIdle
<1>. QED  BY <1>2, <1>3 DEF LlmRecords, LlmSteps

\* The initial state.
LEMMA LlmStarts == LlmInit => LlmInv
<1>. SUFFICES ASSUME LlmInit PROVE LlmInv
  OBVIOUS
<1>1. llmCall \in [LlmCallers -> LlmRecords] /\ \A c \in LlmCallers : llmCall[c].kind = "none" /\ llmCall[c].at = "idle"
  BY LlmIdleTyped DEF LlmInit
<1>2. ASSUME NEW p, NEW in, NEW holding, \A c \in LlmCallers : c \notin in, holding = {}
      PROVE  LlmPlaced(<< >>, p, in, holding)
  BY <1>2 DEF LlmPlaced
<1>3. LlmBusy \cup LlmInside({"reading"}) = {} /\ LlmInside({"send"}) = {} /\ LlmCompletes = {}
  BY <1>1 DEF LlmBusy, LlmInside, LlmCompletes
<1>4. \A c \in LlmCallers : ~LlmInApi(llmCall[c]) /\ ~LlmInProvider(llmCall[c])
  BY <1>1 DEF LlmInApi, LlmInProvider
<1>5. Cardinality(LlmCompletes) = 0
  BY <1>3, FS_EmptySet
<1>6. \A c \in LlmCallers : LlmCallInv(llmCall[c], llmGood)
  BY <1>1 DEF LlmInit, LlmCallInv, LlmAsking
<1>7. LlmPlaced(llmApi, LlmPermits, {c \in LlmCallers : LlmInApi(llmCall[c])}, LlmBusy \cup LlmInside({"reading"}))
  BY <1>2, <1>3, <1>4 DEF LlmInit
<1>8. LlmPlaced(llmProvider, LlmProviderPermits, {c \in LlmCallers : LlmInProvider(llmCall[c])}, LlmInside({"send"}))
  BY <1>2, <1>3, <1>4 DEF LlmInit
<1>. QED  BY <1>1, <1>5, <1>6, <1>7, <1>8, LlmIdleTyped DEF LlmInit, LlmInv

\* A call begins.
LEMMA LlmBegins ==
  ASSUME LlmInv, NEW c \in LlmCallers, LlmComplete(c) \/ LlmStream(c)
  PROVE  LlmInv'
<1>1. PICK me : me = llmCall[c]
  OBVIOUS
<1>2. me \in LlmRecords /\ me.at = "idle" /\ me.kind = "none"
  BY <1>1 DEF LlmInv, LlmCallInv, LlmComplete, LlmStream
<1>3. UNCHANGED <<llmApi, llmProvider, llmToken, llmGood, llmIssued, llmSilent>> /\ llmToken \in LlmTokens
  BY DEF LlmComplete, LlmStream, LlmInv, llmKeys, llmEvents
<1>4. CASE llmCall' = llmCall /\ llmOpen' = llmOpen
  <2>1. llmCall' = [llmCall EXCEPT ![c] = me]
    BY <1>1, <1>4 DEF LlmInv
  <2>. QED  BY <1>1, <1>2, <1>3, <1>4, <2>1, LlmGoes DEF LlmInv, LlmQueueStep, LlmLogStep
<1>5. ASSUME NEW kind \in {"complete", "stream"},
             llmCall' = [llmCall EXCEPT ![c] = [LlmIdle EXCEPT !.kind = kind, !.at = "request"]],
             llmOpen' = IF kind = "complete" THEN llmOpen + 1 ELSE llmOpen
      PROVE  LlmInv'
  <2>1. PICK r : r = [LlmIdle EXCEPT !.kind = kind, !.at = "request"]
    OBVIOUS
  <2>2. r \in LlmRecords /\ r.kind = kind /\ r.at = "request"
    BY <2>1, LlmIdleTyped DEF LlmRecords, LlmSteps
  <2>3. LlmCallInv(r, llmGood) /\ ~LlmInApi(r) /\ ~LlmServing(r) /\ ~LlmInProvider(r)
    BY <2>2 DEF LlmCallInv, LlmAsking, LlmInApi, LlmServing, LlmInProvider
  <2>4. ~LlmInApi(me) /\ ~LlmInProvider(me)
    BY <1>2 DEF LlmInApi, LlmInProvider
  <2>5. LlmLogStep(me.kind = "complete", r.kind = "complete")
    BY <1>2, <1>3, <1>5, <2>2 DEF LlmLogStep
  <2>6. llmCall' = [llmCall EXCEPT ![c] = r]
    BY <1>5, <2>1
  <2>. QED  BY <1>1, <1>2, <1>3, <2>2, <2>3, <2>4, <2>5, <2>6, LlmGoes DEF LlmQueueStep
<1>6. CASE LlmComplete(c)
  BY <1>6, <1>3, <1>4, <1>5 DEF LlmComplete
<1>7. CASE LlmStream(c)
  BY <1>7, <1>3, <1>5 DEF LlmStream, llmEvents
<1>. QED  BY <1>6, <1>7

\* A call ends, with an event or without.
LEMMA LlmEndKeeps ==
  ASSUME LlmInv, NEW c \in LlmCallers, llmCall[c].at # "idle", NEW told \in BOOLEAN, LlmEnd(c, told)
  PROVE  LlmInv'
<1>1. PICK me : me = llmCall[c]
  OBVIOUS
<1>2. me \in LlmRecords
  BY <1>1 DEF LlmInv
<1>3. /\ llmCall' = [llmCall EXCEPT ![c] = LlmIdle]
      /\ llmApi' = RemoveFirst(llmApi, c) /\ llmProvider' = RemoveFirst(llmProvider, c)
      /\ UNCHANGED <<llmToken, llmGood, llmIssued>> /\ llmToken \in LlmTokens
  BY DEF LlmEnd, llmKeys, LlmInv
<1>4. LlmCallInv(LlmIdle, llmGood) /\ ~LlmInApi(LlmIdle) /\ ~LlmServing(LlmIdle) /\ ~LlmInProvider(LlmIdle)
  BY LlmIdleTyped DEF LlmCallInv, LlmAsking, LlmInApi, LlmServing, LlmInProvider
<1>5. LlmLogStep(me.kind = "complete", LlmIdle.kind = "complete")
  BY <1>1, LlmIdleTyped DEF LlmEnd, LlmLogStep, llmEvents
<1>. QED  BY <1>1, <1>2, <1>3, <1>4, <1>5, LlmIdleTyped, LlmGoes DEF LlmQueueStep

\* The middleware has seen the request.
LEMMA LlmRequestKeeps ==
  ASSUME LlmInv, NEW c \in LlmCallers, LlmRequest(c)
  PROVE  LlmInv'
<1>1. PICK me : me = llmCall[c]
  OBVIOUS
<1>2. me \in LlmRecords /\ me.at = "request" /\ me.kind # "none" /\ LlmCallInv(me, llmGood)
  BY <1>1 DEF LlmInv, LlmCallInv, LlmRequest
<1>3. CASE LlmEnd(c, FALSE)
  BY <1>1, <1>2, <1>3, LlmEndKeeps
<1>4. CASE ~LlmEnd(c, FALSE)
  <2>1. /\ UNCHANGED <<llmProvider, llmToken, llmGood, llmIssued, llmOpen, llmSilent>> /\ llmToken \in LlmTokens
        /\ IF me.kind = "complete" THEN LlmGo(c, "permit") /\ llmApi' = Append(llmApi, c)
           ELSE LlmAsk(c) /\ UNCHANGED llmApi
    BY <1>1, <1>4 DEF LlmRequest, llmKeys, llmEvents, LlmInv
  <2>2. CASE me.kind = "complete"
    <3>1. PICK r : r = [me EXCEPT !.at = "permit"]
      OBVIOUS
    <3>2. r \in LlmRecords /\ r.at = "permit" /\ r.kind = "complete"
      BY <1>2, <2>2, <3>1, LlmAt DEF LlmSteps
    <3>3. llmCall' = [llmCall EXCEPT ![c] = r] /\ llmApi' = Append(llmApi, c)
      BY <1>1, <2>1, <2>2, <3>1 DEF LlmGo
    <3>4. /\ LlmCallInv(r, llmGood) /\ LlmInApi(r) /\ ~LlmServing(r) /\ ~LlmInProvider(r)
          /\ ~LlmInApi(me) /\ ~LlmInProvider(me)
      BY <1>2, <3>2 DEF LlmCallInv, LlmAsking, LlmInApi, LlmServing, LlmInProvider
    <3>5. LlmLogStep(me.kind = "complete", r.kind = "complete")
      BY <2>1, <2>2, <3>2 DEF LlmLogStep
    <3>. QED  BY <1>1, <1>2, <2>1, <3>2, <3>3, <3>4, <3>5, LlmGoes DEF LlmQueueStep
  <2>3. CASE me.kind # "complete"
    <3>1. PICK r : r = [me EXCEPT !.at = "key", !.seen = llmGood]
      OBVIOUS
    <3>2. r \in LlmRecords /\ r.at = "key" /\ r.kind = me.kind /\ r.seen = llmGood
      BY <1>2, <3>1 DEF LlmRecords, LlmSteps, LlmAsking, LlmInv
    <3>3. llmCall' = [llmCall EXCEPT ![c] = r] /\ UNCHANGED llmApi
      BY <1>1, <2>1, <2>3, <3>1 DEF LlmAsk
    <3>4. /\ LlmCallInv(r, llmGood) /\ ~LlmInApi(r) /\ ~LlmServing(r) /\ ~LlmInProvider(r)
          /\ ~LlmInApi(me) /\ ~LlmInProvider(me)
      BY <1>2, <2>3, <3>2 DEF LlmCallInv, LlmAsking, LlmInApi, LlmServing, LlmInProvider
    <3>5. LlmLogStep(me.kind = "complete", r.kind = "complete")
      BY <2>1, <2>3, <3>2 DEF LlmLogStep
    <3>. QED  BY <1>1, <1>2, <2>1, <3>2, <3>3, <3>4, <3>5, LlmGoes DEF LlmQueueStep
  <2>. QED  BY <2>2, <2>3
<1>. QED  BY <1>3, <1>4

\* A permit of the API is there.
LEMMA LlmPermitKeeps ==
  ASSUME LlmInv, NEW c \in LlmCallers, LlmPermit(c)
  PROVE  LlmInv'
<1>1. PICK me : me = llmCall[c]
  OBVIOUS
<1>2. me \in LlmRecords /\ me.at = "permit" /\ me.kind # "none"
  BY <1>1 DEF LlmInv, LlmCallInv, LlmPermit
<1>3. /\ UNCHANGED <<llmApi, llmProvider, llmToken, llmGood, llmIssued, llmOpen, llmSilent>> /\ llmToken \in LlmTokens
      /\ LlmHolds(c, llmApi, LlmPermits)
      /\ IF me.kind = "complete" THEN LlmAsk(c) ELSE LlmGo(c, "reading")
  BY <1>1 DEF LlmPermit, LlmTake, llmKeys, llmEvents, LlmInv
<1>4. PICK r \in LlmRecords : /\ r.kind = me.kind /\ llmCall' = [llmCall EXCEPT ![c] = r]
                              /\ IF me.kind = "complete" THEN r.at = "key" /\ r.seen = llmGood
                                 ELSE r.at = "reading"
  <2>1. CASE me.kind = "complete"
    <3>1. PICK r : r = [me EXCEPT !.at = "key", !.seen = llmGood]
      OBVIOUS
    <3>2. r \in LlmRecords /\ r.at = "key" /\ r.kind = me.kind /\ r.seen = llmGood
      BY <1>2, <3>1 DEF LlmRecords, LlmSteps, LlmAsking, LlmInv
    <3>3. llmCall' = [llmCall EXCEPT ![c] = r]
      BY <1>1, <1>3, <2>1, <3>1 DEF LlmAsk
    <3>. QED  BY <2>1, <3>2, <3>3
  <2>2. CASE me.kind # "complete"
    <3>1. PICK r : r = [me EXCEPT !.at = "reading"]
      OBVIOUS
    <3>2. r \in LlmRecords /\ r.at = "reading" /\ r.kind = me.kind
      BY <1>2, <3>1, LlmAt DEF LlmSteps
    <3>3. llmCall' = [llmCall EXCEPT ![c] = r]
      BY <1>1, <1>3, <2>2, <3>1 DEF LlmGo
    <3>. QED  BY <2>2, <3>2, <3>3
  <2>. QED  BY <2>1, <2>2
<1>5. LlmCallInv(r, llmGood) /\ LlmInApi(r) /\ ~LlmInProvider(r) /\ LlmInApi(me) /\ ~LlmInProvider(me)
  BY <1>2, <1>4 DEF LlmCallInv, LlmAsking, LlmInApi, LlmInProvider
<1>6. r.at # "send"
  BY <1>4
<1>7. LlmLogStep(me.kind = "complete", r.kind = "complete")
  BY <1>3, <1>4 DEF LlmLogStep
<1>. QED  BY <1>1, <1>2, <1>3, <1>4, <1>5, <1>6, <1>7, LlmGoes DEF LlmQueueStep

-----------------------------------------------------------------------------
(* Keys *)

\* A step on the way to a key that no other call notices.
LEMMA LlmOnTheWay ==
  ASSUME LlmInv, NEW c \in LlmCallers, llmCall[c].at \in LlmAsking,
         NEW step \in LlmAsking \ {"store"}, LlmGo(c, step),
         UNCHANGED <<llmApi, llmProvider, llmGood, llmIssued, llmOpen, llmSilent>>, llmToken' \in LlmTokens
  PROVE  LlmInv'
<1>1. PICK me, r : me = llmCall[c] /\ r = [me EXCEPT !.at = step]
  OBVIOUS
<1>2. me \in LlmRecords /\ LlmCallInv(me, llmGood)
  BY <1>1 DEF LlmInv
<1>3. r \in LlmRecords /\ r.at = step /\ r.kind = me.kind /\ r.seen = me.seen
  BY <1>1, <1>2, LlmAt DEF LlmSteps
<1>4. llmCall' = [llmCall EXCEPT ![c] = r]
  BY <1>1 DEF LlmGo
<1>5. LlmCallInv(r, llmGood)
  BY <1>1, <1>2, <1>3 DEF LlmCallInv, LlmAsking
<1>6. /\ LlmInApi(r) <=> LlmInApi(me)
      /\ LlmServing(r) => LlmServing(me)
      /\ LlmInProvider(r) <=> LlmInProvider(me)
      /\ r.at # "send"
  BY <1>1, <1>3 DEF LlmInApi, LlmServing, LlmInProvider, LlmAsking
<1>7. LlmLogStep(me.kind = "complete", r.kind = "complete")
  BY <1>3 DEF LlmLogStep
<1>. QED  BY <1>1, <1>2, <1>3, <1>4, <1>5, <1>6, <1>7, LlmGoes DEF LlmQueueStep

\* With the environment's key, or one that was good meanwhile, the call queues.
LEMMA LlmGotKeyKeeps ==
  ASSUME LlmInv, NEW c \in LlmCallers, llmCall[c].at \in LlmAsking,
         NEW n \in Nat, n = 0 \/ n \in llmCall[c].seen, LlmGotKey(c, n),
         UNCHANGED <<llmApi, llmGood, llmIssued, llmOpen, llmSilent>>, llmToken' \in LlmTokens
  PROVE  LlmInv'
<1>1. PICK me, r : me = llmCall[c] /\ r = [me EXCEPT !.key = n, !.at = "slot", !.token = LlmIdle.token]
  OBVIOUS
<1>2. me \in LlmRecords /\ LlmCallInv(me, llmGood)
  BY <1>1 DEF LlmInv
<1>3. r \in LlmRecords /\ r.at = "slot" /\ r.kind = me.kind /\ r.seen = me.seen /\ r.key = n
  BY <1>1, <1>2, LlmIdleTyped DEF LlmRecords, LlmSteps
<1>4. llmCall' = [llmCall EXCEPT ![c] = r] /\ llmProvider' = Append(llmProvider, c)
  BY <1>1 DEF LlmGotKey
<1>5. LlmCallInv(r, llmGood)
  BY <1>1, <1>2, <1>3 DEF LlmCallInv, LlmAsking
<1>6. /\ LlmInApi(r) <=> LlmInApi(me)
      /\ LlmServing(r) => LlmServing(me)
      /\ ~LlmInProvider(me) /\ LlmInProvider(r) /\ r.at # "send"
  BY <1>1, <1>3 DEF LlmInApi, LlmServing, LlmInProvider, LlmAsking
<1>7. LlmLogStep(me.kind = "complete", r.kind = "complete")
  BY <1>3 DEF LlmLogStep
<1>. QED  BY <1>1, <1>2, <1>3, <1>4, <1>5, <1>6, <1>7, LlmGoes DEF LlmQueueStep

\* A token is issued: whoever is asking sees it become good.
LEMMA LlmIssueKeeps ==
  ASSUME LlmInv, NEW c \in LlmCallers, llmCall[c].at \in LlmAsking, LlmIssue(c, "store"),
         UNCHANGED <<llmApi, llmProvider, llmToken, llmOpen, llmSilent>>
  PROVE  LlmInv'
<1>1. PICK n : n = llmIssued + 1
  OBVIOUS
<1>2. n \in Nat /\ llmIssued' = n /\ llmGood' = llmGood \cup {n} /\ llmGood' \subseteq Nat
  <2>1. llmIssued \in Nat /\ llmGood \subseteq Nat
    BY DEF LlmInv
  <2>2. llmIssued' = llmIssued + 1 /\ llmGood' = llmGood \cup {llmIssued + 1}
    BY DEF LlmIssue
  <2>. QED  BY ONLY <1>1, <2>1, <2>2
<1>3. PICK b \in BOOLEAN :
        llmCall' = [x \in LlmCallers |->
          LET call == IF llmCall[x].at \notin LlmAsking THEN llmCall[x]
                      ELSE [llmCall[x] EXCEPT !.seen = @ \cup {n}]
          IN  IF x = c THEN [call EXCEPT !.at = "store", !.token = [n |-> n, refresh |-> b]] ELSE call]
  BY <1>1 DEF LlmIssue
<1>4. ASSUME NEW d \in LlmCallers, d # c
      PROVE  /\ llmCall'[d] \in LlmRecords /\ LlmCallInv(llmCall'[d], llmGood')
             /\ llmCall'[d].kind = llmCall[d].kind /\ llmCall'[d].at = llmCall[d].at
  <2>1. PICK me : me = llmCall[d]
    OBVIOUS
  <2>2. me \in LlmRecords /\ LlmCallInv(me, llmGood)
    BY <2>1 DEF LlmInv
  <2>3. CASE me.at \in LlmAsking
    <3>1. PICK r : r = [me EXCEPT !.seen = @ \cup {n}]
      OBVIOUS
    <3>2. llmCall'[d] = r
      BY <1>3, <1>4, <2>1, <2>3, <3>1
    <3>3. /\ r \in LlmRecords /\ r.kind = me.kind /\ r.at = me.at /\ r.seen = me.seen \cup {n}
          /\ r.token = me.token
      BY <1>2, <2>2, <3>1 DEF LlmRecords
    <3>4. LlmCallInv(r, llmGood')
      BY <1>2, <2>2, <2>3, <3>3 DEF LlmCallInv, LlmAsking
    <3>. QED  BY <2>1, <3>2, <3>3, <3>4
  <2>4. CASE me.at \notin LlmAsking
    <3>1. llmCall'[d] = me
      BY <1>3, <1>4, <2>1, <2>4
    <3>2. LlmCallInv(me, llmGood')
      BY <2>2, <2>4 DEF LlmCallInv
    <3>. QED  BY <2>1, <2>2, <3>1, <3>2
  <2>. QED  BY <2>3, <2>4
<1>5. PICK me, r, t : /\ me = llmCall[c] /\ t = [n |-> n, refresh |-> b]
                      /\ r = [[me EXCEPT !.seen = @ \cup {n}] EXCEPT !.at = "store", !.token = t]
  OBVIOUS
<1>6. me \in LlmRecords /\ LlmCallInv(me, llmGood)
  BY <1>5 DEF LlmInv
<1>7. t \in LlmTokens /\ t.n = n
  BY <1>2, <1>3, <1>5 DEF LlmTokens
<1>8. /\ r \in LlmRecords /\ r.at = "store" /\ r.kind = me.kind /\ r.seen = me.seen \cup {n} /\ r.token = t
  BY <1>2, <1>5, <1>6, <1>7 DEF LlmRecords, LlmSteps, LlmAsking
<1>9. llmCall'[c] = r
  BY <1>3, <1>5
<1>10. LlmCallInv(r, llmGood')
  BY <1>2, <1>5, <1>6, <1>7, <1>8 DEF LlmCallInv, LlmAsking
<1>11. llmCall' \in [LlmCallers -> LlmRecords] /\ \A d \in LlmCallers : LlmCallInv(llmCall'[d], llmGood')
  <2>1. \A d \in LlmCallers : llmCall'[d] \in LlmRecords /\ LlmCallInv(llmCall'[d], llmGood')
    BY <1>4, <1>8, <1>9, <1>10
  <2>2. llmCall' = [x \in LlmCallers |-> llmCall'[x]]
    BY <1>3
  <2>. QED  BY <2>1, <2>2
<1>12. /\ LlmInApi(r) <=> LlmInApi(me)
       /\ LlmServing(r) => LlmServing(me)
       /\ LlmInProvider(r) <=> LlmInProvider(me)
       /\ r.at # "send"
  BY <1>5, <1>8 DEF LlmInApi, LlmServing, LlmInProvider, LlmAsking
<1>13. LlmLogStep(me.kind = "complete", r.kind = "complete")
  BY <1>8 DEF LlmLogStep
<1>14. llmToken' \in LlmTokens
  BY DEF LlmInv
<1>15. LlmQueueStep(c, LlmPermits, llmApi, llmApi', LlmInApi(llmCall[c]), LlmInApi(llmCall'[c]),
                    LlmServing(llmCall[c]), LlmServing(llmCall'[c]))
  BY <1>5, <1>9, <1>12 DEF LlmQueueStep
<1>16. LlmQueueStep(c, LlmProviderPermits, llmProvider, llmProvider',
                    LlmInProvider(llmCall[c]), LlmInProvider(llmCall'[c]),
                    llmCall[c].at = "send", llmCall'[c].at = "send")
  BY <1>5, <1>9, <1>12 DEF LlmQueueStep
<1>17. LlmLogStep(llmCall[c].kind = "complete", llmCall'[c].kind = "complete")
  BY <1>5, <1>9, <1>13
<1>18. llmIssued' \in Nat /\ llmGood' \subseteq Nat
  BY <1>2
<1>. QED  BY <1>4, <1>11, <1>14, <1>15, <1>16, <1>17, <1>18, LlmMove

\* get_api_key, whichever way it goes.
LEMMA LlmKeyKeeps ==
  ASSUME LlmInv, NEW c \in LlmCallers, LlmKey(c)
  PROVE  LlmInv'
<1>1. /\ llmCall[c] \in LlmRecords /\ LlmCallInv(llmCall[c], llmGood)
      /\ llmToken \in LlmTokens /\ llmToken.n \in Nat
  BY DEF LlmInv, LlmTokens
<1>2. llmCall[c].at \in LlmAsking
  BY DEF LlmKey, LlmCached, LlmStale, LlmRefresh, LlmClear, LlmEnv, LlmStore, LlmLogin, LlmAsking
<1>3. CASE LlmCached(c)
  <2>1. UNCHANGED <<llmApi, llmGood, llmIssued, llmOpen, llmSilent, llmToken>>
    BY <1>3 DEF LlmCached, LlmKept, llmKeys, llmEvents
  <2>2. CASE LlmUsable(llmToken)
    <3>1. LlmGotKey(c, llmToken.n)
      BY <1>3, <2>2 DEF LlmCached
    <3>2. llmToken.n \in llmCall[c].seen
      BY <1>1, <1>2, <2>2 DEF LlmUsable, LlmCallInv
    <3>. QED  BY <1>1, <1>2, <2>1, <3>1, <3>2, LlmGotKeyKeeps
  <2>3. CASE ~LlmUsable(llmToken)
    <3>1. LlmGo(c, "stale") /\ UNCHANGED llmProvider /\ "stale" \in LlmAsking \ {"store"}
      BY <1>3, <2>3 DEF LlmCached, LlmAsking
    <3>. QED  BY <1>1, <1>2, <2>1, <3>1, LlmOnTheWay
  <2>. QED  BY <2>2, <2>3
<1>4. CASE LlmStale(c)
  <2>1. UNCHANGED <<llmApi, llmProvider, llmGood, llmIssued, llmOpen, llmSilent, llmToken>>
    BY <1>4 DEF LlmStale, LlmKept, llmKeys, llmEvents
  <2>2. PICK step : step = IF llmToken.n # 0 /\ llmToken.refresh THEN "refresh" ELSE "env"
    OBVIOUS
  <2>3. LlmGo(c, step) /\ step \in LlmAsking \ {"store"}
    BY <1>4, <2>2 DEF LlmStale, LlmAsking
  <2>. QED  BY <1>1, <1>2, <2>1, <2>3, LlmOnTheWay
<1>5. CASE LlmRefresh(c)
  <2>1. UNCHANGED <<llmApi, llmProvider, llmOpen, llmSilent>>
    BY <1>5 DEF LlmRefresh, LlmKept, llmEvents
  <2>2. CASE LlmIssue(c, "store") /\ UNCHANGED llmToken
    BY <1>2, <2>1, <2>2, LlmIssueKeeps
  <2>3. CASE LlmGo(c, "clear") /\ UNCHANGED llmKeys
    <3>1. UNCHANGED <<llmGood, llmIssued, llmToken>> /\ "clear" \in LlmAsking \ {"store"}
      BY <2>3 DEF llmKeys, LlmAsking
    <3>. QED  BY <1>1, <1>2, <2>1, <2>3, <3>1, LlmOnTheWay
  <2>. QED  BY <1>5, <2>2, <2>3 DEF LlmRefresh
<1>6. CASE LlmClear(c)
  <2>1. /\ UNCHANGED <<llmApi, llmProvider, llmGood, llmIssued, llmOpen, llmSilent>> /\ llmToken' \in LlmTokens
        /\ LlmGo(c, "env") /\ "env" \in LlmAsking \ {"store"}
    BY <1>6, LlmIdleTyped DEF LlmClear, LlmKept, llmEvents, LlmAsking
  <2>. QED  BY <1>2, <2>1, LlmOnTheWay
<1>7. CASE LlmEnv(c)
  <2>1. UNCHANGED <<llmApi, llmGood, llmIssued, llmOpen, llmSilent, llmToken>>
    BY <1>7 DEF LlmEnv, LlmKept, llmKeys, llmEvents
  <2>2. CASE LlmGotKey(c, 0)
    BY <1>1, <1>2, <2>1, <2>2, LlmGotKeyKeeps
  <2>3. CASE LlmGo(c, "login") /\ UNCHANGED llmProvider
    <3>1. "login" \in LlmAsking \ {"store"}
      BY DEF LlmAsking
    <3>. QED  BY <1>1, <1>2, <2>1, <2>3, <3>1, LlmOnTheWay
  <2>. QED  BY <1>7, <2>2, <2>3 DEF LlmEnv
<1>8. CASE LlmStore(c)
  <2>1. /\ UNCHANGED <<llmApi, llmGood, llmIssued, llmOpen, llmSilent>>
        /\ llmToken' = llmCall[c].token /\ LlmGotKey(c, llmCall[c].token.n) /\ llmCall[c].at = "store"
    BY <1>8 DEF LlmStore, LlmKept, llmEvents
  <2>2. llmCall[c].token \in LlmTokens /\ llmCall[c].token.n \in Nat
    BY <1>1 DEF LlmRecords, LlmTokens
  <2>3. llmCall[c].token.n \in llmCall[c].seen
    BY <1>1, <2>1 DEF LlmCallInv
  <2>. QED  BY <1>2, <2>1, <2>2, <2>3, LlmGotKeyKeeps
<1>9. CASE LlmLogin(c)
  <2>1. CASE LlmIssue(c, "store") /\ UNCHANGED <<LlmKept, llmProvider, llmToken>>
    <3>1. UNCHANGED <<llmApi, llmProvider, llmToken, llmOpen, llmSilent>>
      BY <2>1 DEF LlmKept, llmEvents
    <3>. QED  BY <1>2, <2>1, <3>1, LlmIssueKeeps
  <2>2. CASE LlmEnd(c, TRUE)
    <3>1. llmCall[c].at # "idle"
      BY <1>2 DEF LlmAsking
    <3>. QED  BY <2>2, <3>1, LlmEndKeeps
  <2>. QED  BY <1>9, <2>1, <2>2 DEF LlmLogin
<1>. QED  BY <1>3, <1>4, <1>5, <1>6, <1>7, <1>8, <1>9 DEF LlmKey

-----------------------------------------------------------------------------
(* Requests *)

\* A permit of the provider is there.
LEMMA LlmSlotKeeps ==
  ASSUME LlmInv, NEW c \in LlmCallers, LlmSlot(c)
  PROVE  LlmInv'
<1>1. PICK me, r : me = llmCall[c] /\ r = [me EXCEPT !.at = "send"]
  OBVIOUS
<1>2. me \in LlmRecords /\ me.at = "slot" /\ LlmCallInv(me, llmGood)
  BY <1>1 DEF LlmInv, LlmSlot
<1>3. /\ UNCHANGED <<llmApi, llmProvider, llmToken, llmGood, llmIssued, llmOpen, llmSilent>> /\ llmToken \in LlmTokens
      /\ LlmHolds(c, llmProvider, LlmProviderPermits) /\ llmCall' = [llmCall EXCEPT ![c] = r]
  BY <1>1 DEF LlmSlot, LlmGo, LlmKept, llmKeys, llmEvents, LlmInv
<1>4. r \in LlmRecords /\ r.at = "send" /\ r.kind = me.kind /\ r.key = me.key /\ r.seen = me.seen
  BY <1>1, <1>2, LlmAt DEF LlmSteps
<1>5. LlmCallInv(r, llmGood)
  BY <1>2, <1>4 DEF LlmCallInv, LlmAsking
<1>6. /\ LlmInApi(r) <=> LlmInApi(me)
      /\ LlmServing(r) => LlmServing(me)
      /\ LlmInProvider(me) /\ LlmInProvider(r)
  BY <1>2, <1>4 DEF LlmInApi, LlmServing, LlmInProvider
<1>7. LlmLogStep(me.kind = "complete", r.kind = "complete")
  BY <1>3, <1>4 DEF LlmLogStep
<1>. QED  BY <1>1, <1>2, <1>3, <1>4, <1>5, <1>6, <1>7, LlmGoes DEF LlmQueueStep

\* The provider has answered, or with an error that is retried.
LEMMA LlmServedKeeps ==
  ASSUME LlmInv, NEW c \in LlmCallers, LlmAnswered(c) \/ LlmRetryable(c)
  PROVE  LlmInv'
<1>1. PICK me : me = llmCall[c]
  OBVIOUS
<1>2. /\ me \in LlmRecords /\ me.at \in {"send", "login"} /\ me.kind \in {"complete", "stream"}
      /\ LlmCallInv(me, llmGood) /\ me.failed \in Nat
  BY <1>1 DEF LlmInv, LlmCallInv, LlmRecords, LlmAnswered, LlmRetryable
<1>3. PICK step \in {"collect", "permit", "sleep"}, failed \in Nat :
        /\ LlmServed(c, step, failed)
        /\ step \in {"collect", "sleep"} => me.kind = "complete" /\ llmApi' = llmApi
        /\ step = "permit" => me.kind = "stream" /\ llmApi' = Append(llmApi, c)
  <2>1. CASE LlmAnswered(c) /\ me.kind = "complete"
    BY <1>1, <1>2, <2>1 DEF LlmAnswered
  <2>2. CASE LlmAnswered(c) /\ me.kind = "stream"
    BY <1>1, <1>2, <2>2 DEF LlmAnswered
  <2>3. CASE LlmRetryable(c)
    <3>1. me.failed + 1 \in Nat
      BY <1>2
    <3>. QED  BY <1>1, <1>2, <2>3, <3>1 DEF LlmRetryable, LlmKept
  <2>. QED  BY <1>2, <2>1, <2>2, <2>3
<1>4. /\ UNCHANGED <<llmToken, llmGood, llmIssued, llmOpen, llmSilent>> /\ llmToken \in LlmTokens
      /\ llmProvider' = RemoveFirst(llmProvider, c)
  BY DEF LlmAnswered, LlmRetryable, LlmSlotFreed, LlmKept, llmKeys, llmEvents, LlmInv
<1>5. PICK r : r = [LlmIdle EXCEPT !.kind = me.kind, !.at = step, !.failed = failed]
  OBVIOUS
<1>6. step \in LlmSteps /\ failed \in Nat /\ me.kind \in {"complete", "stream"}
  BY <1>2, <1>3 DEF LlmSteps
<1>7. r \in LlmRecords /\ r.kind = me.kind /\ r.at = step
  BY <1>5, <1>6, LlmIdleTyped DEF LlmRecords
<1>8. llmCall' = [llmCall EXCEPT ![c] = r]
  BY <1>1, <1>3, <1>5 DEF LlmServed
<1>9. LlmCallInv(r, llmGood) /\ ~LlmInProvider(r) /\ r.at # "send"
  BY <1>2, <1>3, <1>7 DEF LlmCallInv, LlmAsking, LlmInProvider
<1>10. LlmQueueStep(c, LlmPermits, llmApi, llmApi', LlmInApi(me), LlmInApi(r), LlmServing(me), LlmServing(r))
  BY <1>2, <1>3, <1>7 DEF LlmQueueStep, LlmInApi, LlmServing
<1>11. LlmLogStep(me.kind = "complete", r.kind = "complete")
  BY <1>4, <1>7 DEF LlmLogStep
<1>. QED  BY <1>1, <1>2, <1>4, <1>7, <1>8, <1>9, <1>10, <1>11, LlmGoes DEF LlmQueueStep

\* Another attempt, or no more.
LEMMA LlmAgainKeeps ==
  ASSUME LlmInv, NEW c \in LlmCallers, LlmAgain(c)
  PROVE  LlmInv'
<1>1. PICK me : me = llmCall[c]
  OBVIOUS
<1>2. me \in LlmRecords /\ me.at = "sleep" /\ LlmCallInv(me, llmGood)
  BY <1>1 DEF LlmInv, LlmAgain
<1>3. CASE LlmEnd(c, TRUE)
  BY <1>1, <1>2, <1>3, LlmEndKeeps
<1>4. CASE LlmAsk(c) /\ UNCHANGED <<LlmKept, llmProvider, llmKeys>>
  <2>1. PICK r : r = [me EXCEPT !.at = "key", !.seen = llmGood]
    OBVIOUS
  <2>2. r \in LlmRecords /\ r.at = "key" /\ r.kind = me.kind /\ r.seen = llmGood
    BY <1>2, <2>1 DEF LlmRecords, LlmSteps, LlmAsking, LlmInv
  <2>3. /\ llmCall' = [llmCall EXCEPT ![c] = r] /\ llmToken \in LlmTokens
        /\ UNCHANGED <<llmApi, llmProvider, llmToken, llmGood, llmIssued, llmOpen, llmSilent>>
    BY <1>1, <1>4, <2>1 DEF LlmAsk, LlmKept, llmKeys, llmEvents, LlmInv
  <2>4. LlmCallInv(r, llmGood) /\ ~LlmInProvider(r) /\ r.at # "send" /\ ~LlmInProvider(me)
    BY <1>2, <2>2 DEF LlmCallInv, LlmAsking, LlmInProvider
  <2>5. (LlmInApi(r) <=> LlmInApi(me)) /\ (LlmServing(r) => LlmServing(me))
    BY <1>2, <2>2 DEF LlmInApi, LlmServing
  <2>6. LlmLogStep(me.kind = "complete", r.kind = "complete")
    BY <2>2, <2>3 DEF LlmLogStep
  <2>. QED  BY <1>1, <1>2, <2>2, <2>3, <2>4, <2>5, <2>6, LlmGoes DEF LlmQueueStep
<1>. QED  BY <1>3, <1>4 DEF LlmAgain

\* The cached token is dropped, a token expires, calls are cancelled.
LEMMA LlmAroundKeeps ==
  ASSUME LlmInv, LlmInvalidate \/ LlmExpire \/ LlmCancel \/ UNCHANGED llmVars
  PROVE  LlmInv'
<1>1. /\ UNCHANGED <<llmCall, llmApi, llmProvider, llmIssued, llmOpen, llmSilent>>
      /\ llmToken' \in LlmTokens /\ llmGood' \subseteq llmGood
  BY LlmIdleTyped DEF LlmInvalidate, LlmExpire, LlmCancel, llmVars, llmKeys, llmEvents, LlmInv
<1>2. \A c \in LlmCallers : LlmCallInv(llmCall[c], llmGood')
  BY <1>1 DEF LlmInv, LlmCallInv
<1>3. LlmBusy' = LlmBusy /\ LlmInside({"reading"})' = LlmInside({"reading"}) /\ LlmInside({"send"})' = LlmInside({"send"})
  BY <1>1 DEF LlmBusy, LlmInside
<1>4. LlmCompletes' = LlmCompletes
  BY <1>1 DEF LlmCompletes
<1>5. LlmPlaced(llmApi', LlmPermits, {c \in LlmCallers : LlmInApi(llmCall'[c])}, (LlmBusy \cup LlmInside({"reading"}))')
  BY <1>1, <1>3 DEF LlmInv
<1>6. LlmPlaced(llmProvider', LlmProviderPermits, {c \in LlmCallers : LlmInProvider(llmCall'[c])}, LlmInside({"send"})')
  BY <1>1, <1>3 DEF LlmInv
<1>. QED  BY <1>1, <1>2, <1>4, <1>5, <1>6 DEF LlmInv

\* Every step keeps it.
LEMMA LlmKeeps == LlmInv /\ [LlmNext]_llmVars => LlmInv'
<1>. SUFFICES ASSUME LlmInv, [LlmNext]_llmVars PROVE LlmInv'
  OBVIOUS
<1>1. ASSUME NEW c \in LlmCallers, LlmComplete(c) \/ LlmStream(c) PROVE LlmInv'
  BY <1>1, LlmBegins
<1>2. ASSUME NEW c \in LlmCallers, LlmFail(c) \/ LlmDone(c) \/ LlmDropped(c) PROVE LlmInv'
  BY <1>2, LlmEndKeeps DEF LlmFail, LlmDone, LlmDropped
<1>3. ASSUME NEW c \in LlmCallers, LlmRequest(c) \/ LlmPermit(c) \/ LlmKey(c) \/ LlmSlot(c) PROVE LlmInv'
  BY <1>3, LlmRequestKeeps, LlmPermitKeeps, LlmKeyKeeps, LlmSlotKeeps
<1>4. ASSUME NEW c \in LlmCallers, LlmAnswered(c) \/ LlmRetryable(c) \/ LlmAgain(c) PROVE LlmInv'
  BY <1>4, LlmServedKeeps, LlmAgainKeeps
<1>5. CASE LlmInvalidate \/ LlmExpire \/ LlmCancel \/ UNCHANGED llmVars
  BY <1>5, LlmAroundKeeps
<1>. QED  BY <1>1, <1>2, <1>3, <1>4, <1>5 DEF LlmNext, LlmGoOn

\* For any callers, permits, attempts and tokens: calls between their permit
\* and their end are never more than there are permits, in any order of retries,
\* drops and failures; the key of a request was good while it was asked for,
\* although the cached token is read twice, refreshed without a lock, and
\* cleared by others; and the event log tells of every complete that ended,
\* but of those that were refused or dropped.
THEOREM LlmCallsAreSafe == LlmSpec => []LlmCallsSafe
<1>1. LlmInv => LlmCallsSafe
  <2>. SUFFICES ASSUME LlmInv PROVE LlmCallsSafe
    OBVIOUS
  <2>1. LlmPermits \in Nat /\ LlmProviderPermits \in Nat
    BY LlmConstants
  <2>2. LlmBoundsHold
    BY <2>1, LlmBounded DEF LlmInv, LlmBoundsHold
  <2>3. LlmKeysFresh
    BY DEF LlmInv, LlmCallInv, LlmKeysFresh, LlmInside
  <2>4. LlmLogAccounts
    BY DEF LlmInv, LlmLogAccounts, LlmCompletes
  <2>. QED  BY <2>2, <2>3, <2>4 DEF LlmCallsSafe
<1>. QED  BY <1>1, LlmStarts, LlmKeeps, PTL DEF LlmSpec

-----------------------------------------------------------------------------
(***************************************************************************)
(* Sums over finite sets, as MapThenSumSet computes them: g sums t over    *)
(* each part of S, taking one element after the other in the order of a    *)
(* CHOOSE.                                                                 *)
(***************************************************************************)

Sums(S, t, g) ==
  g = [P \in SUBSET S |-> IF P = {} THEN 0
                          ELSE LET x == CHOOSE x \in P : TRUE IN t[x] + g[P \ {x}]]

\* There are such sums, by the smallest size from which there would be none.
LEMMA SumsExist ==
  ASSUME NEW S, IsFiniteSet(S), NEW t, \A x \in S : t[x] \in Nat
  PROVE  \E g : Sums(S, t, g)
<1> DEFINE Small(n) == {P \in SUBSET S : Cardinality(P) <= n}
           Step(P, g) == IF P = {} THEN 0 ELSE LET x == CHOOSE x \in P : TRUE IN t[x] + g[P \ {x}]
           Upto(n) == \E g : g = [P \in Small(n) |-> Step(P, g)]
<1>1. \A P \in SUBSET S : IsFiniteSet(P) /\ Cardinality(P) \in Nat
  BY FS_Subset, FS_CardinalityType
<1>2. \A P \in SUBSET S : P # {} =>
        LET x == CHOOSE x \in P : TRUE IN
        x \in P /\ P \ {x} \in SUBSET S /\ Cardinality(P \ {x}) = Cardinality(P) - 1
  BY <1>1, FS_RemoveElement
<1>3. \A P \in SUBSET S : Cardinality(P) = 0 <=> P = {}
  BY <1>1, FS_EmptySet
<1>4. Upto(0)
  <2>1. PICK g : g = [P \in Small(0) |-> 0]
    OBVIOUS
  <2>2. \A P \in Small(0) : P = {}
    BY <1>1, <1>3
  <2>3. g = [P \in Small(0) |-> Step(P, g)]
    BY <2>1, <2>2
  <2>. QED  BY <2>3
<1>5. ASSUME NEW n \in Nat, Upto(n) PROVE Upto(n + 1)
  <2>1. PICK g : g = [P \in Small(n) |-> Step(P, g)]
    BY <1>5
  <2>2. PICK h : h = [P \in Small(n + 1) |-> Step(P, g)]
    OBVIOUS
  <2>3. \A P \in Small(n) : P \in Small(n + 1) /\ h[P] = g[P]
    <3>1. \A P \in SUBSET S : Cardinality(P) <= n => Cardinality(P) <= n + 1
      BY <1>1
    <3>. QED  BY <2>1, <2>2, <3>1
  <2>4. \A P \in Small(n + 1) : P # {} => (P \ {CHOOSE x \in P : TRUE}) \in Small(n)
    BY <1>1, <1>2
  <2>5. \A P \in Small(n + 1) : Step(P, g) = Step(P, h)
    BY <2>3, <2>4
  <2>. HIDE DEF Small, Step
  <2>6. h = [P \in Small(n + 1) |-> Step(P, h)]
    BY <2>2, <2>5
  <2>. QED  BY <2>6
<1>6. Upto(Cardinality(S))
  <2> DEFINE Bad == {n \in Nat : ~Upto(n)}
  <2>1. Cardinality(S) \in Nat
    BY <1>1
  <2>. HIDE DEF Upto
  <2>2. ASSUME Bad # {} PROVE FALSE
    <3>1. PICK n \in Bad : \A m \in Bad : ~(<<m, n>> \in OpToRel(<, Nat))
      BY <2>2, NatLessThanWellFounded, WFMin
    <3>2. n # 0
      BY <1>4
    <3>3. n - 1 \in Nat /\ n - 1 < n /\ (n - 1) + 1 = n
      BY <3>2
    <3>4. n - 1 \notin Bad
      BY <3>1, <3>3 DEF OpToRel
    <3>. QED  BY <1>5, <3>3, <3>4
  <2>. QED  BY <2>1, <2>2
<1>7. Small(Cardinality(S)) = SUBSET S
  <2>1. \A P \in SUBSET S : Cardinality(P) <= Cardinality(S)
    BY FS_Subset
  <2>. QED  BY <2>1
<1>. QED  BY <1>6, <1>7 DEF Sums

\* What they are, whichever element is taken first.
LEMMA SumsAdd ==
  ASSUME NEW S, IsFiniteSet(S), NEW t, \A x \in S : t[x] \in Nat, NEW g, Sums(S, t, g)
  PROVE  /\ g[{}] = 0
         /\ \A P \in SUBSET S : g[P] \in Nat
         /\ \A P \in SUBSET S : \A x \in P : g[P] = t[x] + g[P \ {x}]
<1> DEFINE Step(P) == IF P = {} THEN 0 ELSE LET x == CHOOSE x \in P : TRUE IN t[x] + g[P \ {x}]
           Good(P) == g[P] \in Nat /\ \A x \in P : g[P] = t[x] + g[P \ {x}]
           Bad(n) == \E P \in SUBSET S : Cardinality(P) = n /\ ~Good(P)
<1>1. \A P \in SUBSET S : IsFiniteSet(P) /\ Cardinality(P) \in Nat
  BY FS_Subset, FS_CardinalityType
<1>2. \A P \in SUBSET S : \A x \in P : P \ {x} \in SUBSET S /\ Cardinality(P \ {x}) = Cardinality(P) - 1
  BY <1>1, FS_RemoveElement
<1>3. \A P \in SUBSET S : g[P] = Step(P)
  BY DEF Sums
<1>4. g[{}] = 0
  BY <1>3
<1>5. ASSUME NEW P \in SUBSET S, ~Good(P),
             \A Q \in SUBSET S : Cardinality(Q) < Cardinality(P) => Good(Q)
      PROVE  FALSE
  <2>1. P # {}
    <3>1. P = {} => Good(P)
      BY <1>4
    <3>. QED  BY <1>5, <3>1
  <2>2. PICK c : c = CHOOSE x \in P : TRUE
    OBVIOUS
  <2>3. c \in P /\ g[P] = t[c] + g[P \ {c}]
    BY <1>3, <2>1, <2>2
  <2>4. \A x \in P : Good(P \ {x})
    BY <1>1, <1>2, <1>5
  <2>5. g[P] \in Nat
    <3>1. t[c] \in Nat /\ g[P \ {c}] \in Nat
      BY <2>3, <2>4
    <3>. QED  BY ONLY <2>3, <3>1
  <2>6. ASSUME NEW x \in P, x # c PROVE g[P] = t[x] + g[P \ {x}]
    <3>1. x \in P \ {c} /\ c \in P \ {x} /\ (P \ {c}) \ {x} = (P \ {x}) \ {c}
      BY <2>3, <2>6
    <3>2. g[P \ {c}] = t[x] + g[(P \ {c}) \ {x}] /\ g[P \ {x}] = t[c] + g[(P \ {x}) \ {c}]
      BY <2>3, <2>4, <3>1
    <3>3. t[x] \in Nat /\ t[c] \in Nat /\ g[(P \ {x}) \ {c}] \in Nat
      <4>1. P \ {x} \in SUBSET S /\ Cardinality(P \ {x}) < Cardinality(P)
        BY <1>1, <1>2
      <4>2. (P \ {x}) \ {c} \in SUBSET S /\ Cardinality((P \ {x}) \ {c}) < Cardinality(P)
        <5>1. (P \ {x}) \ {c} \in SUBSET S /\ Cardinality((P \ {x}) \ {c}) = Cardinality(P \ {x}) - 1
          BY ONLY <1>2, <3>1, <4>1
        <5>2. Cardinality(P \ {x}) \in Nat /\ Cardinality(P) \in Nat
          BY <1>1, <4>1
        <5>. QED  BY ONLY <4>1, <5>1, <5>2
      <4>. QED  BY <1>5, <2>3, <4>2
    <3>. QED  BY ONLY <2>3, <3>1, <3>2, <3>3
  <2>. QED  BY <1>5, <2>3, <2>5, <2>6
<1>6. \A P \in SUBSET S : Good(P)
  <2> DEFINE Bads == {n \in Nat : Bad(n)}
  <2>. HIDE DEF Good
  <2>1. ASSUME Bads # {} PROVE FALSE
    <3>1. PICK n \in Bads : \A m \in Bads : ~(<<m, n>> \in OpToRel(<, Nat))
      BY <2>1, NatLessThanWellFounded, WFMin
    <3>2. PICK P \in SUBSET S : Cardinality(P) = n /\ ~Good(P)
      BY <3>1
    <3>3. \A Q \in SUBSET S : Cardinality(Q) < Cardinality(P) => Good(Q)
      BY <1>1, <3>1, <3>2 DEF OpToRel
    <3>. QED  BY <1>5, <3>2, <3>3
  <2>2. \A n \in Nat : ~Bad(n)
    BY <2>1
  <2>. QED  BY <1>1, <2>2
<1>. QED  BY <1>4, <1>6

\* Sums of the same over a part are the same.
LEMMA SumsAgree ==
  ASSUME NEW S, IsFiniteSet(S), NEW t, NEW g, Sums(S, t, g),
         NEW P \in SUBSET S, NEW u, \A x \in P : u[x] = t[x], NEW h, Sums(P, u, h)
  PROVE  g[P] = h[P]
<1> DEFINE Bads == {n \in Nat : \E Q \in SUBSET P : Cardinality(Q) = n /\ g[Q] # h[Q]}
<1>1. \A Q \in SUBSET P : IsFiniteSet(Q) /\ Cardinality(Q) \in Nat
  BY FS_Subset, FS_CardinalityType
<1>2. \A Q \in SUBSET P : \A x \in Q : Q \ {x} \in SUBSET P /\ Cardinality(Q \ {x}) = Cardinality(Q) - 1
  BY <1>1, FS_RemoveElement
<1>3. ASSUME Bads # {} PROVE FALSE
  <2>1. PICK n \in Bads : \A m \in Bads : ~(<<m, n>> \in OpToRel(<, Nat))
    BY <1>3, NatLessThanWellFounded, WFMin
  <2>2. PICK Q \in SUBSET P : Cardinality(Q) = n /\ g[Q] # h[Q]
    BY <2>1
  <2>3. \A R \in SUBSET P : Cardinality(R) < Cardinality(Q) => g[R] = h[R]
    BY <1>1, <2>1, <2>2 DEF OpToRel
  <2>4. CASE Q = {}
    BY <2>2, <2>4 DEF Sums
  <2>5. CASE Q # {}
    <3>1. PICK c : c = CHOOSE x \in Q : TRUE
      OBVIOUS
    <3>2. c \in Q /\ Q \ {c} \in SUBSET P
      BY <2>5, <3>1
    <3>3. g[Q] = t[c] + g[Q \ {c}] /\ h[Q] = u[c] + h[Q \ {c}]
      BY <2>5, <3>1 DEF Sums
    <3>4. g[Q \ {c}] = h[Q \ {c}]
      BY <1>1, <1>2, <2>3, <3>2
    <3>. QED  BY <2>2, <3>2, <3>3, <3>4
  <2>. QED  BY <2>4, <2>5
<1>. QED  BY <1>1, <1>3

LEMMA TotalIsSum ==
  ASSUME NEW P, IsFiniteSet(P), NEW t, \A x \in P : t[x] \in Nat
  PROVE  \E g : Sums(P, t, g) /\ SumFunctionOnSet(t, P) = g[P]
<1> DEFINE iter == CHOOSE f : f = [s \in SUBSET P |-> IF s = {} THEN 0
                                    ELSE LET x == CHOOSE x \in s : TRUE IN t[x] + f[s \ {x}]]
<1>1. PICK g : g = [s \in SUBSET P |-> IF s = {} THEN 0
                      ELSE LET x == CHOOSE x \in s : TRUE IN t[x] + g[s \ {x}]]
  <2>1. \E g : Sums(P, t, g)
    BY SumsExist
  <2>. QED  BY ONLY <2>1 DEF Sums
<1>2. iter = [s \in SUBSET P |-> IF s = {} THEN 0
                ELSE LET x == CHOOSE x \in s : TRUE IN t[x] + iter[s \ {x}]]
  BY <1>1
<1>3. SumFunctionOnSet(t, P) = iter[P]
  BY DEF SumFunctionOnSet, FoldFunctionOnSet, MapThenFoldSet
<1>. QED  BY <1>2, <1>3 DEF Sums

\* The total of nothing, of one more, and of what agrees.
LEMMA TotalFacts ==
  ASSUME NEW P, IsFiniteSet(P), NEW t, \A x \in P : t[x] \in Nat
  PROVE  /\ SumFunctionOnSet(t, {}) = 0
         /\ SumFunctionOnSet(t, P) \in Nat
         /\ \A x \in P : SumFunctionOnSet(t, P) = t[x] + SumFunctionOnSet(t, P \ {x})
         /\ \A u : (\A x \in P : u[x] = t[x]) => SumFunctionOnSet(u, P) = SumFunctionOnSet(t, P)
<1>1. PICK g : Sums(P, t, g) /\ SumFunctionOnSet(t, P) = g[P]
  BY TotalIsSum
<1>2. ASSUME NEW Q \in SUBSET P, NEW u, \A x \in Q : u[x] = t[x]
      PROVE  SumFunctionOnSet(u, Q) = g[Q]
  <2>1. IsFiniteSet(Q) /\ \A x \in Q : u[x] \in Nat
    BY <1>2, FS_Subset
  <2>2. PICK h : Sums(Q, u, h) /\ SumFunctionOnSet(u, Q) = h[Q]
    BY <2>1, TotalIsSum
  <2>. QED  BY <1>1, <1>2, <2>2, SumsAgree
<1>3. /\ g[{}] = 0 /\ g[P] \in Nat
      /\ \A x \in P : g[P] = t[x] + g[P \ {x}]
  BY <1>1, SumsAdd
<1>4. \A Q \in SUBSET P : SumFunctionOnSet(t, Q) = g[Q]
  BY <1>2
<1>5. {} \in SUBSET P /\ P \in SUBSET P /\ \A x \in P : P \ {x} \in SUBSET P
  OBVIOUS
<1>. QED  BY <1>2, <1>3, <1>4, <1>5
-----------------------------------------------------------------------------
(***************************************************************************)
(* The token buckets.  A bucket is the least room that any stretch of time *)
(* up to its last refill has left (RateTight), or full; one that has gone  *)
(* would have filled again.                                                *)
(***************************************************************************)

RateEntries == [at : Nat, cost : Nat, answer : {"granted", "refused", "free"}]
RateBuckets == [tokens : Nat, last : Nat, cap : Nat \ {0}, rate : Nat \ {0}]

\* No stretch of time has been given more than the bucket's capacity and what has
\* been refilled ...
RateHolds(b, log) ==
  \A i \in DOMAIN log :
    log[i].at <= b.last /\ b.tokens + RateSpent(log, i, Len(log)) <= b.cap + b.rate * (b.last - log[i].at)

\* ... and a bucket that is not full has given all of it to one.
RateTight(b, log) ==
  \/ b.tokens = b.cap
  \/ \E i \in DOMAIN log : b.tokens + RateSpent(log, i, Len(log)) = b.cap + b.rate * (b.last - log[i].at)

RateBucketInv(b, log, now) ==
  b \in RateBuckets /\ b.last <= now /\ b.tokens <= b.cap /\ RateHolds(b, log) /\ RateTight(b, log)

\* Where the bucket has gone, all that was given would have been refilled.
RateGoneInv(log, now) ==
  \A i \in DOMAIN log :
    log[i].at <= now /\ RateSpent(log, i, Len(log)) <= RateDefault.rate * (now - log[i].at)

RateLogExact(log, config) ==
  \A j \in DOMAIN log :
    log[j].answer # "free" =>
      (log[j].answer = "granted" <=> RateRoom(log, j - 1, log[j].cost, log[j].at, config))

RateKeyInv(b, log, now) ==
  /\ log \in Seq(RateEntries)
  /\ IF b = RateNone THEN RateGoneInv(log, now) /\ RateLogExact(log, RateDefault)
                     ELSE RateBucketInv(b, log, now) /\ RateLogExact(log, b)

RateInv ==
  /\ rateTime \in Nat
  /\ rateBuckets = [k \in RateKeys |-> rateBuckets[k]] /\ rateLog = [k \in RateKeys |-> rateLog[k]]
  /\ \A c \in RateCallers : rateCall[c] # RateIdle => rateCall[c].key \in RateKeys /\ rateCall[c].cost \in Nat
  /\ rateCall = [c \in RateCallers |-> rateCall[c]]
  /\ \A k \in RateKeys : RateKeyInv(rateBuckets[k], rateLog[k], rateTime)

\* Products, which the provers do not take apart in larger steps.
LEMMA Distributes ==
  \A r, a, b \in Nat : r * (a + b) = r * a + r * b /\ r * a \in Nat /\ r * a <= r * (a + b)
<1>1. \A r, a, b \in Nat : r * (a + b) = r * a + r * b
  OBVIOUS
<1>2. \A r, a \in Nat : r * a \in Nat
  OBVIOUS
<1>. QED  BY <1>1, <1>2

\* The log next has the m entries of log and e: what it has spent does not depend on
\* what comes after, and grows by what is granted.
RateGrows(log, m, e, next) ==
  /\ \A i \in 1 .. m + 1 : \A j \in 0 .. m :
       RateSpent(log, i, j) \in Nat /\ RateSpent(next, i, j) = RateSpent(log, i, j)
  /\ RateSpent(next, m + 1, m) = 0
  /\ \A i \in 1 .. m + 1 :
       RateSpent(next, i, m + 1) = RateSpent(log, i, m) + IF e.answer = "granted" THEN e.cost ELSE 0

LEMMA RateSpentFacts ==
  ASSUME NEW log \in Seq(RateEntries), NEW e \in RateEntries, NEW m \in Nat, m = Len(log),
         NEW next, next = Append(log, e)
  PROVE  RateGrows(log, m, e, next)
<1>1. /\ next \in Seq(RateEntries) /\ Len(next) = m + 1 /\ next[m + 1] = e
      /\ DOMAIN log = 1 .. m /\ DOMAIN next = 1 .. m + 1 /\ \A i \in 1 .. m : next[i] = log[i]
  OBVIOUS
<1> DEFINE old == [x \in DOMAIN log |-> log[x].cost]
           new == [x \in DOMAIN next |-> next[x].cost]
           Given(l, i, j) == {x \in i .. j : l[x].answer = "granted"}
<1>2. /\ \A x \in 1 .. m : old[x] \in Nat /\ new[x] = old[x]
      /\ new[m + 1] = e.cost /\ e.cost \in Nat
  <2>1. \A x \in 1 .. m : log[x] \in RateEntries
    BY <1>1
  <2>2. \A r \in RateEntries : r.cost \in Nat
    BY DEF RateEntries
  <2>. QED  BY <1>1, <2>1, <2>2
<1>3. ASSUME NEW i \in 1 .. m + 1, NEW j \in 0 .. m
      PROVE  /\ Given(log, i, j) \subseteq 1 .. m /\ Given(next, i, j) = Given(log, i, j)
             /\ IsFiniteSet(Given(log, i, j))
  <2>1. i .. j \subseteq 1 .. m
    OBVIOUS
  <2>2. IsFiniteSet(1 .. m)
    BY FS_Interval
  <2>3. Given(log, i, j) \subseteq 1 .. m /\ Given(next, i, j) = Given(log, i, j)
    BY <1>1, <2>1
  <2>. QED  BY <2>2, <2>3, FS_Subset
<1>. HIDE DEF old, new
<1>4. /\ \A i \in 1 .. m + 1 : \A j \in 0 .. m :
           RateSpent(log, i, j) \in Nat /\ RateSpent(next, i, j) = RateSpent(log, i, j)
  <2> SUFFICES ASSUME NEW i \in 1 .. m + 1, NEW j \in 0 .. m
               PROVE  RateSpent(log, i, j) \in Nat /\ RateSpent(next, i, j) = RateSpent(log, i, j)
    OBVIOUS
  <2>1. RateSpent(log, i, j) = SumFunctionOnSet(old, Given(log, i, j))
        /\ RateSpent(next, i, j) = SumFunctionOnSet(new, Given(next, i, j))
    BY DEF RateSpent, old, new
  <2>2. (\A x \in Given(log, i, j) : old[x] \in Nat) /\ (\A x \in Given(log, i, j) : new[x] = old[x])
    BY <1>2, <1>3
  <2>3. SumFunctionOnSet(old, Given(log, i, j)) \in Nat
        /\ SumFunctionOnSet(new, Given(log, i, j)) = SumFunctionOnSet(old, Given(log, i, j))
    BY <1>3, <2>2, TotalFacts
  <2>. QED  BY <1>3, <2>1, <2>3
<1>5. RateSpent(next, m + 1, m) = 0
  <2>1. Given(next, m + 1, m) = {}
    OBVIOUS
  <2>2. RateSpent(next, m + 1, m) = SumFunctionOnSet(new, Given(next, m + 1, m))
    BY DEF RateSpent, new
  <2>3. SumFunctionOnSet(new, {}) = 0
    <3>1. IsFiniteSet({}) /\ \A x \in {} : new[x] \in Nat
      BY FS_EmptySet
    <3>. QED  BY <3>1, TotalFacts
  <2>. QED  BY <2>1, <2>2, <2>3
<1>6. ASSUME NEW i \in 1 .. m + 1
      PROVE  RateSpent(next, i, m + 1) = RateSpent(log, i, m) + IF e.answer = "granted" THEN e.cost ELSE 0
  <2>1. /\ RateSpent(log, i, m) = SumFunctionOnSet(old, Given(log, i, m))
        /\ RateSpent(next, i, m) = SumFunctionOnSet(new, Given(next, i, m))
        /\ RateSpent(next, i, m + 1) = SumFunctionOnSet(new, Given(next, i, m + 1))
    BY DEF RateSpent, old, new
  <2>2. RateSpent(next, i, m) = RateSpent(log, i, m) /\ RateSpent(log, i, m) \in Nat
    BY <1>4
  <2>3. i .. m + 1 = (i .. m) \cup {m + 1} /\ m + 1 \notin i .. m
    OBVIOUS
  <2>4. CASE e.answer = "granted"
    <3>1. Given(next, i, m + 1) = Given(next, i, m) \cup {m + 1} /\ m + 1 \notin Given(next, i, m)
      BY <1>1, <2>3, <2>4
    <3>2. /\ m + 1 \in Given(next, i, m + 1)
          /\ Given(next, i, m + 1) \ {m + 1} = Given(next, i, m)
      BY <3>1
    <3>3. IsFiniteSet(Given(next, i, m)) /\ Given(next, i, m) \subseteq 1 .. m
      <4>1. m \in 0 .. m
        OBVIOUS
      <4>. QED  BY <1>3, <4>1
    <3>4. IsFiniteSet(Given(next, i, m + 1))
      <4> DEFINE G == Given(next, i, m)
      <4>1. IsFiniteSet(G)
        BY <3>3
      <4>. HIDE DEF G
      <4>2. IsFiniteSet(G \cup {m + 1})
        BY ONLY <4>1, FS_AddElement
      <4>. QED  BY ONLY <3>1, <4>2 DEF G
    <3>5. \A x \in Given(next, i, m + 1) : new[x] \in Nat
      <4>1. \A x \in Given(next, i, m + 1) : x \in 1 .. m \/ x = m + 1
        BY <3>1, <3>3
      <4>2. \A x \in 1 .. m : new[x] \in Nat
        BY ONLY <1>2
      <4>. QED  BY ONLY <1>2, <4>1, <4>2
    <3>. HIDE DEF Given
    <3>6. \A x \in Given(next, i, m + 1) :
            SumFunctionOnSet(new, Given(next, i, m + 1)) = new[x] + SumFunctionOnSet(new, Given(next, i, m + 1) \ {x})
      BY ONLY <3>4, <3>5, TotalFacts
    <3>7. SumFunctionOnSet(new, Given(next, i, m + 1)) = new[m + 1] + SumFunctionOnSet(new, Given(next, i, m))
      BY ONLY <3>2, <3>6
    <3>8. RateSpent(next, i, m + 1) = e.cost + RateSpent(log, i, m) /\ e.cost \in Nat
      BY ONLY <1>2, <2>1, <2>2, <3>7
    <3>9. (IF e.answer = "granted" THEN e.cost ELSE 0) = e.cost
      BY ONLY <2>4
    <3>. QED  BY ONLY <2>2, <3>8, <3>9
  <2>5. CASE e.answer # "granted"
    <3>1. Given(next, i, m + 1) = Given(next, i, m)
      BY <1>1, <2>3, <2>5
    <3>. HIDE DEF Given
    <3>2. RateSpent(next, i, m + 1) = RateSpent(log, i, m)
      BY ONLY <2>1, <2>2, <3>1
    <3>3. (IF e.answer = "granted" THEN e.cost ELSE 0) = 0
      BY ONLY <2>5
    <3>. QED  BY ONLY <2>2, <3>2, <3>3
  <2>. QED  BY <2>4, <2>5
<1>. QED  BY <1>4, <1>5, <1>6 DEF RateGrows

\* Time passes: a refill keeps to the room there is, or fills the bucket.
LEMMA RateRefilled ==
  ASSUME NEW log \in Seq(RateEntries), NEW b, NEW now \in Nat, RateBucketInv(b, log, now),
         NEW t \in Nat, t = IF b.tokens + (now - b.last) * b.rate < b.cap
                            THEN b.tokens + (now - b.last) * b.rate ELSE b.cap,
         NEW f, f = [tokens |-> t, last |-> now, cap |-> b.cap, rate |-> b.rate]
  PROVE  RateBucketInv(f, log, now) /\ f.last = now /\ f.cap = b.cap /\ f.rate = b.rate /\ f.tokens = t
<1>1. /\ b \in RateBuckets /\ b.last <= now /\ b.tokens <= b.cap
      /\ b.tokens \in Nat /\ b.last \in Nat /\ b.cap \in Nat \ {0} /\ b.rate \in Nat \ {0}
  BY DEF RateBucketInv, RateBuckets
<1>2. f \in RateBuckets /\ f.last = now /\ f.cap = b.cap /\ f.rate = b.rate /\ f.tokens = t
  BY <1>1 DEF RateBuckets
<1> DEFINE passed == now - b.last
           more == b.rate * passed
<1>3. passed \in Nat /\ more \in Nat /\ more = (now - b.last) * b.rate
  <2>1. passed \in Nat
    BY <1>1
  <2>2. more \in Nat
    BY <1>1, <2>1, Distributes
  <2>. QED  BY <1>1, <2>1, <2>2
<1>9. b.tokens \in Nat /\ b.cap \in Nat /\ more \in Nat
  BY ONLY <1>1, <1>3
<1>4. ASSUME NEW i \in DOMAIN log
      PROVE  /\ log[i].at \in Nat /\ log[i].at <= b.last
             /\ b.rate * (now - log[i].at) = more + b.rate * (b.last - log[i].at)
             /\ b.rate * (b.last - log[i].at) \in Nat
             /\ RateSpent(log, i, Len(log)) \in Nat
  <2>1. log[i] \in RateEntries /\ log[i].at <= b.last
    BY DEF RateBucketInv, RateHolds
  <2>2. log[i].at \in Nat
    BY <2>1 DEF RateEntries
  <2>3. b.last - log[i].at \in Nat /\ now - log[i].at = passed + (b.last - log[i].at)
    BY <1>1, <2>1, <2>2
  <2>4. b.rate * (now - log[i].at) = more + b.rate * (b.last - log[i].at)
        /\ b.rate * (b.last - log[i].at) \in Nat
    <3> DEFINE r == b.rate
               age == b.last - log[i].at
    <3>1. r \in Nat /\ passed \in Nat /\ age \in Nat /\ now - log[i].at = passed + age
      BY <1>1, <1>3, <2>3
    <3>2. more = r * passed
      OBVIOUS
    <3>. HIDE DEF r, passed, age, more
    <3>3. r * (passed + age) = r * passed + r * age /\ r * age \in Nat
      BY ONLY <3>1, Distributes
    <3>4. r * (now - log[i].at) = more + r * age
      BY ONLY <3>1, <3>2, <3>3
    <3>. QED  BY <3>3, <3>4 DEF r, age
  <2>5. RateSpent(log, i, Len(log)) \in Nat
    <3>1. Len(log) \in Nat /\ i \in 1 .. Len(log) + 1 /\ Len(log) \in 0 .. Len(log)
      OBVIOUS
    <3>2. RateGrows(log, Len(log), log[i], Append(log, log[i]))
      BY <2>1, <3>1, RateSpentFacts
    <3>. QED  BY ONLY <3>1, <3>2 DEF RateGrows
  <2>. QED  BY <2>1, <2>2, <2>3, <2>4, <2>5
<1>. HIDE DEF more, passed
<1>5. t = IF b.tokens + more < b.cap THEN b.tokens + more ELSE b.cap
  BY <1>3
<1>6. t <= b.cap /\ t <= b.tokens + more /\ (t = b.cap \/ t = b.tokens + more)
  BY ONLY <1>1, <1>3, <1>5
<1>7. RateHolds(f, log)
  <2> SUFFICES ASSUME NEW i \in DOMAIN log
               PROVE  log[i].at <= now /\ t + RateSpent(log, i, Len(log)) <= b.cap + b.rate * (now - log[i].at)
    BY <1>2 DEF RateHolds
  <2>1. b.tokens + RateSpent(log, i, Len(log)) <= b.cap + b.rate * (b.last - log[i].at)
    BY DEF RateBucketInv, RateHolds
  <2> DEFINE spent == RateSpent(log, i, Len(log))
             since == b.rate * (b.last - log[i].at)
             room == b.rate * (now - log[i].at)
  <2>2. b.tokens + spent <= b.cap + since /\ room = more + since /\ since \in Nat /\ spent \in Nat
        /\ log[i].at \in Nat /\ log[i].at <= b.last
    BY <1>4, <2>1
  <2>. HIDE DEF spent, since, room
  <2>3. t + spent <= b.cap + room
    BY ONLY <1>9, <1>6, <2>2, t \in Nat, SMTT(30)
  <2>4. log[i].at <= now
    BY ONLY <1>1, <2>2, now \in Nat
  <2>. QED  BY <2>3, <2>4 DEF spent, room
<1>8. RateTight(f, log)
  <2>1. CASE t = b.cap
    BY <1>2, <2>1 DEF RateTight
  <2>2. CASE t # b.cap
    <3>1. t = b.tokens + more /\ b.tokens # b.cap
      BY ONLY <1>1, <1>3, <1>5, <1>6, <2>2
    <3>2. PICK i \in DOMAIN log : b.tokens + RateSpent(log, i, Len(log)) = b.cap + b.rate * (b.last - log[i].at)
      BY <3>1 DEF RateBucketInv, RateTight
    <3> DEFINE spent == RateSpent(log, i, Len(log))
               since == b.rate * (b.last - log[i].at)
               room == b.rate * (now - log[i].at)
    <3>3. b.tokens + spent = b.cap + since /\ room = more + since /\ since \in Nat /\ spent \in Nat
      BY <1>4, <3>2
    <3> DEFINE tok == b.tokens
               cap == b.cap
    <3>. HIDE DEF spent, since, room, tok, cap
    <3>6. t = tok + more /\ tok + spent = cap + since /\ room = more + since
          /\ tok \in Nat /\ cap \in Nat /\ more \in Nat /\ since \in Nat /\ spent \in Nat
      BY ONLY <1>9, <3>1, <3>3 DEF tok, cap
    <3>7. t + spent = cap + room
      BY ONLY <3>6
    <3>4. t + spent = b.cap + room
      BY <3>7 DEF cap
    <3>5. f.tokens + RateSpent(log, i, Len(log)) = f.cap + f.rate * (f.last - log[i].at)
      BY <1>2, <3>4 DEF spent, room
    <3>. QED  BY <3>5 DEF RateTight
  <2>. QED  BY <2>1, <2>2
<1>. QED  BY <1>2, <1>6, <1>7, <1>8 DEF RateBucketInv

\* A call is granted exactly when there is room for it in every stretch of time, and
\* the bucket keeps to its room.
LEMMA RateServed ==
  ASSUME NEW log \in Seq(RateEntries), NEW b, NEW now \in Nat, NEW n \in Nat,
         RateBucketInv(b, log, now), b.last = now, RateLogExact(log, b),
         NEW e, e = [at |-> now, cost |-> n, answer |-> IF b.tokens >= n THEN "granted" ELSE "refused"],
         NEW f, f = IF b.tokens >= n THEN [b EXCEPT !.tokens = b.tokens - n] ELSE b,
         NEW m \in Nat, m = Len(log), NEW next, next = Append(log, e)
  PROVE  /\ next \in Seq(RateEntries)
         /\ RateBucketInv(f, next, now) /\ RateLogExact(next, f)
<1> DEFINE Room(i) == b.rate * (now - log[i].at)
           Spent(i) == RateSpent(log, i, m)
<1>1. /\ b \in RateBuckets /\ b.tokens <= b.cap
      /\ b.tokens \in Nat /\ b.cap \in Nat \ {0} /\ b.rate \in Nat \ {0}
  BY DEF RateBucketInv, RateBuckets
<1>2. f \in RateBuckets /\ f.last = now /\ f.cap = b.cap /\ f.rate = b.rate
      /\ f.tokens = (IF b.tokens >= n THEN b.tokens - n ELSE b.tokens)
  <2>1. CASE b.tokens >= n
    <3>1. b.tokens - n \in Nat
      BY <1>1, <2>1
    <3>. QED  BY <1>1, <2>1, <3>1 DEF RateBuckets
  <2>2. CASE ~(b.tokens >= n)
    BY <1>1, <2>2
  <2>. QED  BY <2>1, <2>2
<1>3. e \in RateEntries /\ e.at = now /\ e.cost = n /\ e.answer # "free"
      /\ (e.answer = "granted" <=> b.tokens >= n)
  BY DEF RateEntries
<1>m. m \in Nat
  OBVIOUS
<1>5. /\ next \in Seq(RateEntries) /\ Len(next) = m + 1 /\ next[m + 1] = e
      /\ DOMAIN log = 1 .. m /\ DOMAIN next = 1 .. m + 1 /\ \A i \in 1 .. m : next[i] = log[i]
      /\ \A i \in 1 .. m + 1 : \A j \in 0 .. m :
           RateSpent(log, i, j) \in Nat /\ RateSpent(next, i, j) = RateSpent(log, i, j)
      /\ RateSpent(next, m + 1, m) = 0
      /\ \A i \in 1 .. m + 1 :
           RateSpent(next, i, m + 1) = RateSpent(log, i, m) + IF e.answer = "granted" THEN e.cost ELSE 0
  <2>1. e \in RateEntries
    BY <1>3
  <2>2. /\ next \in Seq(RateEntries) /\ Len(next) = m + 1 /\ next[m + 1] = e
        /\ DOMAIN log = 1 .. m /\ DOMAIN next = 1 .. m + 1 /\ \A i \in 1 .. m : next[i] = log[i]
    BY ONLY <2>1, log \in Seq(RateEntries), m \in Nat, m = Len(log), next = Append(log, e)
  <2>3. /\ \A i \in 1 .. m + 1 : \A j \in 0 .. m :
             RateSpent(log, i, j) \in Nat /\ RateSpent(next, i, j) = RateSpent(log, i, j)
        /\ RateSpent(next, m + 1, m) = 0
        /\ \A i \in 1 .. m + 1 :
             RateSpent(next, i, m + 1) = RateSpent(log, i, m) + IF e.answer = "granted" THEN e.cost ELSE 0
    <3>1. RateGrows(log, m, e, next)
      BY ONLY <2>1, log \in Seq(RateEntries), m \in Nat, m = Len(log), next = Append(log, e), RateSpentFacts
    <3>. QED  BY ONLY <3>1 DEF RateGrows
  <2>. QED  BY ONLY <2>2, <2>3
<1>6. \A i \in 1 .. m : log[i].at \in Nat /\ log[i].at <= now /\ Room(i) \in Nat /\ Spent(i) \in Nat
  <2> SUFFICES ASSUME NEW i \in 1 .. m
               PROVE  log[i].at \in Nat /\ log[i].at <= now /\ Room(i) \in Nat /\ Spent(i) \in Nat
    OBVIOUS
  <2>0. \A k \in DOMAIN log : log[k].at <= b.last
    BY DEF RateBucketInv, RateHolds
  <2>7. log[i] \in RateEntries
    OBVIOUS
  <2>1. log[i] \in RateEntries /\ log[i].at <= now
    BY ONLY <1>5, <2>0, <2>7, b.last = now
  <2>2. log[i].at \in Nat /\ now - log[i].at \in Nat
    BY <2>1 DEF RateEntries
  <2>3. b.rate \in Nat
    BY <1>1
  <2>4. Room(i) \in Nat
    BY ONLY <2>2, <2>3, Distributes
  <2>5. i \in 1 .. m + 1 /\ m \in 0 .. m
    BY <1>m
  <2>. QED  BY <1>5, <2>1, <2>2, <2>4, <2>5
<1>7. \A i \in 1 .. m : b.tokens + Spent(i) <= b.cap + Room(i)
  BY <1>5 DEF RateBucketInv, RateHolds
<1>8. b.tokens = b.cap \/ \E i \in 1 .. m : b.tokens + Spent(i) = b.cap + Room(i)
  BY <1>5 DEF RateBucketInv, RateTight
<1>9. b.rate * (now - now) = 0
  <2>1. now - now = 0 /\ b.rate \in Nat
    BY <1>1
  <2>. QED  BY ONLY <2>1
<1>a. \A i \in 1 .. m : i \in 1 .. m + 1 /\ m \in 0 .. m
  BY <1>m
<1>b. m + 1 \in 1 .. m + 1 /\ m \in 0 .. m
  BY <1>m
<1>c. RateSpent(log, m + 1, m) = 0
  BY <1>5, <1>b
<1> DEFINE cost == IF b.tokens >= n THEN n ELSE 0
<1>d. /\ \A i \in 1 .. m : RateSpent(next, i, m + 1) = Spent(i) + cost
      /\ RateSpent(next, m + 1, m + 1) = cost
      /\ f.tokens = b.tokens - cost /\ cost \in Nat /\ cost <= b.tokens
  <2>1. cost = IF e.answer = "granted" THEN e.cost ELSE 0
    BY <1>3
  <2>2. cost \in Nat /\ cost <= b.tokens
    BY <1>1
  <2>3. f.tokens = b.tokens - cost
    BY <1>1, <1>2
  <2>. HIDE DEF cost
  <2>4. \A i \in 1 .. m + 1 : RateSpent(next, i, m + 1) = RateSpent(log, i, m) + cost
    BY ONLY <1>5, <2>1
  <2>5. RateSpent(next, m + 1, m + 1) = cost
    BY ONLY <1>b, <1>c, <2>2, <2>4
  <2>. QED  BY <1>a, <2>2, <2>3, <2>4, <2>5
<1>. HIDE DEF cost
<1>. HIDE DEF Spent
<1>e. \A i \in 1 .. m : f.rate * (f.last - next[i].at) = Room(i)
  BY <1>2, <1>5
<1>f. f.rate * (f.last - next[m + 1].at) = 0 /\ next[m + 1].at = now
  BY <1>2, <1>3, <1>5, <1>9
<1>. HIDE DEF Room
<1>g. RateHolds(f, next)
  <2> SUFFICES ASSUME NEW i \in 1 .. m + 1
               PROVE  /\ next[i].at <= f.last
                      /\ f.tokens + RateSpent(next, i, m + 1) <= f.cap + f.rate * (f.last - next[i].at)
    BY <1>5 DEF RateHolds
  <2>0. now <= now
    OBVIOUS
  <2>1. CASE i \in 1 .. m
    <3>1. next[i].at <= f.last
      BY <1>2, <1>5, <1>6, <2>1
    <3>2. RateSpent(next, i, m + 1) = Spent(i) + cost /\ f.rate * (f.last - next[i].at) = Room(i)
          /\ b.tokens + Spent(i) <= b.cap + Room(i) /\ Spent(i) \in Nat /\ Room(i) \in Nat
      BY <1>6, <1>7, <1>d, <1>e, <2>1
    <3>3. (b.tokens - cost) + (Spent(i) + cost) <= b.cap + Room(i)
      BY ONLY <1>1, <1>d, <3>2
    <3>4. f.tokens = b.tokens - cost /\ f.cap = b.cap
      BY ONLY <1>2, <1>d
    <3>. QED  BY ONLY <3>1, <3>2, <3>3, <3>4
  <2>2. CASE i = m + 1
    <3>1. (b.tokens - cost) + cost <= b.cap + 0
      BY ONLY <1>1, <1>d
    <3>2. next[i].at <= f.last
      BY ONLY <1>2, <1>f, <2>0, <2>2
    <3>3. f.tokens = b.tokens - cost /\ RateSpent(next, i, m + 1) = cost
          /\ f.cap = b.cap /\ f.rate * (f.last - next[i].at) = 0
      BY ONLY <1>2, <1>d, <1>f, <2>2
    <3>. QED  BY ONLY <3>1, <3>2, <3>3
  <2>3. i \in 1 .. m \/ i = m + 1
    BY ONLY <1>m
  <2>. QED  BY ONLY <2>1, <2>2, <2>3
<1>h. RateTight(f, next)
  <2>1. CASE b.tokens = b.cap
    <3>1. (b.tokens - cost) + cost = b.cap + 0
      BY ONLY <1>1, <1>d, <2>1
    <3>2. f.tokens + RateSpent(next, m + 1, m + 1) = f.cap + f.rate * (f.last - next[m + 1].at)
      BY ONLY <1>2, <1>d, <1>f, <3>1
    <3>. QED  BY <1>5, <1>b, <3>2 DEF RateTight
  <2>2. CASE b.tokens # b.cap
    <3>1. PICK i \in 1 .. m : b.tokens + Spent(i) = b.cap + Room(i)
      BY <1>8, <2>2
    <3>2. RateSpent(next, i, m + 1) = Spent(i) + cost /\ f.rate * (f.last - next[i].at) = Room(i)
          /\ Spent(i) \in Nat /\ Room(i) \in Nat
      BY <1>6, <1>d, <1>e
    <3>3. (b.tokens - cost) + (Spent(i) + cost) = b.cap + Room(i)
      BY ONLY <1>1, <1>d, <3>1, <3>2
    <3>4. f.tokens + RateSpent(next, i, m + 1) = f.cap + f.rate * (f.last - next[i].at)
      BY ONLY <1>2, <1>d, <3>2, <3>3
    <3>. QED  BY <1>5, <1>a, <3>4 DEF RateTight
  <2>. QED  BY <2>1, <2>2
<1>i. b.tokens >= n <=> RateRoom(log, m, n, now, b)
  <2>1. RateRoom(log, m, n, now, b) <=> n <= b.cap /\ \A i \in 1 .. m : Spent(i) + n <= b.cap + Room(i)
    BY DEF RateRoom, Spent, Room
  <2>2. ASSUME b.tokens >= n PROVE n <= b.cap /\ \A i \in 1 .. m : Spent(i) + n <= b.cap + Room(i)
    <3>1. n <= b.cap
      BY <1>1, <2>2
    <3>2. ASSUME NEW i \in 1 .. m PROVE Spent(i) + n <= b.cap + Room(i)
      <4>1. b.tokens + Spent(i) <= b.cap + Room(i) /\ Spent(i) \in Nat /\ Room(i) \in Nat
        BY <1>6, <1>7
      <4>. QED  BY ONLY <1>1, <2>2, <4>1, n \in Nat
    <3>. QED  BY <3>1, <3>2
  <2>3. ASSUME n <= b.cap /\ \A i \in 1 .. m : Spent(i) + n <= b.cap + Room(i) PROVE b.tokens >= n
    <3>1. CASE b.tokens = b.cap
      BY <1>1, <2>3, <3>1
    <3>2. CASE b.tokens # b.cap
      <4>1. PICK i \in 1 .. m : b.tokens + Spent(i) = b.cap + Room(i)
        BY <1>8, <3>2
      <4>2. Spent(i) + n <= b.cap + Room(i) /\ Spent(i) \in Nat /\ Room(i) \in Nat
        BY <1>6, <2>3
      <4>. QED  BY ONLY <1>1, <4>1, <4>2, n \in Nat
    <3>. QED  BY <3>1, <3>2
  <2>. QED  BY <2>1, <2>2, <2>3
<1>j. RateLogExact(next, f)
  <2> SUFFICES ASSUME NEW j \in 1 .. m + 1, next[j].answer # "free"
               PROVE  next[j].answer = "granted" <=> RateRoom(next, j - 1, next[j].cost, next[j].at, f)
    BY <1>5 DEF RateLogExact
  <2>0. next[j].answer # "free"
    OBVIOUS
  <2>1. next[j].answer = "granted" <=> RateRoom(log, j - 1, next[j].cost, next[j].at, b)
    <3>1. CASE j \in 1 .. m
      <4>1. log[j].answer # "free" =>
              (log[j].answer = "granted" <=> RateRoom(log, j - 1, log[j].cost, log[j].at, b))
        BY <1>5, <3>1 DEF RateLogExact
      <4>2. next[j] = log[j]
        BY <1>5, <3>1
      <4>. QED  BY ONLY <2>0, <4>1, <4>2
    <3>2. CASE j = m + 1
      <4>1. next[j] = e /\ j - 1 = m
        BY <1>m, <1>5, <3>2
      <4>. QED  BY ONLY <1>3, <1>i, <4>1
    <3>3. j \in 1 .. m \/ j = m + 1
      BY ONLY <1>m
    <3>. QED  BY ONLY <3>1, <3>2, <3>3
  <2>2. j - 1 \in 0 .. m /\ \A i \in 1 .. j - 1 : i \in 1 .. m /\ i \in 1 .. m + 1
    BY <1>m
  <2>3. \A i \in 1 .. j - 1 : RateSpent(next, i, j - 1) = RateSpent(log, i, j - 1) /\ next[i].at = log[i].at
    BY <1>5, <2>2
  <2>4. RateRoom(log, j - 1, next[j].cost, next[j].at, b) <=> RateRoom(next, j - 1, next[j].cost, next[j].at, f)
    BY <1>2, <2>3 DEF RateRoom
  <2>. QED  BY <2>1, <2>4
<1>k. f.last <= now /\ f.tokens <= f.cap
  BY <1>1, <1>2, <1>d
<1>. QED  BY <1>2, <1>5, <1>g, <1>h, <1>j, <1>k DEF RateBucketInv

\* What a log has spent, and what refills in the time a stretch of it has lasted.
RateLasts(log, i, rate, last, now) ==
  /\ RateSpent(log, i, Len(log)) \in Nat
  /\ rate * (last - log[i].at) \in Nat /\ rate * (now - last) \in Nat
  /\ rate * (now - log[i].at) = rate * (now - last) + rate * (last - log[i].at)

LEMMA RateTimes ==
  ASSUME NEW log \in Seq(RateEntries), NEW i \in DOMAIN log, NEW rate \in Nat, NEW last \in Nat,
         NEW now \in Nat, log[i].at <= last, last <= now
  PROVE  RateLasts(log, i, rate, last, now)
<1>1. log[i] \in RateEntries /\ Len(log) \in Nat /\ DOMAIN log = 1 .. Len(log)
  OBVIOUS
<1>2. log[i].at \in Nat
  BY <1>1 DEF RateEntries
<1>3. RateSpent(log, i, Len(log)) \in Nat
  <2>1. i \in 1 .. Len(log) + 1 /\ Len(log) \in 0 .. Len(log)
    BY <1>1
  <2>2. RateGrows(log, Len(log), log[i], Append(log, log[i]))
    BY <1>1, RateSpentFacts
  <2>. QED  BY ONLY <2>1, <2>2 DEF RateGrows
<1> DEFINE passed == now - last
           age == last - log[i].at
<1>4. passed \in Nat /\ age \in Nat /\ now - log[i].at = passed + age
  BY <1>2
<1>. HIDE DEF passed, age
<1>5. rate * (passed + age) = rate * passed + rate * age /\ rate * age \in Nat /\ rate * passed \in Nat
  BY ONLY <1>4, rate \in Nat, Distributes
<1>6. rate * (now - log[i].at) = rate * passed + rate * age
  BY ONLY <1>4, <1>5
<1>. QED  BY <1>3, <1>5, <1>6 DEF RateLasts, passed, age

LEMMA RateDefaultFacts ==
  /\ RateDefault.cap \in Nat \ {0} /\ RateDefault.rate \in Nat \ {0} /\ RateExpiry \in Nat
  /\ RateExpiry * RateDefault.rate >= RateDefault.cap
BY RateConstants

\* A bucket that is cleaned up would have filled since.
LEMMA RateCleaned ==
  ASSUME NEW log \in Seq(RateEntries), NEW b, NEW now \in Nat, RateBucketInv(b, log, now),
         now - b.last >= RateExpiry, b.cap = RateDefault.cap, b.rate = RateDefault.rate
  PROVE  RateGoneInv(log, now)
<1> SUFFICES ASSUME NEW i \in DOMAIN log
             PROVE  log[i].at <= now /\ RateSpent(log, i, Len(log)) <= RateDefault.rate * (now - log[i].at)
  BY DEF RateGoneInv
<1>1. /\ b.tokens \in Nat /\ b.last \in Nat /\ b.rate \in Nat /\ b.cap \in Nat /\ b.last <= now
      /\ log[i].at <= b.last
      /\ b.tokens + RateSpent(log, i, Len(log)) <= b.cap + b.rate * (b.last - log[i].at)
  BY DEF RateBucketInv, RateBuckets, RateHolds
<1>2. log[i].at \in Nat
  <2>1. log[i] \in RateEntries
    OBVIOUS
  <2>. QED  BY <2>1 DEF RateEntries
<1>3. log[i].at <= now
  BY ONLY <1>1, <1>2, now \in Nat
<1> DEFINE spent == RateSpent(log, i, Len(log))
           since == b.rate * (b.last - log[i].at)
           more == b.rate * (now - b.last)
           room == b.rate * (now - log[i].at)
<1>4. spent \in Nat /\ since \in Nat /\ more \in Nat /\ room = more + since
  <2>1. RateLasts(log, i, b.rate, b.last, now)
    BY ONLY <1>1, log \in Seq(RateEntries), i \in DOMAIN log, now \in Nat, RateTimes
  <2>. QED  BY ONLY <2>1 DEF RateLasts
<1>5. more >= b.cap
  <2> DEFINE r == b.rate
             over == (now - b.last) - RateExpiry
  <2>1. over \in Nat /\ RateExpiry \in Nat /\ r \in Nat /\ now - b.last = RateExpiry + over
    BY <1>1, RateDefaultFacts
  <2>2. RateExpiry * r >= b.cap
    BY RateDefaultFacts
  <2>3. more = r * (now - b.last)
    OBVIOUS
  <2>. HIDE DEF r, over, more
  <2>4. r * RateExpiry <= r * (RateExpiry + over) /\ r * RateExpiry \in Nat /\ r * (RateExpiry + over) \in Nat
    <3>1. r * (RateExpiry + over) = r * RateExpiry + r * over /\ r * RateExpiry \in Nat /\ r * over \in Nat
      BY ONLY <2>1, Distributes
    <3>. QED  BY ONLY <3>1
  <2>5. RateExpiry * r = r * RateExpiry
    BY ONLY <2>1
  <2>6. more = r * (RateExpiry + over)
    BY ONLY <2>1, <2>3
  <2> DEFINE p == r * RateExpiry
             q == r * (RateExpiry + over)
  <2>7. p >= b.cap /\ p <= q /\ p \in Nat /\ q \in Nat /\ more = q
    BY ONLY <2>2, <2>4, <2>5, <2>6
  <2>. HIDE DEF p, q
  <2>. QED  BY ONLY <1>1, <2>7
<1>6. b.tokens + spent <= b.cap + since
  BY <1>1
<1>7. room = RateDefault.rate * (now - log[i].at)
  OBVIOUS
<1> DEFINE tok == b.tokens
           cap == b.cap
<1>8. tok \in Nat /\ cap \in Nat /\ more >= cap /\ tok + spent <= cap + since
  BY <1>1, <1>5, <1>6
<1>. HIDE DEF spent, since, more, room, tok, cap
<1>9. spent <= room
  BY ONLY <1>4, <1>8
<1>. QED  BY <1>3, <1>7, <1>9 DEF spent

\* A bucket that is made again is full, and may be.
LEMMA RateMadeAgain ==
  ASSUME NEW log \in Seq(RateEntries), NEW now \in Nat, RateGoneInv(log, now),
         NEW b, b = [tokens |-> RateDefault.cap, last |-> now, cap |-> RateDefault.cap, rate |-> RateDefault.rate]
  PROVE  RateBucketInv(b, log, now) /\ b.cap = RateDefault.cap /\ b.rate = RateDefault.rate
<1>1. b \in RateBuckets /\ b.last = now /\ b.tokens = b.cap /\ b.cap = RateDefault.cap /\ b.rate = RateDefault.rate
      /\ b.cap \in Nat
  BY RateDefaultFacts DEF RateBuckets
<1>2. RateTight(b, log)
  BY <1>1 DEF RateTight
<1>3. RateHolds(b, log)
  <2> SUFFICES ASSUME NEW i \in DOMAIN log
               PROVE  /\ log[i].at <= now
                      /\ b.tokens + RateSpent(log, i, Len(log)) <= b.cap + RateDefault.rate * (now - log[i].at)
    BY <1>1 DEF RateHolds
  <2>1. log[i].at <= now /\ RateSpent(log, i, Len(log)) <= RateDefault.rate * (now - log[i].at)
    BY DEF RateGoneInv
  <2>2. RateDefault.rate \in Nat /\ now <= now
    BY RateDefaultFacts
  <2> DEFINE spent == RateSpent(log, i, Len(log))
             room == RateDefault.rate * (now - log[i].at)
  <2>3. spent \in Nat /\ room \in Nat /\ spent <= room
    <3>1. RateLasts(log, i, RateDefault.rate, now, now)
      BY ONLY <2>1, <2>2, log \in Seq(RateEntries), i \in DOMAIN log, now \in Nat, RateTimes
    <3>. QED  BY ONLY <2>1, <3>1 DEF RateLasts
  <2>. HIDE DEF spent, room
  <2>4. b.tokens + spent <= b.cap + room
    BY ONLY <1>1, <2>3
  <2>. QED  BY <2>1, <2>4 DEF spent, room
<1>4. b.last <= now /\ b.tokens <= b.cap
  BY <1>1
<1>. QED  BY <1>1, <1>2, <1>3, <1>4 DEF RateBucketInv

LEMMA RateAged ==
  ASSUME NEW log \in Seq(RateEntries), NEW now \in Nat, RateGoneInv(log, now)
  PROVE  RateGoneInv(log, now + 1)
<1> SUFFICES ASSUME NEW i \in DOMAIN log
             PROVE  log[i].at <= now + 1 /\ RateSpent(log, i, Len(log)) <= RateDefault.rate * ((now + 1) - log[i].at)
  BY DEF RateGoneInv
<1>1. log[i].at <= now /\ RateSpent(log, i, Len(log)) <= RateDefault.rate * (now - log[i].at)
  BY DEF RateGoneInv
<1>2. log[i].at \in Nat
  <2>1. log[i] \in RateEntries
    OBVIOUS
  <2>. QED  BY <2>1 DEF RateEntries
<1>3. RateDefault.rate \in Nat /\ now <= now + 1 /\ now + 1 \in Nat
  BY RateDefaultFacts
<1> DEFINE spent == RateSpent(log, i, Len(log))
           room == RateDefault.rate * (now - log[i].at)
           more == RateDefault.rate * ((now + 1) - now)
           wide == RateDefault.rate * ((now + 1) - log[i].at)
<1>4. spent \in Nat /\ room \in Nat /\ more \in Nat /\ wide = more + room /\ spent <= room
  <2>1. RateLasts(log, i, RateDefault.rate, now, now + 1)
    BY ONLY <1>1, <1>3, log \in Seq(RateEntries), i \in DOMAIN log, now \in Nat, RateTimes
  <2>. QED  BY ONLY <1>1, <2>1 DEF RateLasts
<1>. HIDE DEF spent, room, more, wide
<1>5. spent <= wide
  BY ONLY <1>4
<1>6. log[i].at <= now + 1
  BY ONLY <1>1, <1>2, now \in Nat
<1>. QED  BY <1>5, <1>6 DEF spent, wide

\* A call that found the bucket gone has taken nothing.
LEMMA RateFree ==
  ASSUME NEW log \in Seq(RateEntries), NEW now \in Nat, NEW n \in Nat,
         RateGoneInv(log, now), RateLogExact(log, RateDefault),
         NEW e, e = [at |-> now, cost |-> n, answer |-> "free"],
         NEW m \in Nat, m = Len(log), NEW next, next = Append(log, e)
  PROVE  next \in Seq(RateEntries) /\ RateGoneInv(next, now) /\ RateLogExact(next, RateDefault)
<1>1. e \in RateEntries /\ e.at = now /\ e.answer = "free" /\ e.answer # "granted"
  BY DEF RateEntries
<1>2. /\ next \in Seq(RateEntries) /\ Len(next) = m + 1 /\ next[m + 1] = e
      /\ DOMAIN log = 1 .. m /\ DOMAIN next = 1 .. m + 1 /\ \A i \in 1 .. m : next[i] = log[i]
  BY <1>1
<1>3. RateGrows(log, m, e, next)
  BY ONLY <1>1, log \in Seq(RateEntries), m \in Nat, m = Len(log), next = Append(log, e), RateSpentFacts
<1>4. /\ \A i \in 1 .. m + 1 : \A j \in 0 .. m :
           RateSpent(log, i, j) \in Nat /\ RateSpent(next, i, j) = RateSpent(log, i, j)
      /\ RateSpent(next, m + 1, m) = 0
      /\ \A i \in 1 .. m + 1 : RateSpent(next, i, m + 1) = RateSpent(log, i, m)
  <2>1. \A i \in 1 .. m + 1 : \A j \in 0 .. m :
           RateSpent(log, i, j) \in Nat /\ RateSpent(next, i, j) = RateSpent(log, i, j)
    BY ONLY <1>3 DEF RateGrows
  <2>2. RateSpent(next, m + 1, m) = 0
    BY ONLY <1>3 DEF RateGrows
  <2>3. (IF e.answer = "granted" THEN e.cost ELSE 0) = 0
    BY ONLY <1>1
  <2>4. \A i \in 1 .. m + 1 : RateSpent(next, i, m + 1) = RateSpent(log, i, m) + 0
    BY ONLY <1>3, <2>3 DEF RateGrows
  <2>5. m \in 0 .. m
    OBVIOUS
  <2>. QED  BY ONLY <2>1, <2>2, <2>4, <2>5
<1>5. \A i \in 1 .. m + 1 : i \in 1 .. m \/ i = m + 1
  OBVIOUS
<1>6. m + 1 \in 1 .. m + 1 /\ m \in 0 .. m /\ \A i \in 1 .. m : i \in 1 .. m + 1
  OBVIOUS
<1>7. RateGoneInv(next, now)
  <2> SUFFICES ASSUME NEW i \in 1 .. m + 1
               PROVE  /\ next[i].at <= now
                      /\ RateSpent(next, i, m + 1) <= RateDefault.rate * (now - next[i].at)
    BY <1>2 DEF RateGoneInv
  <2>1. CASE i \in 1 .. m
    <3>1. log[i].at <= now /\ RateSpent(log, i, m) <= RateDefault.rate * (now - log[i].at)
      BY <1>2, <2>1 DEF RateGoneInv
    <3>2. RateSpent(next, i, m + 1) = RateSpent(log, i, m) /\ next[i] = log[i]
      BY ONLY <1>2, <1>4, <1>6, <2>1
    <3>. QED  BY ONLY <3>1, <3>2
  <2>2. CASE i = m + 1
    <3>1. RateSpent(next, i, m + 1) = 0
      BY ONLY <1>4, <1>6, <2>2
    <3>2. next[i].at = now
      BY ONLY <1>1, <1>2, <2>2
    <3>3. RateDefault.rate * (now - now) = 0
      <4>1. now - now = 0 /\ RateDefault.rate \in Nat
        BY RateDefaultFacts
      <4>. QED  BY ONLY <4>1
    <3>4. now <= now /\ 0 <= 0
      OBVIOUS
    <3>. QED  BY ONLY <3>1, <3>2, <3>3, <3>4
  <2>. QED  BY ONLY <1>5, <2>1, <2>2
<1>8. RateLogExact(next, RateDefault)
  <2> SUFFICES ASSUME NEW j \in 1 .. m + 1, next[j].answer # "free"
               PROVE  next[j].answer = "granted" <=> RateRoom(next, j - 1, next[j].cost, next[j].at, RateDefault)
    BY <1>2 DEF RateLogExact
  <2>1. j \in 1 .. m
    BY ONLY <1>1, <1>2, <1>5, next[j].answer # "free"
  <2>2. next[j] = log[j] /\ j \in DOMAIN log
    BY <1>2, <2>1
  <2>3. next[j].answer = "granted" <=> RateRoom(log, j - 1, next[j].cost, next[j].at, RateDefault)
    BY <2>2 DEF RateLogExact
  <2>4. j - 1 \in 0 .. m /\ \A i \in 1 .. j - 1 : i \in 1 .. m /\ i \in 1 .. m + 1
    OBVIOUS
  <2>5. \A i \in 1 .. j - 1 : RateSpent(next, i, j - 1) = RateSpent(log, i, j - 1) /\ next[i].at = log[i].at
    BY <1>2, <1>4, <2>4
  <2>6. RateRoom(log, j - 1, next[j].cost, next[j].at, RateDefault)
          <=> RateRoom(next, j - 1, next[j].cost, next[j].at, RateDefault)
    BY <2>5 DEF RateRoom
  <2>. QED  BY <2>3, <2>6
<1>. QED  BY <1>2, <1>7, <1>8

\* A bucket with another configuration is full, and its log is empty.
LEMMA RateFresh ==
  ASSUME NEW now \in Nat, NEW config \in RateConfigs,
         NEW b, b = [tokens |-> config.cap, last |-> now, cap |-> config.cap, rate |-> config.rate]
  PROVE  RateKeyInv(b, << >>, now) /\ b # RateNone
<1>1. config.cap \in Nat \ {0} /\ config.rate \in Nat \ {0}
  BY RateConstants
<1>2. b \in RateBuckets /\ b.last = now /\ b.tokens = b.cap /\ b.cap \in Nat
  BY <1>1 DEF RateBuckets
<1>3. b # RateNone
  <2>1. b.cap # 0 /\ RateNone.cap = 0
    BY <1>1 DEF RateNone
  <2>. QED  BY <2>1
<1>4. b.last <= now /\ b.tokens <= b.cap
  BY <1>2
<1>5. << >> \in Seq(RateEntries) /\ DOMAIN << >> = {}
  OBVIOUS
<1>6. RateHolds(b, << >>) /\ RateTight(b, << >>) /\ RateLogExact(<< >>, b)
  BY <1>2, <1>5 DEF RateHolds, RateTight, RateLogExact
<1>. QED  BY ONLY <1>2, <1>3, <1>4, <1>5, <1>6 DEF RateKeyInv, RateBucketInv

\* Only the capacity and the rate of a configuration matter.
LEMMA RateLogSame ==
  ASSUME NEW log, NEW c, NEW d, c.cap = d.cap, c.rate = d.rate, RateLogExact(log, c)
  PROVE  RateLogExact(log, d)
BY DEF RateLogExact, RateRoom

\* Each key keeps its invariant: its bucket is made, asked, set, cleaned up or grows
\* older.
LEMMA RateKeyEnsured ==
  ASSUME NEW log, NEW now \in Nat, RateKeyInv(RateNone, log, now),
         NEW b, b = [tokens |-> RateDefault.cap, last |-> now, cap |-> RateDefault.cap, rate |-> RateDefault.rate]
  PROVE  RateKeyInv(b, log, now)
<1>1. log \in Seq(RateEntries) /\ RateGoneInv(log, now) /\ RateLogExact(log, RateDefault)
  BY DEF RateKeyInv
<1>2. RateBucketInv(b, log, now) /\ b.cap = RateDefault.cap /\ b.rate = RateDefault.rate
  BY <1>1, RateMadeAgain
<1>3. RateLogExact(log, b)
  BY <1>1, <1>2, RateLogSame
<1>. QED  BY <1>1, <1>2, <1>3 DEF RateKeyInv, RateNone

LEMMA RateKeyTried ==
  ASSUME NEW log, NEW now \in Nat, NEW b, RateKeyInv(b, log, now), NEW n \in Nat, NEW answer, NEW next, NEW f,
         next = Append(log, [at |-> now, cost |-> n, answer |-> answer]),
         \/ b = RateNone /\ answer = "free" /\ f = b
         \/ /\ b # RateNone
            /\ LET filled == b.tokens + (now - b.last) * b.rate
                   t == IF filled < b.cap THEN filled ELSE b.cap
                   full == [b EXCEPT !.tokens = t, !.last = now]
               IN  IF full.tokens >= n
                     THEN answer = "granted" /\ f = [full EXCEPT !.tokens = full.tokens - n]
                     ELSE answer = "refused" /\ f = full
  PROVE  RateKeyInv(f, next, now)
<1>1. log \in Seq(RateEntries) /\ Len(log) \in Nat
  BY DEF RateKeyInv
<1>2. CASE b = RateNone
  <2>1. RateGoneInv(log, now) /\ RateLogExact(log, RateDefault)
    BY <1>2 DEF RateKeyInv
  <2>2. answer = "free" /\ f = b
    BY <1>2
  <2>3. next \in Seq(RateEntries) /\ RateGoneInv(next, now) /\ RateLogExact(next, RateDefault)
    BY <1>1, <2>1, <2>2, RateFree
  <2>. QED  BY <1>2, <2>2, <2>3 DEF RateKeyInv
<1>3. CASE b # RateNone
  <2>t. PICK t : t = IF b.tokens + (now - b.last) * b.rate < b.cap
                       THEN b.tokens + (now - b.last) * b.rate ELSE b.cap
    OBVIOUS
  <2>f. PICK full : full = [b EXCEPT !.tokens = t, !.last = now]
    OBVIOUS
  <2>1. RateBucketInv(b, log, now) /\ RateLogExact(log, b)
    BY <1>3 DEF RateKeyInv
  <2>2. b.tokens \in Nat /\ b.last \in Nat /\ b.cap \in Nat /\ b.rate \in Nat /\ b.last <= now
    BY <2>1 DEF RateBucketInv, RateBuckets
  <2>3. t \in Nat
    <3>1. now - b.last \in Nat
      BY <2>2
    <3>2. (now - b.last) * b.rate \in Nat
      BY ONLY <2>2, <3>1
    <3>. QED  BY ONLY <2>2, <2>t, <3>2
  <2>4. IF full.tokens >= n
          THEN answer = "granted" /\ f = [full EXCEPT !.tokens = full.tokens - n]
          ELSE answer = "refused" /\ f = full
    BY <1>3, <2>t, <2>f
  <2>5. RateBucketInv(full, log, now) /\ full.last = now /\ full.cap = b.cap /\ full.rate = b.rate
    <3>1. full = [tokens |-> t, last |-> now, cap |-> b.cap, rate |-> b.rate]
      BY ONLY <2>1, <2>f DEF RateBucketInv, RateBuckets
    <3>2. t \in Nat /\ log \in Seq(RateEntries) /\ RateBucketInv(b, log, now)
      BY ONLY <1>1, <2>1, <2>3
    <3>. QED  BY ONLY <3>1, <3>2, <2>t, now \in Nat, RateRefilled
  <2>6. RateLogExact(log, full)
    BY <2>1, <2>5, RateLogSame
  <2>7. PICK e : e = [at |-> now, cost |-> n, answer |-> IF full.tokens >= n THEN "granted" ELSE "refused"]
    OBVIOUS
  <2>m. PICK m : m \in Nat /\ m = Len(log)
    BY <1>1
  <2>8. next = Append(log, e) /\ f = IF full.tokens >= n THEN [full EXCEPT !.tokens = full.tokens - n] ELSE full
    BY <2>4, <2>7
  <2>9. next \in Seq(RateEntries) /\ RateBucketInv(f, next, now) /\ RateLogExact(next, f)
    BY ONLY <1>1, <2>5, <2>6, <2>7, <2>8, <2>m, now \in Nat, n \in Nat, RateServed, Zenon
  <2>a. f # RateNone
    <3>1. f.cap # 0 /\ RateNone.cap = 0
      BY <2>9 DEF RateBucketInv, RateBuckets, RateNone
    <3>. QED  BY <3>1
  <2>. QED  BY <2>9, <2>a DEF RateKeyInv
<1>. QED  BY <1>2, <1>3

LEMMA RateKeyCleaned ==
  ASSUME NEW log, NEW now \in Nat, NEW b, RateKeyInv(b, log, now), b # RateNone, now - b.last >= RateExpiry
  PROVE  /\ b.cap = RateDefault.cap /\ b.rate = RateDefault.rate => RateKeyInv(RateNone, log, now)
         /\ RateKeyInv(RateNone, << >>, now)
<1>1. log \in Seq(RateEntries) /\ RateBucketInv(b, log, now) /\ RateLogExact(log, b)
  BY DEF RateKeyInv
<1>2. ASSUME b.cap = RateDefault.cap, b.rate = RateDefault.rate PROVE RateKeyInv(RateNone, log, now)
  <2>1. RateGoneInv(log, now)
    BY <1>1, <1>2, RateCleaned
  <2>2. RateLogExact(log, RateDefault)
    BY <1>1, <1>2, RateLogSame
  <2>. QED  BY <1>1, <2>1, <2>2 DEF RateKeyInv
<1>3. RateKeyInv(RateNone, << >>, now)
  <2>1. << >> \in Seq(RateEntries) /\ DOMAIN << >> = {}
    OBVIOUS
  <2>. QED  BY <2>1 DEF RateKeyInv, RateGoneInv, RateLogExact
<1>. QED  BY <1>2, <1>3

LEMMA RateKeyAged ==
  ASSUME NEW log, NEW now \in Nat, NEW b, RateKeyInv(b, log, now)
  PROVE  RateKeyInv(b, log, now + 1)
<1>1. log \in Seq(RateEntries)
  BY DEF RateKeyInv
<1>2. CASE b = RateNone
  <2>1. RateGoneInv(log, now) /\ RateLogExact(log, RateDefault)
    BY <1>2 DEF RateKeyInv
  <2>2. RateGoneInv(log, now + 1)
    BY <1>1, <2>1, RateAged
  <2>. QED  BY <1>1, <1>2, <2>1, <2>2 DEF RateKeyInv
<1>3. CASE b # RateNone
  <2>1. RateBucketInv(b, log, now) /\ RateLogExact(log, b)
    BY <1>3 DEF RateKeyInv
  <2>2. b.last \in Nat /\ b.last <= now
    BY <2>1 DEF RateBucketInv, RateBuckets
  <2>3. b.last <= now + 1
    BY ONLY <2>2, now \in Nat
  <2>4. RateBucketInv(b, log, now + 1)
    BY <2>1, <2>3 DEF RateBucketInv
  <2>. QED  BY <1>1, <1>3, <2>1, <2>4 DEF RateKeyInv
<1>. QED  BY <1>2, <1>3

LEMMA RateInvInit ==
  ASSUME RateInit
  PROVE  RateInv
<1>1. rateTime = 0 /\ \A k \in RateKeys : rateBuckets[k] = RateNone /\ rateLog[k] = << >>
  BY DEF RateInit
<1>2. RateKeyInv(RateNone, << >>, 0)
  <2>1. << >> \in Seq(RateEntries) /\ DOMAIN << >> = {}
    OBVIOUS
  <2>. QED  BY <2>1 DEF RateKeyInv, RateGoneInv, RateLogExact
<1>3. \A k \in RateKeys : RateKeyInv(rateBuckets[k], rateLog[k], rateTime)
  BY <1>1, <1>2
<1>4. rateTime \in Nat
  BY <1>1
<1>. QED  BY <1>3, <1>4 DEF RateInv, RateInit

LEMMA RateInvEnsure ==
  ASSUME RateInv, NEW c \in RateCallers, NEW key \in RateKeys, NEW n \in RateCosts, RateEnsure(c, key, n)
  PROVE  RateInv'
<1>1. n \in Nat
  BY RateConstants
<1>2. UNCHANGED <<rateTime, rateLog>> /\ rateCall' = [rateCall EXCEPT ![c] = [key |-> key, cost |-> n]]
  BY DEF RateEnsure
<1>3. \A d \in RateCallers : rateCall'[d] # RateIdle => rateCall'[d].key \in RateKeys /\ rateCall'[d].cost \in Nat
  <2> SUFFICES ASSUME NEW d \in RateCallers, rateCall'[d] # RateIdle
               PROVE  rateCall'[d].key \in RateKeys /\ rateCall'[d].cost \in Nat
    OBVIOUS
  <2>1. rateCall'[d] = IF d = c THEN [key |-> key, cost |-> n] ELSE rateCall[d]
    BY <1>2 DEF RateInv
  <2>2. CASE d = c
    BY <1>1, <2>1, <2>2
  <2>3. CASE d # c
    BY <2>1, <2>3 DEF RateInv
  <2>. QED  BY <2>2, <2>3
<1>4. /\ rateCall' = [d \in RateCallers |-> rateCall'[d]]
      /\ rateBuckets' = [k \in RateKeys |-> rateBuckets'[k]]
  BY <1>2 DEF RateInv, RateEnsure
<1>5. \A k \in RateKeys :
        rateBuckets'[k] = IF k = key /\ rateBuckets[k] = RateNone THEN RateFull(RateDefault) ELSE rateBuckets[k]
  BY DEF RateInv, RateEnsure
<1>6. ASSUME NEW k \in RateKeys PROVE RateKeyInv(rateBuckets'[k], rateLog[k], rateTime)
  <2>1. RateKeyInv(rateBuckets[k], rateLog[k], rateTime) /\ rateTime \in Nat
    BY DEF RateInv
  <2>2. CASE k = key /\ rateBuckets[k] = RateNone
    BY <1>5, <2>1, <2>2, RateKeyEnsured DEF RateFull
  <2>3. CASE ~(k = key /\ rateBuckets[k] = RateNone)
    BY <1>5, <2>1, <2>3
  <2>. QED  BY <2>2, <2>3
<1>. QED  BY <1>2, <1>3, <1>4, <1>6 DEF RateInv

LEMMA RateInvTry ==
  ASSUME RateInv, NEW c \in RateCallers, RateTry(c)
  PROVE  RateInv'
<1> DEFINE key == rateCall[c].key
           n == rateCall[c].cost
           b == rateBuckets[key]
           full == RateRefill(b)
<1>1. key \in RateKeys /\ n \in Nat
  BY DEF RateInv, RateTry
<1>2. UNCHANGED <<rateTime, rateCalls>> /\ rateCall' = [rateCall EXCEPT ![c] = RateIdle]
  BY DEF RateTry
<1>3. IF b = RateNone THEN RateAnswer(key, n, "free") /\ UNCHANGED rateBuckets
      ELSE IF full.tokens >= n
        THEN /\ RateAnswer(key, n, "granted")
             /\ rateBuckets' = [rateBuckets EXCEPT ![key] = [full EXCEPT !.tokens = full.tokens - n]]
        ELSE /\ RateAnswer(key, n, "refused")
             /\ rateBuckets' = [rateBuckets EXCEPT ![key] = full]
  BY DEF RateTry
<1>4. PICK answer :
        /\ RateAnswer(key, n, answer)
        /\ \/ b = RateNone /\ answer = "free" /\ UNCHANGED rateBuckets
           \/ /\ b # RateNone
              /\ \/ /\ full.tokens >= n /\ answer = "granted"
                    /\ rateBuckets' = [rateBuckets EXCEPT ![key] = [full EXCEPT !.tokens = full.tokens - n]]
                 \/ /\ ~(full.tokens >= n) /\ answer = "refused"
                    /\ rateBuckets' = [rateBuckets EXCEPT ![key] = full]
  <2>. HIDE DEF key, n, b, full
  <2>. QED  BY <1>3
<1>5. \A d \in RateCallers : rateCall'[d] # RateIdle => rateCall'[d].key \in RateKeys /\ rateCall'[d].cost \in Nat
  <2> SUFFICES ASSUME NEW d \in RateCallers, rateCall'[d] # RateIdle
               PROVE  rateCall'[d].key \in RateKeys /\ rateCall'[d].cost \in Nat
    OBVIOUS
  <2>1. d # c /\ rateCall'[d] = rateCall[d]
    BY <1>2 DEF RateInv
  <2>. QED  BY <2>1 DEF RateInv
<1>6. rateCall' = [d \in RateCallers |-> rateCall'[d]]
  BY <1>2 DEF RateInv
<1> DEFINE f == IF b = RateNone THEN b
                ELSE IF full.tokens >= n THEN [full EXCEPT !.tokens = full.tokens - n] ELSE full
           next == Append(rateLog[key], [at |-> rateTime, cost |-> n, answer |-> answer])
<1>7. /\ rateBuckets' = [k \in RateKeys |-> rateBuckets'[k]]
      /\ \A k \in RateKeys : rateBuckets'[k] = IF k = key THEN f ELSE rateBuckets[k]
  <2>1. rateBuckets = [k \in RateKeys |-> rateBuckets[k]]
    BY DEF RateInv
  <2>. HIDE DEF key, n, full
  <2>2. CASE b = RateNone
    <3>1. rateBuckets' = rateBuckets
      BY <1>4, <2>2
    <3>2. f = rateBuckets[key]
      BY <2>2
    <3>. HIDE DEF f, b
    <3>. QED  BY <2>1, <3>1, <3>2
  <2>3. CASE b # RateNone
    <3>1. rateBuckets' = [rateBuckets EXCEPT ![key] = f]
      <4>. HIDE DEF b
      <4>. QED  BY <1>4, <2>3
    <3>. HIDE DEF f, b
    <3>. QED  BY <1>1, <2>1, <3>1
  <2>. QED  BY <2>2, <2>3
<1>8. /\ rateLog' = [k \in RateKeys |-> rateLog'[k]]
      /\ \A k \in RateKeys : rateLog'[k] = IF k = key THEN next ELSE rateLog[k]
  <2>1. rateLog' = [rateLog EXCEPT ![key] = next]
    BY <1>4 DEF RateAnswer
  <2>2. rateLog = [k \in RateKeys |-> rateLog[k]]
    BY DEF RateInv
  <2>. HIDE DEF key, next
  <2>. QED  BY <1>1, <2>1, <2>2
<1>9. RateKeyInv(f, next, rateTime)
  <2>1. RateKeyInv(b, rateLog[key], rateTime) /\ rateTime \in Nat
    BY <1>1 DEF RateInv
  <2>2. \/ b = RateNone /\ answer = "free" /\ f = b
        \/ /\ b # RateNone
           /\ IF full.tokens >= n
                THEN answer = "granted" /\ f = [full EXCEPT !.tokens = full.tokens - n]
                ELSE answer = "refused" /\ f = full
    <3>. HIDE DEF b, full, n, key
    <3>. QED  BY <1>4
  <2>3. \/ b = RateNone /\ answer = "free" /\ f = b
        \/ /\ b # RateNone
           /\ LET filled == b.tokens + (rateTime - b.last) * b.rate
                  t == IF filled < b.cap THEN filled ELSE b.cap
                  all == [b EXCEPT !.tokens = t, !.last = rateTime]
              IN  IF all.tokens >= n
                    THEN answer = "granted" /\ f = [all EXCEPT !.tokens = all.tokens - n]
                    ELSE answer = "refused" /\ f = all
    <3>. HIDE DEF b, n, key, f
    <3>. QED  BY <2>2 DEF RateRefill
  <2>4. next = Append(rateLog[key], [at |-> rateTime, cost |-> n, answer |-> answer])
    OBVIOUS
  <2>. HIDE DEF b, full, n, key, f, next
  <2>. QED  BY ONLY <1>1, <2>1, <2>3, <2>4, RateKeyTried
<1>a. \A k \in RateKeys : RateKeyInv(rateBuckets'[k], rateLog'[k], rateTime)
  <2> SUFFICES ASSUME NEW k \in RateKeys PROVE RateKeyInv(rateBuckets'[k], rateLog'[k], rateTime)
    OBVIOUS
  <2>1. RateKeyInv(rateBuckets[k], rateLog[k], rateTime)
    BY DEF RateInv
  <2>. HIDE DEF b, full, n, key, f, next
  <2>. QED  BY <1>7, <1>8, <1>9, <2>1
<1>b. rateTime \in Nat /\ rateTime' = rateTime
  BY <1>2 DEF RateInv
<1>. HIDE DEF b, full, n, key, f, next
<1>. QED  BY ONLY <1>5, <1>6, <1>7, <1>8, <1>a, <1>b DEF RateInv

LEMMA RateInvUpdate ==
  ASSUME RateInv, NEW key \in RateKeys, NEW config \in RateConfigs, RateUpdate(key, config)
  PROVE  RateInv'
<1>1. /\ UNCHANGED <<rateCall, rateTime>>
      /\ rateBuckets' = [rateBuckets EXCEPT ![key] = RateFull(config)]
      /\ rateLog' = [rateLog EXCEPT ![key] = << >>]
  BY DEF RateUpdate
<1>2. /\ rateBuckets' = [k \in RateKeys |-> rateBuckets'[k]] /\ rateLog' = [k \in RateKeys |-> rateLog'[k]]
      /\ \A k \in RateKeys : rateBuckets'[k] = IF k = key THEN RateFull(config) ELSE rateBuckets[k]
      /\ \A k \in RateKeys : rateLog'[k] = IF k = key THEN << >> ELSE rateLog[k]
  BY <1>1 DEF RateInv
<1>3. RateKeyInv(RateFull(config), << >>, rateTime)
  BY RateFresh DEF RateInv, RateFull
<1>4. \A k \in RateKeys : RateKeyInv(rateBuckets'[k], rateLog'[k], rateTime)
  BY <1>2, <1>3 DEF RateInv
<1>. QED  BY <1>1, <1>2, <1>4 DEF RateInv

LEMMA RateInvCleanup ==
  ASSUME RateInv, RateCleanup
  PROVE  RateInv'
<1> DEFINE Old(k) == rateBuckets[k] # RateNone /\ rateTime - rateBuckets[k].last >= RateExpiry
           Set(k) == rateBuckets[k].cap # RateDefault.cap \/ rateBuckets[k].rate # RateDefault.rate
<1>1. /\ UNCHANGED <<rateCall, rateTime>>
      /\ rateBuckets' = [k \in RateKeys |-> IF Old(k) THEN RateNone ELSE rateBuckets[k]]
      /\ rateLog' = [k \in RateKeys |-> IF Old(k) /\ Set(k) THEN << >> ELSE rateLog[k]]
  BY DEF RateCleanup
<1>2. ASSUME NEW k \in RateKeys PROVE RateKeyInv(rateBuckets'[k], rateLog'[k], rateTime)
  <2>1. RateKeyInv(rateBuckets[k], rateLog[k], rateTime) /\ rateTime \in Nat
    BY DEF RateInv
  <2>2. /\ rateBuckets'[k] = IF Old(k) THEN RateNone ELSE rateBuckets[k]
        /\ rateLog'[k] = IF Old(k) /\ Set(k) THEN << >> ELSE rateLog[k]
    BY <1>1
  <2>3. CASE Old(k) /\ Set(k)
    BY <2>1, <2>2, <2>3, RateKeyCleaned
  <2>4. CASE Old(k) /\ ~Set(k)
    BY <2>1, <2>2, <2>4, RateKeyCleaned
  <2>5. CASE ~Old(k)
    BY <2>1, <2>2, <2>5
  <2>. QED  BY <2>3, <2>4, <2>5
<1>3. rateBuckets' = [k \in RateKeys |-> rateBuckets'[k]] /\ rateLog' = [k \in RateKeys |-> rateLog'[k]]
  BY <1>1
<1>. QED  BY <1>1, <1>2, <1>3 DEF RateInv

LEMMA RateInvTick ==
  ASSUME RateInv, RateTick
  PROVE  RateInv'
<1>1. rateTime' = rateTime + 1 /\ UNCHANGED <<rateBuckets, rateCall, rateLog>> /\ rateTime \in Nat
  BY DEF RateInv, RateTick
<1>2. \A k \in RateKeys : RateKeyInv(rateBuckets[k], rateLog[k], rateTime + 1)
  BY <1>1, RateKeyAged DEF RateInv
<1>3. rateTime' \in Nat
  BY <1>1
<1>. QED  BY <1>1, <1>2, <1>3 DEF RateInv

LEMMA RateInvStep ==
  ASSUME RateInv, [RateNext]_rateVars
  PROVE  RateInv'
<1>1. ASSUME NEW c \in RateCallers, NEW k \in RateKeys, NEW n \in RateCosts, RateEnsure(c, k, n) PROVE RateInv'
  BY <1>1, RateInvEnsure
<1>2. ASSUME NEW c \in RateCallers, RateTry(c) PROVE RateInv'
  BY <1>2, RateInvTry
<1>3. ASSUME NEW k \in RateKeys, NEW config \in RateConfigs, RateUpdate(k, config) PROVE RateInv'
  BY <1>3, RateInvUpdate
<1>4. CASE RateCleanup
  BY <1>4, RateInvCleanup
<1>5. CASE RateTick
  BY <1>5, RateInvTick
<1>6. CASE UNCHANGED rateVars
  BY <1>6 DEF RateInv, rateVars
<1>. QED  BY <1>1, <1>2, <1>3, <1>4, <1>5, <1>6 DEF RateNext

LEMMA RateInvExact ==
  ASSUME RateInv
  PROVE  RateExact
<1> SUFFICES ASSUME NEW k \in RateKeys, NEW j \in DOMAIN rateLog[k], rateLog[k][j].answer # "free"
             PROVE  rateLog[k][j].answer = "granted"
                      <=> RateRoom(rateLog[k], j - 1, rateLog[k][j].cost, rateLog[k][j].at, RateInForce(k))
  BY DEF RateExact
<1>1. RateKeyInv(rateBuckets[k], rateLog[k], rateTime)
  BY DEF RateInv
<1>2. RateLogExact(rateLog[k], RateInForce(k))
  BY <1>1 DEF RateKeyInv, RateInForce
<1>. QED  BY <1>2 DEF RateLogExact

\* The token buckets of the MCP server grant exactly what the configuration allows:
\* a request is granted just when no stretch of time would hold more than the
\* capacity and the refill, whatever comes between the two steps of a call.
THEOREM RateIsExact == RateSpec => []RateExact
<1>1. RateInit => RateInv
  BY RateInvInit
<1>2. RateInv /\ [RateNext]_rateVars => RateInv'
  BY RateInvStep
<1>3. RateInv => RateExact
  BY RateInvExact
<1>. QED  BY <1>1, <1>2, <1>3, PTL DEF RateSpec
-----------------------------------------------------------------------------
(***************************************************************************)
(* Recovery from errors.  The powers of the backoff are found by the       *)
(* smallest number of attempts up to which there would be none.            *)
(***************************************************************************)

RecPowers(m, g) == g = [n \in 0 .. m |-> IF n = 0 THEN 1 ELSE RecDelays.factor * g[n - 1]]

LEMMA RecConstantFacts ==
  /\ RecThreshold \in Nat /\ RecReset \in Nat /\ RecMaxAttempts \in Nat /\ RecMaxTime \in Nat
  /\ RecDelays.initial \in Nat /\ RecDelays.factor \in Nat /\ RecDelays.max \in Nat
  /\ RecDelays.factor >= 1
  /\ RecNever \in Nat /\ RecNever = RecMaxTime + RecReset + 9
BY RecConstants DEF RecNever

LEMMA RecPowersExist == \A m \in Nat : \E g : RecPowers(m, g)
<1> DEFINE Bad == {m \in Nat : ~ \E g : RecPowers(m, g)}
<1>1. \E g : RecPowers(0, g)
  <2>1. PICK g : g = [n \in 0 .. 0 |-> 1]
    OBVIOUS
  <2>2. g = [n \in 0 .. 0 |-> IF n = 0 THEN 1 ELSE RecDelays.factor * g[n - 1]]
    BY <2>1
  <2>. QED  BY <2>2 DEF RecPowers
<1>2. ASSUME NEW m \in Nat, \E g : RecPowers(m, g) PROVE \E g : RecPowers(m + 1, g)
  <2>1. PICK g : g = [n \in 0 .. m |-> IF n = 0 THEN 1 ELSE RecDelays.factor * g[n - 1]]
    BY <1>2 DEF RecPowers
  <2>2. PICK h : h = [n \in 0 .. m + 1 |-> IF n = 0 THEN 1 ELSE RecDelays.factor * g[n - 1]]
    OBVIOUS
  <2>3. \A n \in 0 .. m : h[n] = g[n]
    BY <2>1, <2>2
  <2>4. \A n \in 0 .. m + 1 : n # 0 => n - 1 \in 0 .. m
    OBVIOUS
  <2>5. \A n \in 0 .. m + 1 : (IF n = 0 THEN 1 ELSE RecDelays.factor * g[n - 1])
                                = IF n = 0 THEN 1 ELSE RecDelays.factor * h[n - 1]
    BY <2>3, <2>4
  <2>6. h = [n \in 0 .. m + 1 |-> IF n = 0 THEN 1 ELSE RecDelays.factor * h[n - 1]]
    BY <2>2, <2>5
  <2>. QED  BY <2>6 DEF RecPowers
<1>3. ASSUME Bad # {} PROVE FALSE
  <2>1. PICK m \in Bad : \A n \in Bad : ~(<<n, m>> \in OpToRel(<, Nat))
    BY <1>3, NatLessThanWellFounded, WFMin
  <2>2. m \in Nat /\ m # 0
    BY <1>1
  <2>3. m - 1 \in Nat /\ m - 1 < m /\ (m - 1) + 1 = m
    BY <2>2
  <2>4. m - 1 \notin Bad
    BY <2>1, <2>3 DEF OpToRel
  <2>. QED  BY <1>2, <2>3, <2>4
<1>. QED  BY <1>3

LEMMA RecPowerRecursion ==
  RecPower = [n \in 0 .. RecMaxAttempts |-> IF n = 0 THEN 1 ELSE RecDelays.factor * RecPower[n - 1]]
<1>1. \E g : g = [n \in 0 .. RecMaxAttempts |-> IF n = 0 THEN 1 ELSE RecDelays.factor * g[n - 1]]
  BY RecPowersExist, RecConstantFacts DEF RecPowers
<1>. QED  BY <1>1 DEF RecPower

LEMMA RecPowerNat == \A n \in 0 .. RecMaxAttempts : RecPower[n] \in Nat
<1> DEFINE Bad == {n \in Nat : n <= RecMaxAttempts /\ RecPower[n] \notin Nat}
<1>1. ASSUME Bad # {} PROVE FALSE
  <2>1. PICK n \in Bad : \A m \in Bad : ~(<<m, n>> \in OpToRel(<, Nat))
    BY <1>1, NatLessThanWellFounded, WFMin
  <2>2. n \in Nat /\ n <= RecMaxAttempts /\ RecPower[n] \notin Nat /\ n \in 0 .. RecMaxAttempts
    BY RecConstantFacts
  <2>3. RecPower[n] = IF n = 0 THEN 1 ELSE RecDelays.factor * RecPower[n - 1]
    BY <2>2, RecPowerRecursion
  <2>4. n # 0
    BY <2>2, <2>3
  <2>5. n - 1 \in Nat /\ n - 1 < n /\ n - 1 <= RecMaxAttempts
    BY <2>2, <2>4, RecConstantFacts
  <2>6. n - 1 \notin Bad
    BY <2>1, <2>5 DEF OpToRel
  <2>7. RecPower[n - 1] \in Nat
    BY <2>5, <2>6
  <2>8. RecDelays.factor * RecPower[n - 1] \in Nat
    BY ONLY <2>7, RecConstantFacts
  <2>. QED  BY <2>2, <2>3, <2>4, <2>8
<1>. QED  BY <1>1, RecConstantFacts

\* The delays grow with the attempts.
LEMMA RecDelaysGrow ==
  /\ \A n \in 0 .. RecMaxAttempts : RecDelay(n) \in Nat /\ RecDelay(n) <= RecDelays.max
  /\ \A n \in 1 .. RecMaxAttempts : RecDelay(n - 1) <= RecDelay(n)
<1> DEFINE d(n) == RecDelays.initial * RecPower[n]
<1>1. \A n \in 0 .. RecMaxAttempts : d(n) \in Nat
  BY RecPowerNat, RecConstantFacts, Distributes
<1>2. ASSUME NEW n \in 1 .. RecMaxAttempts PROVE d(n - 1) <= d(n)
  <2> DEFINE p == RecPower[n - 1]
             q == RecPower[n]
             i == RecDelays.initial
             k == RecDelays.factor
  <2>1. n \in 0 .. RecMaxAttempts /\ n - 1 \in 0 .. RecMaxAttempts /\ n # 0
    BY RecConstantFacts
  <2>2. p \in Nat /\ q \in Nat /\ q = k * p
    BY ONLY <2>1, RecPowerNat, RecPowerRecursion
  <2>3. k \in Nat /\ k >= 1 /\ i \in Nat
    BY RecConstantFacts
  <2>4. d(n - 1) = i * p /\ d(n) = i * q
    OBVIOUS
  <2>. HIDE DEF p, q, i, k, d
  <2>5. k - 1 \in Nat /\ k = 1 + (k - 1)
    BY ONLY <2>3
  <2>6. p * (1 + (k - 1)) = p * 1 + p * (k - 1) /\ p * (k - 1) \in Nat
    BY ONLY <2>2, <2>5, Distributes
  <2>7. q = p * k
    BY ONLY <2>2, <2>3
  <2>8. p * 1 = p
    BY ONLY <2>2
  <2> DEFINE more == p * (k - 1)
  <2>9. more \in Nat /\ q = p + more
    BY ONLY <2>5, <2>6, <2>7, <2>8
  <2>. HIDE DEF more
  <2>a. i * (p + more) = i * p + i * more /\ i * p \in Nat /\ i * more \in Nat
    BY ONLY <2>2, <2>3, <2>9, Distributes
  <2> DEFINE x == i * p
             y == i * more
  <2>b. x \in Nat /\ y \in Nat /\ d(n - 1) = x /\ d(n) = x + y
    BY ONLY <2>4, <2>9, <2>a
  <2>. HIDE DEF x, y
  <2>. QED  BY ONLY <2>b
<1>3. \A n \in 0 .. RecMaxAttempts : RecDelay(n) = IF d(n) < RecDelays.max THEN d(n) ELSE RecDelays.max
  BY DEF RecDelay
<1>4. \A n \in 1 .. RecMaxAttempts : n \in 0 .. RecMaxAttempts /\ n - 1 \in 0 .. RecMaxAttempts
  BY RecConstantFacts
<1>5. RecDelays.max \in Nat
  BY RecConstantFacts
<1>. HIDE DEF d
<1>6. ASSUME NEW n \in 0 .. RecMaxAttempts PROVE RecDelay(n) \in Nat /\ RecDelay(n) <= RecDelays.max
  <2>1. d(n) \in Nat /\ RecDelay(n) = IF d(n) < RecDelays.max THEN d(n) ELSE RecDelays.max
    BY ONLY <1>1, <1>3, n \in 0 .. RecMaxAttempts
  <2>. QED  BY ONLY <1>5, <2>1
<1>7. ASSUME NEW n \in 1 .. RecMaxAttempts PROVE RecDelay(n - 1) <= RecDelay(n)
  <2>1. /\ d(n) \in Nat /\ RecDelay(n) = IF d(n) < RecDelays.max THEN d(n) ELSE RecDelays.max
        /\ d(n - 1) \in Nat /\ RecDelay(n - 1) = IF d(n - 1) < RecDelays.max THEN d(n - 1) ELSE RecDelays.max
        /\ d(n - 1) <= d(n)
    BY ONLY <1>1, <1>2, <1>3, <1>4, n \in 1 .. RecMaxAttempts
  <2>. QED  BY ONLY <1>5, <2>1
<1>. QED  BY <1>6, <1>7

-----------------------------------------------------------------------------
(* The breaker: what is remembered of its last opening, in each of its states *)

RecBreakerType ==
  /\ recTime \in 0 .. RecMaxTime
  /\ recBreaker \in [state : {"Closed", "Open", "HalfOpen"}, failures : Nat, last : Nat]
  /\ recMachine \in [state : {"Initial", "Failed", "CircuitOpen", "Degraded", "Recovered", "Recovering"}, attempts : Nat]
  /\ recAttempt \in 0 .. RecMaxAttempts
  /\ recSeen \in [opened : Nat, let : Nat, refused : Nat, lost : Nat, delays : Nat \X Nat]

RecBreakerInv ==
  /\ recBreaker.state = "Closed" =>
       recSeen.opened = RecNever /\ recSeen.let = RecNever /\ recSeen.refused = RecNever
  /\ recBreaker.state # "Closed" =>
       recSeen.opened <= recTime /\ recBreaker.last = recSeen.opened /\ recBreaker.failures >= RecThreshold
  /\ recBreaker.state = "HalfOpen" => recTime > recSeen.opened + RecReset
  /\ recSeen.let # RecNever => recSeen.let > recSeen.opened + RecReset
  /\ recSeen.refused # RecNever => recSeen.refused <= recSeen.opened + RecReset

RecCountInv ==
  /\ recMachine.attempts = recSeen.lost
  /\ recMachine.state = "Failed" => recSeen.lost >= RecMaxAttempts
  /\ recSeen.delays[2] = (IF recAttempt = 0 THEN 0 ELSE RecDelay(recAttempt - 1))
  /\ recSeen.delays[1] <= recSeen.delays[2] /\ recSeen.delays[2] <= RecDelays.max

RecInv == RecBreakerType /\ RecBreakerInv /\ RecCountInv

LEMMA RecInvInit ==
  ASSUME RecInit
  PROVE  RecInv
<1>1. RecBreakerType
  BY RecConstantFacts DEF RecInit, RecBreakerType
<1>2. RecBreakerInv
  BY DEF RecInit, RecBreakerInv
<1>3. RecCountInv
  <2>1. recAttempt = 0 /\ recMachine.attempts = 0 /\ recSeen.lost = 0 /\ recMachine.state = "Initial"
        /\ recSeen.delays = <<0, 0>>
    BY DEF RecInit
  <2>. QED  BY <2>1, RecConstantFacts DEF RecCountInv
<1>. QED  BY <1>1, <1>2, <1>3 DEF RecInv

LEMMA RecInvAllow ==
  ASSUME RecInv, NEW c \in RecCallers, RecAllow(c)
  PROVE  RecInv'
<1> DEFINE through == recBreaker.state # "Open" \/ RecElapsed
<1>1. /\ recBreaker' = IF through /\ recBreaker.state = "Open"
                         THEN [recBreaker EXCEPT !.state = "HalfOpen"] ELSE recBreaker
      /\ recSeen' = IF recSeen.opened = RecNever THEN recSeen
                    ELSE IF through THEN [recSeen EXCEPT !.let = recTime]
                    ELSE [recSeen EXCEPT !.refused = recTime]
      /\ UNCHANGED <<recMachine, recAttempt, recTime>>
  BY DEF RecAllow
<1>2. RecBreakerType /\ RecBreakerInv /\ RecCountInv /\ recTime \in Nat
  BY RecConstantFacts DEF RecInv, RecBreakerType
<1>3. RecBreakerType'
  BY <1>1, <1>2 DEF RecBreakerType
<1>4. /\ recSeen'.opened = recSeen.opened /\ recSeen'.lost = recSeen.lost /\ recSeen'.delays = recSeen.delays
      /\ recSeen'.let = (IF recSeen.opened # RecNever /\ through THEN recTime ELSE recSeen.let)
      /\ recSeen'.refused = (IF recSeen.opened # RecNever /\ ~through THEN recTime ELSE recSeen.refused)
  BY <1>1, <1>2 DEF RecBreakerType
<1>5. /\ recBreaker'.last = recBreaker.last /\ recBreaker'.failures = recBreaker.failures
      /\ recBreaker'.state = (IF through /\ recBreaker.state = "Open" THEN "HalfOpen" ELSE recBreaker.state)
  BY <1>1, <1>2 DEF RecBreakerType
<1>6. recBreaker.state # "Closed" /\ through => recTime > recSeen.opened + RecReset
  <2>1. CASE recBreaker.state = "HalfOpen"
    BY <1>2, <2>1 DEF RecBreakerInv
  <2>2. CASE recBreaker.state = "Open" /\ through
    <3>1. recTime - recBreaker.last > RecReset /\ recBreaker.last = recSeen.opened
      BY <1>2, <2>2 DEF RecElapsed, RecBreakerInv
    <3>2. recSeen.opened \in Nat /\ recSeen.opened <= recTime
      BY <1>2, <2>2 DEF RecBreakerType, RecBreakerInv
    <3>. QED  BY ONLY <1>2, <3>1, <3>2, RecConstantFacts
  <2>3. recBreaker.state \in {"Closed", "Open", "HalfOpen"}
    BY <1>2 DEF RecBreakerType
  <2>. QED  BY <2>1, <2>2, <2>3
<1>7. recBreaker.state # "Closed" /\ ~through => recTime <= recSeen.opened + RecReset
  <2> SUFFICES ASSUME recBreaker.state # "Closed", ~through PROVE recTime <= recSeen.opened + RecReset
    OBVIOUS
  <2>1. ~(recTime - recBreaker.last > RecReset) /\ recBreaker.last = recSeen.opened
    BY <1>2 DEF RecElapsed, RecBreakerInv
  <2>2. recSeen.opened \in Nat /\ recSeen.opened <= recTime
    BY <1>2 DEF RecBreakerType, RecBreakerInv
  <2>. QED  BY ONLY <1>2, <2>1, <2>2, RecConstantFacts
<1>8. recSeen.opened # RecNever => recBreaker.state # "Closed"
  BY <1>2 DEF RecBreakerInv
<1>9. recTime' = recTime
  BY <1>1
<1>a. RecBreakerInv'
  <2>. HIDE DEF through
  <2>1. RecBreakerInv
    BY <1>2
  <2>2. recBreaker.state = "Closed" => recSeen.opened = RecNever
    BY <1>2 DEF RecBreakerInv
  <2>3. recBreaker'.state = "Closed" <=> recBreaker.state = "Closed"
    BY ONLY <1>5
  <2>4. recSeen'.let # RecNever => recSeen'.let > recSeen'.opened + RecReset
    BY ONLY <2>1, <1>4, <1>6, <1>8 DEF RecBreakerInv
  <2>5. recSeen'.refused # RecNever => recSeen'.refused <= recSeen'.opened + RecReset
    BY ONLY <2>1, <1>4, <1>7, <1>8 DEF RecBreakerInv
  <2>6. recBreaker'.state = "HalfOpen" => recTime > recSeen'.opened + RecReset
    BY ONLY <2>1, <1>4, <1>5, <1>6 DEF RecBreakerInv
  <2>7. recBreaker'.state = "Closed" =>
          recSeen'.opened = RecNever /\ recSeen'.let = RecNever /\ recSeen'.refused = RecNever
    BY ONLY <2>1, <2>2, <2>3, <1>4 DEF RecBreakerInv
  <2>8. recBreaker'.state # "Closed" =>
          /\ recSeen'.opened <= recTime /\ recBreaker'.last = recSeen'.opened
          /\ recBreaker'.failures >= RecThreshold
    BY ONLY <2>1, <2>3, <1>4, <1>5 DEF RecBreakerInv
  <2>. QED  BY ONLY <1>9, <2>4, <2>5, <2>6, <2>7, <2>8 DEF RecBreakerInv
<1>b. RecCountInv'
  <2>1. recMachine' = recMachine /\ recAttempt' = recAttempt
    BY <1>1
  <2>. QED  BY ONLY <1>2, <1>4, <2>1 DEF RecCountInv, RecDelay
<1>. QED  BY <1>3, <1>a, <1>b DEF RecInv

LEMMA RecInvSuccess ==
  ASSUME RecInv, NEW c \in RecCallers, RecSuccess(c)
  PROVE  RecInv'
<1>1. CASE recBreaker.state = "HalfOpen"
  <2>1. /\ recBreaker' = [recBreaker EXCEPT !.state = "Closed", !.failures = 0]
        /\ recSeen' = [recSeen EXCEPT !.opened = RecNever, !.let = RecNever, !.refused = RecNever]
        /\ UNCHANGED <<recMachine, recAttempt, recTime>>
    BY <1>1 DEF RecSuccess
  <2>2. RecBreakerType /\ RecCountInv
    BY DEF RecInv
  <2>3. RecBreakerType'
    BY <2>1, <2>2, RecConstantFacts DEF RecBreakerType
  <2>4. /\ recBreaker'.state = "Closed" /\ recSeen'.opened = RecNever /\ recSeen'.let = RecNever
        /\ recSeen'.refused = RecNever /\ recSeen'.lost = recSeen.lost /\ recSeen'.delays = recSeen.delays
    BY <2>1, <2>2 DEF RecBreakerType
  <2>5. RecBreakerInv'
    BY ONLY <2>4 DEF RecBreakerInv
  <2>6. recMachine' = recMachine /\ recAttempt' = recAttempt
    BY <2>1
  <2>7. RecCountInv'
    BY ONLY <2>2, <2>4, <2>6 DEF RecCountInv, RecDelay
  <2>. QED  BY <2>3, <2>5, <2>7 DEF RecInv
<1>2. CASE recBreaker.state # "HalfOpen"
  <2>1. UNCHANGED <<recBreaker, recSeen, recMachine, recAttempt, recTime>>
    BY <1>2 DEF RecSuccess
  <2>. QED  BY <2>1 DEF RecInv, RecBreakerType, RecBreakerInv, RecCountInv, RecDelay
<1>. QED  BY <1>1, <1>2

LEMMA RecInvFailure ==
  ASSUME RecInv, NEW c \in RecCallers, RecFailure(c)
  PROVE  RecInv'
<1>1. /\ recBreaker' = RecFailed
      /\ recSeen' = IF RecFailed.state = "Open" /\ recBreaker.state # "Open"
                      THEN [recSeen EXCEPT !.opened = recTime, !.let = RecNever, !.refused = RecNever]
                      ELSE recSeen
      /\ UNCHANGED <<recMachine, recAttempt, recTime>>
  BY DEF RecFailure
<1>2. RecBreakerType /\ RecBreakerInv /\ RecCountInv /\ recTime \in Nat /\ recTime <= recTime
  BY RecConstantFacts DEF RecInv, RecBreakerType
<1>3. recBreaker.state \in {"Closed", "Open", "HalfOpen"} /\ recBreaker.failures \in Nat
  BY <1>2 DEF RecBreakerType
\* It opens, or again ...
<1>4. ASSUME recBreaker'.state = "Open", recBreaker.state # "Open", recBreaker'.last = recTime,
             recBreaker'.failures \in Nat, recBreaker'.failures >= RecThreshold, RecBreakerType'
      PROVE  RecInv'
  <2>1. recSeen' = [recSeen EXCEPT !.opened = recTime, !.let = RecNever, !.refused = RecNever]
    BY <1>1, <1>4
  <2>2. /\ recSeen'.opened = recTime /\ recSeen'.let = RecNever /\ recSeen'.refused = RecNever
        /\ recSeen'.lost = recSeen.lost /\ recSeen'.delays = recSeen.delays
    BY <1>2, <2>1 DEF RecBreakerType
  <2>3. RecBreakerInv'
    <3>1. recTime' = recTime
      BY <1>1
    <3>. QED  BY ONLY <1>2, <1>4, <2>2, <3>1 DEF RecBreakerInv
  <2>4. recMachine' = recMachine /\ recAttempt' = recAttempt
    BY <1>1
  <2>5. RecCountInv'
    BY ONLY <1>2, <2>2, <2>4 DEF RecCountInv, RecDelay
  <2>. QED  BY <1>4, <2>3, <2>5 DEF RecInv
\* ... or counts another failure, or is open already.
<1>5. ASSUME recBreaker'.state = recBreaker.state, recSeen' = recSeen, recBreaker'.last = recBreaker.last,
             recBreaker'.failures = recBreaker.failures \/ recBreaker.state = "Closed", RecBreakerType'
      PROVE  RecInv'
  <2>1. recTime' = recTime /\ recMachine' = recMachine /\ recAttempt' = recAttempt
    BY <1>1
  <2>2. RecBreakerInv'
    BY ONLY <1>2, <1>5, <2>1 DEF RecBreakerInv
  <2>3. RecCountInv'
    BY ONLY <1>2, <1>5, <2>1 DEF RecCountInv, RecDelay
  <2>. QED  BY <1>5, <2>2, <2>3 DEF RecInv
<1>6. CASE recBreaker.state = "HalfOpen"
  <2>1. recBreaker' = [recBreaker EXCEPT !.state = "Open", !.last = recTime]
    BY <1>1, <1>6 DEF RecFailed
  <2>2. recBreaker'.state = "Open" /\ recBreaker'.last = recTime /\ recBreaker'.failures = recBreaker.failures
    BY <1>2, <2>1 DEF RecBreakerType
  <2>3. recBreaker.failures >= RecThreshold
    BY <1>2, <1>6 DEF RecBreakerInv
  <2>4. RecBreakerType'
    BY <1>1, <1>2, <2>1, RecConstantFacts DEF RecBreakerType
  <2>. QED  BY <1>3, <1>4, <1>6, <2>2, <2>3, <2>4
<1>7. CASE recBreaker.state = "Closed"
  <2> DEFINE n == recBreaker.failures + 1
  <2>1. n \in Nat
    BY <1>3
  <2>2. RecFailed = IF n >= RecThreshold THEN [state |-> "Open", failures |-> n, last |-> recTime]
                    ELSE [recBreaker EXCEPT !.failures = n]
    BY <1>7 DEF RecFailed
  <2>. HIDE DEF n
  <2>3. CASE n >= RecThreshold
    <3>1. recBreaker' = [state |-> "Open", failures |-> n, last |-> recTime]
      BY <1>1, <2>2, <2>3
    <3>4. recBreaker' \in [state : {"Closed", "Open", "HalfOpen"}, failures : Nat, last : Nat]
      BY ONLY <1>2, <2>1, <3>1
    <3>5. recSeen' = [recSeen EXCEPT !.opened = recTime, !.let = RecNever, !.refused = RecNever]
      <4>1. RecFailed.state = "Open"
        BY <1>1, <3>1
      <4>. QED  BY <1>1, <1>7, <4>1
    <3>6. recSeen' \in [opened : Nat, let : Nat, refused : Nat, lost : Nat, delays : Nat \X Nat]
      BY ONLY <1>2, <3>5, RecConstantFacts DEF RecBreakerType
    <3>2. RecBreakerType'
      BY <1>1, <1>2, <3>4, <3>6 DEF RecBreakerType
    <3>3. recBreaker'.state = "Open" /\ recBreaker'.last = recTime /\ recBreaker'.failures = n
      BY <3>1
    <3>. QED  BY <1>4, <1>7, <2>1, <2>3, <3>2, <3>3
  <2>4. CASE ~(n >= RecThreshold)
    <3>1. recBreaker' = [recBreaker EXCEPT !.failures = n]
      BY <1>1, <2>2, <2>4
    <3>2. recBreaker'.state = recBreaker.state /\ recBreaker'.last = recBreaker.last
      BY <1>2, <3>1 DEF RecBreakerType
    <3>3. recSeen' = recSeen
      BY <1>1, <1>7, <3>1, <3>2
    <3>4. RecBreakerType'
      BY <1>1, <1>2, <2>1, <3>1, <3>3 DEF RecBreakerType
    <3>. QED  BY <1>5, <1>7, <3>2, <3>3, <3>4
  <2>. QED  BY <2>3, <2>4
<1>8. CASE recBreaker.state = "Open"
  <2>1. recBreaker' = recBreaker
    BY <1>1, <1>8 DEF RecFailed
  <2>2. recSeen' = recSeen
    BY <1>1, <1>8
  <2>3. RecBreakerType'
    BY <1>1, <1>2, <2>1, <2>2 DEF RecBreakerType
  <2>. QED  BY <1>5, <2>1, <2>2, <2>3
<1>. QED  BY <1>3, <1>6, <1>7, <1>8

-----------------------------------------------------------------------------
(* The state machine and the backoff *)

\* A step of the machine, the backoff or the clock that leaves the breaker alone.
LEMMA RecInvCounts ==
  ASSUME RecInv, recBreaker' = recBreaker, recTime' = recTime, RecBreakerType', RecCountInv',
         recSeen'.opened = recSeen.opened, recSeen'.let = recSeen.let, recSeen'.refused = recSeen.refused
  PROVE  RecInv'
<1>1. RecBreakerInv
  BY DEF RecInv
<1>2. RecBreakerInv'
  BY <1>1 DEF RecBreakerInv
<1>. QED  BY <1>2 DEF RecInv

LEMMA RecInvMove ==
  ASSUME RecInv, NEW to \in {"Recovering", "CircuitOpen", "Degraded"}, RecMove(to)
  PROVE  RecInv'
<1>1. recMachine' = [recMachine EXCEPT !.state = to] /\ UNCHANGED <<recBreaker, recAttempt, recTime, recSeen>>
  BY DEF RecMove
<1>2. RecBreakerType /\ RecCountInv
  BY DEF RecInv
<1>3. RecBreakerType'
  BY <1>1, <1>2 DEF RecBreakerType
<1>4. recMachine'.attempts = recMachine.attempts /\ recMachine'.state # "Failed"
  BY <1>1, <1>2 DEF RecBreakerType
<1>5. recAttempt' = recAttempt /\ recSeen' = recSeen
  BY <1>1
<1>6. RecCountInv'
  BY ONLY <1>2, <1>4, <1>5 DEF RecCountInv, RecDelay
<1>. QED  BY <1>1, <1>3, <1>6, RecInvCounts

LEMMA RecInvRecovered ==
  ASSUME RecInv, RecRecovered
  PROVE  RecInv'
<1>1. /\ recMachine' = [state |-> "Recovered", attempts |-> 0] /\ recSeen' = [recSeen EXCEPT !.lost = 0]
      /\ UNCHANGED <<recBreaker, recAttempt, recTime>>
  BY DEF RecRecovered
<1>2. RecBreakerType /\ RecCountInv
  BY DEF RecInv
<1>3. RecBreakerType'
  BY <1>1, <1>2 DEF RecBreakerType
<1>4. /\ recMachine'.attempts = 0 /\ recMachine'.state # "Failed" /\ recSeen'.lost = 0
      /\ recSeen'.delays = recSeen.delays /\ recSeen'.opened = recSeen.opened
      /\ recSeen'.let = recSeen.let /\ recSeen'.refused = recSeen.refused
  BY <1>1, <1>2 DEF RecBreakerType
<1>5. recAttempt' = recAttempt
  BY <1>1
<1>6. RecCountInv'
  BY ONLY <1>2, <1>4, <1>5 DEF RecCountInv, RecDelay
<1>. QED  BY <1>1, <1>3, <1>4, <1>6, RecInvCounts

LEMMA RecInvLost ==
  ASSUME RecInv, RecLost
  PROVE  RecInv'
<1> DEFINE n == recMachine.attempts + 1
<1>1. /\ recMachine' = IF n >= RecMaxAttempts THEN [state |-> "Failed", attempts |-> n]
                                              ELSE [recMachine EXCEPT !.attempts = n]
      /\ recSeen' = [recSeen EXCEPT !.lost = @ + 1] /\ recMachine.state = "Recovering"
      /\ UNCHANGED <<recBreaker, recAttempt, recTime>>
  BY DEF RecLost, RecGiveUp
<1>2. RecBreakerType /\ RecCountInv
  BY DEF RecInv
<1>3. n \in Nat /\ recSeen.lost + 1 = n /\ recSeen.lost + 1 \in Nat
  BY <1>2 DEF RecBreakerType, RecCountInv
<1>. HIDE DEF n
<1>4. RecBreakerType'
  BY <1>1, <1>2, <1>3 DEF RecBreakerType
<1>5. /\ recMachine'.attempts = n /\ (recMachine'.state = "Failed" => n >= RecMaxAttempts)
      /\ recSeen'.lost = n
      /\ recSeen'.delays = recSeen.delays /\ recSeen'.opened = recSeen.opened
      /\ recSeen'.let = recSeen.let /\ recSeen'.refused = recSeen.refused
  BY <1>1, <1>2, <1>3 DEF RecBreakerType
<1>6. recAttempt' = recAttempt
  BY <1>1
<1>7. RecCountInv'
  BY ONLY <1>2, <1>5, <1>6 DEF RecCountInv, RecDelay
<1>. QED  BY <1>1, <1>4, <1>5, <1>7, RecInvCounts

LEMMA RecInvBackoff ==
  ASSUME RecInv, RecBackoff
  PROVE  RecInv'
<1>1. /\ recAttempt < RecMaxAttempts /\ recAttempt' = recAttempt + 1
      /\ recSeen' = [recSeen EXCEPT !.delays = <<recSeen.delays[2], RecDelay(recAttempt)>>]
      /\ UNCHANGED <<recBreaker, recMachine, recTime>>
  BY DEF RecBackoff
<1>2. RecBreakerType /\ RecCountInv /\ recAttempt \in 0 .. RecMaxAttempts
  BY DEF RecInv, RecBreakerType
<1>3. recAttempt + 1 \in 0 .. RecMaxAttempts /\ recAttempt + 1 # 0 /\ (recAttempt + 1) - 1 = recAttempt
  BY ONLY <1>1, <1>2, RecConstantFacts
<1>4. RecDelay(recAttempt) \in Nat /\ RecDelay(recAttempt) <= RecDelays.max
  BY ONLY <1>2, RecDelaysGrow
<1>5. recSeen.delays[2] \in Nat /\ recSeen.delays[2] <= RecDelay(recAttempt)
  <2>1. recSeen.delays[2] \in Nat
    BY <1>2 DEF RecBreakerType
  <2>2. CASE recAttempt = 0
    <3>1. recSeen.delays[2] = 0
      BY ONLY <1>2, <2>2 DEF RecCountInv
    <3>. QED  BY ONLY <1>4, <2>1, <3>1
  <2>3. CASE recAttempt # 0
    <3>1. recAttempt \in 1 .. RecMaxAttempts
      BY ONLY <1>2, <2>3, RecConstantFacts
    <3>2. RecDelay(recAttempt - 1) <= RecDelay(recAttempt)
      BY ONLY <3>1, RecDelaysGrow
    <3>3. recSeen.delays[2] = RecDelay(recAttempt - 1)
      BY ONLY <1>2, <2>3 DEF RecCountInv
    <3>. QED  BY ONLY <2>1, <3>2, <3>3
  <2>. QED  BY <2>2, <2>3
<1>6. <<recSeen.delays[2], RecDelay(recAttempt)>> \in Nat \X Nat
  BY ONLY <1>4, <1>5
<1> DEFINE delays == <<recSeen.delays[2], RecDelay(recAttempt)>>
<1>7. delays[1] = recSeen.delays[2] /\ delays[2] = RecDelay(recAttempt) /\ delays \in Nat \X Nat
  BY <1>6
<1>8. recSeen' = [recSeen EXCEPT !.delays = delays]
  BY <1>1
<1>. HIDE DEF delays
<1>9. recSeen' \in [opened : Nat, let : Nat, refused : Nat, lost : Nat, delays : Nat \X Nat]
      /\ recSeen'.delays = delays /\ recSeen'.lost = recSeen.lost /\ recSeen'.opened = recSeen.opened
      /\ recSeen'.let = recSeen.let /\ recSeen'.refused = recSeen.refused
  BY ONLY <1>2, <1>7, <1>8 DEF RecBreakerType
<1>a. recBreaker' = recBreaker /\ recMachine' = recMachine /\ recTime' = recTime /\ recAttempt' = recAttempt + 1
  BY <1>1
<1>b. RecBreakerType'
  BY ONLY <1>2, <1>3, <1>9, <1>a DEF RecBreakerType
<1>c. RecCountInv'
  <2>1. recMachine.attempts = recSeen.lost /\ (recMachine.state = "Failed" => recSeen.lost >= RecMaxAttempts)
    BY <1>2 DEF RecCountInv
  <2>2. recSeen'.delays[2] = IF recAttempt' = 0 THEN 0 ELSE RecDelay(recAttempt' - 1)
    BY ONLY <1>3, <1>7, <1>9, <1>a
  <2>3. recSeen'.delays[1] <= recSeen'.delays[2] /\ recSeen'.delays[2] <= RecDelays.max
    BY ONLY <1>4, <1>5, <1>7, <1>9
  <2>. QED  BY ONLY <1>9, <1>a, <2>1, <2>2, <2>3 DEF RecCountInv, RecDelay
<1>. QED  BY ONLY RecInv, <1>9, <1>a, <1>b, <1>c, RecInvCounts

LEMMA RecInvBackoffAgain ==
  ASSUME RecInv, RecBackoffAgain
  PROVE  RecInv'
<1>1. /\ recAttempt' = 0 /\ recSeen' = [recSeen EXCEPT !.delays = <<0, 0>>]
      /\ UNCHANGED <<recBreaker, recMachine, recTime>>
  BY DEF RecBackoffAgain
<1>2. RecBreakerType /\ RecCountInv
  BY DEF RecInv
<1>3. RecBreakerType'
  BY <1>1, <1>2, RecConstantFacts DEF RecBreakerType
<1>4. /\ recSeen'.delays = <<0, 0>> /\ recSeen'.lost = recSeen.lost /\ recSeen'.opened = recSeen.opened
      /\ recSeen'.let = recSeen.let /\ recSeen'.refused = recSeen.refused
  BY <1>1, <1>2 DEF RecBreakerType
<1>5. RecCountInv'
  <2>1. recMachine.attempts = recSeen.lost /\ (recMachine.state = "Failed" => recSeen.lost >= RecMaxAttempts)
    BY <1>2 DEF RecCountInv
  <2>2. recSeen'.delays[1] = 0 /\ recSeen'.delays[2] = 0
    BY <1>4
  <2>3. recMachine' = recMachine /\ recAttempt' = 0 /\ 0 <= 0 /\ 0 <= RecDelays.max
    BY <1>1, RecConstantFacts
  <2>. QED  BY ONLY <1>4, <2>1, <2>2, <2>3 DEF RecCountInv
<1>. QED  BY <1>1, <1>3, <1>4, <1>5, RecInvCounts

LEMMA RecInvTick ==
  ASSUME RecInv, RecTick
  PROVE  RecInv'
<1>1. /\ recTime < RecMaxTime /\ recTime' = recTime + 1
      /\ UNCHANGED <<recBreaker, recMachine, recAttempt, recSeen>>
  BY DEF RecTick
<1>2. RecBreakerType /\ RecBreakerInv /\ RecCountInv /\ recTime \in Nat /\ recSeen.opened \in Nat
  BY RecConstantFacts DEF RecInv, RecBreakerType
<1>3. RecBreakerType'
  BY <1>1, <1>2, RecConstantFacts DEF RecBreakerType
<1>4. RecBreakerInv'
  <2>1. recSeen.opened <= recTime => recSeen.opened <= recTime + 1
    BY ONLY <1>2
  <2>2. recTime > recSeen.opened + RecReset => recTime + 1 > recSeen.opened + RecReset
    BY ONLY <1>2, RecConstantFacts
  <2>3. recBreaker' = recBreaker /\ recSeen' = recSeen /\ recTime' = recTime + 1
    BY <1>1
  <2>. QED  BY ONLY <1>2, <2>1, <2>2, <2>3 DEF RecBreakerInv
<1>5. RecCountInv'
  BY <1>1, <1>2 DEF RecCountInv, RecDelay
<1>. QED  BY <1>3, <1>4, <1>5 DEF RecInv

LEMMA RecInvStep ==
  ASSUME RecInv, [RecNext]_recVars
  PROVE  RecInv'
<1>1. ASSUME NEW c \in RecCallers, RecAllow(c) PROVE RecInv'
  BY <1>1, RecInvAllow
<1>2. ASSUME NEW c \in RecCallers, RecSuccess(c) PROVE RecInv'
  BY <1>2, RecInvSuccess
<1>3. ASSUME NEW c \in RecCallers, RecFailure(c) PROVE RecInv'
  BY <1>3, RecInvFailure
<1>4. ASSUME NEW to \in {"Recovering", "CircuitOpen", "Degraded"}, RecMove(to) PROVE RecInv'
  BY <1>4, RecInvMove
<1>5. CASE RecRecovered
  BY <1>5, RecInvRecovered
<1>6. CASE RecLost
  BY <1>6, RecInvLost
<1>7. CASE RecBackoff
  BY <1>7, RecInvBackoff
<1>8. CASE RecBackoffAgain
  BY <1>8, RecInvBackoffAgain
<1>9. CASE RecTick
  BY <1>9, RecInvTick
<1>a. CASE UNCHANGED recVars
  BY <1>a DEF RecInv, RecBreakerType, RecBreakerInv, RecCountInv, RecDelay, recVars
<1>. QED  BY <1>1, <1>2, <1>3, <1>4, <1>5, <1>6, <1>7, <1>8, <1>9, <1>a DEF RecNext

LEMMA RecInvKept ==
  ASSUME RecInv
  PROVE  RecoveryKept
<1>1. recSeen.opened # RecNever \/ recBreaker.state = "Closed"
  <2> SUFFICES ASSUME recBreaker.state # "Closed" PROVE recSeen.opened # RecNever
    OBVIOUS
  <2>1. recSeen.opened <= recTime /\ recTime \in 0 .. RecMaxTime /\ recSeen.opened \in Nat
    BY DEF RecInv, RecBreakerType, RecBreakerInv
  <2>. QED  BY ONLY <2>1, RecConstantFacts
<1>2. BreakerKeepsQuiet
  BY <1>1 DEF RecInv, RecBreakerInv, BreakerKeepsQuiet
<1>3. RecoveryCounts
  BY DEF RecInv, RecCountInv, RecoveryCounts
<1>. QED  BY <1>2, <1>3 DEF RecoveryKept

\* The breaker lets nothing through before its timeout and refuses nothing after it,
\* the state machine gives up with the last attempt, and the delays grow up to the
\* largest, whatever the order in which requests are reported.
THEOREM RecoveryIsKept == RecSpec => []RecoveryKept
<1>1. RecInit => RecInv
  BY RecInvInit
<1>2. RecInv /\ [RecNext]_recVars => RecInv'
  BY RecInvStep
<1>3. RecInv => RecoveryKept
  BY RecInvKept
<1>. QED  BY <1>1, <1>2, <1>3, PTL DEF RecSpec

\* What holds back too many calls is exact: the two parts share no state, and both
\* specifications may be running.
THEOREM LimitsHold == RateSpec /\ RecSpec => []LimitsExact
<1>1. RateExact /\ RecoveryKept => LimitsExact
  BY DEF LimitsExact
<1>. QED  BY <1>1, RateIsExact, RecoveryIsKept, PTL
-----------------------------------------------------------------------------
(***************************************************************************)
(* The prompts.  What a task holds of a version is what the store has, and *)
(* the store only grows.                                                   *)
(***************************************************************************)

PrmTasks ==
  [at : {"idle", "filling", "looking", "reading", "answering", "target", "numbered"},
   version : PrmVersions, content : Nat, floor : SUBSET PrmVersions]

PrmSays(version, content) == version \in DOMAIN prmStore /\ prmStore[version] = content

PrmTaskInv(t) ==
  /\ t.at \in {"filling", "answering", "target"} => PrmSays(t.version, t.content)
  /\ t.at \in {"looking", "reading", "answering"} => \A v \in t.floor : v <= t.version
  /\ t.at = "target" => t.floor \subseteq DOMAIN prmStore
  /\ t.at = "numbered" /\ ~prmFull => \A v \in t.floor : v < t.version

PrmAnswerInv(a) ==
  /\ PrmSays(a[2], a[3])
  /\ a[1] = "get" => \A v \in a[4] : v <= a[2]
  /\ a[1] = "rollback" /\ ~prmFull => \A v \in a[4] : v < a[2]

PrmInv ==
  /\ prmTask \in [PrmCallers -> PrmTasks]
  /\ DOMAIN prmStore \subseteq PrmVersions /\ \A v \in DOMAIN prmStore : prmStore[v] \in Nat
  /\ prmCache \in Seq(PrmVersions \X Nat) /\ Len(prmCache) <= PrmCapacity
  /\ prmSaved \in Nat /\ prmFull \in BOOLEAN
  /\ \A c \in PrmCallers : PrmTaskInv(prmTask[c])
  /\ \A i \in DOMAIN prmCache : PrmSays(prmCache[i][1], prmCache[i][2])
  /\ \A a \in prmAnswers : PrmAnswerInv(a)

\* The largest of some numbers up to n.
LEMMA LargestIs ==
  ASSUME NEW n \in Nat, NEW S \in SUBSET (0 .. n), S # {}
  PROVE  Max(S) \in S /\ \A v \in S : v <= Max(S)
<1>1. PICK T : T = {n - v : v \in S}
  OBVIOUS
<1>2. T # {} /\ T \subseteq Nat
  <2>1. \A v \in S : v \in 0 .. n
    OBVIOUS
  <2>2. \A v \in S : n - v \in Nat
    BY <2>1
  <2>. QED  BY <1>1, <2>2
<1>3. PICK t \in T : \A u \in T : ~(<<u, t>> \in OpToRel(<, Nat))
  BY <1>2, NatLessThanWellFounded, WFMin
<1>4. PICK x \in S : t = n - x
  BY <1>1
<1>5. ASSUME NEW v \in S PROVE v <= x
  <2>1. n - v \in T /\ n - v \in Nat /\ t \in Nat
    BY <1>1, <1>2
  <2>2. ~(n - v < t)
    BY <1>2, <1>3, <2>1 DEF OpToRel
  <2>. QED  BY <1>4, <2>1, <2>2
<1>. QED  BY <1>5 DEF Max

\* A sequence without one of its elements.
LEMMA RemovedAt ==
  ASSUME NEW E, NEW q \in Seq(E), NEW k \in 1 .. Len(q)
  PROVE  /\ RemoveAt(q, k) \in Seq(E) /\ Len(RemoveAt(q, k)) = Len(q) - 1
         /\ \A i \in 1 .. Len(q) - 1 : \E j \in 1 .. Len(q) : RemoveAt(q, k)[i] = q[j]
<1>1. RemoveAt(q, k) = SubSeq(q, 1, k - 1) \o SubSeq(q, k + 1, Len(q))
  BY DEF RemoveAt
<1>2. PICK a : a = SubSeq(q, 1, k - 1)
  OBVIOUS
<1>3. PICK b : b = SubSeq(q, k + 1, Len(q))
  OBVIOUS
<1>4. Len(q) \in Nat
  OBVIOUS
<1>5. a \in Seq(E) /\ Len(a) = k - 1 /\ \A i \in 1 .. k - 1 : a[i] = q[i]
  BY <1>2, <1>4
<1>6. b \in Seq(E) /\ Len(b) = Len(q) - k /\ \A i \in 1 .. Len(q) - k : b[i] = q[k + i]
  BY <1>3, <1>4
<1>7. a \o b \in Seq(E) /\ Len(a \o b) = Len(q) - 1
  BY <1>4, <1>5, <1>6
<1>8. ASSUME NEW i \in 1 .. Len(q) - 1
      PROVE  \E j \in 1 .. Len(q) : (a \o b)[i] = q[j]
  <2>1. CASE i < k
    <3>1. (a \o b)[i] = a[i] /\ i \in 1 .. k - 1 /\ i \in 1 .. Len(q)
      BY <2>1, <1>4, <1>5, <1>6
    <3>. QED  BY <3>1, <1>5
  <2>2. CASE ~ (i < k)
    <3>1. (a \o b)[i] = b[i - Len(a)]
      BY <2>2, <1>4, <1>5, <1>6
    <3>2. i - (k - 1) \in 1 .. Len(q) - k /\ k + (i - (k - 1)) \in 1 .. Len(q)
      BY <2>2, <1>4
    <3>. QED  BY <3>1, <3>2, <1>5, <1>6
  <2>. QED  BY <2>1, <2>2
<1>. QED  BY <1>1, <1>2, <1>3, <1>7, <1>8

\* What is put into the cache is there, and else nothing that was not.
LEMMA PrmPutFacts ==
  ASSUME PrmInv, NEW v \in PrmVersions, NEW content \in Nat
  PROVE  /\ PrmPut(v, content) \in Seq(PrmVersions \X Nat) /\ Len(PrmPut(v, content)) <= PrmCapacity
         /\ \A i \in DOMAIN PrmPut(v, content) :
              \/ PrmPut(v, content)[i] = <<v, content>>
              \/ \E j \in DOMAIN prmCache : PrmPut(v, content)[i] = prmCache[j]
<1> DEFINE E == PrmVersions \X Nat
           Old(s) == s \in Seq(E) /\ \A i \in DOMAIN s : \E j \in DOMAIN prmCache : s[i] = prmCache[j]
           others == RemoveFirstMatch(prmCache, LAMBDA e : e[1] = v)
           kept == IF Len(others) < PrmCapacity THEN others ELSE Tail(others)
<1>. HIDE DEF E
<1>1. prmCache \in Seq(E) /\ Len(prmCache) \in Nat /\ Len(prmCache) <= PrmCapacity /\ PrmCapacity \in Nat \ {0}
      /\ DOMAIN prmCache = 1 .. Len(prmCache)
  BY PrmConstants DEF PrmInv, E
<1>2. Old(others) /\ Len(others) <= PrmCapacity
  <2>1. CASE ~ \E i \in 1 .. Len(prmCache) : prmCache[i][1] = v
    <3>1. others = prmCache
      BY <2>1 DEF RemoveFirstMatch
    <3>. QED  BY <1>1, <3>1
  <2>2. CASE \E i \in 1 .. Len(prmCache) : prmCache[i][1] = v
    <3> DEFINE I == {i \in 1 .. Len(prmCache) : prmCache[i][1] = v}
    <3>1. PICK k : k = SelectInSeq(prmCache, LAMBDA e : e[1] = v)
      OBVIOUS
    <3>2. k = Min(I)
      BY <2>2, <3>1 DEF SelectInSeq
    <3>3. k \in 1 .. Len(prmCache)
      <4>1. I # {} /\ I \subseteq Nat
        BY <2>2
      <4>2. PICK i \in I : \A j \in I : ~(<<j, i>> \in OpToRel(<, Nat))
        BY <4>1, NatLessThanWellFounded, WFMin
      <4>3. ASSUME NEW j \in I PROVE i <= j
        <5>1. i \in Nat /\ j \in Nat
          BY <4>1
        <5>2. ~ (j < i)
          BY <4>2, <5>1 DEF OpToRel
        <5>. QED  BY ONLY <5>1, <5>2
      <4>4. Min(I) \in I
        BY <4>3 DEF Min
      <4>. QED  BY <3>2, <4>4
    <3>4. others = SubSeq(prmCache, 1, k - 1) \o SubSeq(prmCache, k + 1, Len(prmCache))
      BY <2>2, <3>1 DEF RemoveFirstMatch, RemoveAt
    <3>5. others = RemoveAt(prmCache, k)
      BY <3>4 DEF RemoveAt
    <3>. HIDE DEF others
    <3>6. PICK rest : rest = RemoveAt(prmCache, k)
      OBVIOUS
    <3>7. /\ rest \in Seq(E) /\ Len(rest) = Len(prmCache) - 1
          /\ \A i \in 1 .. Len(prmCache) - 1 : \E j \in 1 .. Len(prmCache) : rest[i] = prmCache[j]
      <4>1. prmCache \in Seq(E)
        BY <1>1
      <4>2. /\ RemoveAt(prmCache, k) \in Seq(E) /\ Len(RemoveAt(prmCache, k)) = Len(prmCache) - 1
            /\ \A i \in 1 .. Len(prmCache) - 1 : \E j \in 1 .. Len(prmCache) : RemoveAt(prmCache, k)[i] = prmCache[j]
        BY ONLY <3>3, <4>1, RemovedAt
      <4>. QED  BY ONLY <3>6, <4>2
    <3>8. DOMAIN rest = 1 .. Len(prmCache) - 1 /\ Len(rest) <= PrmCapacity
      BY <1>1, <3>7
    <3>9. others = rest
      BY <3>5, <3>6
    <3>. QED  BY <1>1, <3>7, <3>8, <3>9
  <2>. QED  BY <2>1, <2>2
<1>. HIDE DEF others
<1>3. Old(kept) /\ Len(kept) < PrmCapacity
  <2>1. CASE Len(others) < PrmCapacity
    BY <2>1, <1>2
  <2>2. CASE ~ (Len(others) < PrmCapacity)
    <3>1. kept = Tail(others) /\ others \in Seq(E) /\ Len(others) \in Nat /\ Len(others) # 0
      BY <2>2, <1>1, <1>2
    <3>2. Tail(others) \in Seq(E) /\ Len(Tail(others)) = Len(others) - 1
          /\ \A i \in 1 .. Len(others) - 1 : Tail(others)[i] = others[i + 1]
      BY <3>1
    <3>3. ASSUME NEW i \in 1 .. Len(others) - 1
          PROVE  \E j \in DOMAIN prmCache : Tail(others)[i] = prmCache[j]
      <4>1. i + 1 \in DOMAIN others
        BY <3>1
      <4>. QED  BY <1>2, <3>2, <4>1
    <3>4. DOMAIN Tail(others) = 1 .. Len(others) - 1
      BY <3>2
    <3>. QED  BY <1>1, <1>2, <2>2, <3>1, <3>2, <3>3, <3>4
  <2>. QED  BY <2>1, <2>2
<1>4. <<v, content>> \in E
  BY DEF E
<1>5. PrmPut(v, content) = Append(kept, <<v, content>>)
  BY DEF PrmPut, others
<1>. HIDE DEF kept
<1>6. Append(kept, <<v, content>>) \in Seq(E) /\ Len(Append(kept, <<v, content>>)) = Len(kept) + 1
  BY <1>3, <1>4
<1>7. ASSUME NEW i \in 1 .. Len(kept) + 1
      PROVE  \/ Append(kept, <<v, content>>)[i] = <<v, content>>
             \/ \E j \in DOMAIN prmCache : Append(kept, <<v, content>>)[i] = prmCache[j]
  <2>1. CASE i = Len(kept) + 1
    BY <2>1, <1>3
  <2>2. CASE i # Len(kept) + 1
    <3>1. i \in DOMAIN kept /\ Append(kept, <<v, content>>)[i] = kept[i]
      BY <2>2, <1>3, <1>4
    <3>. QED  BY <3>1, <1>3
  <2>. QED  BY <2>1, <2>2
<1>8. Len(kept) \in Nat
  BY <1>3
<1>9. Len(kept) + 1 <= PrmCapacity
  BY <1>1, <1>3, <1>8
<1>. QED  BY <1>5, <1>6, <1>7, <1>9 DEF E

\* The versions there are stay as they are.
PrmGrown ==
  /\ DOMAIN prmStore \subseteq DOMAIN prmStore' /\ DOMAIN prmStore' \subseteq PrmVersions
  /\ \A v \in DOMAIN prmStore' : prmStore'[v] \in Nat
  /\ \A v \in DOMAIN prmStore : prmStore'[v] = prmStore[v]

PrmCacheKept ==
  /\ prmCache' \in Seq(PrmVersions \X Nat) /\ Len(prmCache') <= PrmCapacity
  /\ \A i \in DOMAIN prmCache' : PrmSays(prmCache[i][1], prmCache[i][2])'

PrmAnswersKept == \A a \in prmAnswers' : a \in prmAnswers \/ PrmAnswerInv(a)'

\* What a step of one task has to see to.
LEMMA PrmStepKeeps ==
  ASSUME PrmInv, NEW c \in PrmCallers, NEW t \in PrmTasks, PrmGo(c, t), PrmTaskInv(t)',
         PrmGrown, PrmCacheKept, prmSaved' \in Nat, prmFull' \in BOOLEAN, prmFull => prmFull',
         PrmAnswersKept
  PROVE  PrmInv'
<1>1. \A w, x : PrmSays(w, x) => PrmSays(w, x)'
  BY DEF PrmGrown, PrmSays
<1>2. ASSUME NEW d \in PrmCallers PROVE PrmTaskInv(prmTask[d])'
  <2>1. CASE d = c
    <3>1. prmTask'[d] = t
      BY <2>1 DEF PrmInv, PrmGo
    <3>. QED  BY <3>1 DEF PrmTaskInv
  <2>2. CASE d # c
    <3>1. prmTask'[d] = prmTask[d] /\ PrmTaskInv(prmTask[d])
      BY <2>2 DEF PrmInv, PrmGo
    <3>2. PICK u : u = prmTask[d]
      OBVIOUS
    <3>3. PrmTaskInv(u)'
      BY <1>1, <3>1, <3>2 DEF PrmTaskInv, PrmGrown
    <3>. QED  BY <3>1, <3>2, <3>3 DEF PrmTaskInv
  <2>. QED  BY <2>1, <2>2
<1>3. prmTask' \in [PrmCallers -> PrmTasks]
  BY DEF PrmInv, PrmGo
<1>4. ASSUME NEW a, PrmAnswerInv(a) PROVE PrmAnswerInv(a)'
  BY <1>1, <1>4 DEF PrmAnswerInv
<1>5. \A a \in prmAnswers' : PrmAnswerInv(a)'
  BY <1>4 DEF PrmInv, PrmAnswersKept
<1>. QED  BY <1>2, <1>3, <1>5 DEF PrmInv, PrmGrown, PrmCacheKept

\* Nothing of what there is changes.
LEMMA PrmSameStore == ASSUME PrmInv, UNCHANGED prmStore PROVE PrmGrown
BY DEF PrmInv, PrmGrown

LEMMA PrmSameCache ==
  ASSUME PrmInv, PrmGrown, UNCHANGED prmCache
  PROVE  PrmCacheKept
BY DEF PrmInv, PrmGrown, PrmCacheKept, PrmSays

LEMMA PrmPutKeeps ==
  ASSUME PrmInv, PrmGrown, NEW v \in PrmVersions, NEW content \in Nat, PrmSays(v, content)',
         prmCache' = PrmPut(v, content)
  PROVE  PrmCacheKept
<1>1. PICK new : new = PrmPut(v, content)
  OBVIOUS
<1>2. /\ new \in Seq(PrmVersions \X Nat) /\ Len(new) <= PrmCapacity
      /\ \A i \in DOMAIN new : new[i] = <<v, content>> \/ \E j \in DOMAIN prmCache : new[i] = prmCache[j]
  BY <1>1, PrmPutFacts
<1>3. ASSUME NEW i \in DOMAIN new PROVE PrmSays(new[i][1], new[i][2])'
  <2>1. CASE new[i] = <<v, content>>
    BY <2>1
  <2>2. CASE \E j \in DOMAIN prmCache : new[i] = prmCache[j]
    <3>1. PICK j \in DOMAIN prmCache : new[i] = prmCache[j]
      BY <2>2
    <3>2. PrmSays(prmCache[j][1], prmCache[j][2])
      BY DEF PrmInv
    <3>. QED  BY <3>1, <3>2 DEF PrmSays, PrmGrown
  <2>. QED  BY <1>2, <2>1, <2>2
<1>. QED  BY <1>1, <1>2, <1>3 DEF PrmCacheKept, PrmSays

LEMMA PrmIdleFacts == PrmIdle \in PrmTasks /\ PrmTaskInv(PrmIdle) /\ PrmTaskInv(PrmIdle)'
BY PrmConstants DEF PrmIdle, PrmTasks, PrmTaskInv, PrmVersions

LEMMA PrmSameAnswers == ASSUME UNCHANGED prmAnswers PROVE PrmAnswersKept
BY DEF PrmAnswersKept

\* One answer more.
LEMMA PrmAnswered ==
  ASSUME NEW kind, NEW v, NEW content, NEW floor,
         prmAnswers' = prmAnswers \cup {<<kind, v, content, floor>>},
         PrmSays(v, content)',
         kind = "get" => \A w \in floor : w <= v,
         kind = "rollback" /\ ~prmFull' => \A w \in floor : w < v
  PROVE  PrmAnswersKept
<1>1. PICK a : a = <<kind, v, content, floor>>
  OBVIOUS
<1>2. a[1] = kind /\ a[2] = v /\ a[3] = content /\ a[4] = floor
  BY <1>1
<1>3. PrmAnswerInv(a)'
  BY <1>2 DEF PrmAnswerInv, PrmSays
<1>. QED  BY <1>1, <1>3 DEF PrmAnswersKept

\* One version more.
PrmStoresAlso(v, content) ==
  /\ DOMAIN prmStore' = DOMAIN prmStore \cup {v} /\ prmStore'[v] = content
  /\ \A w \in DOMAIN prmStore : w # v => prmStore'[w] = prmStore[w]

LEMMA PrmStored ==
  ASSUME PrmInv, NEW v \in PrmVersions, NEW content \in Nat, v \notin DOMAIN prmStore,
         PrmStoresAlso(v, content)
  PROVE  PrmGrown /\ PrmSays(v, content)'
BY DEF PrmInv, PrmGrown, PrmSays, PrmStoresAlso

LEMMA PrmSaveKeeps ==
  ASSUME PrmInv, NEW c \in PrmCallers, NEW version \in PrmVersions, PrmSave(c, version)
  PROVE  PrmInv'
<1>1. PICK content : content = prmSaved + 1
  OBVIOUS
<1>2. PICK t : t = [PrmIdle EXCEPT !.at = "filling", !.version = version, !.content = content]
  OBVIOUS
<1>3. /\ PrmGo(c, t) /\ version \notin DOMAIN prmStore /\ prmSaved' = content
      /\ UNCHANGED <<prmCache, prmAnswers, prmFull>>
  BY <1>1, <1>2 DEF PrmSave, PrmBegins
<1>4. PrmStoresAlso(version, content)
  BY <1>1 DEF PrmSave, PrmStoresAlso
<1>5. content \in Nat /\ prmFull' \in BOOLEAN /\ (prmFull => prmFull') /\ prmSaved' \in Nat
  BY <1>1, <1>3 DEF PrmInv
<1>6. PrmGrown /\ PrmSays(version, content)'
  BY <1>3, <1>4, <1>5, PrmStored
<1>7. PrmCacheKept /\ PrmAnswersKept
  BY <1>3, <1>6, PrmSameCache, PrmSameAnswers
<1>8. t \in PrmTasks /\ t.at = "filling" /\ t.version = version /\ t.content = content
  BY <1>2, <1>5 DEF PrmTasks, PrmIdle
<1>9. PrmTaskInv(t)'
  BY <1>6, <1>8 DEF PrmTaskInv, PrmSays
<1>. QED  BY <1>3, <1>5, <1>6, <1>7, <1>8, <1>9, PrmStepKeeps

LEMMA PrmFillKeeps ==
  ASSUME PrmInv, NEW c \in PrmCallers, PrmFill(c)
  PROVE  PrmInv'
<1>1. PICK v, content, floor : v = prmTask[c].version /\ content = prmTask[c].content /\ floor = prmTask[c].floor
  OBVIOUS
<1>2. /\ prmTask[c].at \in {"filling", "answering"} /\ prmCache' = PrmPut(v, content) /\ PrmGo(c, PrmIdle)
      /\ UNCHANGED <<prmStore, prmSaved, prmFull>>
  BY <1>1 DEF PrmFill
<1>3. \/ UNCHANGED prmAnswers
      \/ prmTask[c].at = "answering" /\ prmAnswers' = prmAnswers \cup {<<"get", v, content, floor>>}
  BY <1>1 DEF PrmFill, PrmAnswer, PrmAt
<1>4. v \in PrmVersions /\ content \in Nat /\ PrmTaskInv(prmTask[c])
  BY <1>1 DEF PrmInv, PrmTasks
<1>5. PrmSays(v, content)' /\ (prmTask[c].at = "answering" => \A w \in floor : w <= v)
  BY <1>1, <1>2, <1>4 DEF PrmTaskInv, PrmSays
<1>6. PrmGrown /\ PrmCacheKept
  BY <1>2, <1>4, <1>5, PrmSameStore, PrmPutKeeps
<1>7. prmSaved' \in Nat /\ prmFull' \in BOOLEAN /\ (prmFull => prmFull')
  BY <1>2 DEF PrmInv
<1>8. PICK kind : kind = "get"
  OBVIOUS
<1>9. PrmAnswersKept
  BY <1>3, <1>5, <1>8, PrmSameAnswers, PrmAnswered
<1>. QED  BY <1>2, <1>6, <1>7, <1>9, PrmIdleFacts, PrmStepKeeps

LEMMA PrmGetKeeps ==
  ASSUME PrmInv, NEW c \in PrmCallers, NEW version \in PrmVersions, PrmGet(c, version)
  PROVE  PrmInv'
<1>1. PICK t : t = [PrmIdle EXCEPT !.at = "looking", !.version = version]
  OBVIOUS
<1>2. PrmGo(c, t) /\ prmSaved' = prmSaved + 1 /\ UNCHANGED <<prmStore, prmCache, prmAnswers, prmFull>>
  BY <1>1 DEF PrmGet, PrmBegins
<1>3. PrmGrown /\ PrmCacheKept /\ PrmAnswersKept
  BY <1>2, PrmSameStore, PrmSameCache, PrmSameAnswers
<1>4. t \in PrmTasks /\ t.at = "looking" /\ t.floor = {}
  BY <1>1, PrmIdleFacts DEF PrmTasks, PrmIdle
<1>5. PrmTaskInv(t)'
  BY <1>4 DEF PrmTaskInv
<1>6. prmSaved' \in Nat /\ prmFull' \in BOOLEAN /\ (prmFull => prmFull')
  BY <1>2 DEF PrmInv
<1>. QED  BY <1>2, <1>3, <1>4, <1>5, <1>6, PrmStepKeeps

LEMMA PrmLatestKeeps ==
  ASSUME PrmInv, NEW c \in PrmCallers, PrmLatest(c)
  PROVE  PrmInv'
<1>1. PICK S, latest : S = DOMAIN prmStore /\ latest = Max(S)
  OBVIOUS
<1>2. PICK t : t = [PrmIdle EXCEPT !.at = "looking", !.version = latest, !.floor = S]
  OBVIOUS
<1>3. /\ PrmGo(c, t) /\ prmSaved' = prmSaved + 1 /\ S # {}
      /\ UNCHANGED <<prmStore, prmCache, prmAnswers, prmFull>>
  BY <1>1, <1>2 DEF PrmLatest, PrmBegins
<1>4. PrmGrown /\ PrmCacheKept /\ PrmAnswersKept
  BY <1>3, PrmSameStore, PrmSameCache, PrmSameAnswers
<1>5. S \in SUBSET PrmVersions
  BY <1>1 DEF PrmInv
<1>6. latest \in S /\ \A v \in S : v <= latest
  BY <1>1, <1>3, <1>5, LargestIs, PrmConstants DEF PrmVersions
<1>7. t \in PrmTasks /\ t.at = "looking" /\ t.version = latest /\ t.floor = S
  BY <1>2, <1>5, <1>6, PrmIdleFacts DEF PrmTasks, PrmIdle
<1>8. PrmTaskInv(t)'
  BY <1>6, <1>7 DEF PrmTaskInv
<1>9. prmSaved' \in Nat /\ prmFull' \in BOOLEAN /\ (prmFull => prmFull')
  BY <1>3 DEF PrmInv
<1>. QED  BY <1>3, <1>4, <1>7, <1>8, <1>9, PrmStepKeeps

LEMMA PrmLookKeeps ==
  ASSUME PrmInv, NEW c \in PrmCallers, PrmLook(c)
  PROVE  PrmInv'
<1>1. prmTask[c] \in PrmTasks /\ PrmTaskInv(prmTask[c]) /\ prmTask[c].at = "looking"
      /\ UNCHANGED <<prmStore, prmSaved, prmFull>>
  BY DEF PrmInv, PrmLook, PrmAt
<1>2. PrmGrown
  BY <1>1, PrmSameStore
<1>3. prmSaved' \in Nat /\ prmFull' \in BOOLEAN /\ (prmFull => prmFull')
  BY <1>1 DEF PrmInv
<1>4. CASE \E i \in DOMAIN prmCache :
             /\ prmCache[i][1] = prmTask[c].version
             /\ prmCache' = PrmPut(prmCache[i][1], prmCache[i][2])
             /\ PrmAnswer(c, "get", prmCache[i][1], prmCache[i][2])
             /\ PrmGo(c, PrmIdle)
  <2>1. PICK i \in DOMAIN prmCache :
             /\ prmCache[i][1] = prmTask[c].version
             /\ prmCache' = PrmPut(prmCache[i][1], prmCache[i][2])
             /\ PrmAnswer(c, "get", prmCache[i][1], prmCache[i][2])
             /\ PrmGo(c, PrmIdle)
    BY <1>4
  <2>2. PICK v, content, floor : v = prmCache[i][1] /\ content = prmCache[i][2] /\ floor = prmTask[c].floor
    OBVIOUS
  <2>3. v \in PrmVersions /\ content \in Nat
    <3>1. prmCache \in Seq(PrmVersions \X Nat)
      BY DEF PrmInv
    <3>2. prmCache[i] \in PrmVersions \X Nat
      BY <3>1
    <3>. QED  BY <2>2, <3>2
  <2>4. PrmSays(v, content)'
    BY <1>1, <2>2 DEF PrmInv, PrmSays
  <2>5. \A w \in floor : w <= v
    BY <1>1, <2>1, <2>2 DEF PrmTaskInv
  <2>6. prmCache' = PrmPut(v, content) /\ prmAnswers' = prmAnswers \cup {<<"get", v, content, floor>>}
        /\ PrmGo(c, PrmIdle)
    BY <2>1, <2>2 DEF PrmAnswer
  <2>7. PrmCacheKept
    BY <1>2, <2>3, <2>4, <2>6, PrmPutKeeps
  <2>8. PICK kind : kind = "get"
    OBVIOUS
  <2>9. PrmAnswersKept
    BY <2>4, <2>5, <2>6, <2>8, PrmAnswered
  <2>. QED  BY <1>2, <1>3, <2>6, <2>7, <2>9, PrmIdleFacts, PrmStepKeeps
<1>5. CASE PrmGo(c, [prmTask[c] EXCEPT !.at = "reading"]) /\ UNCHANGED <<prmCache, prmAnswers>>
  <2>1. PICK t : t = [prmTask[c] EXCEPT !.at = "reading"]
    OBVIOUS
  <2>2. t \in PrmTasks /\ t.at = "reading" /\ t.version = prmTask[c].version /\ t.floor = prmTask[c].floor
    BY <1>1, <2>1 DEF PrmTasks
  <2>3. PrmTaskInv(t)'
    BY <1>1, <2>2 DEF PrmTaskInv
  <2>4. PrmCacheKept /\ PrmAnswersKept
    BY <1>2, <1>5, PrmSameCache, PrmSameAnswers
  <2>5. PrmGo(c, t)
    BY <1>5, <2>1
  <2>. QED  BY <1>2, <1>3, <2>2, <2>3, <2>4, <2>5, PrmStepKeeps
<1>. QED  BY <1>4, <1>5 DEF PrmLook

LEMMA PrmReadKeeps ==
  ASSUME PrmInv, NEW c \in PrmCallers, PrmRead(c)
  PROVE  PrmInv'
<1>1. prmTask[c] \in PrmTasks /\ PrmTaskInv(prmTask[c]) /\ prmTask[c].at = "reading"
      /\ UNCHANGED <<prmStore, prmCache, prmAnswers, prmSaved, prmFull>>
  BY DEF PrmInv, PrmRead, PrmAt
<1>2. PrmGrown /\ PrmCacheKept /\ PrmAnswersKept
  BY <1>1, PrmSameStore, PrmSameCache, PrmSameAnswers
<1>3. prmSaved' \in Nat /\ prmFull' \in BOOLEAN /\ (prmFull => prmFull')
  BY <1>1 DEF PrmInv
<1>4. \E t \in PrmTasks : PrmGo(c, t) /\ PrmTaskInv(t)'
  <2>1. CASE prmTask[c].version \in DOMAIN prmStore
    <3>1. PICK t : t = [prmTask[c] EXCEPT !.at = "answering", !.content = prmStore[prmTask[c].version]]
      OBVIOUS
    <3>2. prmStore[prmTask[c].version] \in Nat
      BY <2>1 DEF PrmInv
    <3>3. t \in PrmTasks /\ t.at = "answering" /\ t.version = prmTask[c].version /\ t.floor = prmTask[c].floor
          /\ t.content = prmStore[prmTask[c].version]
      BY <1>1, <3>1, <3>2 DEF PrmTasks
    <3>4. PrmTaskInv(t)'
      BY <1>1, <2>1, <3>3 DEF PrmTaskInv, PrmSays
    <3>5. PrmGo(c, t)
      BY <2>1, <3>1 DEF PrmRead
    <3>. QED  BY <3>3, <3>4, <3>5
  <2>2. CASE prmTask[c].version \notin DOMAIN prmStore
    <3>1. PrmGo(c, PrmIdle)
      BY <2>2 DEF PrmRead
    <3>. QED  BY <3>1, PrmIdleFacts
  <2>. QED  BY <2>1, <2>2
<1>. QED  BY <1>1, <1>2, <1>3, <1>4, PrmStepKeeps

LEMMA PrmRollbackKeeps ==
  ASSUME PrmInv, NEW c \in PrmCallers, NEW version \in PrmVersions, PrmRollback(c, version)
  PROVE  PrmInv'
<1>1. PICK t : t = [at |-> "target", version |-> version, content |-> prmStore[version], floor |-> DOMAIN prmStore]
  OBVIOUS
<1>2. PrmGo(c, t) /\ prmSaved' = prmSaved + 1 /\ version \in DOMAIN prmStore
      /\ UNCHANGED <<prmStore, prmCache, prmAnswers, prmFull>>
  BY <1>1 DEF PrmRollback, PrmBegins
<1>3. PrmGrown /\ PrmCacheKept /\ PrmAnswersKept
  BY <1>2, PrmSameStore, PrmSameCache, PrmSameAnswers
<1>4. prmSaved' \in Nat /\ prmFull' \in BOOLEAN /\ (prmFull => prmFull')
  BY <1>2 DEF PrmInv
<1>5. t \in PrmTasks /\ PrmTaskInv(t)'
  BY <1>1, <1>2 DEF PrmInv, PrmTasks, PrmTaskInv, PrmSays
<1>. QED  BY <1>2, <1>3, <1>4, <1>5, PrmStepKeeps

LEMMA PrmNumberKeeps ==
  ASSUME PrmInv, NEW c \in PrmCallers, PrmNumber(c)
  PROVE  PrmInv'
<1> DEFINE latest == Max(DOMAIN prmStore)
<1>1. PICK t : t = [prmTask[c] EXCEPT !.at = "numbered", !.version = (latest + 1) % (PrmTop + 1)]
  OBVIOUS
<1>2. /\ PrmGo(c, t) /\ prmTask[c] \in PrmTasks /\ PrmTaskInv(prmTask[c]) /\ prmTask[c].at = "target"
      /\ prmFull' = (prmFull \/ PrmTop \in DOMAIN prmStore)
      /\ UNCHANGED <<prmStore, prmCache, prmAnswers, prmSaved>>
  BY <1>1 DEF PrmInv, PrmNumber, PrmAt
<1>3. PrmGrown /\ PrmCacheKept /\ PrmAnswersKept
  BY <1>2, PrmSameStore, PrmSameCache, PrmSameAnswers
<1>4. prmSaved' \in Nat /\ prmFull' \in BOOLEAN /\ (prmFull => prmFull')
  BY <1>2 DEF PrmInv
<1>5. latest \in DOMAIN prmStore /\ \A v \in DOMAIN prmStore : v <= latest
  <2>1. DOMAIN prmStore # {} /\ DOMAIN prmStore \in SUBSET PrmVersions
    BY <1>2 DEF PrmInv, PrmTaskInv, PrmSays
  <2>2. PICK S : S = DOMAIN prmStore
    OBVIOUS
  <2>3. Max(S) \in S /\ \A v \in S : v <= Max(S)
    BY <2>1, <2>2, LargestIs, PrmConstants DEF PrmVersions
  <2>. QED  BY <2>2, <2>3
<1>6. PrmTop \in Nat /\ latest \in 0 .. PrmTop /\ \A v \in DOMAIN prmStore : v \in 0 .. PrmTop
  BY <1>5, PrmConstants DEF PrmInv, PrmVersions
<1>. HIDE DEF latest
<1>7. PICK next : next = (latest + 1) % (PrmTop + 1)
  OBVIOUS
<1>8. next \in PrmVersions /\ (latest # PrmTop => next = latest + 1)
  BY <1>6, <1>7 DEF PrmVersions
<1>9. t \in PrmTasks /\ t.at = "numbered" /\ t.floor = prmTask[c].floor /\ t.version = next
  BY <1>1, <1>2, <1>7, <1>8 DEF PrmTasks
<1>10. ~prmFull' => \A v \in t.floor : v < t.version
  <2>1. SUFFICES ASSUME ~prmFull', NEW v \in t.floor PROVE v < next
    BY <1>9
  <2>2. v \in DOMAIN prmStore
    BY <1>2, <1>9 DEF PrmTaskInv
  <2>3. latest # PrmTop
    BY <1>2, <1>5, <2>1
  <2>. QED  BY <1>5, <1>6, <1>8, <2>2, <2>3
<1>11. PrmTaskInv(t)'
  BY <1>9, <1>10 DEF PrmTaskInv
<1>. QED  BY <1>2, <1>3, <1>4, <1>9, <1>11, PrmStepKeeps

LEMMA PrmRestoreKeeps ==
  ASSUME PrmInv, NEW c \in PrmCallers, PrmRestore(c)
  PROVE  PrmInv'
<1>0. PICK v, content, floor : v = prmTask[c].version /\ content = prmTask[c].content /\ floor = prmTask[c].floor
  OBVIOUS
<1>1. /\ prmTask[c] \in PrmTasks /\ PrmTaskInv(prmTask[c]) /\ prmTask[c].at = "numbered"
      /\ PrmGo(c, PrmIdle) /\ UNCHANGED <<prmCache, prmSaved, prmFull>>
  BY DEF PrmInv, PrmRestore, PrmAt
<1>2. prmSaved' \in Nat /\ prmFull' \in BOOLEAN /\ (prmFull => prmFull')
  BY <1>1 DEF PrmInv
<1>3. CASE v \in DOMAIN prmStore
  <2>1. UNCHANGED <<prmStore, prmAnswers>>
    BY <1>0, <1>3 DEF PrmRestore
  <2>2. PrmGrown /\ PrmCacheKept /\ PrmAnswersKept
    BY <1>1, <2>1, PrmSameStore, PrmSameCache, PrmSameAnswers
  <2>. QED  BY <1>1, <1>2, <2>1, <2>2, PrmIdleFacts, PrmStepKeeps
<1>4. CASE v \notin DOMAIN prmStore
  <2>1. PrmStoresAlso(v, content) /\ prmAnswers' = prmAnswers \cup {<<"rollback", v, content, floor>>}
    BY <1>0, <1>4 DEF PrmRestore, PrmAnswer, PrmStoresAlso
  <2>2. v \in PrmVersions /\ content \in Nat /\ (~prmFull => \A w \in floor : w < v)
    BY <1>0, <1>1 DEF PrmTasks, PrmTaskInv
  <2>3. PrmGrown /\ PrmSays(v, content)'
    BY <1>4, <2>1, <2>2, PrmStored
  <2>4. PrmCacheKept
    BY <1>1, <2>3, PrmSameCache
  <2>5. PICK kind : kind = "rollback"
    OBVIOUS
  <2>6. PrmAnswersKept
    BY <1>1, <2>1, <2>2, <2>3, <2>5, PrmAnswered
  <2>. QED  BY <1>1, <1>2, <2>3, <2>4, <2>6, PrmIdleFacts, PrmStepKeeps
<1>. QED  BY <1>3, <1>4

LEMMA PrmClearKeeps ==
  ASSUME PrmInv, NEW c \in PrmCallers, PrmClear(c)
  PROVE  PrmInv'
<1>1. prmCache' = << >> /\ prmSaved' = prmSaved + 1
      /\ UNCHANGED <<prmStore, prmTask, prmAnswers, prmFull>>
  BY DEF PrmClear, PrmBegins
<1>2. << >> \in Seq(PrmVersions \X Nat) /\ Len(<< >>) <= PrmCapacity /\ DOMAIN << >> = {}
  BY PrmConstants
<1>. QED  BY <1>1, <1>2 DEF PrmInv, PrmTaskInv, PrmAnswerInv, PrmSays

LEMMA PrmDroppedKeeps ==
  ASSUME PrmInv, NEW c \in PrmCallers, PrmDropped(c)
  PROVE  PrmInv'
<1>1. PrmGo(c, PrmIdle) /\ UNCHANGED <<prmStore, prmCache, prmAnswers, prmSaved, prmFull>>
  BY DEF PrmDropped
<1>2. PrmGrown /\ PrmCacheKept /\ PrmAnswersKept
  BY <1>1, PrmSameStore, PrmSameCache, PrmSameAnswers
<1>3. prmSaved' \in Nat /\ prmFull' \in BOOLEAN /\ (prmFull => prmFull')
  BY <1>1 DEF PrmInv
<1>. QED  BY <1>1, <1>2, <1>3, PrmIdleFacts, PrmStepKeeps

LEMMA PrmKeeps == PrmInv /\ [PrmNext]_prmVars => PrmInv'
<1> SUFFICES ASSUME PrmInv, [PrmNext]_prmVars PROVE PrmInv'
  OBVIOUS
<1>1. CASE UNCHANGED prmVars
  BY <1>1 DEF prmVars, PrmInv, PrmTaskInv, PrmAnswerInv, PrmSays
<1>2. ASSUME NEW c \in PrmCallers, NEW v \in PrmVersions, PrmSave(c, v) \/ PrmGet(c, v) \/ PrmRollback(c, v)
      PROVE  PrmInv'
  BY <1>2, PrmSaveKeeps, PrmGetKeeps, PrmRollbackKeeps
<1>3. ASSUME NEW c \in PrmCallers,
             \/ PrmFill(c) \/ PrmLatest(c) \/ PrmLook(c) \/ PrmRead(c)
             \/ PrmNumber(c) \/ PrmRestore(c) \/ PrmClear(c) \/ PrmDropped(c)
      PROVE  PrmInv'
  BY <1>3, PrmFillKeeps, PrmLatestKeeps, PrmLookKeeps, PrmReadKeeps,
     PrmNumberKeeps, PrmRestoreKeeps, PrmClearKeeps, PrmDroppedKeeps
<1>. QED  BY <1>1, <1>2, <1>3 DEF PrmNext

LEMMA PrmStarts == PrmInit => PrmInv
<1> SUFFICES ASSUME PrmInit PROVE PrmInv
  OBVIOUS
<1>1. prmStore = << >> /\ prmCache = << >> /\ prmAnswers = {} /\ prmSaved = 0 /\ prmFull = FALSE
      /\ prmTask = [c \in PrmCallers |-> PrmIdle]
  BY DEF PrmInit
<1>2. << >> \in Seq(PrmVersions \X Nat) /\ Len(<< >>) <= PrmCapacity /\ DOMAIN << >> = {}
  BY PrmConstants
<1>. QED  BY <1>1, <1>2, PrmIdleFacts DEF PrmInv

\* A version of a prompt has one content for ever, in the store, in the cache and
\* in what any call has answered, and what a call made of the latest is not older
\* than what was there when it began (PromptManager), for any number of tasks,
\* versions and calls and any size of the cache.
THEOREM PromptsAreKept == PrmSpec => []PromptsKept
<1>1. PrmInv => PromptsKept
  BY DEF PrmInv, PromptsKept, PrmAnswerInv, PrmSays
<1>. QED  BY <1>1, PrmStarts, PrmKeeps, PTL DEF PrmSpec

-----------------------------------------------------------------------------
(***************************************************************************)
(* The tool.  Calls that change it one after the other leave an entry and  *)
(* its handler together; a call that has found an entry is younger than    *)
(* none of the handlers that may come.                                     *)
(***************************************************************************)

ToolTasks ==
  [at : {"idle", "checked", "inserted", "registered", "removed", "unregistered",
         "found", "handling", "handled", "called"},
   given : Nat, handler : Nat, failed : BOOLEAN]

ToolChanges(t) == t.at \in {"checked", "inserted", "removed"}

\* What holds of a task as long as no two have changed the tool at a time.
ToolTaskInv(t) ==
  /\ t.at = "checked"  => toolEntry.given = 0 /\ toolHandler = 0
  /\ t.at = "inserted" => toolEntry.given = t.given /\ toolHandler = 0
  /\ t.at = "removed"  => toolEntry.given = 0 /\ toolHandler = t.given
  /\ t.at \in {"found", "handling"} =>
       /\ toolHandler = 0 \/ toolHandler >= t.given
       /\ \A d \in ToolCallers :
            /\ ToolAt(d, "checked")  => t.given < toolTask[d].given
            /\ ToolAt(d, "inserted") => t.given <= toolTask[d].given
  /\ t.at = "handling" =>
       /\ t.handler >= t.given
       /\ toolEntry.given = t.given => t.handler = t.given

ToolThose(place) == {c \in ToolCallers : ToolAt(c, place)}
ToolTaken     == {c \in ToolCallers : ToolAt(c, "removed") /\ toolTask[c].given # 0}

\* The tools that are there, by the metrics and in the map.
ToolCounts ==
  toolMetrics.registered + Cardinality(ToolThose("registered")) + Cardinality(ToolThose("inserted"))
    = toolMetrics.unregistered + Cardinality(ToolThose("unregistered")) + Cardinality(ToolTaken)
      + (IF toolEntry.given = 0 THEN 0 ELSE 1)

ToolTypes ==
  /\ toolTask \in [ToolCallers -> ToolTasks]
  /\ toolEntry \in [given : Nat, status : ToolStatuses, calls : Nat] /\ toolHandler \in Nat
  /\ toolMetrics \in [registered : Nat, unregistered : Nat, calls : Nat, errors : Nat]
  /\ toolGiven \in Nat /\ toolOverlap \in BOOLEAN /\ toolUncounted \in BOOLEAN
  /\ toolEntry.given = 0 <=> toolEntry = ToolNone
  /\ toolEntry.given <= toolGiven
  /\ \A c \in ToolCallers :
       /\ toolTask[c].given <= toolGiven
       /\ toolTask[c].at \in {"checked", "inserted", "found", "handling"} => toolTask[c].given # 0

ToolOrderly ==
  /\ \A c, d \in ToolCallers : ToolChanges(toolTask[c]) /\ ToolChanges(toolTask[d]) => c = d
  /\ (\A c \in ToolCallers : ~ToolChanges(toolTask[c])) => toolHandler = toolEntry.given
  /\ \A c \in ToolCallers : ToolTaskInv(toolTask[c])

ToolInv == ToolTypes /\ (~toolOverlap => ToolOrderly /\ (~toolUncounted => ToolCounts))

ToolOne(b) == IF b THEN 1 ELSE 0

\* Two sets that differ in c at most.
LEMMA CountsDiffer ==
  ASSUME NEW S, IsFiniteSet(S), NEW A \in SUBSET S, NEW B \in SUBSET S, NEW c \in S, A \ {c} = B \ {c}
  PROVE  /\ Cardinality(A) \in Nat /\ Cardinality(B) \in Nat
         /\ Cardinality(B) + ToolOne(c \in A) = Cardinality(A) + ToolOne(c \in B)
<1>1. IsFiniteSet(A) /\ IsFiniteSet(B) /\ Cardinality(A) \in Nat /\ Cardinality(B) \in Nat
  BY FS_Subset, FS_CardinalityType
<1>2. PICK D : D = A \ {c}
  OBVIOUS
<1>3. ASSUME NEW X \in SUBSET S, IsFiniteSet(X), X \ {c} = D
      PROVE  Cardinality(X) = Cardinality(D) + ToolOne(c \in X)
  <2>1. Cardinality(X) \in Nat
    BY <1>3, FS_CardinalityType
  <2>2. CASE c \in X
    <3>1. Cardinality(D) = Cardinality(X) - 1
      BY <1>3, <2>2, FS_RemoveElement
    <3>. QED  BY <2>1, <2>2, <3>1 DEF ToolOne
  <2>3. CASE c \notin X
    <3>1. X = D
      BY <1>3, <2>3
    <3>. QED  BY <2>1, <2>3, <3>1 DEF ToolOne
  <2>. QED  BY <2>2, <2>3
<1>4. Cardinality(A) = Cardinality(D) + ToolOne(c \in A) /\ Cardinality(B) = Cardinality(D) + ToolOne(c \in B)
  BY <1>1, <1>2, <1>3
<1>5. ToolOne(c \in A) \in Nat /\ ToolOne(c \in B) \in Nat /\ Cardinality(D) \in Nat
  <2>1. IsFiniteSet(D)
    BY <1>1, <1>2, FS_Subset
  <2>. QED  BY <2>1, FS_CardinalityType DEF ToolOne
<1>. QED  BY <1>1, <1>4, <1>5

\* How a step of c counts.
LEMMA ToolMoves ==
  ASSUME ToolTypes, NEW c \in ToolCallers, NEW t \in ToolTasks, ToolGo(c, t)
  PROVE  /\ \A place : /\ Cardinality(ToolThose(place)) \in Nat /\ Cardinality(ToolThose(place)') \in Nat
                       /\ Cardinality(ToolThose(place)') + ToolOne(toolTask[c].at = place)
                            = Cardinality(ToolThose(place)) + ToolOne(t.at = place)
         /\ Cardinality(ToolTaken) \in Nat /\ Cardinality(ToolTaken') \in Nat
         /\ Cardinality(ToolTaken') + ToolOne(toolTask[c].at = "removed" /\ toolTask[c].given # 0)
              = Cardinality(ToolTaken) + ToolOne(t.at = "removed" /\ t.given # 0)
<1>1. toolTask' = [toolTask EXCEPT ![c] = t] /\ DOMAIN toolTask = ToolCallers /\ IsFiniteSet(ToolCallers)
  BY ToolConstants DEF ToolTypes, ToolGo
<1>2. toolTask'[c] = t /\ \A d \in ToolCallers \ {c} : toolTask'[d] = toolTask[d]
  BY <1>1
<1>3. ASSUME NEW place
      PROVE  /\ Cardinality(ToolThose(place)) \in Nat /\ Cardinality(ToolThose(place)') \in Nat
             /\ Cardinality(ToolThose(place)') + ToolOne(toolTask[c].at = place)
                  = Cardinality(ToolThose(place)) + ToolOne(t.at = place)
  <2>1. PICK A, B : A = ToolThose(place) /\ B = ToolThose(place)'
    OBVIOUS
  <2>2. A \in SUBSET ToolCallers /\ B \in SUBSET ToolCallers /\ A \ {c} = B \ {c}
    BY <1>2, <2>1 DEF ToolThose, ToolAt
  <2>3. (c \in A <=> toolTask[c].at = place) /\ (c \in B <=> t.at = place)
    BY <1>2, <2>1 DEF ToolThose, ToolAt
  <2>4. /\ Cardinality(A) \in Nat /\ Cardinality(B) \in Nat
        /\ Cardinality(B) + ToolOne(c \in A) = Cardinality(A) + ToolOne(c \in B)
    BY <1>1, <2>2, CountsDiffer
  <2>5. ToolOne(c \in A) = ToolOne(toolTask[c].at = place) /\ ToolOne(c \in B) = ToolOne(t.at = place)
    BY <2>3 DEF ToolOne
  <2>. QED  BY <2>1, <2>4, <2>5
<1>4. PICK A, B : A = ToolTaken /\ B = ToolTaken'
  OBVIOUS
<1>5. A \in SUBSET ToolCallers /\ B \in SUBSET ToolCallers /\ A \ {c} = B \ {c}
  BY <1>2, <1>4 DEF ToolTaken, ToolAt
<1>6. (c \in A <=> toolTask[c].at = "removed" /\ toolTask[c].given # 0)
      /\ (c \in B <=> t.at = "removed" /\ t.given # 0)
  BY <1>2, <1>4 DEF ToolTaken, ToolAt
<1>7. /\ Cardinality(A) \in Nat /\ Cardinality(B) \in Nat
      /\ Cardinality(B) + ToolOne(c \in A) = Cardinality(A) + ToolOne(c \in B)
  BY <1>1, <1>5, CountsDiffer
<1>8. ToolOne(c \in A) = ToolOne(toolTask[c].at = "removed" /\ toolTask[c].given # 0)
      /\ ToolOne(c \in B) = ToolOne(t.at = "removed" /\ t.given # 0)
  BY <1>6 DEF ToolOne
<1>. QED  BY <1>3, <1>4, <1>7, <1>8

\* What a step of one task has to see to.
LEMMA ToolTypesKeep ==
  ASSUME ToolTypes, NEW c \in ToolCallers, NEW t \in ToolTasks, ToolGo(c, t),
         toolEntry' \in [given : Nat, status : ToolStatuses, calls : Nat],
         toolHandler' \in Nat,
         toolMetrics' \in [registered : Nat, unregistered : Nat, calls : Nat, errors : Nat],
         toolGiven' \in Nat, toolGiven <= toolGiven', toolOverlap' \in BOOLEAN, toolUncounted' \in BOOLEAN,
         toolEntry'.given = 0 <=> toolEntry' = ToolNone, toolEntry'.given <= toolGiven',
         t.given <= toolGiven', t.at \in {"checked", "inserted", "found", "handling"} => t.given # 0
  PROVE  ToolTypes'
<1>1. toolTask' = [toolTask EXCEPT ![c] = t] /\ toolTask' \in [ToolCallers -> ToolTasks]
  BY DEF ToolTypes, ToolGo
<1>2. ASSUME NEW d \in ToolCallers
      PROVE  /\ toolTask'[d].given <= toolGiven'
             /\ toolTask'[d].at \in {"checked", "inserted", "found", "handling"} => toolTask'[d].given # 0
  <2>1. CASE d = c
    <3>1. toolTask'[d] = t
      BY <1>1, <2>1 DEF ToolTypes
    <3>. QED  BY <3>1
  <2>2. CASE d # c
    <3>1. toolTask'[d] = toolTask[d] /\ toolTask[d] \in ToolTasks /\ toolTask[d].given <= toolGiven /\ toolGiven \in Nat
      BY <1>1, <2>2 DEF ToolTypes
    <3>2. toolTask[d].given \in Nat
      BY <3>1 DEF ToolTasks
    <3>. QED  BY <3>1, <3>2 DEF ToolTypes
  <2>. QED  BY <2>1, <2>2
<1>. QED  BY <1>1, <1>2 DEF ToolTypes, ToolNone

\* A step of a call that does not change the tool.
LEMMA ToolQuiet ==
  ASSUME ToolTypes, ToolOrderly, NEW c \in ToolCallers, NEW t \in ToolTasks, ToolGo(c, t),
         toolEntry'.given = toolEntry.given, toolHandler' = toolHandler,
         ~ToolChanges(toolTask[c]), ~ToolChanges(t), ToolTaskInv(t)
  PROVE  ToolOrderly'
<1>1. /\ toolTask'[c] = t /\ \A d \in ToolCallers : d # c => toolTask'[d] = toolTask[d]
      /\ toolTask \in [ToolCallers -> ToolTasks]
  BY DEF ToolTypes, ToolGo
<1>2. \A d \in ToolCallers : ToolChanges(toolTask[d])' <=> ToolChanges(toolTask[d])
  BY <1>1 DEF ToolChanges
<1>3. \A d \in ToolCallers : ToolChanges(toolTask[d]) => toolTask'[d] = toolTask[d]
  BY <1>1
<1>4. ASSUME NEW u, ToolTaskInv(u)
      PROVE  ToolTaskInv(u)'
  <2>1. \A d \in ToolCallers :
          /\ ToolAt(d, "checked")' => ToolAt(d, "checked") /\ toolTask'[d] = toolTask[d]
          /\ ToolAt(d, "inserted")' => ToolAt(d, "inserted") /\ toolTask'[d] = toolTask[d]
    BY <1>2, <1>3 DEF ToolChanges, ToolAt
  <2>. QED  BY <1>4, <2>1 DEF ToolTaskInv
<1>5. ASSUME NEW d \in ToolCallers PROVE ToolTaskInv(toolTask[d])'
  <2>1. PICK u : u = toolTask'[d]
    OBVIOUS
  <2>2. ToolTaskInv(u)
    BY <1>1, <2>1 DEF ToolOrderly
  <2>3. ToolTaskInv(u)'
    BY <1>4, <2>2
  <2>. QED  BY <2>1, <2>3 DEF ToolTaskInv
<1>6. /\ \A d, e \in ToolCallers : ToolChanges(toolTask[d])' /\ ToolChanges(toolTask[e])' => d = e
      /\ (\A d \in ToolCallers : ~ToolChanges(toolTask[d])') => toolHandler' = toolEntry'.given
  BY <1>2 DEF ToolOrderly
<1>. QED  BY <1>5, <1>6 DEF ToolOrderly

\* What is known of a task.
LEMMA ToolMine ==
  ASSUME ToolInv, NEW c \in ToolCallers
  PROVE  /\ toolTask[c] \in ToolTasks
         /\ toolEntry \in [given : Nat, status : ToolStatuses, calls : Nat] /\ toolHandler \in Nat
         /\ toolMetrics \in [registered : Nat, unregistered : Nat, calls : Nat, errors : Nat]
         /\ toolGiven \in Nat /\ toolOverlap \in BOOLEAN /\ toolUncounted \in BOOLEAN
         /\ toolEntry.given = 0 <=> toolEntry = ToolNone
         /\ toolEntry.given <= toolGiven /\ toolTask[c].given <= toolGiven
         /\ toolTask[c].at \in {"checked", "inserted", "found", "handling"} => toolTask[c].given # 0
         /\ ToolTypes
         /\ ~toolOverlap => ToolOrderly /\ ToolTaskInv(toolTask[c])
         /\ ~toolOverlap /\ ~toolUncounted => ToolCounts
BY DEF ToolInv, ToolTypes, ToolOrderly

LEMMA ToolIdleFacts ==
  /\ ToolIdle \in ToolTasks /\ ToolIdle.at = "idle" /\ ToolIdle.given = 0
  /\ ~ToolChanges(ToolIdle) /\ ToolTaskInv(ToolIdle)
  /\ \A place, given : /\ [ToolIdle EXCEPT !.at = place, !.given = given].at = place
                       /\ [ToolIdle EXCEPT !.at = place, !.given = given].given = given
BY DEF ToolIdle, ToolTasks, ToolChanges, ToolTaskInv

\* The calls that do not change the tool ...
LEMMA ToolQuietKeeps ==
  ASSUME ToolInv, NEW c \in ToolCallers, NEW t \in ToolTasks, ToolGo(c, t),
         toolEntry' \in [given : Nat, status : ToolStatuses, calls : Nat],
         toolEntry'.given = toolEntry.given, toolEntry'.given = 0 <=> toolEntry' = ToolNone,
         UNCHANGED <<toolHandler, toolGiven, toolOverlap>>,
         toolMetrics' \in [registered : Nat, unregistered : Nat, calls : Nat, errors : Nat],
         toolUncounted' \in BOOLEAN, toolUncounted => toolUncounted',
         ~ToolChanges(toolTask[c]), ~ToolChanges(t),
         t.given \in {0, toolTask[c].given, toolEntry.given},
         t.at \in {"found", "handling"} => t.given # 0,
         ~toolOverlap => ToolTaskInv(t),
         ~toolUncounted' =>
           toolMetrics'.registered + ToolOne(t.at = "registered") + toolMetrics.unregistered + ToolOne(toolTask[c].at = "unregistered")
             = toolMetrics.registered + ToolOne(toolTask[c].at = "registered") + toolMetrics'.unregistered + ToolOne(t.at = "unregistered")
  PROVE  ToolInv'
<1>1. ToolTypes'
  <2>1. toolHandler' \in Nat /\ toolGiven' \in Nat /\ toolGiven <= toolGiven' /\ toolOverlap' \in BOOLEAN
        /\ toolEntry'.given <= toolGiven' /\ t.given <= toolGiven'
        /\ (t.at \in {"checked", "inserted", "found", "handling"} => t.given # 0)
    BY ToolMine DEF ToolChanges
  <2>. QED  BY <2>1, ToolMine, ToolTypesKeep
<1>2. ASSUME ~toolOverlap' PROVE ToolOrderly'
  BY <1>2, ToolMine, ToolQuiet
<1>3. ASSUME ~toolOverlap', ~toolUncounted' PROVE ToolCounts'
  <2>1. ToolCounts /\ ToolTypes
    BY <1>3, ToolMine
  <2> DEFINE reg == Cardinality(ToolThose("registered"))
             ins == Cardinality(ToolThose("inserted"))
             unr == Cardinality(ToolThose("unregistered"))
             tak == Cardinality(ToolTaken)
  <2>2. /\ reg \in Nat /\ reg' \in Nat
        /\ reg' + ToolOne(toolTask[c].at = "registered") = reg + ToolOne(t.at = "registered")
    BY <2>1, ToolMoves
  <2>3. /\ unr \in Nat /\ unr' \in Nat
        /\ unr' + ToolOne(toolTask[c].at = "unregistered") = unr + ToolOne(t.at = "unregistered")
    BY <2>1, ToolMoves
  <2>4. ins' = ins /\ ins \in Nat
    <3>1. /\ ins \in Nat /\ ins' \in Nat
          /\ ins' + ToolOne(toolTask[c].at = "inserted") = ins + ToolOne(t.at = "inserted")
      BY <2>1, ToolMoves
    <3>2. ToolOne(toolTask[c].at = "inserted") = 0 /\ ToolOne(t.at = "inserted") = 0
      BY DEF ToolOne, ToolChanges
    <3>. HIDE DEF ins
    <3>. QED  BY <3>1, <3>2
  <2>5. tak' = tak /\ tak \in Nat
    <3>1. /\ tak \in Nat /\ tak' \in Nat
          /\ tak' + ToolOne(toolTask[c].at = "removed" /\ toolTask[c].given # 0)
               = tak + ToolOne(t.at = "removed" /\ t.given # 0)
      BY <2>1, ToolMoves
    <3>2. ToolOne(toolTask[c].at = "removed" /\ toolTask[c].given # 0) = 0
          /\ ToolOne(t.at = "removed" /\ t.given # 0) = 0
      BY DEF ToolOne, ToolChanges
    <3>. HIDE DEF tak
    <3>. QED  BY <3>1, <3>2
  <2> DEFINE there == IF toolEntry.given = 0 THEN 0 ELSE 1
  <2>6. toolMetrics.registered + reg + ins = toolMetrics.unregistered + unr + tak + there
    BY <2>1 DEF ToolCounts
  <2>7. there' = there /\ there \in Nat
    OBVIOUS
  <2>8. \A b : ToolOne(b) \in {0, 1}
    BY DEF ToolOne
  <2>9. /\ toolMetrics.registered \in Nat /\ toolMetrics.unregistered \in Nat
        /\ toolMetrics'.registered \in Nat /\ toolMetrics'.unregistered \in Nat
    BY ToolMine
  <2>10. PICK a1, a2, b1, b2 :
           /\ a1 = ToolOne(toolTask[c].at = "registered") /\ a2 = ToolOne(t.at = "registered")
           /\ b1 = ToolOne(toolTask[c].at = "unregistered") /\ b2 = ToolOne(t.at = "unregistered")
    OBVIOUS
  <2>11. a1 \in Nat /\ a2 \in Nat /\ b1 \in Nat /\ b2 \in Nat
    BY <2>8, <2>10
  <2>12. toolMetrics'.registered + a2 + toolMetrics.unregistered + b1
           = toolMetrics.registered + a1 + toolMetrics'.unregistered + b2
    BY <1>3, <2>10
  <2>13. reg' + a1 = reg + a2 /\ unr' + b1 = unr + b2
    BY <2>2, <2>3, <2>10
  <2>14. toolMetrics'.registered + reg' + ins' = toolMetrics'.unregistered + unr' + tak' + there'
    <3>. HIDE DEF reg, ins, unr, tak, there
    <3>1. PICK r, r2, u, u2, i, k, h, g, g2, n, n2 :
            /\ r = reg /\ r2 = reg' /\ u = unr /\ u2 = unr' /\ i = ins /\ k = tak /\ h = there
            /\ g = toolMetrics.registered /\ g2 = toolMetrics'.registered
            /\ n = toolMetrics.unregistered /\ n2 = toolMetrics'.unregistered
      OBVIOUS
    <3>2. /\ r \in Nat /\ r2 \in Nat /\ u \in Nat /\ u2 \in Nat /\ i \in Nat /\ k \in Nat /\ h \in Nat
          /\ g \in Nat /\ g2 \in Nat /\ n \in Nat /\ n2 \in Nat
      BY ONLY <3>1, <2>2, <2>3, <2>4, <2>5, <2>7, <2>9
    <3>3. g + r + i = n + u + k + h
      BY ONLY <3>1, <2>6
    <3>4. g2 + a2 + n + b1 = g + a1 + n2 + b2
      BY ONLY <3>1, <2>12
    <3>5. r2 + a1 = r + a2 /\ u2 + b1 = u + b2
      BY ONLY <3>1, <2>13
    <3>6. g2 + r2 + i = n2 + u2 + k + h
      BY ONLY <3>2, <3>3, <3>4, <3>5, <2>11
    <3>7. ins' = i /\ tak' = k /\ there' = h
      BY ONLY <3>1, <2>4, <2>5, <2>7
    <3>. QED  BY ONLY <3>1, <3>6, <3>7
  <2>. QED  BY <2>14 DEF ToolCounts
<1>. QED  BY <1>1, <1>2, <1>3 DEF ToolInv

LEMMA ToolFindKeeps ==
  ASSUME ToolInv, NEW c \in ToolCallers, ToolFind(c)
  PROVE  ToolInv'
<1>1. /\ toolTask[c].at = "idle" /\ UNCHANGED <<toolEntry, toolHandler, toolMetrics, toolGiven, toolOverlap, toolUncounted>>
  BY DEF ToolFind, ToolAt, toolMaps
<1>2. CASE toolEntry # ToolNone /\ toolEntry.status # "disabled"
  <2>1. PICK t : t = [ToolIdle EXCEPT !.at = "found", !.given = toolEntry.given]
    OBVIOUS
  <2>2. ToolGo(c, t)
    BY <1>2, <2>1 DEF ToolFind
  <2>3. t \in ToolTasks /\ t.at = "found" /\ t.given = toolEntry.given /\ t.given # 0
    BY <1>2, <2>1, ToolMine DEF ToolIdle, ToolTasks
  <2>4. ASSUME ~toolOverlap PROVE ToolTaskInv(t)
    <3>1. ToolOrderly /\ toolEntry.given \in Nat /\ toolHandler \in Nat
      BY <2>4, ToolMine
    <3>2. toolHandler = 0 \/ toolHandler >= t.given
      <4>1. CASE \A d \in ToolCallers : ~ToolChanges(toolTask[d])
        BY <2>3, <3>1, <4>1 DEF ToolOrderly
      <4>2. CASE \E d \in ToolCallers : ToolChanges(toolTask[d])
        <5>1. PICK d \in ToolCallers : ToolChanges(toolTask[d])
          BY <4>2
        <5>. QED  BY <2>3, <3>1, <5>1 DEF ToolOrderly, ToolTaskInv, ToolChanges
      <4>. QED  BY <4>1, <4>2
    <3>3. ASSUME NEW d \in ToolCallers
          PROVE  /\ ToolAt(d, "checked") => t.given < toolTask[d].given
                 /\ ToolAt(d, "inserted") => t.given <= toolTask[d].given
      BY <2>3, <3>1 DEF ToolOrderly, ToolTaskInv, ToolAt
    <3>. QED  BY <2>3, <3>2, <3>3 DEF ToolTaskInv
  <2>5. ~ToolChanges(t) /\ ~ToolChanges(toolTask[c])
    BY <1>1, <2>3 DEF ToolChanges
  <2>. QED  BY <1>1, <2>2, <2>3, <2>4, <2>5, ToolMine, ToolQuietKeeps DEF ToolOne
<1>3. CASE ~ (toolEntry # ToolNone /\ toolEntry.status # "disabled")
  <2>1. UNCHANGED toolTask
    BY <1>3 DEF ToolFind
  <2>2. UNCHANGED <<toolEntry, toolHandler, toolMetrics, toolTask, toolGiven, toolOverlap, toolUncounted>>
    BY <1>1, <2>1
  <2>. QED  BY <2>2 DEF ToolInv, ToolTypes, ToolOrderly, ToolCounts, ToolTaskInv, ToolAt, ToolThose, ToolTaken, ToolNone
<1>. QED  BY <1>2, <1>3

LEMMA ToolTakeKeeps ==
  ASSUME ToolInv, NEW c \in ToolCallers, ToolTake(c)
  PROVE  ToolInv'
<1>1. /\ toolTask[c].at = "found"
      /\ UNCHANGED <<toolEntry, toolHandler, toolMetrics, toolGiven, toolOverlap, toolUncounted>>
  BY DEF ToolTake, ToolAt, toolMaps, toolPast
<1>2. ~ToolChanges(toolTask[c]) /\ toolTask[c].given # 0
  BY <1>1, ToolMine DEF ToolChanges
<1>3. CASE ToolGo(c, ToolIdle)
  BY <1>1, <1>2, <1>3, ToolIdleFacts, ToolMine, ToolQuietKeeps DEF ToolOne
<1>4. CASE toolHandler # 0 /\ ToolGo(c, [toolTask[c] EXCEPT !.at = "handling", !.handler = toolHandler])
  <2>1. PICK t : t = [toolTask[c] EXCEPT !.at = "handling", !.handler = toolHandler]
    OBVIOUS
  <2>2. t \in ToolTasks /\ t.at = "handling" /\ t.given = toolTask[c].given /\ t.handler = toolHandler
    BY <2>1, ToolMine DEF ToolTasks
  <2>3. ASSUME ~toolOverlap PROVE ToolTaskInv(t)
    <3>1. ToolOrderly /\ ToolTaskInv(toolTask[c]) /\ toolHandler \in Nat /\ t.given # 0
      BY <1>2, <2>2, <2>3, ToolMine
    <3>2. toolHandler >= t.given
      BY <1>1, <1>4, <2>2, <3>1 DEF ToolTaskInv
    <3>3. ASSUME toolEntry.given = t.given PROVE toolHandler = t.given
      <4>1. CASE \A d \in ToolCallers : ~ToolChanges(toolTask[d])
        BY <3>1, <3>3, <4>1 DEF ToolOrderly
      <4>2. CASE \E d \in ToolCallers : ToolChanges(toolTask[d])
        <5>1. PICK d \in ToolCallers : ToolChanges(toolTask[d])
          BY <4>2
        <5>. QED  BY <1>4, <3>1, <3>3, <5>1 DEF ToolOrderly, ToolTaskInv, ToolChanges
      <4>. QED  BY <4>1, <4>2
    <3>. QED  BY <1>1, <2>2, <3>1, <3>2, <3>3 DEF ToolTaskInv
  <2>4. ~ToolChanges(t) /\ ToolGo(c, t)
    BY <1>4, <2>1, <2>2 DEF ToolChanges
  <2>. QED  BY <1>1, <1>2, <2>2, <2>3, <2>4, ToolMine, ToolQuietKeeps DEF ToolOne
<1>. QED  BY <1>3, <1>4 DEF ToolTake

LEMMA ToolHandledKeeps ==
  ASSUME ToolInv, NEW c \in ToolCallers, ToolHandled(c)
  PROVE  ToolInv'
<1>1. /\ toolTask[c].at = "handling"
      /\ UNCHANGED <<toolEntry, toolHandler, toolMetrics, toolGiven, toolOverlap, toolUncounted>>
  BY DEF ToolHandled, ToolAt, toolMaps, toolPast
<1>2. PICK failed \in BOOLEAN : ToolGo(c, [toolTask[c] EXCEPT !.at = "handled", !.failed = failed])
  BY DEF ToolHandled
<1>3. PICK t : t = [toolTask[c] EXCEPT !.at = "handled", !.failed = failed]
  OBVIOUS
<1>4. t \in ToolTasks /\ t.at = "handled" /\ t.given = toolTask[c].given
  BY <1>3, ToolMine DEF ToolTasks
<1>5. ~ToolChanges(toolTask[c]) /\ ~ToolChanges(t) /\ ToolTaskInv(t) /\ ToolGo(c, t)
  BY <1>1, <1>2, <1>3, <1>4 DEF ToolChanges, ToolTaskInv
<1>. QED  BY <1>1, <1>4, <1>5, ToolMine, ToolQuietKeeps DEF ToolOne

LEMMA ToolBumpKeeps ==
  ASSUME ToolInv, NEW c \in ToolCallers, ToolBump(c)
  PROVE  ToolInv'
<1>1. /\ toolTask[c].at = "handled"
      /\ UNCHANGED <<toolHandler, toolMetrics, toolGiven, toolOverlap, toolUncounted>>
  BY DEF ToolBump, ToolAt, toolPast
<1>2. PICK t : t = [toolTask[c] EXCEPT !.at = "called"]
  OBVIOUS
<1>3. t \in ToolTasks /\ t.at = "called" /\ t.given = toolTask[c].given
  BY <1>2, ToolMine DEF ToolTasks
<1>4. ~ToolChanges(toolTask[c]) /\ ~ToolChanges(t) /\ ToolTaskInv(t) /\ ToolGo(c, t)
  BY <1>1, <1>2, <1>3 DEF ToolBump, ToolChanges, ToolTaskInv
<1>5. toolEntry' \in [given : Nat, status : ToolStatuses, calls : Nat] /\ toolEntry'.given = toolEntry.given
      /\ (toolEntry'.given = 0 <=> toolEntry' = ToolNone)
  <2>1. CASE toolEntry = ToolNone
    <3>1. toolEntry' = toolEntry
      BY <2>1 DEF ToolBump
    <3>. QED  BY <3>1, ToolMine
  <2>2. CASE toolEntry # ToolNone
    <3>1. toolEntry' = [toolEntry EXCEPT !.calls = @ + 1]
      BY <2>2 DEF ToolBump
    <3>2. toolEntry' \in [given : Nat, status : ToolStatuses, calls : Nat] /\ toolEntry'.given = toolEntry.given
      BY <3>1, ToolMine
    <3>. QED  BY <2>2, <3>2, ToolMine DEF ToolNone
  <2>. QED  BY <2>1, <2>2
<1>. QED  BY <1>1, <1>3, <1>4, <1>5, ToolMine, ToolQuietKeeps DEF ToolOne

LEMMA ToolCountKeeps ==
  ASSUME ToolInv, NEW c \in ToolCallers, ToolCount(c)
  PROVE  ToolInv'
<1>1. /\ toolTask[c].at \in {"registered", "unregistered", "called"} /\ ToolGo(c, ToolIdle)
      /\ UNCHANGED <<toolEntry, toolHandler, toolGiven, toolOverlap, toolUncounted>>
      /\ toolMetrics' = [registered   |-> toolMetrics.registered + ToolOne(toolTask[c].at = "registered"),
                         unregistered |-> toolMetrics.unregistered + ToolOne(toolTask[c].at = "unregistered"),
                         calls        |-> toolMetrics.calls + ToolOne(toolTask[c].at = "called"),
                         errors       |-> toolMetrics.errors + ToolOne(toolTask[c].failed)]
  BY DEF ToolCount, ToolAt, toolMaps, toolPast, ToolOne
<1>2. \A b : ToolOne(b) \in Nat
  BY DEF ToolOne
<1>3. toolMetrics' \in [registered : Nat, unregistered : Nat, calls : Nat, errors : Nat]
      /\ toolMetrics'.registered = toolMetrics.registered + ToolOne(toolTask[c].at = "registered")
      /\ toolMetrics'.unregistered = toolMetrics.unregistered + ToolOne(toolTask[c].at = "unregistered")
  BY <1>1, <1>2, ToolMine
<1>4. ToolOne(ToolIdle.at = "registered") = 0 /\ ToolOne(ToolIdle.at = "unregistered") = 0
  BY ToolIdleFacts DEF ToolOne
<1>5. ~ToolChanges(toolTask[c])
  BY <1>1 DEF ToolChanges
<1>6. toolMetrics'.registered + ToolOne(ToolIdle.at = "registered") + toolMetrics.unregistered + ToolOne(toolTask[c].at = "unregistered")
        = toolMetrics.registered + ToolOne(toolTask[c].at = "registered") + toolMetrics'.unregistered + ToolOne(ToolIdle.at = "unregistered")
  <2>1. PICK a, b : a = ToolOne(toolTask[c].at = "registered") /\ b = ToolOne(toolTask[c].at = "unregistered")
    OBVIOUS
  <2>2. a \in Nat /\ b \in Nat /\ toolMetrics.registered \in Nat /\ toolMetrics.unregistered \in Nat
    BY <1>2, <2>1, ToolMine
  <2>3. toolMetrics'.registered = toolMetrics.registered + a /\ toolMetrics'.unregistered = toolMetrics.unregistered + b
    BY <1>3, <2>1
  <2>4. toolMetrics'.registered + 0 + toolMetrics.unregistered + b = toolMetrics.registered + a + toolMetrics'.unregistered + 0
    BY ONLY <2>2, <2>3
  <2>. QED  BY <1>4, <2>1, <2>4
<1>. QED  BY <1>1, <1>3, <1>5, <1>6, ToolIdleFacts, ToolMine, ToolQuietKeeps

LEMMA ToolDroppedKeeps ==
  ASSUME ToolInv, NEW c \in ToolCallers, ToolDropped(c)
  PROVE  ToolInv'
<1>1. /\ toolTask[c].at \in {"registered", "unregistered", "called", "handling"} /\ ToolGo(c, ToolIdle)
      /\ UNCHANGED <<toolEntry, toolHandler, toolMetrics, toolGiven, toolOverlap>> /\ toolUncounted' = TRUE
  BY DEF ToolDropped, toolMaps
<1>2. ~ToolChanges(toolTask[c])
  BY <1>1 DEF ToolChanges
<1>. QED  BY <1>1, <1>2, ToolIdleFacts, ToolMine, ToolQuietKeeps

LEMMA ToolSetStatusKeeps ==
  ASSUME ToolInv, NEW c \in ToolCallers, NEW status \in ToolStatuses, ToolSetStatus(c, status)
  PROVE  ToolInv'
<1>1. /\ toolTask[c].at = "idle" /\ toolEntry # ToolNone /\ toolEntry' = [toolEntry EXCEPT !.status = status]
      /\ UNCHANGED <<toolHandler, toolMetrics, toolTask, toolGiven, toolOverlap, toolUncounted>>
  BY DEF ToolSetStatus, ToolAt
<1>2. toolEntry' \in [given : Nat, status : ToolStatuses, calls : Nat] /\ toolEntry'.given = toolEntry.given
  BY <1>1, ToolMine
<1>3. toolEntry'.given = 0 <=> toolEntry' = ToolNone
  BY <1>1, <1>2, ToolMine DEF ToolNone
<1>4. PICK t : t = toolTask[c]
  OBVIOUS
<1>5. ToolGo(c, t) /\ t \in ToolTasks /\ ~ToolChanges(t) /\ (~toolOverlap => ToolTaskInv(t))
      /\ t.at = "idle" /\ t.given = toolTask[c].given
  <2>1. toolTask \in [ToolCallers -> ToolTasks]
    BY DEF ToolInv, ToolTypes
  <2>2. toolTask' = [toolTask EXCEPT ![c] = t]
    BY <1>1, <1>4, <2>1
  <2>. QED  BY <1>1, <1>4, <2>2, ToolMine DEF ToolGo, ToolChanges
<1>. QED  BY <1>1, <1>2, <1>3, <1>4, <1>5, ToolMine, ToolQuietKeeps

\* ... and those that do.  The counts, when c goes on to t.
LEMMA ToolCountsGo ==
  ASSUME ToolTypes, ToolCounts, NEW c \in ToolCallers, NEW t \in ToolTasks, ToolGo(c, t), UNCHANGED toolMetrics,
         /\ ToolOne(t.at = "registered") + ToolOne(t.at = "inserted")
              + ToolOne(toolTask[c].at = "unregistered") + ToolOne(toolTask[c].at = "removed" /\ toolTask[c].given # 0)
              + ToolOne(toolEntry.given # 0)
            = ToolOne(toolTask[c].at = "registered") + ToolOne(toolTask[c].at = "inserted")
              + ToolOne(t.at = "unregistered") + ToolOne(t.at = "removed" /\ t.given # 0)
              + ToolOne(toolEntry'.given # 0)
  PROVE  ToolCounts'
<1>1. \A b : ToolOne(b) \in Nat
  BY DEF ToolOne
<1>2. PICK r1, r2, i1, i2, u1, u2, k1, k2, e1, e2 :
        /\ r1 = ToolOne(toolTask[c].at = "registered") /\ r2 = ToolOne(t.at = "registered")
        /\ i1 = ToolOne(toolTask[c].at = "inserted") /\ i2 = ToolOne(t.at = "inserted")
        /\ u1 = ToolOne(toolTask[c].at = "unregistered") /\ u2 = ToolOne(t.at = "unregistered")
        /\ k1 = ToolOne(toolTask[c].at = "removed" /\ toolTask[c].given # 0)
        /\ k2 = ToolOne(t.at = "removed" /\ t.given # 0)
        /\ e1 = ToolOne(toolEntry.given # 0) /\ e2 = ToolOne(toolEntry'.given # 0)
  OBVIOUS
<1>3. r2 + i2 + u1 + k1 + e1 = r1 + i1 + u2 + k2 + e2
  BY <1>2
<1>4. /\ r1 \in Nat /\ r2 \in Nat /\ i1 \in Nat /\ i2 \in Nat /\ u1 \in Nat /\ u2 \in Nat
      /\ k1 \in Nat /\ k2 \in Nat /\ e1 \in Nat /\ e2 \in Nat
  BY <1>1, <1>2
<1>5. PICK f1, f2, g1, g2, h1, h2, j1, j2 :
        /\ f1 = Cardinality(ToolThose("registered")) /\ f2 = Cardinality(ToolThose("registered")')
        /\ g1 = Cardinality(ToolThose("inserted")) /\ g2 = Cardinality(ToolThose("inserted")')
        /\ h1 = Cardinality(ToolThose("unregistered")) /\ h2 = Cardinality(ToolThose("unregistered")')
        /\ j1 = Cardinality(ToolTaken) /\ j2 = Cardinality(ToolTaken')
  OBVIOUS
<1>6. f1 \in Nat /\ f2 \in Nat /\ f2 + r1 = f1 + r2
  BY <1>2, <1>5, ToolMoves
<1>7. g1 \in Nat /\ g2 \in Nat /\ g2 + i1 = g1 + i2
  BY <1>2, <1>5, ToolMoves
<1>8. h1 \in Nat /\ h2 \in Nat /\ h2 + u1 = h1 + u2
  BY <1>2, <1>5, ToolMoves
<1>9. j1 \in Nat /\ j2 \in Nat /\ j2 + k1 = j1 + k2
  BY <1>2, <1>5, ToolMoves
<1>10. PICK m, n : m = toolMetrics.registered /\ n = toolMetrics.unregistered
  OBVIOUS
<1>11. m \in Nat /\ n \in Nat /\ m + f1 + g1 = n + h1 + j1 + e1
  BY <1>2, <1>5, <1>10 DEF ToolCounts, ToolTypes, ToolOne
<1>12. m + f2 + g2 = n + h2 + j2 + e2
  BY ONLY <1>3, <1>4, <1>6, <1>7, <1>8, <1>9, <1>11
<1>. QED  BY <1>2, <1>5, <1>10, <1>12 DEF ToolCounts, ToolOne

\* What the others know stays so.
LEMMA ToolOthers ==
  ASSUME ToolTypes, ToolOrderly, NEW c \in ToolCallers, NEW t \in ToolTasks, ToolGo(c, t),
         ToolTaskInv(t)',
         \A d \in ToolCallers : d # c => ~ToolChanges(toolTask[d]),
         ToolChanges(t) \/ toolHandler' = toolEntry'.given,
         toolHandler' \in {0, toolHandler} \/ (\A d \in ToolCallers : d # c /\ toolTask[d].at \in {"found", "handling"} =>
                                                 toolHandler' >= toolTask[d].given),
         t.at \in {"checked", "inserted"} => \A d \in ToolCallers : d # c /\ toolTask[d].at \in {"found", "handling"} =>
                                                 toolTask[d].given < t.given,
         \A d \in ToolCallers : d # c /\ toolTask[d].at = "handling" =>
                                  toolEntry'.given = toolEntry.given \/ toolEntry'.given # toolTask[d].given
  PROVE  ToolOrderly'
<1>1. /\ toolTask'[c] = t /\ \A d \in ToolCallers : d # c => toolTask'[d] = toolTask[d]
      /\ toolTask \in [ToolCallers -> ToolTasks]
  BY DEF ToolTypes, ToolGo
<1>2. \A d \in ToolCallers : ToolChanges(toolTask[d])' => d = c
  BY <1>1 DEF ToolChanges
<1>3. (\A d \in ToolCallers : ~ToolChanges(toolTask[d])') => toolHandler' = toolEntry'.given
  BY <1>1 DEF ToolChanges
<1>4. ASSUME NEW d \in ToolCallers PROVE ToolTaskInv(toolTask[d])'
  <2>1. CASE d = c
    BY <1>1, <2>1 DEF ToolTaskInv
  <2>2. CASE d # c
    <3>1. PICK u : u = toolTask[d]
      OBVIOUS
    <3>2. u \in ToolTasks /\ ToolTaskInv(u) /\ ~ToolChanges(u) /\ toolTask'[d] = u
      BY <1>1, <2>2, <3>1 DEF ToolOrderly
    <3>3. u.given \in Nat /\ t.given \in Nat
      BY <3>2 DEF ToolTasks
    <3>4. u.at \in {"found", "handling"} => toolHandler' = 0 \/ toolHandler' >= u.given
      BY <2>2, <3>1, <3>2 DEF ToolTaskInv
    <3>5. ASSUME NEW e \in ToolCallers, u.at \in {"found", "handling"}
          PROVE  /\ ToolAt(e, "checked")' => u.given < toolTask'[e].given
                 /\ ToolAt(e, "inserted")' => u.given <= toolTask'[e].given
      <4>1. CASE e = c
        <5>1. t.at \in {"checked", "inserted"} => u.given < t.given
          BY <2>2, <3>1, <3>5
        <5>. QED  BY <1>1, <3>3, <4>1, <5>1 DEF ToolAt
      <4>2. CASE e # c
        BY <1>1, <4>2 DEF ToolAt, ToolChanges
      <4>. QED  BY <4>1, <4>2
    <3>6. u.at = "handling" => u.handler >= u.given /\ (toolEntry'.given = u.given => u.handler = u.given)
      BY <2>2, <3>1, <3>2 DEF ToolTaskInv
    <3>7. u.at \notin {"checked", "inserted", "removed"}
      BY <3>2 DEF ToolChanges
    <3>8. ToolTaskInv(u)'
      BY <3>4, <3>5, <3>6, <3>7 DEF ToolTaskInv
    <3>. QED  BY <3>2, <3>8 DEF ToolTaskInv
  <2>. QED  BY <2>1, <2>2
<1>. QED  BY <1>2, <1>3, <1>4 DEF ToolOrderly

LEMMA ToolCheckKeeps ==
  ASSUME ToolInv, NEW c \in ToolCallers, ToolCheck(c)
  PROVE  ToolInv'
<1>1. /\ toolTask[c].at = "idle" /\ toolGiven' = toolGiven + 1
      /\ UNCHANGED <<toolEntry, toolHandler, toolMetrics, toolUncounted>>
  BY DEF ToolCheck, ToolAt, toolMaps
<1>2. CASE toolEntry = ToolNone
  <2>1. PICK t : t = [ToolIdle EXCEPT !.at = "checked", !.given = toolGiven + 1]
    OBVIOUS
  <2>2. ToolGo(c, t) /\ toolOverlap' = (toolOverlap \/ ToolChanging)
    BY <1>2, <2>1 DEF ToolCheck
  <2>3. t \in ToolTasks /\ t.at = "checked" /\ t.given = toolGiven + 1 /\ t.given # 0
    <3>1. toolGiven + 1 \in Nat /\ toolGiven + 1 # 0
      BY ToolMine
    <3>. QED  BY <2>1, <3>1 DEF ToolIdle, ToolTasks
  <2>4. toolEntry.given = 0
    BY <1>2 DEF ToolNone
  <2>5. ToolTypes'
    <3>1. toolGiven' \in Nat /\ toolGiven <= toolGiven' /\ toolEntry'.given <= toolGiven' /\ t.given <= toolGiven'
          /\ toolOverlap' \in BOOLEAN
      BY <1>1, <2>2, <2>3, ToolMine DEF ToolChanging
    <3>. QED  BY <1>1, <2>2, <2>3, <3>1, ToolMine, ToolTypesKeep
  <2>6. ASSUME ~toolOverlap' PROVE ToolOrderly' /\ (~toolUncounted' => ToolCounts')
    <3>1. ToolOrderly /\ ~toolOverlap /\ \A d \in ToolCallers : ~ToolChanges(toolTask[d])
      BY <2>2, <2>6, ToolMine DEF ToolChanging, ToolChanges
    <3>2. toolHandler = 0
      BY <2>4, <3>1 DEF ToolOrderly
    <3>3. ToolTaskInv(t)'
      BY <1>1, <2>3, <2>4, <3>2 DEF ToolTaskInv
    <3>4. \A d \in ToolCallers : toolTask[d].given < t.given
      <4>1. \A d \in ToolCallers : toolTask[d].given \in Nat /\ toolTask[d].given <= toolGiven /\ toolGiven \in Nat
        BY ToolMine DEF ToolTasks
      <4>. QED  BY <2>3, <4>1
    <3>5. ToolOrderly'
      BY <1>1, <2>2, <2>3, <3>1, <3>3, <3>4, ToolMine, ToolOthers DEF ToolChanges
    <3>6. ASSUME ~toolUncounted PROVE ToolCounts'
      BY <1>1, <2>2, <2>3, <3>1, <3>6, ToolMine, ToolCountsGo DEF ToolOne
    <3>. QED  BY <1>1, <3>5, <3>6
  <2>. QED  BY <2>5, <2>6 DEF ToolInv
<1>3. CASE toolEntry # ToolNone
  <2>1. UNCHANGED <<toolTask, toolOverlap>>
    BY <1>3 DEF ToolCheck
  <2>2. toolGiven' \in Nat /\ toolEntry.given <= toolGiven' /\ \A d \in ToolCallers : toolTask[d].given <= toolGiven'
    <3>1. \A d \in ToolCallers : toolTask[d].given \in Nat /\ toolTask[d].given <= toolGiven /\ toolGiven \in Nat
      BY ToolMine DEF ToolTasks
    <3>. QED  BY <1>1, <3>1, ToolMine
  <2>3. ToolTypes'
    BY <1>1, <2>1, <2>2 DEF ToolInv, ToolTypes, ToolNone
  <2>4. UNCHANGED <<toolEntry, toolHandler, toolMetrics, toolUncounted, toolTask, toolOverlap>>
    BY <1>1, <2>1
  <2>. QED  BY <2>3, <2>4 DEF ToolInv, ToolOrderly, ToolCounts, ToolTaskInv, ToolAt, ToolThose, ToolTaken
<1>. QED  BY <1>2, <1>3

LEMMA ToolInsertKeeps ==
  ASSUME ToolInv, NEW c \in ToolCallers, ToolInsert(c)
  PROVE  ToolInv'
<1>1. /\ toolTask[c].at = "checked" /\ toolEntry' = [ToolNone EXCEPT !.given = toolTask[c].given]
      /\ UNCHANGED <<toolHandler, toolMetrics, toolGiven, toolOverlap, toolUncounted>>
  BY DEF ToolInsert, ToolAt, toolPast
<1>2. PICK t : t = [toolTask[c] EXCEPT !.at = "inserted"]
  OBVIOUS
<1>3. ToolGo(c, t) /\ t \in ToolTasks /\ t.at = "inserted" /\ t.given = toolTask[c].given /\ t.given # 0
  BY <1>1, <1>2, ToolMine DEF ToolInsert, ToolTasks
<1>4. toolEntry' \in [given : Nat, status : ToolStatuses, calls : Nat] /\ toolEntry'.given = t.given
      /\ toolEntry' # ToolNone
  BY <1>1, <1>3 DEF ToolNone, ToolStatuses, ToolTasks
<1>5. ToolTypes'
  <2>1. toolGiven' \in Nat /\ toolGiven <= toolGiven' /\ t.given <= toolGiven' /\ toolOverlap' \in BOOLEAN
    BY <1>1, <1>3, ToolMine
  <2>. QED  BY <1>1, <1>3, <1>4, <2>1, ToolMine, ToolTypesKeep
<1>6. ASSUME ~toolOverlap' PROVE ToolOrderly' /\ (~toolUncounted' => ToolCounts')
  <2>1. ToolOrderly /\ ~toolOverlap /\ ToolTaskInv(toolTask[c]) /\ ToolTypes
    BY <1>1, <1>6, ToolMine
  <2>2. toolEntry.given = 0 /\ toolHandler = 0
    BY <1>1, <2>1 DEF ToolTaskInv
  <2>3. \A d \in ToolCallers : d # c => ~ToolChanges(toolTask[d])
    BY <1>1, <2>1 DEF ToolOrderly, ToolChanges
  <2>4. \A d \in ToolCallers : d # c /\ toolTask[d].at \in {"found", "handling"} => toolTask[d].given < t.given
    BY <1>1, <1>3, <2>1 DEF ToolOrderly, ToolTaskInv, ToolAt
  <2>5. ToolTaskInv(t)'
    BY <1>1, <1>3, <1>4, <2>2 DEF ToolTaskInv
  <2>6. \A d \in ToolCallers : d # c /\ toolTask[d].at = "handling" => toolEntry'.given # toolTask[d].given
    <3>1. \A d \in ToolCallers : toolTask[d].given \in Nat /\ t.given \in Nat
      BY <1>3, ToolMine DEF ToolTasks
    <3>. QED  BY <1>4, <2>4, <3>1
  <2>7. ToolOrderly'
    BY <1>1, <1>3, <2>1, <2>3, <2>4, <2>5, <2>6, ToolOthers DEF ToolChanges
  <2>8. ASSUME ~toolUncounted PROVE ToolCounts'
    BY <1>1, <1>3, <1>4, <2>1, <2>2, <2>8, ToolMine, ToolCountsGo DEF ToolOne
  <2>. QED  BY <1>1, <2>7, <2>8
<1>. QED  BY <1>5, <1>6 DEF ToolInv

LEMMA ToolInsertHandlerKeeps ==
  ASSUME ToolInv, NEW c \in ToolCallers, ToolInsertHandler(c)
  PROVE  ToolInv'
<1>1. /\ toolTask[c].at = "inserted" /\ toolHandler' = toolTask[c].given
      /\ UNCHANGED <<toolEntry, toolMetrics, toolGiven, toolOverlap, toolUncounted>>
  BY DEF ToolInsertHandler, ToolAt, toolPast
<1>2. PICK t : t = [toolTask[c] EXCEPT !.at = "registered"]
  OBVIOUS
<1>3. ToolGo(c, t) /\ t \in ToolTasks /\ t.at = "registered" /\ t.given = toolTask[c].given /\ t.given # 0
      /\ toolHandler' \in Nat
  BY <1>1, <1>2, ToolMine DEF ToolInsertHandler, ToolTasks
<1>4. ToolTypes'
  <2>1. toolGiven' \in Nat /\ toolGiven <= toolGiven' /\ t.given <= toolGiven' /\ toolEntry'.given <= toolGiven'
        /\ toolOverlap' \in BOOLEAN
    BY <1>1, <1>3, ToolMine
  <2>. QED  BY <1>1, <1>3, <2>1, ToolMine, ToolTypesKeep
<1>5. ASSUME ~toolOverlap' PROVE ToolOrderly' /\ (~toolUncounted' => ToolCounts')
  <2>1. ToolOrderly /\ ~toolOverlap /\ ToolTaskInv(toolTask[c]) /\ ToolTypes
    BY <1>1, <1>5, ToolMine
  <2>2. toolEntry.given = t.given
    BY <1>1, <1>3, <2>1 DEF ToolTaskInv
  <2>3. \A d \in ToolCallers : d # c => ~ToolChanges(toolTask[d])
    BY <1>1, <2>1 DEF ToolOrderly, ToolChanges
  <2>4. \A d \in ToolCallers : d # c /\ toolTask[d].at \in {"found", "handling"} => toolHandler' >= toolTask[d].given
    BY <1>1, <1>3, <2>1 DEF ToolOrderly, ToolTaskInv, ToolAt
  <2>5. ToolTaskInv(t)'
    BY <1>3 DEF ToolTaskInv
  <2>6. toolHandler' = toolEntry'.given
    BY <1>1, <1>3, <2>2
  <2>7. ToolOrderly'
    BY <1>1, <1>3, <2>1, <2>3, <2>4, <2>5, <2>6, ToolOthers
  <2>8. ASSUME ~toolUncounted PROVE ToolCounts'
    BY <1>1, <1>3, <2>1, <2>8, ToolMine, ToolCountsGo DEF ToolOne
  <2>. QED  BY <1>1, <2>7, <2>8
<1>. QED  BY <1>4, <1>5 DEF ToolInv

LEMMA ToolRemoveKeeps ==
  ASSUME ToolInv, NEW c \in ToolCallers, ToolRemove(c)
  PROVE  ToolInv'
<1>1. /\ toolTask[c].at = "idle" /\ toolEntry' = ToolNone /\ toolOverlap' = (toolOverlap \/ ToolChanging)
      /\ UNCHANGED <<toolHandler, toolMetrics, toolGiven, toolUncounted>>
  BY DEF ToolRemove, ToolAt
<1>2. PICK t : t = [ToolIdle EXCEPT !.at = "removed", !.given = toolEntry.given]
  OBVIOUS
<1>3. ToolGo(c, t) /\ t \in ToolTasks /\ t.at = "removed" /\ t.given = toolEntry.given
  BY <1>2, ToolMine DEF ToolRemove, ToolIdle, ToolTasks
<1>4. toolEntry' \in [given : Nat, status : ToolStatuses, calls : Nat] /\ toolEntry'.given = 0
  BY <1>1 DEF ToolNone, ToolStatuses
<1>5. ToolTypes'
  <2>1. toolGiven' \in Nat /\ toolGiven <= toolGiven' /\ t.given <= toolGiven' /\ toolEntry'.given <= toolGiven'
        /\ toolOverlap' \in BOOLEAN
    BY <1>1, <1>3, <1>4, ToolMine DEF ToolChanging
  <2>. QED  BY <1>1, <1>3, <1>4, <2>1, ToolMine, ToolTypesKeep
<1>6. ASSUME ~toolOverlap' PROVE ToolOrderly' /\ (~toolUncounted' => ToolCounts')
  <2>1. ToolOrderly /\ ~toolOverlap /\ ToolTypes /\ \A d \in ToolCallers : ~ToolChanges(toolTask[d])
    BY <1>1, <1>6, ToolMine DEF ToolChanging, ToolChanges
  <2>2. toolHandler = t.given
    BY <1>3, <2>1 DEF ToolOrderly
  <2>3. ToolTaskInv(t)'
    BY <1>1, <1>3, <1>4, <2>2 DEF ToolTaskInv
  <2>4. \A d \in ToolCallers : toolTask[d].at = "handling" => toolEntry'.given # toolTask[d].given
    BY <1>4, ToolMine
  <2>5. ToolOrderly'
    BY <1>1, <1>3, <2>1, <2>3, <2>4, ToolOthers DEF ToolChanges
  <2>6. ASSUME ~toolUncounted PROVE ToolCounts'
    BY <1>1, <1>3, <1>4, <2>1, <2>6, ToolMine, ToolCountsGo DEF ToolOne
  <2>. QED  BY <1>1, <2>5, <2>6
<1>. QED  BY <1>5, <1>6 DEF ToolInv

LEMMA ToolRemoveHandlerKeeps ==
  ASSUME ToolInv, NEW c \in ToolCallers, ToolRemoveHandler(c)
  PROVE  ToolInv'
<1>1. /\ toolTask[c].at = "removed" /\ toolHandler' = 0
      /\ UNCHANGED <<toolEntry, toolMetrics, toolGiven, toolOverlap, toolUncounted>>
  BY DEF ToolRemoveHandler, ToolAt, toolPast
<1>2. PICK t : t = IF toolTask[c].given # 0 /\ toolHandler # 0 THEN [toolTask[c] EXCEPT !.at = "unregistered"] ELSE ToolIdle
  OBVIOUS
<1>3. /\ ToolGo(c, t) /\ t \in ToolTasks /\ t.given \in {0, toolTask[c].given} /\ t.at \in {"unregistered", "idle"}
      /\ t.at = "unregistered" <=> toolTask[c].given # 0 /\ toolHandler # 0
  <2>1. ToolGo(c, t)
    BY <1>2 DEF ToolRemoveHandler
  <2>2. CASE toolTask[c].given # 0 /\ toolHandler # 0
    BY <1>2, <2>1, <2>2, ToolMine DEF ToolTasks
  <2>3. CASE ~ (toolTask[c].given # 0 /\ toolHandler # 0)
    BY <1>2, <2>1, <2>3, ToolIdleFacts
  <2>. QED  BY <2>2, <2>3
<1>4. ToolTypes'
  <2>1. toolGiven' \in Nat /\ toolGiven <= toolGiven' /\ t.given <= toolGiven' /\ toolEntry'.given <= toolGiven'
        /\ toolOverlap' \in BOOLEAN /\ toolHandler' \in Nat
    BY <1>1, <1>3, ToolMine
  <2>. QED  BY <1>1, <1>3, <2>1, ToolMine, ToolTypesKeep
<1>5. ASSUME ~toolOverlap' PROVE ToolOrderly' /\ (~toolUncounted' => ToolCounts')
  <2>1. ToolOrderly /\ ~toolOverlap /\ ToolTaskInv(toolTask[c]) /\ ToolTypes
    BY <1>1, <1>5, ToolMine
  <2>2. toolEntry.given = 0 /\ toolHandler = toolTask[c].given
    BY <1>1, <2>1 DEF ToolTaskInv
  <2>3. \A d \in ToolCallers : d # c => ~ToolChanges(toolTask[d])
    BY <1>1, <2>1 DEF ToolOrderly, ToolChanges
  <2>4. ToolTaskInv(t)'
    BY <1>3 DEF ToolTaskInv
  <2>5. ToolOrderly'
    BY <1>1, <1>3, <2>1, <2>2, <2>3, <2>4, ToolOthers
  <2>6. ASSUME ~toolUncounted PROVE ToolCounts'
    BY <1>1, <1>3, <2>1, <2>2, <2>6, ToolMine, ToolCountsGo DEF ToolOne
  <2>. QED  BY <1>1, <2>5, <2>6
<1>. QED  BY <1>4, <1>5 DEF ToolInv

LEMMA ToolKeeps == ToolInv /\ [ToolNext]_toolVars => ToolInv'
<1> SUFFICES ASSUME ToolInv, [ToolNext]_toolVars PROVE ToolInv'
  OBVIOUS
<1>1. CASE UNCHANGED toolVars
  BY <1>1 DEF toolVars, ToolInv, ToolTypes, ToolOrderly, ToolCounts, ToolTaskInv, ToolAt, ToolThose, ToolTaken
<1>2. ASSUME NEW c \in ToolCallers,
             \/ ToolCheck(c) \/ ToolInsert(c) \/ ToolInsertHandler(c)
             \/ ToolRemove(c) \/ ToolRemoveHandler(c)
             \/ ToolFind(c) \/ ToolTake(c) \/ ToolHandled(c) \/ ToolBump(c)
             \/ ToolCount(c) \/ ToolDropped(c)
      PROVE  ToolInv'
  BY <1>2, ToolCheckKeeps, ToolInsertKeeps, ToolInsertHandlerKeeps, ToolRemoveKeeps, ToolRemoveHandlerKeeps,
     ToolFindKeeps, ToolTakeKeeps, ToolHandledKeeps, ToolBumpKeeps, ToolCountKeeps, ToolDroppedKeeps
<1>3. ASSUME NEW c \in ToolCallers, NEW status \in ToolStatuses, ToolSetStatus(c, status)
      PROVE  ToolInv'
  BY <1>3, ToolSetStatusKeeps
<1>. QED  BY <1>1, <1>2, <1>3 DEF ToolNext

LEMMA ToolStarts == ToolInit => ToolInv
<1> SUFFICES ASSUME ToolInit PROVE ToolInv
  OBVIOUS
<1>1. /\ toolEntry = ToolNone /\ toolHandler = 0 /\ toolGiven = 0 /\ toolOverlap = FALSE /\ toolUncounted = FALSE
      /\ toolMetrics = [registered |-> 0, unregistered |-> 0, calls |-> 0, errors |-> 0]
      /\ toolTask = [c \in ToolCallers |-> ToolIdle]
  BY DEF ToolInit
<1>2. ToolNone \in [given : Nat, status : ToolStatuses, calls : Nat] /\ ToolNone.given = 0
  BY DEF ToolNone, ToolStatuses
<1>3. ToolTypes
  <2>1. toolMetrics \in [registered : Nat, unregistered : Nat, calls : Nat, errors : Nat]
        /\ toolMetrics.registered = 0 /\ toolMetrics.unregistered = 0
    BY <1>1
  <2>2. \A c \in ToolCallers : toolTask[c] = ToolIdle
    BY <1>1
  <2>3. toolTask \in [ToolCallers -> ToolTasks]
    BY <1>1, ToolIdleFacts
  <2>4. toolEntry \in [given : Nat, status : ToolStatuses, calls : Nat] /\ (toolEntry.given = 0 <=> toolEntry = ToolNone)
        /\ toolEntry.given <= toolGiven
    BY <1>1, <1>2
  <2>5. \A c \in ToolCallers :
          /\ toolTask[c].given <= toolGiven
          /\ toolTask[c].at \in {"checked", "inserted", "found", "handling"} => toolTask[c].given # 0
    BY <1>1, <2>2, ToolIdleFacts
  <2>. QED  BY <1>1, <2>1, <2>3, <2>4, <2>5 DEF ToolTypes
<1>4. ToolOrderly
  BY <1>1, <1>2, ToolIdleFacts DEF ToolOrderly
<1>5. ToolThose("registered") = {} /\ ToolThose("inserted") = {} /\ ToolThose("unregistered") = {} /\ ToolTaken = {}
  BY <1>1, ToolIdleFacts DEF ToolThose, ToolTaken, ToolAt
<1>6. ToolCounts
  <2>1. toolMetrics.registered = 0 /\ toolMetrics.unregistered = 0
    BY <1>1
  <2>2. Cardinality({}) = 0 /\ toolEntry.given = 0
    BY <1>1, <1>2, FS_EmptySet
  <2>. QED  BY <1>5, <2>1, <2>2 DEF ToolCounts
<1>. QED  BY <1>3, <1>4, <1>6 DEF ToolInv

\* As long as no two calls change the tool at a time, it and its handler belong
\* together between such calls, no call runs a handler older than the schema its
\* arguments passed, and the metrics count the tool that is there (ToolRegistry),
\* for any number of tasks and of calls.
THEOREM ToolsArePaired == ToolSpec => []ToolsPaired
<1>1. ToolInv => ToolsPaired
  <2>. SUFFICES ASSUME ToolInv, ~toolOverlap PROVE ToolsPaired
    BY DEF ToolsPaired
  <2>1. ToolOrderly /\ ToolTypes /\ (~toolUncounted => ToolCounts)
    BY DEF ToolInv
  <2>2. ~ToolChanging => \A c \in ToolCallers : ~ToolChanges(toolTask[c])
    BY DEF ToolChanging, ToolChanges
  <2>3. ~ToolChanging => toolHandler = toolEntry.given
    BY <2>1, <2>2 DEF ToolOrderly
  <2>4. ASSUME NEW c \in ToolCallers, ToolAt(c, "handling")
        PROVE  /\ toolTask[c].handler >= toolTask[c].given
               /\ toolEntry.given = toolTask[c].given => toolTask[c].handler = toolTask[c].given
    BY <2>1, <2>4 DEF ToolOrderly, ToolTaskInv, ToolAt
  <2>5. ASSUME ~ToolChanging, ~toolUncounted
        PROVE  toolMetrics.registered + Cardinality({c \in ToolCallers : ToolAt(c, "registered")})
                 = toolMetrics.unregistered + Cardinality({c \in ToolCallers : ToolAt(c, "unregistered")})
                   + (IF toolEntry = ToolNone THEN 0 ELSE 1)
    <3>1. ToolThose("inserted") = {} /\ ToolTaken = {}
      BY <2>2, <2>5 DEF ToolThose, ToolTaken, ToolAt, ToolChanges
    <3>2. Cardinality(ToolThose("inserted")) = 0 /\ Cardinality(ToolTaken) = 0
      BY <3>1, FS_EmptySet
    <3> DEFINE reg == Cardinality(ToolThose("registered"))
               unr == Cardinality(ToolThose("unregistered"))
    <3>3. reg \in Nat /\ unr \in Nat
      <4>1. IsFiniteSet(ToolThose("registered")) /\ IsFiniteSet(ToolThose("unregistered"))
        BY ToolConstants, FS_Subset DEF ToolThose
      <4>. QED  BY <4>1, FS_CardinalityType
    <3>4. toolMetrics.registered + reg + 0 = toolMetrics.unregistered + unr + 0 + (IF toolEntry = ToolNone THEN 0 ELSE 1)
      BY <2>1, <2>5, <3>2 DEF ToolCounts, ToolTypes
    <3>5. toolMetrics.registered \in Nat /\ toolMetrics.unregistered \in Nat
      BY <2>1 DEF ToolTypes
    <3>6. toolMetrics.registered + reg = toolMetrics.unregistered + unr + (IF toolEntry = ToolNone THEN 0 ELSE 1)
      <4>. HIDE DEF reg, unr
      <4>. QED  BY <3>3, <3>4, <3>5
    <3>. QED  BY <3>6 DEF ToolThose
  <2>. QED  BY <2>3, <2>4, <2>5 DEF ToolsPaired
<1>. QED  BY <1>1, ToolStarts, ToolKeeps, PTL DEF ToolSpec

-----------------------------------------------------------------------------
(***************************************************************************)
(* The session.                                                            *)
(***************************************************************************)

\* A window counts the tokens of its messages, which were added.
SessWindowInv(w, added) ==
  /\ w \in SessWindows /\ IsFiniteSet(w.messages)
  /\ SessIds(w) \subseteq 1 .. added
  /\ w.tokens = SessSum(w.messages)

\* A window has every message that was not compressed away.
SessComplete(w, added, dropped) == 1 .. added \subseteq SessIds(w) \cup dropped

SessFits(w) == ~SessOver(w) \/ \A m \in w.messages : m.system

\* What the store has of a session that has left the map before it expired.
SessGone(w, added, dropped) == w # NoSession /\ ~w.open /\ SessComplete(w, added, dropped)

SessTasks == {"idle", "compress", "persist", "saving", "remove"}
SessOps   == [call : {"none", "add", "close"}, id : Nat]

SessType ==
  /\ sessLife \in {"none", "saved", "made"} /\ sessSweep \in {"idle", "evict", "delete"}
  /\ sessActive # NoSession => SessWindowInv(sessActive, sessAdded)
  /\ sessStored # NoSession => SessWindowInv(sessStored, sessAdded)
  /\ sessPc \in [SessCallers -> SessTasks] /\ sessOp \in [SessCallers -> SessOps]
  /\ DOMAIN sessHeld = SessCallers
  /\ sessExpired \in BOOLEAN /\ sessClosed \in BOOLEAN /\ sessDeleted \in BOOLEAN
  /\ sessAdded \in Nat
  /\ sessAcked \subseteq 1 .. sessAdded

\* Before it is made, nothing has happened to it.
SessMadeFirst ==
  sessLife # "made" =>
    /\ sessActive = NoSession /\ sessAdded = 0 /\ sessSweep = "idle"
    /\ ~sessExpired /\ ~sessClosed /\ ~sessDeleted
    /\ \A c \in SessCallers : sessPc[c] = "idle"

SessCallInv(c) ==
  /\ sessPc[c] = "saving" => sessActive # NoSession /\ sessHeld[c] = sessActive
  /\ sessPc[c] # "idle" =>
       /\ sessOp[c].call = "add" => sessOp[c].id \in 1 .. sessAdded
       /\ sessOp[c].call = "close" => sessActive = NoSession \/ ~sessActive.open
  /\ sessPc[c] = "remove" =>
       sessOp[c].call = "close" /\ (sessExpired \/ SessGone(sessStored, sessAdded, sessDropped))

SessPlaces ==
  /\ sessActive # NoSession => SessComplete(sessActive, sessAdded, sessDropped)
  /\ sessLife = "made" /\ sessActive = NoSession =>
       sessExpired \/ SessGone(sessStored, sessAdded, sessDropped)
  /\ ~sessExpired /\ sessStored # NoSession => sessAcked \subseteq SessIds(sessStored) \cup sessDropped
  /\ sessClosed => sessActive = NoSession
  /\ sessSweep # "idle" => sessExpired
  /\ sessSweep = "delete" => sessActive = NoSession
  /\ sessDeleted => sessExpired /\ sessActive = NoSession /\ sessStored = NoSession

\* A window fits unless somebody is about to compress it.
SessTended ==
  sessActive # NoSession /\ (\A c \in SessCallers : sessPc[c] # "compress") => SessFits(sessActive)

SessInv ==
  /\ SessType /\ SessMadeFirst /\ SessPlaces /\ SessTended
  /\ \A c \in SessCallers : SessCallInv(c)

\* The tokens of some messages are those of a part and those of the rest.
LEMMA SessSums ==
  ASSUME NEW S, IsFiniteSet(S), \A m \in S : m.tokens \in Nat
  PROVE  /\ SessSum({}) = 0
         /\ \A A \in SUBSET S : SessSum(A) \in Nat
         /\ \A A \in SUBSET S : SessSum(S) = SessSum(A) + SessSum(S \ A)
         /\ \A m \in S : SessSum({m}) = m.tokens
<1>1. PICK t : t = [m \in S |-> m.tokens]
  OBVIOUS
<1>2. \A m \in S : t[m] = m.tokens /\ t[m] \in Nat
  BY <1>1
<1>3. PICK g : Sums(S, t, g)
  BY <1>2, TotalIsSum
<1>4. ASSUME NEW A \in SUBSET S PROVE SessSum(A) = g[A]
  <2>1. PICK u : u = [m \in A |-> m.tokens]
    OBVIOUS
  <2>2. IsFiniteSet(A) /\ \A m \in A : u[m] = t[m] /\ u[m] \in Nat
    BY <1>2, <2>1, FS_Subset
  <2>3. PICK h : Sums(A, u, h) /\ SumFunctionOnSet(u, A) = h[A]
    BY <2>2, TotalIsSum
  <2>4. g[A] = h[A]
    BY <1>2, <1>3, <2>2, <2>3, SumsAgree
  <2>. QED  BY <2>1, <2>3, <2>4 DEF SessSum
<1>5. /\ g[{}] = 0 /\ \A P \in SUBSET S : g[P] \in Nat
      /\ \A P \in SUBSET S : \A x \in P : g[P] = t[x] + g[P \ {x}]
  <2>1. \A x \in S : t[x] \in Nat
    BY <1>2
  <2>2. g[{}] = 0
    BY ONLY IsFiniteSet(S), <1>3, <2>1, SumsAdd
  <2>3. \A P \in SUBSET S : g[P] \in Nat
    BY ONLY IsFiniteSet(S), <1>3, <2>1, SumsAdd
  <2>4. \A P \in SUBSET S : \A x \in P : g[P] = t[x] + g[P \ {x}]
    <3>1. SUFFICES ASSUME NEW P \in SUBSET S, NEW x \in P PROVE g[P] = t[x] + g[P \ {x}]
      OBVIOUS
    <3>. QED  BY ONLY IsFiniteSet(S), P \in SUBSET S, x \in P, <1>3, <2>1, SumsAdd, SMTT(30)
  <2>. QED  BY ONLY <2>2, <2>3, <2>4
<1>6. ASSUME NEW A \in SUBSET S PROVE g[S] = g[A] + g[S \ A]
  <2>1. PICK D : D = S \ A
    OBVIOUS
  <2>2. \A Q \in SUBSET A : IsFiniteSet(Q) /\ Cardinality(Q) \in Nat
    BY FS_Subset, FS_CardinalityType
  <2> DEFINE Bads == {n \in Nat : \E Q \in SUBSET A : Cardinality(Q) = n /\ g[Q \cup D] # g[Q] + g[D]}
  <2>3. ASSUME Bads # {} PROVE FALSE
    <3>1. PICK n \in Bads : \A m \in Bads : ~(<<m, n>> \in OpToRel(<, Nat))
      BY <2>3, NatLessThanWellFounded, WFMin
    <3>2. PICK Q \in SUBSET A : Cardinality(Q) = n /\ g[Q \cup D] # g[Q] + g[D]
      BY <3>1
    <3>3. Q # {}
      <4>1. SUFFICES ASSUME Q = {} PROVE FALSE
        OBVIOUS
      <4>2. g[D] \in Nat /\ g[{}] = 0
        BY <1>5, <2>1
      <4>3. Q \cup D = D
        BY <4>1
      <4>4. g[Q \cup D] = g[Q] + g[D]
        BY ONLY <4>1, <4>2, <4>3
      <4>. QED  BY ONLY <3>2, <4>4
    <3>4. PICK x \in Q : TRUE
      BY <3>3
    <3>5. PICK R : R = Q \ {x}
      OBVIOUS
    <3>6. R \in SUBSET A /\ Cardinality(R) = n - 1 /\ n \in Nat /\ n - 1 \in Nat /\ n - 1 < n
      <4>1. IsFiniteSet(Q) /\ Cardinality(R) = Cardinality(Q) - 1
        BY <2>2, <3>4, <3>5, FS_RemoveElement
      <4>2. Cardinality(R) \in Nat /\ R \in SUBSET A
        BY <2>2, <3>5
      <4>. QED  BY <3>2, <4>1, <4>2, <2>2
    <3>7. g[R \cup D] = g[R] + g[D]
      <4>1. n - 1 \notin Bads
        BY <3>1, <3>6 DEF OpToRel
      <4>. QED  BY <3>6, <4>1
    <3>8. (Q \cup D) \ {x} = R \cup D /\ x \in Q \cup D /\ Q \cup D \in SUBSET S /\ Q \in SUBSET S
      BY <2>1, <3>4, <3>5
    <3>9. g[Q \cup D] = t[x] + g[R \cup D] /\ g[Q] = t[x] + g[R]
      <4>1. g[Q \cup D] = t[x] + g[(Q \cup D) \ {x}]
        BY <1>5, <3>8
      <4>2. g[Q] = t[x] + g[Q \ {x}]
        BY <1>5, <3>4, <3>8
      <4>. QED  BY ONLY <3>5, <3>8, <4>1, <4>2
    <3>10. t[x] \in Nat /\ g[R] \in Nat /\ g[D] \in Nat
      BY <1>2, <1>5, <2>1, <3>4, <3>6
    <3>. QED  BY ONLY <3>2, <3>7, <3>9, <3>10
  <2>4. A \cup D = S
    BY <2>1
  <2>5. Cardinality(A) \in Nat
    BY <2>2
  <2>. QED  BY <2>1, <2>3, <2>4, <2>5
<1>7. ASSUME NEW m \in S PROVE SessSum({m}) = m.tokens
  <2>1. {m} \in SUBSET S /\ {m} \ {m} = {}
    OBVIOUS
  <2>2. g[{m}] = t[m] + g[{}]
    BY <1>5, <2>1
  <2>. QED  BY <1>2, <1>4, <1>5, <2>1, <2>2
<1>8. \A A \in SUBSET S : S \ A \in SUBSET S
  OBVIOUS
<1>. QED  BY <1>4, <1>5, <1>6, <1>7, <1>8

\* A window without some of its messages.
LEMMA SessWithoutFacts ==
  ASSUME NEW added \in Nat, NEW w, SessWindowInv(w, added), NEW gone
  PROVE  /\ SessWindowInv(SessWithout(w, gone), added)
         /\ SessWithout(w, gone).open = w.open
         /\ SessWithout(w, gone).messages = {m \in w.messages : m.id \notin gone}
         /\ SessIds(SessWithout(w, gone)) = SessIds(w) \ gone
         /\ SessFits(w) => SessFits(SessWithout(w, gone))
<1>1. PICK v : v = SessWithout(w, gone)
  OBVIOUS
<1>2. PICK kept, cut : kept = {m \in w.messages : m.id \notin gone} /\ cut = {m \in w.messages : m.id \in gone}
  OBVIOUS
<1>3. w \in SessWindows /\ IsFiniteSet(w.messages) /\ w.messages \subseteq SessMessages
      /\ \A m \in w.messages : m.tokens \in Nat
  BY DEF SessWindowInv, SessWindows, SessMessages
<1>4. cut \in SUBSET w.messages /\ kept \in SUBSET w.messages /\ kept = w.messages \ cut
  BY <1>2
<1>5. /\ SessSum(w.messages) = SessSum(cut) + SessSum(kept)
      /\ SessSum(cut) \in Nat /\ SessSum(kept) \in Nat
  BY <1>3, <1>4, SessSums
<1>6. w.tokens = SessSum(w.messages) /\ w.tokens \in Nat
  BY DEF SessWindowInv, SessWindows
<1>7. w.tokens - SessSum(cut) = SessSum(kept)
  BY ONLY <1>5, <1>6
<1>8. v = [w EXCEPT !.messages = kept, !.tokens = SessSum(kept)]
  BY <1>1, <1>2, <1>7 DEF SessWithout
<1>9. v \in SessWindows /\ v.open = w.open /\ v.messages = kept /\ v.tokens = SessSum(kept)
  BY <1>3, <1>4, <1>5, <1>8 DEF SessWindows
<1>10. SessIds(v) = SessIds(w) \ gone
  BY <1>2, <1>9 DEF SessIds
<1>11. IsFiniteSet(kept) /\ Cardinality(kept) \in Nat /\ Cardinality(w.messages) \in Nat
       /\ Cardinality(kept) <= Cardinality(w.messages)
  BY <1>3, <1>4, FS_Subset, FS_CardinalityType
<1>12. SessWindowInv(v, added)
  BY <1>9, <1>10, <1>11 DEF SessWindowInv
<1>13. SessFits(w) => SessFits(v)
  <2>1. SessMaxMessages \in Nat /\ SessMaxTokens \in Nat
    BY SessConstants
  <2>2. v.tokens <= w.tokens /\ v.tokens \in Nat
    BY ONLY <1>5, <1>6, <1>9
  <2>3. SessOver(v) => SessOver(w)
    BY <1>6, <1>9, <1>11, <2>1, <2>2 DEF SessOver, SessSize
  <2>. QED  BY <1>4, <1>9, <2>3 DEF SessFits
<1>. QED  BY <1>1, <1>2, <1>9, <1>10, <1>12, <1>13

\* A window with one message more.
SessPushed(w, added, system, tokens) ==
  [w EXCEPT !.messages = @ \cup {[id |-> added + 1, system |-> system, tokens |-> tokens]},
            !.tokens = @ + tokens]

LEMMA SessAddedFacts ==
  ASSUME NEW added \in Nat, NEW w, SessWindowInv(w, added), NEW system \in BOOLEAN, NEW tokens \in Nat,
         NEW v, v = SessPushed(w, added, system, tokens)
  PROVE  /\ SessWindowInv(v, added + 1) /\ v.open = w.open
         /\ SessIds(v) = SessIds(w) \cup {added + 1}
         /\ ~SessShouldCompress(v) => SessFits(v)
<1>1. PICK m : m = [id |-> added + 1, system |-> system, tokens |-> tokens]
  OBVIOUS
<1>2. PICK S : S = w.messages \cup {m}
  OBVIOUS
<1>3. w \in SessWindows /\ IsFiniteSet(w.messages) /\ w.messages \subseteq SessMessages
      /\ w.tokens = SessSum(w.messages) /\ w.tokens \in Nat /\ SessIds(w) \subseteq 1 .. added
  BY DEF SessWindowInv, SessWindows
<1>4. m \in SessMessages /\ m.id = added + 1 /\ m.tokens = tokens
  BY <1>1 DEF SessMessages
<1>5. m \notin w.messages
  <2>1. \A x \in w.messages : x.id \in 1 .. added
    BY <1>3 DEF SessIds
  <2>. QED  BY <1>4, <2>1
<1>6. S \subseteq SessMessages /\ IsFiniteSet(S) /\ \A x \in S : x.tokens \in Nat
  BY <1>2, <1>3, <1>4, FS_AddElement DEF SessMessages
<1>7. SessSum(S) = SessSum(w.messages) + tokens
  <2>1. w.messages \in SUBSET S /\ S \ w.messages = {m} /\ m \in S
    BY <1>2, <1>5
  <2>2. SessSum(S) = SessSum(w.messages) + SessSum(S \ w.messages) /\ SessSum({m}) = m.tokens
    BY <1>6, <2>1, SessSums
  <2>. QED  BY <1>4, <2>1, <2>2
<1>8. v = [w EXCEPT !.messages = S, !.tokens = w.tokens + tokens]
  BY <1>1, <1>2 DEF SessPushed
<1>9. v \in SessWindows /\ v.open = w.open /\ v.messages = S /\ v.tokens = w.tokens + tokens
  <2>1. w.tokens + tokens \in Nat
    BY <1>3
  <2>2. PICK n : n = w.tokens + tokens
    OBVIOUS
  <2>3. v = [w EXCEPT !.messages = S, !.tokens = n] /\ n \in Nat
    BY <1>8, <2>1, <2>2
  <2>4. v \in SessWindows /\ v.open = w.open /\ v.messages = S /\ v.tokens = n
    BY <1>3, <1>6, <2>3 DEF SessWindows
  <2>. QED  BY <2>2, <2>4
<1>10. SessIds(v) = SessIds(w) \cup {added + 1}
  BY <1>2, <1>4, <1>9 DEF SessIds
<1>11. SessIds(v) \subseteq 1 .. added + 1
  BY <1>3, <1>10
<1>12. SessWindowInv(v, added + 1)
  BY <1>3, <1>6, <1>7, <1>9, <1>11 DEF SessWindowInv
<1>13. ~SessShouldCompress(v) => SessFits(v)
  <2>1. SessMaxMessages \in Nat /\ SessMaxTokens \in Nat /\ Cardinality(S) \in Nat /\ v.tokens \in Nat
    BY <1>3, <1>6, <1>9, SessConstants, FS_CardinalityType
  <2>. QED  BY <1>9, <2>1 DEF SessShouldCompress, SessFits, SessOver, SessSize
<1>. QED  BY <1>9, <1>10, <1>12, <1>13

\* TruncateOldest leaves a window that fits.
LEMMA SessTruncatedFits ==
  ASSUME NEW w, sessAdded \in Nat, SessWindowInv(w, sessAdded)
  PROVE  SessFits(SessWithout(w, SessTruncated(w)))
<1>1. PICK from : from = {m.id : m \in {n \in w.messages : ~n.system}}
  OBVIOUS
<1> DEFINE Upto(n) == {i \in from : i <= n}
           fits == {n \in 0 .. sessAdded : ~SessOver(SessWithout(w, Upto(n)))}
<1>2. SessTruncated(w) = IF fits = {} THEN from ELSE Upto(Min(fits))
  BY <1>1 DEF SessTruncated, SessOldest
<1>3. CASE fits = {}
  <2>1. SessTruncated(w) = from
    BY <1>2, <1>3
  <2>2. SessWithout(w, from).messages = {m \in w.messages : m.id \notin from}
    BY SessWithoutFacts
  <2>3. \A m \in {x \in w.messages : x.id \notin from} : m.system
    BY <1>1
  <2>. QED  BY <2>1, <2>2, <2>3 DEF SessFits
<1>4. CASE fits # {}
  <2>1. fits \subseteq Nat
    OBVIOUS
  <2>. HIDE DEF fits
  <2>2. PICK n \in fits : \A k \in fits : ~(<<k, n>> \in OpToRel(<, Nat))
    BY <1>4, <2>1, NatLessThanWellFounded, WFMin
  <2>3. ASSUME NEW k \in fits PROVE n <= k
    <3>1. n \in Nat /\ k \in Nat
      BY <2>1
    <3>2. ~ (k < n)
      BY <2>2, <3>1 DEF OpToRel
    <3>. QED  BY ONLY <3>1, <3>2
  <2>4. Min(fits) \in fits
    BY <2>3 DEF Min
  <2>5. ~SessOver(SessWithout(w, Upto(Min(fits))))
    BY <2>4 DEF fits
  <2>. QED  BY <1>2, <1>4, <2>5 DEF SessFits
<1>. QED  BY <1>3, <1>4

\* What is known in every state.
LEMMA SessKnown ==
  ASSUME SessInv
  PROVE  /\ SessType /\ SessMadeFirst /\ SessPlaces /\ SessTended
         /\ sessAdded \in Nat /\ sessAdded + 1 \in Nat
         /\ \A c \in SessCallers : SessCallInv(c) /\ sessPc[c] \in SessTasks /\ sessOp[c] \in SessOps
         /\ sessActive # NoSession => /\ sessLife = "made" /\ SessWindowInv(sessActive, sessAdded)
                                      /\ SessComplete(sessActive, sessAdded, sessDropped)
         /\ sessStored # NoSession => SessWindowInv(sessStored, sessAdded)
BY DEF SessInv, SessType, SessMadeFirst, SessPlaces

\* Windows stay right as messages are added, and complete as others are dropped.
LEMMA SessWindowStays ==
  ASSUME NEW w, NEW added \in Nat, NEW dropped, NEW gone
  PROVE  /\ SessWindowInv(w, added) => SessWindowInv(w, added + 1)
         /\ SessComplete(w, added, dropped) => SessComplete(w, added, dropped \cup gone)
<1>1. 1 .. added \subseteq 1 .. added + 1
  OBVIOUS
<1>. QED  BY <1>1 DEF SessWindowInv, SessComplete

\* A window is not NoSession.
LEMMA SessIsThere == \A w, added : SessWindowInv(w, added) => w # NoSession
BY SessConstants DEF SessWindowInv

LEMMA SessFreshFacts == SessWindowInv(SessFresh, 0) /\ SessFits(SessFresh) /\ \A dropped : SessComplete(SessFresh, 0, dropped)
<1>1. SessFresh \in SessWindows /\ SessFresh.messages = {} /\ SessFresh.tokens = 0
  BY DEF SessFresh, SessWindows
<1>2. IsFiniteSet({})
  BY FS_EmptySet
<1>3. SessSum({}) = 0
  BY <1>2, SessSums
<1>4. SessIds(SessFresh) = {}
  BY <1>1 DEF SessIds
<1>. QED  BY <1>1, <1>2, <1>3, <1>4 DEF SessWindowInv, SessFits, SessComplete

LEMMA SessCreateKeeps ==
  ASSUME SessInv, SessCreate
  PROVE  SessInv'
<1>1. /\ sessLife = "none" /\ sessLife' = "saved" /\ sessStored' = SessFresh
      /\ UNCHANGED <<sessActive, sessPc, sessOp, sessHeld, sessExpired, sessSweep, sessAdded, sessAcked, sessDropped, sessClosed, sessDeleted>>
  BY DEF SessCreate, sessCalls, sessPast
<1>2. sessActive = NoSession /\ sessAdded = 0 /\ sessSweep = "idle" /\ ~sessExpired /\ ~sessClosed /\ ~sessDeleted
      /\ \A c \in SessCallers : sessPc[c] = "idle"
  BY <1>1, SessKnown DEF SessMadeFirst
<1>3. SessType'
  BY <1>1, <1>2, SessKnown, SessFreshFacts DEF SessType
<1>4. sessAcked = {}
  BY <1>2, SessKnown DEF SessType
<1>5. SessMadeFirst' /\ SessPlaces' /\ SessTended'
  BY <1>1, <1>2, <1>4 DEF SessMadeFirst, SessPlaces, SessTended
<1>6. \A c \in SessCallers : SessCallInv(c)'
  BY <1>1, <1>2 DEF SessCallInv
<1>. QED  BY <1>3, <1>5, <1>6 DEF SessInv

LEMMA SessActivateKeeps ==
  ASSUME SessInv, SessActivate
  PROVE  SessInv'
<1>1. /\ sessLife = "saved" /\ sessLife' = "made" /\ sessActive' = SessFresh
      /\ UNCHANGED <<sessStored, sessPc, sessOp, sessHeld, sessExpired, sessSweep, sessAdded, sessAcked, sessDropped, sessClosed, sessDeleted>>
  BY DEF SessActivate, sessCalls, sessPast
<1>2. sessActive = NoSession /\ sessAdded = 0 /\ sessSweep = "idle" /\ ~sessExpired /\ ~sessClosed /\ ~sessDeleted
      /\ \A c \in SessCallers : sessPc[c] = "idle"
  BY <1>1, SessKnown DEF SessMadeFirst
<1>3. SessType'
  BY <1>1, <1>2, SessKnown, SessFreshFacts DEF SessType
<1>4. sessAcked = {} /\ SessFresh # NoSession
  <2>1. sessAcked \subseteq 1 .. 0
    BY <1>2, SessKnown DEF SessType
  <2>. QED  BY <2>1, SessFreshFacts, SessIsThere
<1>5. SessMadeFirst' /\ SessPlaces' /\ SessTended'
  BY <1>1, <1>2, <1>4, SessFreshFacts DEF SessMadeFirst, SessPlaces, SessTended
<1>6. \A c \in SessCallers : SessCallInv(c)'
  BY <1>1, <1>2 DEF SessCallInv
<1>. QED  BY <1>3, <1>5, <1>6 DEF SessInv

LEMMA SessAddKeeps ==
  ASSUME SessInv, NEW c \in SessCallers, NEW system \in BOOLEAN, NEW tokens \in SessTokens, SessAdd(c, system, tokens)
  PROVE  SessInv'
<1>1. PICK w : w = SessPushed(sessActive, sessAdded, system, tokens)
  OBVIOUS
<1>2. PICK task : task = IF SessShouldCompress(w) THEN "compress" ELSE "persist"
  OBVIOUS
<1>3. /\ sessActive # NoSession /\ sessActive.open /\ SessFree /\ sessAdded' = sessAdded + 1 /\ sessActive' = w
      /\ sessPc' = [sessPc EXCEPT ![c] = task] /\ sessOp' = [sessOp EXCEPT ![c] = [call |-> "add", id |-> sessAdded + 1]]
      /\ UNCHANGED <<sessLife, sessStored, sessHeld, sessExpired, sessSweep, sessAcked, sessDropped, sessClosed, sessDeleted>>
  BY <1>1, <1>2 DEF SessAdd, SessTo, sessPast, SessPushed
<1>4. sessLife = "made" /\ SessWindowInv(sessActive, sessAdded) /\ SessComplete(sessActive, sessAdded, sessDropped)
      /\ sessAdded \in Nat /\ sessAdded + 1 \in Nat
  BY <1>3, SessKnown
<1>5. SessWindowInv(w, sessAdded + 1) /\ w.open = sessActive.open /\ SessIds(w) = SessIds(sessActive) \cup {sessAdded + 1}
      /\ (~SessShouldCompress(w) => SessFits(w))
  <2>1. tokens \in Nat
    BY SessConstants
  <2>. QED  BY <1>1, <1>4, <2>1, SessAddedFacts
<1>6. SessComplete(w, sessAdded + 1, sessDropped) /\ w # NoSession
  <2>1. 1 .. sessAdded + 1 = (1 .. sessAdded) \cup {sessAdded + 1}
    BY <1>4
  <2>. QED  BY <1>4, <1>5, <2>1, SessIsThere DEF SessComplete
<1>7. /\ sessPc \in [SessCallers -> SessTasks] /\ sessOp \in [SessCallers -> SessOps]
      /\ sessPc'[c] = task /\ task \in {"compress", "persist"} /\ sessOp'[c].call = "add" /\ sessOp'[c].id = sessAdded + 1
      /\ \A d \in SessCallers : d # c => sessPc'[d] = sessPc[d] /\ sessOp'[d] = sessOp[d]
  BY <1>2, <1>3, SessKnown DEF SessType
<1>8. SessType'
  <2>1. sessPc' \in [SessCallers -> SessTasks]
    BY <1>3, <1>7 DEF SessTasks
  <2>2. sessOp' \in [SessCallers -> SessOps]
    <3>1. [call |-> "add", id |-> sessAdded + 1] \in SessOps
      BY <1>4 DEF SessOps
    <3>. QED  BY <1>3, <1>7, <3>1
  <2>3. sessStored' # NoSession => SessWindowInv(sessStored', sessAdded')
    BY <1>3, <1>4, SessKnown, SessWindowStays
  <2>4. sessAcked' \subseteq 1 .. sessAdded'
    <3>1. 1 .. sessAdded \subseteq 1 .. sessAdded + 1
      BY <1>4
    <3>. QED  BY <1>3, <3>1, SessKnown DEF SessType
  <2>. QED  BY <1>3, <1>4, <1>5, <2>1, <2>2, <2>3, <2>4, SessKnown DEF SessType
<1>9. SessMadeFirst'
  BY <1>3, <1>4 DEF SessMadeFirst
<1>10. SessPlaces'
  BY <1>3, <1>4, <1>6, SessKnown DEF SessPlaces
<1>11. SessTended'
  <2>1. SUFFICES ASSUME \A d \in SessCallers : sessPc'[d] # "compress" PROVE SessFits(w)
    BY <1>3 DEF SessTended
  <2>2. task = "persist"
    BY <1>7, <2>1
  <2>. QED  BY <1>2, <1>5, <2>2
<1>12. ASSUME NEW d \in SessCallers PROVE SessCallInv(d)'
  <2>1. CASE d = c
    BY <1>3, <1>4, <1>7, <2>1 DEF SessCallInv
  <2>2. CASE d # c
    <3>1. sessPc[d] # "saving" /\ SessCallInv(d)
      BY <1>3, SessKnown DEF SessFree
    <3>2. sessOp[d].call = "close" => sessPc[d] = "idle"
      BY <1>3, <3>1 DEF SessCallInv
    <3>3. sessPc[d] # "remove"
      BY <3>1, <3>2 DEF SessCallInv
    <3>4. sessPc[d] # "idle" /\ sessOp[d].call = "add" => sessOp[d].id \in 1 .. sessAdded + 1
      BY <1>4, <3>1 DEF SessCallInv
    <3>. QED  BY <1>3, <1>7, <2>2, <3>1, <3>2, <3>3, <3>4 DEF SessCallInv
  <2>. QED  BY <2>1, <2>2
<1>. QED  BY <1>8, <1>9, <1>10, <1>11, <1>12 DEF SessInv

\* Messages go out of the window, while nobody saves it.
LEMMA SessDropKeeps ==
  ASSUME SessInv, NEW gone, sessActive # NoSession, SessFree, SessDrop(gone),
         UNCHANGED <<sessLife, sessStored, sessOp, sessHeld, sessExpired, sessSweep, sessAdded, sessAcked, sessClosed, sessDeleted>>,
         \/ UNCHANGED sessPc
         \/ \E c \in SessCallers : /\ sessPc[c] = "compress" /\ sessPc' = [sessPc EXCEPT ![c] = "persist"]
                                   /\ gone = SessTruncated(sessActive)
  PROVE  SessInv'
<1>1. PICK w : w = SessWithout(sessActive, gone)
  OBVIOUS
<1>2. sessActive' = w /\ sessDropped' = sessDropped \cup gone
  BY <1>1 DEF SessDrop
<1>3. sessLife = "made" /\ SessWindowInv(sessActive, sessAdded) /\ SessComplete(sessActive, sessAdded, sessDropped)
      /\ sessAdded \in Nat
  BY SessKnown
<1>4. SessWindowInv(w, sessAdded) /\ w.open = sessActive.open /\ SessIds(w) = SessIds(sessActive) \ gone
      /\ (SessFits(sessActive) => SessFits(w))
  BY <1>1, <1>3, SessWithoutFacts
<1>5. SessComplete(w, sessAdded, sessDropped') /\ w # NoSession
  BY <1>2, <1>3, <1>4, SessIsThere DEF SessComplete
<1>6. /\ sessPc \in [SessCallers -> SessTasks]
      /\ \A d \in SessCallers : sessPc'[d] = sessPc[d] \/ (sessPc[d] = "compress" /\ sessPc'[d] = "persist")
      /\ sessPc' \in [SessCallers -> SessTasks]
  BY SessKnown DEF SessType, SessTasks
<1>7. SessType'
  BY <1>2, <1>4, <1>6, SessKnown DEF SessType
<1>8. SessMadeFirst'
  BY <1>3 DEF SessMadeFirst
<1>9. SessPlaces'
  <2>1. ~sessExpired /\ sessStored # NoSession => sessAcked \subseteq SessIds(sessStored) \cup sessDropped'
    BY <1>2, SessKnown DEF SessPlaces
  <2>. QED  BY <1>2, <1>3, <1>5, <2>1, SessKnown DEF SessPlaces
<1>10. SessTended'
  <2>1. SUFFICES ASSUME \A d \in SessCallers : sessPc'[d] # "compress" PROVE SessFits(w)
    BY <1>2 DEF SessTended
  <2>2. CASE UNCHANGED sessPc
    BY <1>4, <2>1, <2>2, SessKnown DEF SessTended
  <2>3. CASE gone = SessTruncated(sessActive)
    BY <1>1, <1>3, <2>3, SessTruncatedFits
  <2>. QED  BY <2>2, <2>3
<1>11. ASSUME NEW d \in SessCallers PROVE SessCallInv(d)'
  <2>1. sessPc[d] # "saving" /\ SessCallInv(d)
    BY SessKnown DEF SessFree
  <2>2. sessPc'[d] = sessPc[d] \/ (sessPc[d] = "compress" /\ sessPc'[d] = "persist")
    BY <1>6
  <2>3. sessPc[d] = "remove" =>
          sessOp[d].call = "close" /\ (sessExpired \/ SessGone(sessStored, sessAdded, sessDropped'))
    BY <1>2, <2>1 DEF SessCallInv, SessGone, SessComplete
  <2>4. sessPc'[d] # "saving" /\ (sessPc'[d] = "remove" => sessPc[d] = "remove") /\ (sessPc'[d] # "idle" => sessPc[d] # "idle")
    BY <2>1, <2>2
  <2>. QED  BY <1>2, <1>4, <2>1, <2>3, <2>4 DEF SessCallInv
<1>. QED  BY <1>7, <1>8, <1>9, <1>10, <1>11 DEF SessInv

LEMMA SessTruncateKeeps ==
  ASSUME SessInv, NEW c \in SessCallers, SessTruncate(c)
  PROVE  SessInv'
<1>1. /\ sessPc[c] = "compress" /\ SessFree
      /\ UNCHANGED <<sessLife, sessStored, sessOp, sessHeld, sessExpired, sessSweep, sessAdded, sessAcked, sessClosed, sessDeleted>>
  BY DEF SessTruncate
<1>2. CASE sessActive = NoSession
  <2>1. UNCHANGED <<sessActive, sessDropped>> /\ sessPc' = [sessPc EXCEPT ![c] = "idle"]
    BY <1>2 DEF SessTruncate, SessTo
  <2>2. /\ sessPc \in [SessCallers -> SessTasks] /\ sessPc' \in [SessCallers -> SessTasks]
        /\ sessPc'[c] = "idle" /\ \A d \in SessCallers : d # c => sessPc'[d] = sessPc[d]
    BY <2>1, SessKnown DEF SessType, SessTasks
  <2>3. SessType' /\ SessPlaces' /\ SessTended'
    BY <1>1, <1>2, <2>1, <2>2, SessKnown DEF SessType, SessPlaces, SessTended
  <2>4. SessMadeFirst'
    BY <1>1, <2>1, <2>2, SessKnown DEF SessMadeFirst
  <2>5. ASSUME NEW d \in SessCallers PROVE SessCallInv(d)'
    <3>1. SessCallInv(d) /\ (sessPc'[d] = sessPc[d] \/ sessPc'[d] = "idle")
      BY <2>2, SessKnown
    <3>. QED  BY <1>1, <2>1, <3>1 DEF SessCallInv
  <2>. QED  BY <2>3, <2>4, <2>5 DEF SessInv
<1>3. CASE sessActive # NoSession
  <2>1. sessPc' = [sessPc EXCEPT ![c] = "persist"] /\ SessDrop(SessTruncated(sessActive))
    BY <1>3 DEF SessTruncate, SessTo
  <2>. QED  BY <1>1, <1>3, <2>1, SessDropKeeps
<1>. QED  BY <1>2, <1>3

LEMMA SessCompressKeeps ==
  ASSUME SessInv, NEW c \in SessCallers, SessCompress(c)
  PROVE  SessInv'
<1>1. PICK gone : SessDrop(gone)
  BY DEF SessCompress
<1>2. /\ sessActive # NoSession /\ SessFree
      /\ UNCHANGED <<sessLife, sessStored, sessPc, sessOp, sessHeld, sessExpired, sessSweep, sessAdded, sessAcked, sessClosed, sessDeleted>>
  BY DEF SessCompress, sessCalls
<1>. QED  BY <1>1, <1>2, SessDropKeeps

\* A call goes on, and nothing else changes but what is stored.
LEMMA SessPcFacts ==
  ASSUME SessInv, NEW c \in SessCallers, NEW task \in SessTasks, sessPc' = [sessPc EXCEPT ![c] = task]
  PROVE  /\ sessPc' \in [SessCallers -> SessTasks] /\ sessPc'[c] = task
         /\ \A d \in SessCallers : d # c => sessPc'[d] = sessPc[d]
BY SessKnown DEF SessType

LEMMA SessCloseKeeps ==
  ASSUME SessInv, NEW c \in SessCallers, SessClose(c)
  PROVE  SessInv'
<1>1. PICK w : w = [sessActive EXCEPT !.open = FALSE]
  OBVIOUS
<1>2. /\ sessPc[c] = "idle" /\ sessActive # NoSession /\ SessFree /\ sessActive' = w
      /\ sessPc' = [sessPc EXCEPT ![c] = "persist"] /\ sessOp' = [sessOp EXCEPT ![c] = [call |-> "close", id |-> 0]]
      /\ UNCHANGED <<sessLife, sessStored, sessHeld, sessExpired, sessSweep, sessAdded, sessAcked, sessDropped, sessClosed, sessDeleted>>
  BY <1>1 DEF SessClose, SessTo, sessPast
<1>3. sessLife = "made" /\ SessWindowInv(sessActive, sessAdded) /\ SessComplete(sessActive, sessAdded, sessDropped)
      /\ sessAdded \in Nat
  BY <1>2, SessKnown
<1>4. w \in SessWindows /\ ~w.open /\ w.messages = sessActive.messages /\ w.tokens = sessActive.tokens
  BY <1>1, <1>3 DEF SessWindowInv, SessWindows
<1>5. SessIds(w) = SessIds(sessActive)
  BY <1>4 DEF SessIds
<1>6. SessWindowInv(w, sessAdded) /\ SessComplete(w, sessAdded, sessDropped) /\ w # NoSession
  BY <1>3, <1>4, <1>5, SessIsThere DEF SessWindowInv, SessComplete
<1>7. sessPc' \in [SessCallers -> SessTasks] /\ sessPc'[c] = "persist"
      /\ \A d \in SessCallers : d # c => sessPc'[d] = sessPc[d]
  BY <1>2, SessPcFacts DEF SessTasks
<1>8. /\ sessOp' \in [SessCallers -> SessOps] /\ sessOp'[c].call = "close"
      /\ \A d \in SessCallers : d # c => sessOp'[d] = sessOp[d]
  <2>1. [call |-> "close", id |-> 0] \in SessOps
    BY DEF SessOps
  <2>. QED  BY <1>2, <2>1, SessKnown DEF SessType
<1>9. SessType'
  BY <1>2, <1>6, <1>7, <1>8, SessKnown DEF SessType
<1>10. SessMadeFirst' /\ SessPlaces'
  BY <1>2, <1>3, <1>6, SessKnown DEF SessMadeFirst, SessPlaces
<1>11. SessTended'
  <2>1. SUFFICES ASSUME \A d \in SessCallers : sessPc'[d] # "compress" PROVE SessFits(w)
    BY <1>2 DEF SessTended
  <2>2. SessFits(sessActive)
    BY <1>2, <1>7, <2>1, SessKnown DEF SessTended
  <2>. QED  BY <1>4, <2>2 DEF SessFits, SessOver, SessSize
<1>12. ASSUME NEW d \in SessCallers PROVE SessCallInv(d)'
  <2>1. CASE d = c
    BY <1>2, <1>4, <1>7, <1>8, <2>1 DEF SessCallInv
  <2>2. CASE d # c
    <3>1. sessPc[d] # "saving" /\ SessCallInv(d)
      BY <1>2, SessKnown DEF SessFree
    <3>. QED  BY <1>2, <1>4, <1>7, <1>8, <2>2, <3>1 DEF SessCallInv
  <2>. QED  BY <2>1, <2>2
<1>. QED  BY <1>9, <1>10, <1>11, <1>12 DEF SessInv

\* A window stored as close_session left it is all there is of the session.
LEMMA SessStoredAsGone ==
  ASSUME SessInv, sessActive # NoSession, ~sessActive.open
  PROVE  SessGone(sessActive, sessAdded, sessDropped)
BY SessKnown DEF SessGone

LEMMA SessPersistKeeps ==
  ASSUME SessInv, NEW c \in SessCallers, SessPersist(c)
  PROVE  SessInv'
<1>1. /\ sessPc[c] = "persist"
      /\ UNCHANGED <<sessLife, sessActive, sessStored, sessOp, sessExpired, sessSweep, sessAdded, sessDropped, sessClosed, sessDeleted>>
  BY DEF SessPersist
<1>2. sessLife = "made" /\ sessAdded \in Nat /\ SessCallInv(c)
  BY <1>1, SessKnown DEF SessMadeFirst
<1>3. CASE sessActive = NoSession
  <2>1. PICK task : task = IF sessOp[c].call = "close" THEN "remove" ELSE "idle"
    OBVIOUS
  <2>2. /\ sessPc' = [sessPc EXCEPT ![c] = task] /\ UNCHANGED sessHeld
        /\ sessAcked' = IF sessOp[c].call = "add" THEN sessAcked \cup {sessOp[c].id} ELSE sessAcked
    BY <1>3, <2>1 DEF SessPersist, SessPersisted, SessTo
  <2>3. task \in SessTasks /\ task \in {"idle", "remove"}
    BY <2>1 DEF SessTasks
  <2>4. sessPc' \in [SessCallers -> SessTasks] /\ sessPc'[c] = task
        /\ \A d \in SessCallers : d # c => sessPc'[d] = sessPc[d]
    BY <2>2, <2>3, SessPcFacts
  <2>5. sessAcked' \subseteq 1 .. sessAdded
    <3>1. sessOp[c].call = "add" => sessOp[c].id \in 1 .. sessAdded
      BY <1>1, <1>2 DEF SessCallInv
    <3>2. sessAcked \subseteq 1 .. sessAdded
      BY SessKnown DEF SessType
    <3>. QED  BY <2>2, <3>1, <3>2
  <2>6. sessExpired \/ SessGone(sessStored, sessAdded, sessDropped)
    BY <1>2, <1>3, SessKnown DEF SessPlaces
  <2>7. SessType'
    BY <1>1, <2>2, <2>4, <2>5, SessKnown DEF SessType
  <2>8. SessMadeFirst' /\ SessTended'
    BY <1>1, <1>2, <1>3 DEF SessMadeFirst, SessTended
  <2>9. SessPlaces'
    <3>1. ~sessExpired => sessAcked' \subseteq SessIds(sessStored) \cup sessDropped
      BY <2>5, <2>6 DEF SessGone, SessComplete
    <3>. QED  BY <1>1, <1>3, <3>1, SessKnown DEF SessPlaces
  <2>10. ASSUME NEW d \in SessCallers PROVE SessCallInv(d)'
    <3>1. CASE d = c
      <4>1. task = "remove" => sessOp[c].call = "close"
        BY <2>1
      <4>2. sessOp[c].call # "add" \/ sessOp[c].id \in 1 .. sessAdded
        BY <1>1, <1>2 DEF SessCallInv
      <4>. QED  BY <1>1, <1>3, <2>3, <2>4, <2>6, <3>1, <4>1, <4>2 DEF SessCallInv
    <3>2. CASE d # c
      <4>1. SessCallInv(d)
        BY SessKnown
      <4>. QED  BY <1>1, <2>2, <2>4, <3>2, <4>1 DEF SessCallInv
    <3>. QED  BY <3>1, <3>2
  <2>. QED  BY <2>7, <2>8, <2>9, <2>10 DEF SessInv
<1>4. CASE sessActive # NoSession
  <2>1. /\ sessPc' = [sessPc EXCEPT ![c] = "saving"] /\ sessHeld' = [sessHeld EXCEPT ![c] = sessActive]
        /\ UNCHANGED sessAcked
    BY <1>4 DEF SessPersist, SessTo
  <2>2. sessPc' \in [SessCallers -> SessTasks] /\ sessPc'[c] = "saving"
        /\ \A d \in SessCallers : d # c => sessPc'[d] = sessPc[d]
    BY <2>1, SessPcFacts DEF SessTasks
  <2>3. DOMAIN sessHeld' = SessCallers /\ sessHeld'[c] = sessActive
        /\ \A d \in SessCallers : d # c => sessHeld'[d] = sessHeld[d]
    BY <2>1, SessKnown DEF SessType
  <2>4. SessType'
    BY <1>1, <2>1, <2>2, <2>3, SessKnown DEF SessType
  <2>5. SessMadeFirst' /\ SessPlaces'
    BY <1>1, <1>2, <2>1, SessKnown DEF SessMadeFirst, SessPlaces
  <2>6. SessTended'
    BY <1>1, <2>2, SessKnown DEF SessTended
  <2>7. ASSUME NEW d \in SessCallers PROVE SessCallInv(d)'
    <3>1. SessCallInv(d)
      BY SessKnown
    <3>2. CASE d = c
      BY <1>1, <1>4, <2>2, <2>3, <3>1, <3>2 DEF SessCallInv
    <3>3. CASE d # c
      BY <1>1, <2>2, <2>3, <3>1, <3>3 DEF SessCallInv
    <3>. QED  BY <3>2, <3>3
  <2>. QED  BY <2>4, <2>5, <2>6, <2>7 DEF SessInv
<1>. QED  BY <1>3, <1>4

LEMMA SessSaveKeeps ==
  ASSUME SessInv, NEW c \in SessCallers, SessSave(c)
  PROVE  SessInv'
<1>1. /\ sessPc[c] = "saving" /\ sessHeld' = [sessHeld EXCEPT ![c] = NoSession]
      /\ UNCHANGED <<sessLife, sessActive, sessOp, sessExpired, sessSweep, sessAdded, sessDropped, sessClosed, sessDeleted>>
  BY DEF SessSave
<1>2. sessLife = "made" /\ sessAdded \in Nat /\ sessActive # NoSession /\ sessHeld[c] = sessActive
      /\ SessComplete(sessActive, sessAdded, sessDropped) /\ SessWindowInv(sessActive, sessAdded)
  BY <1>1, SessKnown DEF SessCallInv
<1>3. DOMAIN sessHeld' = SessCallers /\ \A d \in SessCallers : d # c => sessHeld'[d] = sessHeld[d]
  BY <1>1, SessKnown DEF SessType
<1>4. sessOp[c].call # "add" \/ sessOp[c].id \in 1 .. sessAdded
  BY <1>1, SessKnown DEF SessCallInv
<1>5. sessOp[c].call = "close" => SessGone(sessActive, sessAdded, sessDropped)
  <2>1. sessOp[c].call = "close" => ~sessActive.open
    BY <1>1, <1>2, SessKnown DEF SessCallInv
  <2>. QED  BY <1>2, <2>1, SessStoredAsGone
<1>6. CASE UNCHANGED <<sessStored, sessAcked>> /\ sessPc' = [sessPc EXCEPT ![c] = "idle"]
  <2>1. sessPc' \in [SessCallers -> SessTasks] /\ sessPc'[c] = "idle"
        /\ \A d \in SessCallers : d # c => sessPc'[d] = sessPc[d]
    BY <1>6, SessPcFacts DEF SessTasks
  <2>2. SessType'
    BY <1>1, <1>3, <1>6, <2>1, SessKnown DEF SessType
  <2>3. SessMadeFirst' /\ SessPlaces'
    BY <1>1, <1>2, <1>6, SessKnown DEF SessMadeFirst, SessPlaces
  <2>4. SessTended'
    BY <1>1, <2>1, SessKnown DEF SessTended
  <2>5. ASSUME NEW d \in SessCallers PROVE SessCallInv(d)'
    <3>1. SessCallInv(d)
      BY SessKnown
    <3>. QED  BY <1>1, <1>3, <1>6, <2>1, <3>1 DEF SessCallInv
  <2>. QED  BY <2>2, <2>3, <2>4, <2>5 DEF SessInv
<1>7. CASE sessStored' = sessHeld[c] /\ SessPersisted(c)
  <2>1. PICK task : task = IF sessOp[c].call = "close" THEN "remove" ELSE "idle"
    OBVIOUS
  <2>2. /\ sessPc' = [sessPc EXCEPT ![c] = task] /\ sessStored' = sessActive
        /\ sessAcked' = IF sessOp[c].call = "add" THEN sessAcked \cup {sessOp[c].id} ELSE sessAcked
    BY <1>2, <1>7, <2>1 DEF SessPersisted, SessTo
  <2>3. task \in SessTasks /\ task \in {"idle", "remove"}
    BY <2>1 DEF SessTasks
  <2>4. sessPc' \in [SessCallers -> SessTasks] /\ sessPc'[c] = task
        /\ \A d \in SessCallers : d # c => sessPc'[d] = sessPc[d]
    BY <2>2, <2>3, SessPcFacts
  <2>5. sessAcked' \subseteq 1 .. sessAdded
    <3>1. sessAcked \subseteq 1 .. sessAdded
      BY SessKnown DEF SessType
    <3>. QED  BY <1>4, <2>2, <3>1
  <2>6. SessType'
    BY <1>1, <1>2, <1>3, <2>2, <2>4, <2>5, SessKnown DEF SessType
  <2>7. SessMadeFirst'
    BY <1>1, <1>2 DEF SessMadeFirst
  <2>8. SessPlaces'
    <3>1. sessAcked' \subseteq SessIds(sessActive) \cup sessDropped
      BY <1>2, <2>5 DEF SessComplete
    <3>. QED  BY <1>1, <1>2, <2>2, <3>1, SessKnown DEF SessPlaces
  <2>9. SessTended'
    BY <1>1, <2>3, <2>4, SessKnown DEF SessTended
  <2>10. ASSUME NEW d \in SessCallers PROVE SessCallInv(d)'
    <3>1. SessCallInv(d)
      BY SessKnown
    <3>2. CASE d = c
      <4>1. task = "remove" => sessOp[c].call = "close"
        BY <2>1
      <4>2. sessOp[c].call = "close" => ~sessActive.open
        BY <1>5 DEF SessGone
      <4>. QED  BY <1>1, <1>4, <1>5, <2>2, <2>3, <2>4, <3>2, <4>1, <4>2 DEF SessCallInv
    <3>3. CASE d # c
      <4>1. sessPc[d] = "remove" => sessOp[d].call = "close" /\ ~sessActive.open
        BY <1>2, <3>1 DEF SessCallInv
      <4>2. sessPc[d] = "remove" => SessGone(sessActive, sessAdded, sessDropped)
        BY <1>2, <4>1, SessStoredAsGone
      <4>. QED  BY <1>1, <1>3, <2>2, <2>4, <3>1, <3>3, <4>1, <4>2 DEF SessCallInv
    <3>. QED  BY <3>2, <3>3
  <2>. QED  BY <2>6, <2>7, <2>8, <2>9, <2>10 DEF SessInv
<1>. QED  BY <1>6, <1>7 DEF SessSave, SessTo

\* The session leaves the map, while nobody saves it.
LEMMA SessLeaveKeeps ==
  ASSUME SessInv, SessFree, sessLife = "made", sessActive' = NoSession,
         sessExpired \/ SessGone(sessStored, sessAdded, sessDropped),
         UNCHANGED <<sessLife, sessStored, sessOp, sessHeld, sessExpired, sessAdded, sessAcked, sessDropped, sessDeleted>>,
         sessPc' \in [SessCallers -> SessTasks],
         \A d \in SessCallers : sessPc'[d] = sessPc[d] \/ sessPc'[d] = "idle",
         sessClosed' \in BOOLEAN, sessSweep' \in {"idle", "evict", "delete"},
         sessSweep' # "idle" => sessExpired
  PROVE  SessInv'
<1>1. SessType'
  BY SessKnown DEF SessType
<1>2. SessMadeFirst' /\ SessTended'
  BY DEF SessMadeFirst, SessTended
<1>3. SessPlaces'
  BY SessKnown DEF SessPlaces
<1>4. ASSUME NEW d \in SessCallers PROVE SessCallInv(d)'
  <2>1. SessCallInv(d) /\ sessPc[d] # "saving" /\ (sessPc'[d] = sessPc[d] \/ sessPc'[d] = "idle")
    BY SessKnown DEF SessFree
  <2>. QED  BY <2>1 DEF SessCallInv
<1>. QED  BY <1>1, <1>2, <1>3, <1>4 DEF SessInv

LEMMA SessRemoveKeeps ==
  ASSUME SessInv, NEW c \in SessCallers, SessRemove(c)
  PROVE  SessInv'
<1>1. /\ sessPc[c] = "remove" /\ SessFree /\ sessPc' = [sessPc EXCEPT ![c] = "idle"]
      /\ sessActive' = NoSession /\ sessClosed' = TRUE
      /\ UNCHANGED <<sessLife, sessStored, sessOp, sessHeld, sessExpired, sessSweep, sessAdded, sessAcked, sessDropped, sessDeleted>>
  BY DEF SessRemove, SessTo
<1>2. sessLife = "made" /\ (sessExpired \/ SessGone(sessStored, sessAdded, sessDropped))
  BY <1>1, SessKnown DEF SessMadeFirst, SessCallInv
<1>3. sessPc' \in [SessCallers -> SessTasks] /\ \A d \in SessCallers : sessPc'[d] = sessPc[d] \/ sessPc'[d] = "idle"
  BY <1>1, SessPcFacts DEF SessTasks
<1>4. sessSweep \in {"idle", "evict", "delete"} /\ (sessSweep # "idle" => sessExpired)
  BY SessKnown DEF SessType, SessPlaces
<1>. QED  BY <1>1, <1>2, <1>3, <1>4, SessLeaveKeeps

LEMMA SessEvictKeeps ==
  ASSUME SessInv, SessEvict
  PROVE  SessInv'
<1>1. /\ sessSweep = "evict" /\ SessFree /\ sessActive' = NoSession /\ sessSweep' = "delete"
      /\ UNCHANGED <<sessLife, sessStored, sessPc, sessOp, sessHeld, sessExpired, sessAdded, sessAcked, sessDropped, sessClosed, sessDeleted>>
  BY DEF SessEvict, sessCalls, sessPast
<1>2. sessLife = "made" /\ sessExpired
  BY <1>1, SessKnown DEF SessMadeFirst, SessPlaces
<1>3. sessPc' \in [SessCallers -> SessTasks] /\ sessClosed' \in BOOLEAN
  BY <1>1, SessKnown DEF SessType
<1>4. \A d \in SessCallers : sessPc'[d] = sessPc[d] \/ sessPc'[d] = "idle"
  BY <1>1
<1>. QED  BY <1>1, <1>2, <1>3, <1>4, SessLeaveKeeps

LEMMA SessExpireKeeps ==
  ASSUME SessInv, SessExpire
  PROVE  SessInv'
<1>1. /\ sessLife = "made" /\ sessExpired' = TRUE
      /\ UNCHANGED <<sessLife, sessActive, sessStored, sessPc, sessOp, sessHeld, sessSweep, sessAdded, sessAcked, sessDropped, sessClosed, sessDeleted>>
  BY DEF SessExpire, sessCalls, sessPast
<1>2. SessType' /\ SessMadeFirst' /\ SessPlaces' /\ SessTended'
  BY <1>1, SessKnown DEF SessType, SessMadeFirst, SessPlaces, SessTended
<1>3. ASSUME NEW c \in SessCallers PROVE SessCallInv(c)'
  BY <1>1, SessKnown DEF SessCallInv
<1>. QED  BY <1>2, <1>3 DEF SessInv

LEMMA SessCollectKeeps ==
  ASSUME SessInv, SessCollect
  PROVE  SessInv'
<1>1. /\ sessActive # NoSession /\ sessExpired /\ sessSweep' = "evict"
      /\ UNCHANGED <<sessLife, sessActive, sessStored, sessPc, sessOp, sessHeld, sessExpired, sessAdded, sessAcked, sessDropped, sessClosed, sessDeleted>>
  BY DEF SessCollect, sessCalls, sessPast
<1>2. SessType' /\ SessMadeFirst' /\ SessPlaces' /\ SessTended'
  BY <1>1, SessKnown DEF SessType, SessMadeFirst, SessPlaces, SessTended
<1>3. ASSUME NEW c \in SessCallers PROVE SessCallInv(c)'
  BY <1>1, SessKnown DEF SessCallInv
<1>. QED  BY <1>2, <1>3 DEF SessInv

LEMMA SessDeleteKeeps ==
  ASSUME SessInv, SessDelete
  PROVE  SessInv'
<1>1. /\ sessSweep = "delete" /\ sessSweep' = "idle"
      /\ UNCHANGED <<sessLife, sessActive, sessPc, sessOp, sessHeld, sessExpired, sessAdded, sessAcked, sessDropped, sessClosed>>
      /\ \/ sessStored' = NoSession /\ sessDeleted' = TRUE
         \/ UNCHANGED <<sessStored, sessDeleted>>
  BY DEF SessDelete, sessCalls
<1>2. sessLife = "made" /\ sessExpired /\ sessActive = NoSession
  BY <1>1, SessKnown DEF SessMadeFirst, SessPlaces
<1>3. SessType' /\ SessMadeFirst' /\ SessTended'
  BY <1>1, <1>2, SessKnown DEF SessType, SessMadeFirst, SessTended
<1>4. SessPlaces'
  BY <1>1, <1>2, SessKnown DEF SessPlaces
<1>5. ASSUME NEW c \in SessCallers PROVE SessCallInv(c)'
  BY <1>1, <1>2, SessKnown DEF SessCallInv
<1>. QED  BY <1>3, <1>4, <1>5 DEF SessInv

LEMMA SessKeeps == SessInv /\ [SessNext]_sessVars => SessInv'
<1>. SUFFICES ASSUME SessInv, [SessNext]_sessVars PROVE SessInv'
  OBVIOUS
<1>1. CASE SessCreate
  BY <1>1, SessCreateKeeps
<1>2. CASE SessActivate
  BY <1>2, SessActivateKeeps
<1>3. CASE SessExpire
  BY <1>3, SessExpireKeeps
<1>4. CASE SessCollect
  BY <1>4, SessCollectKeeps
<1>5. CASE SessEvict
  BY <1>5, SessEvictKeeps
<1>6. CASE SessDelete
  BY <1>6, SessDeleteKeeps
<1>7. ASSUME NEW c \in SessCallers, NEW system \in BOOLEAN, NEW tokens \in SessTokens, SessAdd(c, system, tokens)
      PROVE  SessInv'
  BY <1>7, SessAddKeeps
<1>8. ASSUME NEW c \in SessCallers, SessTruncate(c) PROVE SessInv'
  BY <1>8, SessTruncateKeeps
<1>9. ASSUME NEW c \in SessCallers, SessCompress(c) PROVE SessInv'
  BY <1>9, SessCompressKeeps
<1>10. ASSUME NEW c \in SessCallers, SessClose(c) PROVE SessInv'
  BY <1>10, SessCloseKeeps
<1>11. ASSUME NEW c \in SessCallers, SessPersist(c) PROVE SessInv'
  BY <1>11, SessPersistKeeps
<1>12. ASSUME NEW c \in SessCallers, SessSave(c) PROVE SessInv'
  BY <1>12, SessSaveKeeps
<1>13. ASSUME NEW c \in SessCallers, SessRemove(c) PROVE SessInv'
  BY <1>13, SessRemoveKeeps
<1>14. CASE UNCHANGED sessVars
  <2>1. UNCHANGED <<sessLife, sessActive, sessStored, sessPc, sessOp, sessHeld, sessExpired, sessSweep, sessAdded,
                    sessAcked, sessDropped, sessClosed, sessDeleted>>
    BY <1>14 DEF sessVars, sessCalls, sessPast
  <2>2. SessType' /\ SessMadeFirst' /\ SessPlaces' /\ SessTended'
    BY <2>1, SessKnown DEF SessType, SessMadeFirst, SessPlaces, SessTended
  <2>3. ASSUME NEW c \in SessCallers PROVE SessCallInv(c)'
    BY <2>1, SessKnown DEF SessCallInv
  <2>. QED  BY <2>2, <2>3 DEF SessInv
<1>. QED  BY <1>1, <1>2, <1>3, <1>4, <1>5, <1>6, <1>7, <1>8, <1>9, <1>10, <1>11, <1>12, <1>13, <1>14 DEF SessNext

LEMMA SessStarts == SessInit => SessInv
<1>1. SUFFICES ASSUME SessInit PROVE SessInv
  OBVIOUS
<1>2. [call |-> "none", id |-> 0] \in SessOps
  BY DEF SessOps
<1>3. SessType
  BY <1>1, <1>2 DEF SessInit, SessType, SessTasks
<1>4. SessMadeFirst /\ SessPlaces /\ SessTended
  BY <1>1 DEF SessInit, SessMadeFirst, SessPlaces, SessTended
<1>5. ASSUME NEW c \in SessCallers PROVE SessCallInv(c)
  BY <1>1 DEF SessInit, SessCallInv
<1>. QED  BY <1>3, <1>4, <1>5 DEF SessInv

LEMMA SessInvKept == SessInv => SessionsKept
<1>1. SUFFICES ASSUME SessInv PROVE SessWindowBounded /\ SessStoreHonest
  BY DEF SessionsKept
<1>2. \A w \in {sessActive, sessStored} \ {NoSession} : w.tokens = SessSum(w.messages)
  BY <1>1, SessKnown DEF SessWindowInv
<1>3. SessWindowBounded
  BY <1>1, <1>2, SessKnown DEF SessWindowBounded, SessTended, SessFits
<1>4. sessClosed => ~SessFound
  <2>1. SUFFICES ASSUME sessClosed, ~sessExpired PROVE sessActive = NoSession /\ ~(sessStored # NoSession /\ sessStored.open)
    BY DEF SessFound
  <2>2. sessActive = NoSession /\ sessLife = "made"
    BY <1>1, <2>1, SessKnown DEF SessPlaces, SessMadeFirst
  <2>3. SessGone(sessStored, sessAdded, sessDropped)
    BY <1>1, <2>1, <2>2, SessKnown DEF SessPlaces
  <2>. QED  BY <2>2, <2>3 DEF SessGone
<1>5. SessStoreHonest
  BY <1>1, <1>4, SessKnown DEF SessStoreHonest, SessPlaces
<1>. QED  BY <1>3, <1>5

\* A session's window counts the tokens of its messages and fits its limits
\* once it was compressed; what add_message said Ok to is in the store, and no
\* late save brings back a session that was closed or deleted.
THEOREM SessionsAreKept == SessSpec => []SessionsKept
<1>1. SessSpec => []SessInv
  BY SessStarts, SessKeeps, PTL DEF SessSpec
<1>. QED  BY <1>1, SessInvKept, PTL

\* Sessions, tools and prompts of the MCP server are each kept whatever steps
\* the others take.
THEOREM McpIsSound == SessSpec /\ ToolSpec /\ PrmSpec => []McpSound
<1>1. SessionsKept /\ ToolsPaired /\ PromptsKept => McpSound
  BY DEF McpSound
<1>. QED  BY <1>1, SessionsAreKept, ToolsArePaired, PromptsAreKept, PTL

-----------------------------------------------------------------------------
(***************************************************************************)
(* The memories of an agent.  Unless two calls were about it at a time, an *)
(* entry is in the index and in the vector store, or in neither, but while *)
(* one call is between its two changes.                                    *)
(***************************************************************************)

LtAgree(index, vectors, i) ==
  /\ i \in DOMAIN index <=> i \in DOMAIN vectors
  /\ i \in DOMAIN index => index[i] = vectors[i]

\* The id a call has changed the vector store for, but not the index.
LtHalf(call, i) ==
  \/ call.at = "index" /\ call.entry.id = i
  \/ call.at = "remove" /\ call.id = i

LtHalfDone(call, vectors, contested) ==
  /\ call.at = "index" /\ call.entry.id \notin contested =>
       call.entry.id \in DOMAIN vectors /\ vectors[call.entry.id] = call.entry
  /\ call.at = "remove" /\ call.id \notin contested => call.id \notin DOMAIN vectors

LtInv ==
  /\ DOMAIN ltCall = LtCallers
  /\ \A c, d \in LtCallers : c # d => LtAbout(ltCall[c]) \cap LtAbout(ltCall[d]) \subseteq ltContested
  /\ \A c \in LtCallers : LtHalfDone(ltCall[c], ltVectors, ltContested)
  /\ \A i \in (DOMAIN ltIndex \cup DOMAIN ltVectors) \ ltContested :
       LtAgree(ltIndex, ltVectors, i) \/ \E c \in LtCallers : LtHalf(ltCall[c], i)

WmEntries == [n : Nat, importance : Nat, tokens : Nat]

WmInv ==
  /\ wmAdds \in Nat /\ wmTokens \in Nat
  /\ wmWindow \in Seq(WmEntries) /\ WmOrdered(wmWindow) /\ Len(wmWindow) <= WmMaxEntries
  /\ \A i \in DOMAIN wmWindow : wmWindow[i].n <= wmAdds
  /\ wmTokens = WmSum(wmWindow)
  /\ ~wmCut /\ wmAdds > 0 => \E i \in DOMAIN wmWindow : wmWindow[i].n = wmAdds

LtSame(i) ==
  /\ i \in DOMAIN ltIndex' <=> i \in DOMAIN ltIndex
  /\ i \in DOMAIN ltVectors' <=> i \in DOMAIN ltVectors
  /\ i \in DOMAIN ltIndex => ltIndex'[i] = ltIndex[i]
  /\ i \in DOMAIN ltVectors => ltVectors'[i] = ltVectors[i]

\* A call goes on to r and changes at most what is touched, which it is about.
LEMMA LtMove ==
  ASSUME LtInv, NEW c \in LtCallers, NEW r, ltCall' = [ltCall EXCEPT ![c] = r],
         ltContested \subseteq ltContested',
         \A d \in LtCallers : d # c => LtAbout(r) \cap LtAbout(ltCall[d]) \subseteq ltContested',
         NEW touched \in SUBSET LtAbout(ltCall[c]),
         \A i : i \notin touched => LtSame(i),
         \A i \in touched : i \in ltContested' \/ LtAgree(ltIndex', ltVectors', i) \/ LtHalf(r, i),
         \A i : LtHalf(ltCall[c], i) => i \in touched \cup ltContested',
         LtHalfDone(r, ltVectors', ltContested')
  PROVE  LtInv'
<1>1. DOMAIN ltCall' = LtCallers /\ ltCall'[c] = r /\ \A d \in LtCallers : d # c => ltCall'[d] = ltCall[d]
  BY DEF LtInv
<1>2. ASSUME NEW d \in LtCallers, NEW e \in LtCallers, d # e
      PROVE  LtAbout(ltCall'[d]) \cap LtAbout(ltCall'[e]) \subseteq ltContested'
  <2>1. LtAbout(ltCall[d]) \cap LtAbout(ltCall[e]) \subseteq ltContested'
    BY <1>2 DEF LtInv
  <2>2. CASE d = c
    <3>1. ltCall'[d] = r /\ ltCall'[e] = ltCall[e] /\ e # c
      BY <1>1, <1>2, <2>2
    <3>. QED  BY <3>1
  <2>3. CASE e = c
    <3>1. ltCall'[e] = r /\ ltCall'[d] = ltCall[d] /\ d # c
      BY <1>1, <1>2, <2>3
    <3>. QED  BY <3>1
  <2>4. CASE d # c /\ e # c
    <3>1. ltCall'[d] = ltCall[d] /\ ltCall'[e] = ltCall[e]
      BY <1>1, <2>4
    <3>. QED  BY <2>1, <3>1
  <2>. QED  BY <2>2, <2>3, <2>4
<1>3. ASSUME NEW d \in LtCallers PROVE LtHalfDone(ltCall'[d], ltVectors', ltContested')
  <2>1. CASE d = c
    BY <1>1, <2>1
  <2>2. CASE d # c
    <3>1. PICK call : call = ltCall[d] /\ ltCall'[d] = call
      BY <1>1, <2>2
    <3>2. LtHalfDone(call, ltVectors, ltContested)
      BY <3>1 DEF LtInv
    <3>3. ASSUME NEW i, LtHalf(call, i), i \notin ltContested' PROVE i \notin ltContested /\ LtSame(i)
      <4>1. i \in LtAbout(call)
        BY <3>3 DEF LtHalf, LtAbout
      <4>2. i \notin LtAbout(ltCall[c])
        BY <2>2, <3>1, <3>3, <4>1 DEF LtInv
      <4>. QED  BY <3>3, <4>2
    <3>4. call.at = "index" => LtHalf(call, call.entry.id)
      BY DEF LtHalf
    <3>5. call.at = "remove" => LtHalf(call, call.id)
      BY DEF LtHalf
    <3>6. LtHalfDone(call, ltVectors', ltContested')
      BY <3>2, <3>3, <3>4, <3>5 DEF LtHalfDone, LtSame
    <3>. QED  BY <3>1, <3>6
  <2>. QED  BY <2>1, <2>2
<1>4. ASSUME NEW i \in DOMAIN ltIndex' \cup DOMAIN ltVectors', i \notin ltContested'
      PROVE  LtAgree(ltIndex', ltVectors', i) \/ \E d \in LtCallers : LtHalf(ltCall'[d], i)
  <2>1. CASE i \in touched
    BY <1>1, <1>4, <2>1
  <2>2. CASE i \notin touched
    <3>1. LtSame(i) /\ i \notin ltContested
      BY <1>4, <2>2
    <3>2. i \in DOMAIN ltIndex \cup DOMAIN ltVectors
      BY <1>4, <3>1 DEF LtSame
    <3>3. CASE LtAgree(ltIndex, ltVectors, i)
      BY <3>1, <3>3 DEF LtAgree, LtSame
    <3>4. ASSUME NEW d \in LtCallers, LtHalf(ltCall[d], i) PROVE LtHalf(ltCall'[d], i)
      <4>1. d # c
        BY <1>4, <2>2, <3>4
      <4>. QED  BY <1>1, <3>4, <4>1
    <3>. QED  BY <3>1, <3>2, <3>3, <3>4 DEF LtInv
  <2>. QED  BY <2>1, <2>2
<1>. QED  BY <1>1, <1>2, <1>3, <1>4 DEF LtInv

\* The contents of both are left alone.
LEMMA LtAllSame ==
  ASSUME UNCHANGED <<ltIndex, ltVectors>> PROVE \A i : LtSame(i)
BY DEF LtSame

\* A call that has changed neither goes on.
LEMMA LtGoKeeps ==
  ASSUME LtInv, NEW c \in LtCallers, NEW r, LtGoTo(c, r), UNCHANGED <<ltIndex, ltVectors>>,
         ltCall[c].at \notin {"index", "remove"}, r.at \notin {"index", "remove"}
  PROVE  LtInv'
<1>1. ltCall' = [ltCall EXCEPT ![c] = r] /\ ltContested \subseteq ltContested'
      /\ \A d \in LtCallers : d # c => LtAbout(r) \cap LtAbout(ltCall[d]) \subseteq ltContested'
  BY DEF LtGoTo
<1>2. PICK touched \in SUBSET LtAbout(ltCall[c]) : touched = {}
  OBVIOUS
<1>3. \A i : ~LtHalf(ltCall[c], i)
  BY DEF LtHalf
<1>4. LtHalfDone(r, ltVectors', ltContested')
  BY DEF LtHalfDone
<1>5. \A i : LtSame(i)
  BY LtAllSame
<1>. QED  BY <1>1, <1>2, <1>3, <1>4, <1>5, LtMove

LEMMA LtStoredKeeps ==
  ASSUME LtInv, NEW c \in LtCallers, LtStored(c)
  PROVE  LtInv'
<1>1. PICK e, r : e = ltCall[c].entry /\ r = [at |-> "index", entry |-> e]
  OBVIOUS
<1>2. /\ ltCall[c].at = "vector" /\ ltVectors' = LtPut(e, ltVectors) /\ LtGoTo(c, r) /\ UNCHANGED ltIndex
  BY <1>1 DEF LtStored
<1>3. ltCall' = [ltCall EXCEPT ![c] = r] /\ ltContested \subseteq ltContested'
      /\ \A d \in LtCallers : d # c => LtAbout(r) \cap LtAbout(ltCall[d]) \subseteq ltContested'
  BY <1>2 DEF LtGoTo
<1>4. PICK touched \in SUBSET LtAbout(ltCall[c]) : touched = {e.id}
  BY <1>1, <1>2 DEF LtAbout
<1>5. r.at = "index" /\ r.entry = e
  BY <1>1
<1>6. /\ e.id \in DOMAIN ltVectors' /\ ltVectors'[e.id] = e
      /\ \A i : i # e.id => LtSame(i)
  <2>1. /\ DOMAIN ltVectors' = DOMAIN ltVectors \cup {e.id} /\ ltVectors'[e.id] = e
        /\ \A z \in DOMAIN ltVectors : z # e.id => ltVectors'[z] = ltVectors[z]
    BY <1>2 DEF LtPut
  <2>. QED  BY <1>2, <2>1 DEF LtSame
<1>7. \A i \in touched : LtHalf(r, i)
  BY <1>4, <1>5 DEF LtHalf
<1>8. \A i : ~LtHalf(ltCall[c], i)
  BY <1>2 DEF LtHalf
<1>9. LtHalfDone(r, ltVectors', ltContested')
  BY <1>5, <1>6 DEF LtHalfDone
<1>. QED  BY <1>3, <1>4, <1>6, <1>7, <1>8, <1>9, LtMove

LEMMA LtIndexedKeeps ==
  ASSUME LtInv, NEW c \in LtCallers, LtIndexed(c)
  PROVE  LtInv'
<1>1. PICK e : e = ltCall[c].entry
  OBVIOUS
<1>2. ltCall[c].at = "index" /\ ltIndex' = LtPut(e, ltIndex) /\ LtGoTo(c, LtIdle) /\ UNCHANGED ltVectors
  BY <1>1 DEF LtIndexed
<1>3. ltCall' = [ltCall EXCEPT ![c] = LtIdle] /\ ltContested \subseteq ltContested'
      /\ \A d \in LtCallers : d # c => LtAbout(LtIdle) \cap LtAbout(ltCall[d]) \subseteq ltContested'
  BY <1>2 DEF LtGoTo
<1>4. PICK touched \in SUBSET LtAbout(ltCall[c]) : touched = {e.id}
  BY <1>1, <1>2 DEF LtAbout
<1>5. /\ e.id \in DOMAIN ltIndex' /\ ltIndex'[e.id] = e
      /\ \A i : i # e.id => LtSame(i)
  <2>1. /\ DOMAIN ltIndex' = DOMAIN ltIndex \cup {e.id} /\ ltIndex'[e.id] = e
        /\ \A z \in DOMAIN ltIndex : z # e.id => ltIndex'[z] = ltIndex[z]
    BY <1>2 DEF LtPut
  <2>. QED  BY <1>2, <2>1 DEF LtSame
<1>6. e.id \notin ltContested => e.id \in DOMAIN ltVectors /\ ltVectors[e.id] = e
  BY <1>1, <1>2 DEF LtInv, LtHalfDone
<1>7. \A i \in touched : i \in ltContested' \/ LtAgree(ltIndex', ltVectors', i)
  BY <1>2, <1>3, <1>4, <1>5, <1>6 DEF LtAgree
<1>8. \A i : LtHalf(ltCall[c], i) => i \in touched
  BY <1>1, <1>2, <1>4 DEF LtHalf
<1>9. LtHalfDone(LtIdle, ltVectors', ltContested')
  BY DEF LtHalfDone, LtIdle
<1>. QED  BY <1>3, <1>4, <1>5, <1>7, <1>8, <1>9, LtMove

LEMMA LtDeleteKeeps ==
  ASSUME LtInv, NEW c \in LtCallers, LtDelete(c)
  PROVE  LtInv'
<1>1. PICK me : me = ltCall[c]
  OBVIOUS
<1>2. PICK i \in me.todo : /\ ltVectors' = [j \in DOMAIN ltVectors \ {i} |-> ltVectors[j]]
                           /\ LtGoTo(c, [at |-> "remove", crit |-> me.crit, todo |-> me.todo \ {i}, id |-> i])
  BY <1>1 DEF LtDelete
<1>3. PICK r : r = [at |-> "remove", crit |-> me.crit, todo |-> me.todo \ {i}, id |-> i]
  OBVIOUS
<1>4. me.at = "delete" /\ UNCHANGED ltIndex
  BY <1>1 DEF LtDelete
<1>5. ltCall' = [ltCall EXCEPT ![c] = r] /\ ltContested \subseteq ltContested'
      /\ \A d \in LtCallers : d # c => LtAbout(r) \cap LtAbout(ltCall[d]) \subseteq ltContested'
  BY <1>2, <1>3 DEF LtGoTo
<1>6. PICK touched \in SUBSET LtAbout(ltCall[c]) : touched = {i}
  BY <1>1, <1>4 DEF LtAbout
<1>7. r.at = "remove" /\ r.id = i
  BY <1>3
<1>8. i \notin DOMAIN ltVectors' /\ \A j : j # i => LtSame(j)
  BY <1>2, <1>4 DEF LtSame
<1>9. \A j \in touched : LtHalf(r, j)
  BY <1>6, <1>7 DEF LtHalf
<1>10. \A j : ~LtHalf(ltCall[c], j)
  BY <1>1, <1>4 DEF LtHalf
<1>11. LtHalfDone(r, ltVectors', ltContested')
  BY <1>7, <1>8 DEF LtHalfDone
<1>. QED  BY <1>5, <1>6, <1>8, <1>9, <1>10, <1>11, LtMove

\* What a forget goes on with is at rest.
LEMMA LtAfterFacts == \A me, todo : LtAfter(me, todo).at \in {"idle", "delete"}
BY DEF LtAfter, LtIdle

LEMMA LtRemoveKeeps ==
  ASSUME LtInv, NEW c \in LtCallers, LtRemove(c)
  PROVE  LtInv'
<1>1. PICK me, i, r : me = ltCall[c] /\ i = me.id /\ r = LtAfter(me, me.todo)
  OBVIOUS
<1>2. me.at = "remove" /\ ltIndex' = [j \in DOMAIN ltIndex \ {i} |-> ltIndex[j]] /\ LtGoTo(c, r) /\ UNCHANGED ltVectors
  BY <1>1 DEF LtRemove
<1>3. ltCall' = [ltCall EXCEPT ![c] = r] /\ ltContested \subseteq ltContested'
      /\ \A d \in LtCallers : d # c => LtAbout(r) \cap LtAbout(ltCall[d]) \subseteq ltContested'
  BY <1>2 DEF LtGoTo
<1>4. PICK touched \in SUBSET LtAbout(ltCall[c]) : touched = {i}
  BY <1>1, <1>2 DEF LtAbout
<1>5. i \notin DOMAIN ltIndex' /\ \A j : j # i => LtSame(j)
  BY <1>2 DEF LtSame
<1>6. i \notin ltContested => i \notin DOMAIN ltVectors
  BY <1>1, <1>2 DEF LtInv, LtHalfDone
<1>7. \A j \in touched : j \in ltContested' \/ LtAgree(ltIndex', ltVectors', j)
  BY <1>2, <1>3, <1>4, <1>5, <1>6 DEF LtAgree
<1>8. \A j : LtHalf(ltCall[c], j) => j \in touched
  BY <1>1, <1>2, <1>4 DEF LtHalf
<1>9. LtHalfDone(r, ltVectors', ltContested')
  BY <1>1, LtAfterFacts DEF LtHalfDone
<1>. QED  BY <1>3, <1>4, <1>5, <1>7, <1>8, <1>9, LtMove

LEMMA LtFailsKeeps ==
  ASSUME LtInv, NEW c \in LtCallers, LtFails(c)
  PROVE  LtInv'
<1>1. ltCall[c].at \notin {"index", "remove"} /\ UNCHANGED <<ltIndex, ltVectors>>
  BY DEF LtFails
<1>2. LtIdle.at \notin {"index", "remove"}
  BY DEF LtIdle
<1>3. CASE LtGoTo(c, LtIdle)
  BY <1>1, <1>2, <1>3, LtGoKeeps
<1>4. ASSUME NEW todo, LtGoTo(c, LtAfter(ltCall[c], todo)) PROVE LtInv'
  <2>1. LtAfter(ltCall[c], todo).at \notin {"index", "remove"}
    BY LtAfterFacts
  <2>. QED  BY <1>1, <1>4, <2>1, LtGoKeeps
<1>. QED  BY <1>3, <1>4 DEF LtFails

LEMMA LtDropKeeps ==
  ASSUME LtInv, NEW c \in LtCallers, LtDrop(c)
  PROVE  LtInv'
<1>1. PICK me : me = ltCall[c]
  OBVIOUS
<1>2. /\ ltCall' = [ltCall EXCEPT ![c] = LtIdle] /\ UNCHANGED <<ltIndex, ltVectors>>
      /\ ltContested' = ltContested \cup
           (CASE me.at = "index" -> {me.entry.id} [] me.at = "remove" -> {me.id} [] OTHER -> {})
  BY <1>1 DEF LtDrop
<1>3. \A i : LtHalf(me, i) => i \in ltContested'
  BY <1>2 DEF LtHalf
<1>4. LtAbout(LtIdle) = {} /\ LtHalfDone(LtIdle, ltVectors', ltContested')
  BY DEF LtAbout, LtIdle, LtHalfDone
<1>5. PICK touched \in SUBSET LtAbout(ltCall[c]) : touched = {}
  OBVIOUS
<1>6. \A i : LtSame(i)
  BY <1>2, LtAllSame
<1>7. ltContested \subseteq ltContested'
  BY <1>2
<1>. QED  BY <1>1, <1>2, <1>3, <1>4, <1>5, <1>6, <1>7, LtMove

LEMMA LtObserveKeeps ==
  ASSUME LtInv, NEW c \in LtCallers, NEW tokens, MemObserve(c, tokens)
  PROVE  LtInv'
<1>1. PICK r : /\ r = [at |-> "vector", entry |-> [id |-> 10 + wmAdds, type |-> "Observation", importance |-> 5, born |-> ltNow]]
               /\ ltCall' = [ltCall EXCEPT ![c] = r]
  BY DEF MemObserve
<1>2. UNCHANGED <<ltIndex, ltVectors, ltContested>> /\ \A d \in LtCallers : ltCall[d].at = "idle"
  BY DEF MemObserve, MemCall
<1>3. \A d \in LtCallers : LtAbout(ltCall[d]) = {} /\ \A i : ~LtHalf(ltCall[d], i)
  BY <1>2 DEF LtAbout, LtHalf
<1>4. LtHalfDone(r, ltVectors', ltContested')
  BY <1>1 DEF LtHalfDone
<1>5. PICK touched \in SUBSET LtAbout(ltCall[c]) : touched = {}
  OBVIOUS
<1>6. \A i : LtSame(i)
  BY <1>2, LtAllSame
<1>. QED  BY <1>1, <1>2, <1>3, <1>4, <1>5, <1>6, LtMove

LEMMA LtKeeps == LtInv /\ [LtNext]_ltVars => LtInv'
<1>. SUFFICES ASSUME LtInv, [LtNext]_ltVars PROVE LtInv'
  OBVIOUS
<1>1. ASSUME UNCHANGED <<ltIndex, ltVectors, ltCall, ltContested>> PROVE LtInv'
  BY <1>1 DEF LtInv
<1>2. ASSUME NEW c \in LtCallers, NEW r, LtStart(c, r), r.at \notin {"index", "remove"}, UNCHANGED <<ltIndex, ltVectors>>
      PROVE  LtInv'
  <2>1. LtGoTo(c, r) /\ ltCall[c].at = "idle"
    BY <1>2 DEF LtStart
  <2>. QED  BY <1>2, <2>1, LtGoKeeps
<1>3. ASSUME NEW c \in LtCallers, NEW e \in LtEntries, LtStore(c, e) PROVE LtInv'
  BY <1>2, <1>3 DEF LtStore
<1>4. ASSUME NEW c \in LtCallers, NEW crit \in LtCriteria, LtForget(c, crit) PROVE LtInv'
  BY <1>2, <1>4 DEF LtForget
<1>5. ASSUME NEW c \in LtCallers, LtReflect(c) PROVE LtInv'
  BY <1>2, <1>5 DEF LtReflect
<1>6. ASSUME NEW c \in LtCallers, LtSummarized(c) PROVE LtInv'
  <2>1. PICK r : LtGoTo(c, r) /\ r.at = "vector"
    BY <1>6 DEF LtSummarized
  <2>2. ltCall[c].at = "summarize" /\ UNCHANGED <<ltIndex, ltVectors>>
    BY <1>6 DEF LtSummarized
  <2>. QED  BY <2>1, <2>2, LtGoKeeps
<1>7. ASSUME NEW c \in LtCallers, LtStored(c) \/ LtIndexed(c) \/ LtDelete(c) \/ LtRemove(c) \/ LtFails(c) \/ LtDrop(c)
      PROVE  LtInv'
  BY <1>7, LtStoredKeeps, LtIndexedKeeps, LtDeleteKeeps, LtRemoveKeeps, LtFailsKeeps, LtDropKeeps
<1>8. ASSUME NEW c \in LtCallers, NEW n \in WmTexts, MemObserve(c, n) PROVE LtInv'
  BY <1>8, LtObserveKeeps
<1>9. ASSUME NEW n \in WmTexts, MemThought(n) PROVE LtInv'
  BY <1>1, <1>9 DEF MemThought
<1>10. ASSUME NEW strategy, WmCompress(strategy) PROVE LtInv'
  BY <1>1, <1>10 DEF WmCompress
<1>11. CASE MemCleanup
  BY <1>1, <1>11 DEF MemCleanup
<1>12. CASE LtTick
  BY <1>1, <1>12 DEF LtTick
<1>13. CASE UNCHANGED ltVars
  BY <1>1, <1>13 DEF ltVars
<1>. QED  BY <1>3, <1>4, <1>5, <1>6, <1>7, <1>8, <1>9, <1>10, <1>11, <1>12, <1>13 DEF LtNext

LEMMA LtStarts == LtInit => LtInv
<1>. SUFFICES ASSUME LtInit PROVE LtInv
  OBVIOUS
<1>1. /\ DOMAIN ltCall = LtCallers /\ DOMAIN ltIndex = {} /\ DOMAIN ltVectors = {}
      /\ \A c \in LtCallers : ltCall[c] = LtIdle
  BY DEF LtInit
<1>2. LtAbout(LtIdle) = {} /\ \A vectors, contested : LtHalfDone(LtIdle, vectors, contested)
  BY DEF LtAbout, LtIdle, LtHalfDone
<1>. QED  BY <1>1, <1>2 DEF LtInv

LEMMA LtInvAgrees == LtInv => IndexAgrees
<1>1. \A call, i : LtHalf(call, i) => i \in LtAbout(call)
  BY DEF LtHalf, LtAbout
<1>. QED  BY <1>1 DEF LtInv, IndexAgrees, LtAgree

-----------------------------------------------------------------------------
(* The working memory *)

\* The tokens of nothing, and of one entry more.
LEMMA WmSumFacts ==
  /\ WmSum(<< >>) = 0
  /\ \A s \in Seq(WmEntries), e \in WmEntries :
       WmSum(s) \in Nat /\ WmSum(Append(s, e)) = WmSum(s) + e.tokens
<1>1. WmSum(<< >>) = 0
  <2>1. PICK t : t = [i \in {} |-> << >>[i].tokens]
    OBVIOUS
  <2>2. IsFiniteSet({}) /\ \A x \in {} : t[x] \in Nat
    BY FS_EmptySet
  <2>3. SumFunctionOnSet(t, {}) = 0
    BY <2>2, TotalFacts
  <2>4. DOMAIN << >> = {}
    OBVIOUS
  <2>. QED  BY <2>1, <2>3, <2>4 DEF WmSum
<1>2. ASSUME NEW s \in Seq(WmEntries), NEW e \in WmEntries
      PROVE  WmSum(s) \in Nat /\ WmSum(Append(s, e)) = WmSum(s) + e.tokens
  <2>1. PICK n \in Nat : n = Len(s) /\ DOMAIN s = 1 .. n
    OBVIOUS
  <2>2. PICK r : r = Append(s, e)
    OBVIOUS
  <2>3. /\ DOMAIN r = 1 .. n + 1 /\ r[n + 1] = e
        /\ \A i \in 1 .. n : r[i] = s[i] /\ s[i] \in WmEntries
    BY <2>1, <2>2
  <2>4. PICK t, u : t = [i \in 1 .. n |-> s[i].tokens] /\ u = [i \in 1 .. n + 1 |-> r[i].tokens]
    OBVIOUS
  <2>5. PICK A, B : A = 1 .. n /\ B = 1 .. n + 1
    OBVIOUS
  <2>6. A \subseteq B /\ n + 1 \in B /\ B \ {n + 1} = A
    BY <2>1, <2>5
  <2>7. /\ \A x \in A : t[x] \in Nat /\ u[x] = t[x]
        /\ \A x \in B : u[x] \in Nat
        /\ u[n + 1] = e.tokens
    <3>1. \A x \in A : t[x] = s[x].tokens /\ s[x] \in WmEntries /\ u[x] = r[x].tokens /\ r[x] = s[x]
      BY <2>3, <2>4, <2>5, <2>6
    <3>2. u[n + 1] = e.tokens
      BY <2>3, <2>4, <2>5, <2>6
    <3>3. \A x \in A : t[x] \in Nat /\ u[x] = t[x]
      BY <3>1 DEF WmEntries
    <3>4. \A x \in B : x \in A \/ x = n + 1
      BY <2>6
    <3>. QED  BY <3>2, <3>3, <3>4 DEF WmEntries
  <2>8. IsFiniteSet(A) /\ IsFiniteSet(B)
    BY <2>1, <2>5, FS_Interval
  <2>9. SumFunctionOnSet(t, A) \in Nat /\ SumFunctionOnSet(u, A) = SumFunctionOnSet(t, A)
    BY <2>7, <2>8, TotalFacts
  <2>10. SumFunctionOnSet(u, B) = u[n + 1] + SumFunctionOnSet(u, B \ {n + 1})
    BY <2>6, <2>7, <2>8, TotalFacts
  <2>11. WmSum(s) = SumFunctionOnSet(t, A)
    BY <2>1, <2>4, <2>5 DEF WmSum
  <2>12. WmSum(r) = SumFunctionOnSet(u, B)
    BY <2>3, <2>4, <2>5 DEF WmSum
  <2>13. e.tokens \in Nat
    BY DEF WmEntries
  <2>14. SumFunctionOnSet(u, B) = e.tokens + SumFunctionOnSet(t, A)
    BY ONLY <2>6, <2>7, <2>9, <2>10
  <2>15. WmSum(s) \in Nat /\ WmSum(r) = e.tokens + WmSum(s)
    BY ONLY <2>9, <2>11, <2>12, <2>14
  <2>16. WmSum(r) = WmSum(s) + e.tokens
    BY ONLY <2>13, <2>15
  <2>. QED  BY ONLY <2>2, <2>15, <2>16
<1>. QED  BY <1>1, <1>2

\* Entries with numbers of their own can be sorted by them.
LEMMA WmCanBeSorted ==
  ASSUME NEW S, IsFiniteSet(S), \A e \in S : e.n \in Nat, \A e, f \in S : e.n = f.n => e = f
  PROVE  \E kept \in [1 .. Cardinality(S) -> S] : WmOrdered(kept)
<1> DEFINE Sorted(T, k) == \E kept \in [1 .. k -> T] : WmOrdered(kept)
           Bad == {k \in Nat : \E T \in SUBSET S : Cardinality(T) = k /\ ~Sorted(T, k)}
<1>1. \A T \in SUBSET S : IsFiniteSet(T) /\ Cardinality(T) \in Nat
  BY FS_Subset, FS_CardinalityType
<1>2. ASSUME Bad # {} PROVE FALSE
  <2>1. PICK k \in Bad : \A m \in Bad : ~(<<m, k>> \in OpToRel(<, Nat))
    BY <1>2, NatLessThanWellFounded, WFMin
  <2>2. PICK T \in SUBSET S : Cardinality(T) = k /\ ~Sorted(T, k)
    BY <2>1
  <2>3. k \in Nat
    OBVIOUS
  <2>4. CASE T = {}
    <3>1. k = 0
      BY <2>2, <2>4, FS_EmptySet
    <3>2. PICK kept : kept = [i \in 1 .. 0 |-> i]
      OBVIOUS
    <3>3. kept \in [1 .. 0 -> T] /\ WmOrdered(kept)
      BY <3>2 DEF WmOrdered
    <3>. QED  BY <2>2, <3>1, <3>3
  <2>5. CASE T # {}
    <3>1. PICK numbers : numbers = {e.n : e \in T}
      OBVIOUS
    <3>2. numbers # {} /\ numbers \subseteq Nat
      BY <2>5, <3>1
    <3>3. PICK first \in numbers : \A m \in numbers : ~(<<m, first>> \in OpToRel(<, Nat))
      BY <3>2, NatLessThanWellFounded, WFMin
    <3>4. PICK x \in T : x.n = first
      BY <3>1, <3>3
    <3>5. ASSUME NEW e \in T, e # x PROVE x.n < e.n
      <4>1. e.n \in numbers /\ e.n \in Nat /\ x.n \in Nat /\ e.n # x.n
        BY <3>1, <3>2, <3>5
      <4>2. ~(e.n < x.n)
        BY <3>2, <3>3, <3>4, <4>1 DEF OpToRel
      <4>. QED  BY ONLY <4>1, <4>2
    <3>6. PICK R : R = T \ {x}
      OBVIOUS
    <3>7. R \in SUBSET S /\ Cardinality(R) = k - 1 /\ k - 1 \in Nat /\ k - 1 < k
      <4>1. IsFiniteSet(T) /\ IsFiniteSet(R)
        BY <1>1, <3>6
      <4>2. Cardinality(R) = Cardinality(T) - 1 /\ Cardinality(R) \in Nat
        BY <1>1, <3>4, <3>6, <4>1, FS_RemoveElement
      <4>. QED  BY <2>2, <2>3, <3>6, <4>2
    <3>8. Sorted(R, k - 1)
      <4>1. k - 1 \notin Bad
        BY <2>1, <2>3, <3>7 DEF OpToRel
      <4>. QED  BY <3>7, <4>1
    <3>9. PICK f \in [1 .. k - 1 -> R] : WmOrdered(f)
      BY <3>8
    <3>10. PICK g : g = [i \in 1 .. k |-> IF i = 1 THEN x ELSE f[i - 1]]
      OBVIOUS
    <3>11. \A i \in 1 .. k : i = 1 \/ i - 1 \in 1 .. k - 1
      BY <2>3
    <3>12. g \in [1 .. k -> T]
      BY <3>6, <3>9, <3>10, <3>11
    <3>13. ASSUME NEW i \in 1 .. k, NEW j \in 1 .. k, i < j PROVE g[i].n < g[j].n
      <4>1. j # 1 /\ j - 1 \in 1 .. k - 1
        BY <2>3, <3>13
      <4>2. g[j] = f[j - 1] /\ f[j - 1] \in R
        BY <3>9, <3>10, <4>1
      <4>3. CASE i = 1
        BY <3>5, <3>6, <3>10, <4>2, <4>3
      <4>4. CASE i # 1
        <5>1. i - 1 \in 1 .. k - 1 /\ i - 1 < j - 1
          BY <2>3, <3>13, <4>4
        <5>2. g[i] = f[i - 1]
          BY <3>10, <4>4
        <5>. QED  BY <3>9, <4>1, <4>2, <5>1, <5>2 DEF WmOrdered
      <4>. QED  BY <4>3, <4>4
    <3>14. WmOrdered(g)
      BY <3>10, <3>13 DEF WmOrdered
    <3>. QED  BY <2>2, <3>12, <3>14
  <2>. QED  BY <2>4, <2>5
<1>3. \A T \in SUBSET S : Sorted(T, Cardinality(T))
  BY <1>1, <1>2
<1>. QED  BY <1>3

LEMMA WmTargetFacts == WmTarget \in Nat /\ WmTarget < WmMaxEntries
<1>1. WmMaxEntries \in Nat \ {0}
  BY WmConstants
<1>2. PICK m, t : m = WmMaxEntries /\ t = (7 * m) \div 10
  OBVIOUS
<1>3. t \in Nat /\ t < m
  BY ONLY <1>1, <1>2
<1>. QED  BY <1>2, <1>3 DEF WmTarget

\* No two entries have as many before them, so no more than WmTarget are best.
LEMMA WmBestFacts ==
  ASSUME NEW s \in Seq(WmEntries), WmOrdered(s)
  PROVE  /\ WmBest(s) \subseteq ToSet(s) /\ IsFiniteSet(WmBest(s))
         /\ Cardinality(WmBest(s)) \in Nat /\ Cardinality(WmBest(s)) <= WmTarget
         /\ \A e \in ToSet(s) : e \in WmEntries
         /\ \A e, f \in ToSet(s) : e.n = f.n => e = f
<1>1. PICK all, best : all = ToSet(s) /\ best = WmBest(s)
  OBVIOUS
<1>2. PICK k \in Nat : k = Len(s) /\ DOMAIN s = 1 .. k
  OBVIOUS
<1>3. all = {s[i] : i \in 1 .. k}
  BY <1>1, <1>2 DEF ToSet
<1>4. \A e \in all : e \in WmEntries
  BY <1>2, <1>3
<1>5. IsFiniteSet(all)
  <2>1. IsFiniteSet(1 .. k)
    BY <1>2, FS_Interval
  <2>2. PICK g \in [1 .. k -> all] : \A i \in 1 .. k : g[i] = s[i]
    <3>1. [i \in 1 .. k |-> s[i]] \in [1 .. k -> all]
      BY <1>3
    <3>. QED  BY <3>1
  <2>3. g \in Surjection(1 .. k, all)
    BY <1>3, <2>2 DEF Surjection
  <2>. QED  BY <2>1, <2>3, FS_Surjection
<1>6. ASSUME NEW e \in all, NEW f \in all, e.n = f.n PROVE e = f
  <2>1. PICK i \in 1 .. k, j \in 1 .. k : e = s[i] /\ f = s[j]
    BY <1>3
  <2>2. ~(i < j) /\ ~(j < i)
    <3>1. e.n \in Nat /\ f.n \in Nat
      BY <1>4 DEF WmEntries
    <3>2. i < j => e.n < f.n
      BY <1>2, <2>1 DEF WmOrdered
    <3>3. j < i => f.n < e.n
      BY <1>2, <2>1 DEF WmOrdered
    <3>. QED  BY ONLY <3>1, <3>2, <3>3, <1>6
  <2>. QED  BY <2>1, <2>2
<1> DEFINE Before(e) == {f \in all : WmBefore(f, e)}
<1>7. \A e \in all : IsFiniteSet(Before(e)) /\ Cardinality(Before(e)) \in Nat
  BY <1>5, FS_Subset, FS_CardinalityType
<1>8. ASSUME NEW e \in all, NEW f \in all, WmBefore(e, f) PROVE Cardinality(Before(e)) < Cardinality(Before(f))
  <2>1. \A d \in all : d.n \in Nat /\ d.importance \in Nat
    BY <1>4 DEF WmEntries
  <2>2. e \notin Before(e) /\ e \in Before(f)
    BY <1>8, <2>1 DEF WmBefore
  <2>3. Before(e) \subseteq Before(f)
    BY <1>8, <2>1 DEF WmBefore
  <2>4. Before(e) \subseteq Before(f) \ {e}
    BY <2>2, <2>3
  <2>. HIDE DEF Before
  <2>5. IsFiniteSet(Before(f) \ {e}) /\ Cardinality(Before(f) \ {e}) = Cardinality(Before(f)) - 1
    BY <1>7, <2>2, FS_RemoveElement
  <2>6. Cardinality(Before(e)) <= Cardinality(Before(f) \ {e})
    BY <2>4, <2>5, FS_Subset
  <2>. QED  BY <1>7, <2>5, <2>6
<1>9. ASSUME NEW e \in all, NEW f \in all, e # f PROVE WmBefore(e, f) \/ WmBefore(f, e)
  <2>1. e.n \in Nat /\ f.n \in Nat /\ e.importance \in Nat /\ f.importance \in Nat /\ e.n # f.n
    BY <1>4, <1>6, <1>9 DEF WmEntries
  <2>. QED  BY <2>1 DEF WmBefore
<1>10. best = {e \in all : Cardinality(Before(e)) < WmTarget} /\ best \subseteq all
  BY <1>1 DEF WmBest
<1>. HIDE DEF Before
<1>11. PICK T : T = 0 .. WmTarget - 1
  OBVIOUS
<1>12. PICK g \in [best -> T] : \A e \in best : g[e] = Cardinality(Before(e))
  <2>1. \A e \in best : Cardinality(Before(e)) \in T
    BY <1>7, <1>10, <1>11, WmTargetFacts
  <2>2. [e \in best |-> Cardinality(Before(e))] \in [best -> T]
    BY <2>1
  <2>. QED  BY <2>2
<1>13. g \in Injection(best, T)
  <2>1. ASSUME NEW e \in best, NEW f \in best, g[e] = g[f] PROVE e = f
    <3>1. Cardinality(Before(e)) = Cardinality(Before(f)) /\ Cardinality(Before(e)) \in Nat
      BY <1>7, <1>10, <1>12, <2>1
    <3>2. ~WmBefore(e, f) /\ ~WmBefore(f, e)
      BY <1>8, <1>10, <3>1
    <3>. QED  BY <1>9, <1>10, <3>2
  <2>. QED  BY <1>12, <2>1 DEF Injection, IsInjective
<1>14. IsFiniteSet(T) /\ Cardinality(T) = WmTarget
  BY <1>11, WmTargetFacts, FS_Interval
<1>15. IsFiniteSet(best) /\ Cardinality(best) <= Cardinality(T) /\ Cardinality(best) \in Nat
  BY <1>13, <1>14, FS_Injection, FS_CardinalityType
<1>. QED  BY <1>1, <1>4, <1>6, <1>10, <1>14, <1>15

\* What compress leaves.
WmLeft(kept, s) ==
  /\ kept \in Seq(WmEntries) /\ WmOrdered(kept) /\ Len(kept) < WmMaxEntries
  /\ \A i \in DOMAIN kept : \E j \in DOMAIN s : kept[i] = s[j]

LEMMA WmImportantLeft ==
  ASSUME NEW s \in Seq(WmEntries), WmOrdered(s)
  PROVE  WmLeft(WmImportant(s), s)
<1>1. PICK best, n : best = WmBest(s) /\ n = Cardinality(best)
  OBVIOUS
<1>2. /\ best \subseteq ToSet(s) /\ IsFiniteSet(best) /\ n \in Nat /\ n <= WmTarget
      /\ \A e \in best : e \in WmEntries /\ e.n \in Nat
      /\ \A e, f \in best : e.n = f.n => e = f
  BY <1>1, WmBestFacts DEF WmEntries
<1>3. \E kept \in [1 .. n -> best] : WmOrdered(kept)
  BY <1>1, <1>2, WmCanBeSorted
<1>4. PICK kept : kept = WmImportant(s)
  OBVIOUS
<1>5. kept \in [1 .. n -> best] /\ WmOrdered(kept)
  BY <1>1, <1>3, <1>4 DEF WmImportant
<1>6. kept \in Seq(WmEntries) /\ Len(kept) = n /\ DOMAIN kept = 1 .. n
  BY <1>2, <1>5
<1>7. n < WmMaxEntries
  BY <1>2, WmTargetFacts, WmConstants
<1>8. \A i \in DOMAIN kept : \E j \in DOMAIN s : kept[i] = s[j]
  BY <1>2, <1>5 DEF ToSet
<1>. QED  BY <1>4, <1>5, <1>6, <1>7, <1>8 DEF WmLeft

LEMMA WmCompressedLeft ==
  ASSUME NEW s \in Seq(WmEntries), WmOrdered(s), NEW strategy \in {"ImportanceBased", "TimeBased", "LRU"}
  PROVE  WmLeft(WmCompressed(s, strategy), s)
<1>1. CASE strategy = "ImportanceBased"
  BY <1>1, WmImportantLeft DEF WmCompressed
<1>2. PICK k \in Nat : k = Len(s) /\ DOMAIN s = 1 .. k
  OBVIOUS
<1>3. PICK left : left = IF k < WmTarget THEN k ELSE WmTarget
  OBVIOUS
<1>4. left \in 0 .. k /\ left \in Nat /\ left < WmMaxEntries
  BY <1>2, <1>3, WmTargetFacts, WmConstants
<1>5. ASSUME NEW b \in Nat, b + left <= k, NEW kept, kept = SubSeq(s, b + 1, b + left)
      PROVE  WmLeft(kept, s)
  <2>1. /\ Len(kept) = left /\ kept \in Seq(WmEntries) /\ DOMAIN kept = 1 .. left
        /\ \A i \in 1 .. left : kept[i] = s[b + i] /\ b + i \in 1 .. k
    <3>1. \A i \in 1 .. left : b + i \in 1 .. k
      BY <1>2, <1>4, <1>5
    <3>. QED  BY <1>2, <1>4, <1>5, <3>1
  <2>2. WmOrdered(kept)
    <3>1. ASSUME NEW i \in 1 .. left, NEW j \in 1 .. left, i < j PROVE kept[i].n < kept[j].n
      <4>1. b + i < b + j
        BY <1>5, <3>1
      <4>. QED  BY <1>2, <2>1, <4>1 DEF WmOrdered
    <3>. QED  BY <2>1, <3>1 DEF WmOrdered
  <2>. QED  BY <1>2, <1>4, <2>1, <2>2 DEF WmLeft
<1>6. CASE strategy = "TimeBased"
  <2>1. PICK b : b = k - left
    OBVIOUS
  <2>2. b \in Nat /\ b + left <= k /\ b + 1 = k - left + 1 /\ b + left = k
    BY <1>2, <1>4, <2>1
  <2>3. WmCompressed(s, strategy) = SubSeq(s, b + 1, b + left)
    BY <1>2, <1>3, <1>6, <2>2 DEF WmCompressed
  <2>. QED  BY <1>5, <2>2, <2>3
<1>7. CASE strategy = "LRU"
  <2>1. PICK b \in Nat : b = 0
    OBVIOUS
  <2>2. b + left <= k /\ b + 1 = 1 /\ b + left = left
    BY <1>2, <1>4, <2>1
  <2>3. WmCompressed(s, strategy) = SubSeq(s, b + 1, b + left)
    BY <1>2, <1>3, <1>7, <2>2 DEF WmCompressed
  <2>. QED  BY <1>5, <2>2, <2>3
<1>. QED  BY <1>1, <1>6, <1>7

\* One entry more, the latest.
LEMMA WmAppendKeeps ==
  ASSUME WmInv, NEW s \in Seq(WmEntries), WmOrdered(s), Len(s) < WmMaxEntries,
         \A i \in DOMAIN s : s[i].n <= wmAdds,
         NEW e \in WmEntries, e.n = wmAdds + 1,
         wmWindow' = Append(s, e), wmTokens' = WmSum(s) + e.tokens, wmAdds' = wmAdds + 1
  PROVE  WmInv'
<1>1. wmAdds \in Nat
  BY DEF WmInv
<1>2. PICK k \in Nat : k = Len(s) /\ DOMAIN s = 1 .. k
  OBVIOUS
<1>3. PICK r : r = Append(s, e)
  OBVIOUS
<1>4. /\ r \in Seq(WmEntries) /\ Len(r) = k + 1 /\ DOMAIN r = 1 .. k + 1 /\ r[k + 1] = e
      /\ \A i \in 1 .. k : r[i] = s[i]
  BY <1>2, <1>3
<1>5. \A i \in 1 .. k : s[i].n \in Nat /\ s[i].n <= wmAdds
  <2>1. \A i \in 1 .. k : s[i] \in WmEntries
    BY <1>2
  <2>. QED  BY <1>2, <2>1 DEF WmEntries
<1>6. ASSUME NEW i \in 1 .. k + 1, NEW j \in 1 .. k + 1, i < j PROVE r[i].n < r[j].n
  <2>1. i \in 1 .. k
    BY <1>2, <1>6
  <2>2. CASE j \in 1 .. k
    BY <1>2, <1>4, <1>6, <2>1, <2>2 DEF WmOrdered
  <2>3. CASE j = k + 1
    BY <1>1, <1>4, <1>5, <2>1, <2>3
  <2>. QED  BY <1>2, <2>2, <2>3
<1>7. WmOrdered(r)
  BY <1>4, <1>6 DEF WmOrdered
<1>8. \A i \in DOMAIN r : r[i].n <= wmAdds + 1
  <2>1. \A i \in 1 .. k + 1 : i \in 1 .. k \/ i = k + 1
    BY <1>2
  <2>. QED  BY <1>1, <1>4, <1>5, <2>1
<1>9. WmSum(r) = WmSum(s) + e.tokens /\ WmSum(s) \in Nat /\ e.tokens \in Nat
  BY <1>3, WmSumFacts DEF WmEntries
<1>10. Len(r) <= WmMaxEntries
  BY <1>2, <1>4, WmConstants
<1>11. \E i \in DOMAIN r : r[i].n = wmAdds + 1
  BY <1>2, <1>4
<1>. QED  BY <1>1, <1>3, <1>4, <1>7, <1>8, <1>9, <1>10, <1>11 DEF WmInv

LEMMA WmAddKeeps ==
  ASSUME WmInv, NEW importance \in Nat, NEW tokens \in Nat, WmAdd(importance, tokens)
  PROVE  WmInv'
<1>1. PICK e : e = [n |-> wmAdds + 1, importance |-> importance, tokens |-> tokens]
  OBVIOUS
<1>2. e \in WmEntries /\ e.n = wmAdds + 1 /\ e.tokens = tokens
  BY <1>1 DEF WmInv, WmEntries
<1>3. PICK kept : kept = WmCompressed(wmWindow, "ImportanceBased")
  OBVIOUS
<1>4. wmAdds' = wmAdds + 1
  BY DEF WmAdd
<1>5. CASE WmFull(tokens)
  <2>1. wmWindow' = Append(kept, e) /\ wmTokens' = WmSum(kept) + e.tokens
    BY <1>1, <1>2, <1>3, <1>5 DEF WmAdd, WmCounted
  <2>2. WmLeft(kept, wmWindow)
    BY <1>3, WmCompressedLeft DEF WmInv
  <2>3. kept \in Seq(WmEntries) /\ WmOrdered(kept) /\ Len(kept) < WmMaxEntries
        /\ \A i \in DOMAIN kept : kept[i].n <= wmAdds
    BY <2>2 DEF WmLeft, WmInv
  <2>. QED  BY <1>2, <1>4, <2>1, <2>3, WmAppendKeeps
<1>6. CASE ~WmFull(tokens)
  <2>1. wmWindow' = Append(wmWindow, e) /\ wmTokens' = WmSum(wmWindow) + e.tokens
    BY <1>1, <1>2, <1>6 DEF WmAdd, WmInv
  <2>2. wmWindow \in Seq(WmEntries) /\ WmOrdered(wmWindow) /\ \A i \in DOMAIN wmWindow : wmWindow[i].n <= wmAdds
    BY DEF WmInv
  <2>3. Len(wmWindow) < WmMaxEntries
    <3>1. Len(wmWindow) \in Nat /\ ~(Len(wmWindow) >= WmMaxEntries)
      BY <1>6, <2>2 DEF WmFull
    <3>. QED  BY <3>1, WmConstants
  <2>. QED  BY <1>2, <1>4, <2>1, <2>2, <2>3, WmAppendKeeps
<1>. QED  BY <1>5, <1>6

LEMMA WmCutKeeps ==
  ASSUME WmInv, NEW kept, WmLeft(kept, wmWindow), wmWindow' = kept, wmTokens' = WmSum(kept), wmCut', UNCHANGED wmAdds
  PROVE  WmInv'
<1>1. kept \in Seq(WmEntries) /\ WmOrdered(kept) /\ Len(kept) < WmMaxEntries
      /\ \A i \in DOMAIN kept : kept[i].n <= wmAdds
  BY DEF WmLeft, WmInv
<1>2. Len(kept) <= WmMaxEntries
  BY <1>1, WmConstants
<1>3. [n |-> 0, importance |-> 0, tokens |-> 0] \in WmEntries
  BY DEF WmEntries
<1>4. WmSum(kept) \in Nat
  BY <1>1, <1>3, WmSumFacts
<1>. QED  BY <1>1, <1>2, <1>4 DEF WmInv

LEMMA WmKeeps == WmInv /\ [LtNext]_ltVars => WmInv'
<1>. SUFFICES ASSUME WmInv, [LtNext]_ltVars PROVE WmInv'
  OBVIOUS
<1>1. CASE UNCHANGED wmVars
  BY <1>1 DEF WmInv, wmVars
<1>2. \A n \in WmTexts : n \in Nat
  BY WmConstants
<1>3. ASSUME NEW c \in LtCallers, NEW n \in WmTexts, MemObserve(c, n) PROVE WmInv'
  <2>1. WmAdd(5, n)
    BY <1>3 DEF MemObserve
  <2>. QED  BY <1>2, <2>1, WmAddKeeps
<1>4. ASSUME NEW n \in WmTexts, MemThought(n) PROVE WmInv'
  <2>1. WmAdd(6, n)
    BY <1>4 DEF MemThought
  <2>. QED  BY <1>2, <2>1, WmAddKeeps
<1>5. ASSUME NEW strategy \in {"ImportanceBased", "TimeBased", "LRU"}, WmCompress(strategy) PROVE WmInv'
  <2>1. PICK kept : kept = WmCompressed(wmWindow, strategy)
    OBVIOUS
  <2>2. wmWindow' = kept /\ wmTokens' = WmSum(kept) /\ wmCut' /\ UNCHANGED wmAdds
    BY <1>5, <2>1 DEF WmCompress, WmCounted
  <2>3. WmLeft(kept, wmWindow)
    BY <2>1, WmCompressedLeft DEF WmInv
  <2>. QED  BY <2>2, <2>3, WmCutKeeps
<1>6. CASE MemCleanup
  <2>1. wmWindow' = << >> /\ wmTokens' = 0 /\ wmCut' /\ UNCHANGED wmAdds
    BY <1>6 DEF MemCleanup
  <2>2. WmLeft(<< >>, wmWindow)
    BY WmConstants DEF WmLeft, WmOrdered
  <2>. QED  BY <2>1, <2>2, WmCutKeeps, WmSumFacts
<1>7. CASE LtTick
  BY <1>1, <1>7 DEF LtTick
<1>8. ASSUME NEW c \in LtCallers,
             \/ \E e \in LtEntries : LtStore(c, e)
             \/ \E crit \in LtCriteria : LtForget(c, crit)
             \/ LtStored(c) \/ LtIndexed(c) \/ LtReflect(c) \/ LtSummarized(c)
             \/ LtDelete(c) \/ LtRemove(c) \/ LtFails(c) \/ LtDrop(c)
      PROVE  WmInv'
  BY <1>1, <1>8 DEF LtStore, LtForget, LtStored, LtIndexed, LtReflect, LtSummarized, LtDelete, LtRemove, LtFails, LtDrop
<1>9. CASE UNCHANGED ltVars
  BY <1>1, <1>9 DEF ltVars
<1>. QED  BY <1>3, <1>4, <1>5, <1>6, <1>7, <1>8, <1>9 DEF LtNext

LEMMA WmStarts == LtInit => WmInv
BY WmSumFacts, WmConstants DEF LtInit, WmInv, WmOrdered

\* Whatever calls overlap, fail or are dropped on the way, the index and the
\* vector store of an agent agree on every entry that no two calls were at work
\* on; the window keeps to its size and its order, counts its tokens, and has
\* the latest entry until it is compressed or cleared.
THEOREM MemoriesDoAgree == LtSpec => []MemoriesAgree
<1>1. LtSpec => []LtInv
  BY LtStarts, LtKeeps, PTL DEF LtSpec
<1>2. LtSpec => []WmInv
  BY WmStarts, WmKeeps, PTL DEF LtSpec
<1>3. WmInv => WindowKept
  BY DEF WmInv, WindowKept
<1>4. LtInv /\ WmInv => MemoriesAgree
  BY <1>3, LtInvAgrees DEF MemoriesAgree
<1>. QED  BY <1>1, <1>2, <1>4, PTL

(***************************************************************************)
(* The stream of a response.  What has arrived of the body is the frames   *)
(* of the first b lines, from which the events were made, and the          *)
(* beginning of the next one, which is what the parser holds.              *)
(***************************************************************************)

\* What of s is of some kinds, piece by piece.
SsePieces(s, kinds) == [i \in 1 .. Len(s) |-> IF s[i].kind \in kinds THEN <<s[i]>> ELSE << >>]

\* What is kept is what the pieces make together.
LEMMA SsePiecesFacts ==
  ASSUME NEW S, NEW s \in Seq(S), NEW kinds
  PROVE  /\ SsePieces(s, kinds) \in Seq(Seq(S)) /\ Len(SsePieces(s, kinds)) = Len(s)
         /\ SseOf(s, kinds) = FlattenSeq(SsePieces(s, kinds))
<1>1. \A i \in 1 .. Len(s) : s[i] \in S
  OBVIOUS
<1>2. \A i \in 1 .. Len(s) : (IF s[i].kind \in kinds THEN <<s[i]>> ELSE << >>) \in Seq(S)
  BY <1>1
<1>3. SsePieces(s, kinds) \in [1 .. Len(s) -> Seq(S)]
  BY <1>2 DEF SsePieces
<1>4. Len(s) \in Nat
  OBVIOUS
<1>. QED  BY <1>3, <1>4 DEF SsePieces, SseOf

\* What is of some kinds: the elements, and in turn.
LEMMA SseOfFacts ==
  ASSUME NEW S, NEW s \in Seq(S), NEW kinds
  PROVE  SseOf(s, kinds) \in Seq(S) /\ ToSet(SseOf(s, kinds)) = {x \in ToSet(s) : x.kind \in kinds}
<1>1. PICK seqs \in Seq(Seq(S)) : seqs = SsePieces(s, kinds)
  BY SsePiecesFacts
<1>2. FlattenSeq(seqs) \in Seq(S) /\ ToSet(FlattenSeq(seqs)) = UNION {ToSet(seqs[i]) : i \in DOMAIN seqs}
  BY FlattenedSet
<1>3. DOMAIN seqs = 1 .. Len(s) /\ DOMAIN s = 1 .. Len(s)
  BY <1>1, SsePiecesFacts
<1>4. \A i \in 1 .. Len(s) : ToSet(seqs[i]) = IF s[i].kind \in kinds THEN {s[i]} ELSE {}
  BY <1>1 DEF SsePieces, ToSet
<1>6. ToSet(s) = {s[i] : i \in 1 .. Len(s)}
  BY <1>3 DEF ToSet
<1>5. UNION {ToSet(seqs[i]) : i \in DOMAIN seqs} = {x \in ToSet(s) : x.kind \in kinds}
  <2>1. ASSUME NEW x, x \in ToSet(s), x.kind \in kinds
        PROVE  \E i \in DOMAIN seqs : x \in ToSet(seqs[i])
    <3>1. PICK i \in 1 .. Len(s) : x = s[i]
      BY <1>6, <2>1
    <3>. QED  BY <1>3, <1>4, <2>1, <3>1
  <2>2. ASSUME NEW i \in DOMAIN seqs, NEW x \in ToSet(seqs[i])
        PROVE  x \in ToSet(s) /\ x.kind \in kinds
    BY <1>3, <1>4, <1>6
  <2>. QED  BY <2>1, <2>2
<1>. QED  BY <1>1, <1>2, <1>5, SsePiecesFacts

\* Of nothing, nothing.
LEMMA SseOfNone ==
  ASSUME NEW kinds
  PROVE  SseOf(<< >>, kinds) = << >>
<1>1. [i \in 1 .. Len(<< >>) |-> IF << >>[i].kind \in kinds THEN <<<< >>[i]>> ELSE << >>] = << >>
  OBVIOUS
<1>. QED  BY <1>1 DEF SseOf, FlattenSeq

\* One element more, kept or left out.
LEMMA SseOfAppend ==
  ASSUME NEW S, NEW s \in Seq(S), NEW x \in S, NEW kinds
  PROVE  SseOf(Append(s, x), kinds) = SseOf(s, kinds) \o (IF x.kind \in kinds THEN <<x>> ELSE << >>)
<1>12. Append(s, x) \in Seq(S) /\ <<x>> \in Seq(S) /\ << >> \in Seq(S)
  OBVIOUS
<1>1. PICK more \in Seq(S) : more = Append(s, x)
  BY <1>12
<1>2. PICK t \in Seq(S) : t = IF x.kind \in kinds THEN <<x>> ELSE << >>
  BY <1>12
<1>3. PICK n \in Nat : n = Len(s)
  OBVIOUS
<1>4. Len(more) = n + 1 /\ more[n + 1] = x /\ \A i \in 1 .. n : more[i] = s[i]
  BY <1>1, <1>3
<1>5. PICK a \in Seq(Seq(S)), b \in Seq(Seq(S)) : a = SsePieces(s, kinds) /\ b = SsePieces(more, kinds)
  BY SsePiecesFacts
<1>6. Len(a) = n /\ Len(b) = n + 1
  BY <1>3, <1>4, <1>5, SsePiecesFacts
<1>7. \A i \in 1 .. n : b[i] = a[i]
  BY <1>3, <1>4, <1>5 DEF SsePieces
<1>8. b[n + 1] = t
  <2>1. n + 1 \in 1 .. Len(more)
    BY <1>4
  <2>2. b[n + 1] = IF more[n + 1].kind \in kinds THEN <<more[n + 1]>> ELSE << >>
    BY <1>5, <2>1 DEF SsePieces
  <2>. QED  BY <1>2, <1>4, <2>2
<1>9. b = Append(a, t)
  BY ONLY <1>2, <1>3, <1>5, <1>6, <1>7, <1>8
<1>10. FlattenSeq(b) = FlattenSeq(a) \o t
  BY <1>9, FlattenAppend
<1>. QED  BY <1>1, <1>2, <1>5, <1>10, SsePiecesFacts

\* Nothing is left out when all is of the kinds.
LEMMA SseOfAll ==
  ASSUME NEW S, NEW s \in Seq(S), NEW kinds, \A i \in 1 .. Len(s) : s[i].kind \in kinds
  PROVE  SseOf(s, kinds) = s
<1>1. PICK n \in Nat : n = Len(s)
  OBVIOUS
<1> DEFINE Is(m) == SseOf(SubSeq(s, 1, m), kinds) = SubSeq(s, 1, m)
           wrong == {m \in 0 .. n : ~ Is(m)}
<1>2. wrong = {}
  <2>1. SUFFICES ASSUME wrong # {} PROVE FALSE
    OBVIOUS
  <2>2. PICK m \in wrong : \A j \in wrong : ~ (<<j, m>> \in OpToRel(<, Nat))
    <3>1. wrong \subseteq Nat
      OBVIOUS
    <3>. QED  BY <2>1, <3>1, NatLessThanWellFounded, WFMin
  <2>3. m \in 0 .. n /\ ~ Is(m)
    BY <2>2
  <2>4. CASE m = 0
    <3>1. SubSeq(s, 1, 0) = << >>
      OBVIOUS
    <3>. QED  BY <2>3, <2>4, <3>1, SseOfNone
  <2>5. CASE m # 0
    <3>1. PICK k \in 0 .. Len(s) - 1 : m = k + 1
      BY ONLY <1>1, <2>3, <2>5
    <3>2. k \in 0 .. n /\ k \in Nat /\ m \in Nat /\ k < m
      BY ONLY <1>1, <2>3, <3>1
    <3>3. <<k, m>> \in OpToRel(<, Nat)
      BY <3>2 DEF OpToRel
    <3>4. Is(k)
      BY <2>2, <3>2, <3>3
    <3>5. PICK p \in Seq(S), x \in S : p = SubSeq(s, 1, k) /\ x = s[k + 1] /\ SubSeq(s, 1, k + 1) = Append(p, x)
      BY PrefixAppend
    <3>6. x.kind \in kinds
      BY <1>1, <3>1, <3>5
    <3>7. SseOf(Append(p, x), kinds) = SseOf(p, kinds) \o <<x>>
      BY <3>6, SseOfAppend
    <3>8. SseOf(p, kinds) = p
      BY <3>4, <3>5
    <3>9. Append(p, x) = p \o <<x>>
      OBVIOUS
    <3>. QED  BY <2>3, <3>1, <3>5, <3>7, <3>8, <3>9
  <2>. QED  BY <2>4, <2>5
<1>3. Is(n)
  BY <1>1, <1>2
<1>4. SubSeq(s, 1, n) = s
  BY <1>1
<1>. QED  BY <1>3, <1>4

\* What the wire is made of.
SseSymbols == [n : Nat, kind : SseKinds \cup {"lf", "cr", "error"}]

SseLine(i) == [n |-> i, kind |-> sseLines[i]]
SseSent == [i \in DOMAIN sseLines |-> SseLine(i)]
SsePart(i) == <<SseLine(i)>> \o sseEnds

\* The lines that become events, and the events of the first c lines.
SseSaid == SseKinds \ {"note", "done", "bad"}
SsePut(i) == IF sseLines[i] \in SseSaid THEN <<SseLine(i)>> ELSE << >>
SseMeantTo(c) == SseOf(SubSeq(SseSent, 1, c), SseSaid)

\* A body that has been sent.
SseBody == sseLines \in Seq(SseKinds) /\ sseEnds \in {SseLf, SseCrLf}

\* The frames of the first k lines.
SseWireIs(w, k) ==
  /\ w \in Seq(SseSymbols)
  /\ sseEnds = SseLf =>
       /\ Len(w) = 3 * k
       /\ \A i \in 1 .. k : /\ w[3 * i - 2] = SseLine(i)
                            /\ w[3 * i - 1] = SseEndOf("lf") /\ w[3 * i] = SseEndOf("lf")
  /\ sseEnds = SseCrLf =>
       /\ Len(w) = 5 * k
       /\ \A i \in 1 .. k : /\ w[5 * i - 4] = SseLine(i)
                            /\ w[5 * i - 3] = SseEndOf("cr") /\ w[5 * i - 2] = SseEndOf("lf")
                            /\ w[5 * i - 1] = SseEndOf("cr") /\ w[5 * i] = SseEndOf("lf")

\* A line is a symbol of the wire, and no line end.
LEMMA SseLineFacts ==
  ASSUME SseBody
  PROVE  /\ SseSent \in Seq(SseSymbols) /\ Len(SseSent) = Len(sseLines)
         /\ \A i \in 1 .. Len(sseLines) :
              /\ SseLine(i) \in SseSymbols /\ SseSent[i] = SseLine(i) /\ sseLines[i] \in SseKinds
              /\ SseLine(i) # SseEndOf("lf") /\ SseLine(i) # SseEndOf("cr")
         /\ SseEndOf("lf") \in SseSymbols /\ SseEndOf("cr") \in SseSymbols /\ SseError \in SseSymbols
         /\ SseEndOf("lf") # SseEndOf("cr")
<1>1. \A i \in 1 .. Len(sseLines) : i \in Nat /\ sseLines[i] \in SseKinds
  BY DEF SseBody
<1>2. \A i \in 1 .. Len(sseLines) : SseLine(i) \in SseSymbols
  BY <1>1 DEF SseLine, SseSymbols
<1>3. SseSent \in [1 .. Len(sseLines) -> SseSymbols] /\ Len(sseLines) \in Nat
  BY <1>2 DEF SseSent, SseBody
<1>4. \A i \in 1 .. Len(sseLines) : SseLine(i) # SseEndOf("lf") /\ SseLine(i) # SseEndOf("cr")
  <2>1. \A i \in 1 .. Len(sseLines) : SseLine(i).n = i /\ i # 0
    BY DEF SseLine
  <2>2. SseEndOf("lf").n = 0 /\ SseEndOf("cr").n = 0
    BY DEF SseEndOf
  <2>. QED  BY <2>1, <2>2
<1>5. SseEndOf("lf") \in SseSymbols /\ SseEndOf("cr") \in SseSymbols /\ SseError \in SseSymbols
  BY DEF SseEndOf, SseError, SseSymbols
<1>6. SseEndOf("lf") # SseEndOf("cr")
  <2>1. SseEndOf("lf").kind = "lf" /\ SseEndOf("cr").kind = "cr"
    BY DEF SseEndOf
  <2>. QED  BY <2>1
<1>7. SseSent \in Seq(SseSymbols) /\ Len(SseSent) = Len(sseLines)
  BY <1>3
<1>8. \A i \in 1 .. Len(sseLines) : SseSent[i] = SseLine(i)
  BY DEF SseSent, SseBody
<1>. QED  BY <1>1, <1>2, <1>4, <1>5, <1>6, <1>7, <1>8

\* One line more has its event behind the others.
LEMMA SseMeantStep ==
  ASSUME SseBody, NEW c \in 0 .. Len(sseLines) - 1
  PROVE  SseMeantTo(c + 1) = SseMeantTo(c) \o SsePut(c + 1)
<1>1. PICK s \in Seq(SseSymbols) : s = SseSent /\ Len(s) = Len(sseLines)
  BY SseLineFacts
<1>2. c \in 0 .. Len(s) - 1 /\ c + 1 \in 1 .. Len(sseLines)
  BY <1>1 DEF SseBody
<1>3. PICK p \in Seq(SseSymbols), x \in SseSymbols :
        p = SubSeq(s, 1, c) /\ x = s[c + 1] /\ SubSeq(s, 1, c + 1) = Append(p, x)
  BY <1>2, PrefixAppend
<1>4. x = SseLine(c + 1)
  BY <1>1, <1>2, <1>3, SseLineFacts
<1>5. SseOf(Append(p, x), SseSaid) = SseOf(p, SseSaid) \o (IF x.kind \in SseSaid THEN <<x>> ELSE << >>)
  BY SseOfAppend
<1>6. x.kind = sseLines[c + 1]
  BY <1>4 DEF SseLine
<1>. QED  BY <1>1, <1>3, <1>4, <1>5, <1>6 DEF SseMeantTo, SsePut

\* The events of the first c lines: those lines that become events.
LEMMA SseMeantFacts ==
  ASSUME SseBody
  PROVE  /\ SseMeantTo(0) = << >>
         /\ \A c \in 0 .. Len(sseLines) :
              /\ SseMeantTo(c) \in Seq(SseSymbols)
              /\ ToSet(SseMeantTo(c)) = {SseLine(i) : i \in {i \in 1 .. c : sseLines[i] \in SseSaid}}
<1>1. PICK s \in Seq(SseSymbols) : s = SseSent /\ Len(s) = Len(sseLines)
  BY SseLineFacts
<1>2. SseMeantTo(0) = << >>
  <2>1. SubSeq(s, 1, 0) = << >>
    OBVIOUS
  <2>. QED  BY <1>1, <2>1, SseOfNone DEF SseMeantTo
<1>3. ASSUME NEW c \in 0 .. Len(sseLines)
      PROVE  /\ SseMeantTo(c) \in Seq(SseSymbols)
             /\ ToSet(SseMeantTo(c)) = {SseLine(i) : i \in {i \in 1 .. c : sseLines[i] \in SseSaid}}
  <2>1. c \in 0 .. Len(s) /\ c \in Nat
    BY <1>1
  <2>2. SubSeq(s, 1, c) \in Seq(SseSymbols)
    BY <2>1
  <2>3. PICK p \in Seq(SseSymbols) : p = SubSeq(s, 1, c)
    BY <2>2
  <2>4. Len(p) = c /\ DOMAIN p = 1 .. c /\ \A i \in 1 .. c : p[i] = s[i]
    BY <2>1, <2>3
  <2>5. \A i \in 1 .. c : i \in 1 .. Len(sseLines)
    BY <1>1, <2>1
  <2>6. \A i \in 1 .. c : p[i] = SseLine(i) /\ p[i].kind = sseLines[i]
    <3>1. \A i \in 1 .. c : p[i] = SseLine(i)
      BY <1>1, <2>4, <2>5, SseLineFacts
    <3>. QED  BY <3>1 DEF SseLine
  <2>7. SseOf(p, SseSaid) \in Seq(SseSymbols) /\ ToSet(SseOf(p, SseSaid)) = {x \in ToSet(p) : x.kind \in SseSaid}
    BY SseOfFacts
  <2>8. ToSet(p) = {p[i] : i \in 1 .. c}
    BY <2>4 DEF ToSet
  <2>9. {x \in ToSet(p) : x.kind \in SseSaid} = {SseLine(i) : i \in {i \in 1 .. c : sseLines[i] \in SseSaid}}
    <3>1. ASSUME NEW x, x \in ToSet(p), x.kind \in SseSaid
          PROVE  x \in {SseLine(i) : i \in {i \in 1 .. c : sseLines[i] \in SseSaid}}
      <4>1. PICK i \in 1 .. c : x = p[i]
        BY <2>8, <3>1
      <4>. QED  BY <2>6, <3>1, <4>1
    <3>2. ASSUME NEW i \in 1 .. c, sseLines[i] \in SseSaid
          PROVE  SseLine(i) \in ToSet(p) /\ SseLine(i).kind \in SseSaid
      BY <2>6, <2>8, <3>2
    <3>. QED  BY <3>1, <3>2
  <2>. QED  BY <1>1, <2>3, <2>7, <2>9 DEF SseMeantTo
<1>. QED  BY <1>2, <1>3

\* A line and what ends its frame.
LEMMA SsePartFacts ==
  ASSUME SseBody, NEW i \in 1 .. Len(sseLines)
  PROVE  /\ SsePart(i) \in Seq(SseSymbols) /\ SsePart(i)[1] = SseLine(i)
         /\ sseEnds = SseLf => /\ Len(SsePart(i)) = 3
                               /\ SsePart(i)[2] = SseEndOf("lf") /\ SsePart(i)[3] = SseEndOf("lf")
         /\ sseEnds = SseCrLf => /\ Len(SsePart(i)) = 5
                                 /\ SsePart(i)[2] = SseEndOf("cr") /\ SsePart(i)[3] = SseEndOf("lf")
                                 /\ SsePart(i)[4] = SseEndOf("cr") /\ SsePart(i)[5] = SseEndOf("lf")
<1>1. PICK x \in SseSymbols, l \in SseSymbols, c \in SseSymbols :
        x = SseLine(i) /\ l = SseEndOf("lf") /\ c = SseEndOf("cr")
  BY SseLineFacts
<1>2. CASE sseEnds = SseLf
  <2>1. sseEnds = <<l, l>>
    BY <1>1, <1>2 DEF SseLf
  <2>2. <<x>> \in Seq(SseSymbols) /\ <<l, l>> \in Seq(SseSymbols)
    OBVIOUS
  <2>3. PICK a \in Seq(SseSymbols), e \in Seq(SseSymbols) : a = <<x>> /\ e = <<l, l>>
    BY <2>2
  <2>7. /\ Len(a) = 1 /\ DOMAIN a = 1 .. 1 /\ a[1] = x
        /\ Len(e) = 2 /\ DOMAIN e = 1 .. 2 /\ e[1] = l /\ e[2] = l
    BY <2>3
  <2>8. PICK s : s = a \o e
    OBVIOUS
  <2>9. /\ s \in Seq(SseSymbols) /\ Len(s) = Len(a) + Len(e)
        /\ \A j \in DOMAIN a : s[j] = a[j]
        /\ \A j \in DOMAIN e : s[Len(a) + j] = e[j]
    BY <2>8, ConcatFacts
  <2>4. s \in Seq(SseSymbols) /\ Len(s) = 3 /\ s[1] = x /\ s[2] = l /\ s[3] = l
    BY ONLY <2>7, <2>9
  <2>5. SsePart(i) = s
    BY <1>1, <2>1, <2>3, <2>8 DEF SsePart
  <2>6. sseEnds # SseCrLf
    BY <1>2 DEF SseLf, SseCrLf
  <2>. QED  BY <1>1, <1>2, <2>4, <2>5, <2>6
<1>3. CASE sseEnds = SseCrLf
  <2>1. sseEnds = <<c, l, c, l>>
    BY <1>1, <1>3 DEF SseCrLf
  <2>2. <<x>> \in Seq(SseSymbols) /\ <<c, l, c, l>> \in Seq(SseSymbols)
    OBVIOUS
  <2>3. PICK a \in Seq(SseSymbols), e \in Seq(SseSymbols) : a = <<x>> /\ e = <<c, l, c, l>>
    BY <2>2
  <2>7. /\ Len(a) = 1 /\ DOMAIN a = 1 .. 1 /\ a[1] = x
        /\ Len(e) = 4 /\ DOMAIN e = 1 .. 4 /\ e[1] = c /\ e[2] = l /\ e[3] = c /\ e[4] = l
    BY <2>3
  <2>8. PICK s : s = a \o e
    OBVIOUS
  <2>9. /\ s \in Seq(SseSymbols) /\ Len(s) = Len(a) + Len(e)
        /\ \A j \in DOMAIN a : s[j] = a[j]
        /\ \A j \in DOMAIN e : s[Len(a) + j] = e[j]
    BY <2>8, ConcatFacts
  <2>4. s \in Seq(SseSymbols) /\ Len(s) = 5 /\ s[1] = x /\ s[2] = c /\ s[3] = l /\ s[4] = c /\ s[5] = l
    BY ONLY <2>7, <2>9
  <2>5. SsePart(i) = s
    BY <1>1, <2>1, <2>3, <2>8 DEF SsePart
  <2>6. sseEnds # SseLf
    BY <1>3 DEF SseLf, SseCrLf
  <2>. QED  BY <1>1, <1>3, <2>4, <2>5, <2>6
<1>. QED  BY <1>2, <1>3 DEF SseBody

\* One frame more.
LEMMA SseWireStep ==
  ASSUME SseBody, NEW k \in 0 .. Len(sseLines) - 1, NEW w, SseWireIs(w, k)
  PROVE  SseWireIs(w \o SsePart(k + 1), k + 1)
<1>1. k \in Nat /\ k + 1 \in 1 .. Len(sseLines)
  BY DEF SseBody
<1>2. PICK p \in Seq(SseSymbols) : p = SsePart(k + 1)
  BY <1>1, SsePartFacts
<1>3. w \in Seq(SseSymbols)
  BY DEF SseWireIs
<1>4. PICK v : v = w \o p
  OBVIOUS
<1>5. /\ v \in Seq(SseSymbols) /\ Len(v) = Len(w) + Len(p)
      /\ \A i \in DOMAIN w : v[i] = w[i]
      /\ \A i \in DOMAIN p : v[Len(w) + i] = p[i]
  BY <1>3, <1>4, ConcatFacts
<1>6. DOMAIN w = 1 .. Len(w) /\ DOMAIN p = 1 .. Len(p)
  BY <1>3
<1>7. CASE sseEnds = SseLf
  <2>1. /\ Len(p) = 3 /\ p[1] = SseLine(k + 1) /\ p[2] = SseEndOf("lf") /\ p[3] = SseEndOf("lf")
    BY <1>1, <1>2, <1>7, SsePartFacts
  <2>2. /\ Len(w) = 3 * k
        /\ \A i \in 1 .. k : /\ w[3 * i - 2] = SseLine(i)
                             /\ w[3 * i - 1] = SseEndOf("lf") /\ w[3 * i] = SseEndOf("lf")
    BY <1>7 DEF SseWireIs
  <2>3. \A i \in 1 .. k : {3 * i - 2, 3 * i - 1, 3 * i} \subseteq DOMAIN w
    BY ONLY <1>1, <1>6, <2>2
  <2>4. \A i \in 1 .. k : /\ v[3 * i - 2] = SseLine(i)
                          /\ v[3 * i - 1] = SseEndOf("lf") /\ v[3 * i] = SseEndOf("lf")
    BY <1>5, <2>2, <2>3
  <2>5. v[3 * k + 1] = SseLine(k + 1) /\ v[3 * k + 2] = SseEndOf("lf") /\ v[3 * k + 3] = SseEndOf("lf")
    <3>1. {1, 2, 3} \subseteq DOMAIN p
      BY <1>6, <2>1
    <3>. QED  BY <1>5, <2>1, <2>2, <3>1
  <2>6. ASSUME NEW i \in 1 .. k + 1
        PROVE  /\ v[3 * i - 2] = SseLine(i)
               /\ v[3 * i - 1] = SseEndOf("lf") /\ v[3 * i] = SseEndOf("lf")
    <3>1. CASE i = k + 1
      <4>1. 3 * i - 2 = 3 * k + 1 /\ 3 * i - 1 = 3 * k + 2 /\ 3 * i = 3 * k + 3
        BY ONLY <1>1, <3>1
      <4>. QED  BY <2>5, <3>1, <4>1
    <3>2. CASE i # k + 1
      <4>1. i \in 1 .. k
        BY <1>1, <3>2
      <4>. QED  BY <2>4, <4>1
    <3>. QED  BY <3>1, <3>2
  <2>7. Len(v) = 3 * (k + 1)
    BY ONLY <1>1, <1>5, <2>1, <2>2
  <2>8. sseEnds # SseCrLf
    BY <1>7 DEF SseLf, SseCrLf
  <2>. QED  BY <1>2, <1>4, <1>5, <2>6, <2>7, <2>8 DEF SseWireIs
<1>8. CASE sseEnds = SseCrLf
  <2>1. /\ Len(p) = 5 /\ p[1] = SseLine(k + 1) /\ p[2] = SseEndOf("cr") /\ p[3] = SseEndOf("lf")
        /\ p[4] = SseEndOf("cr") /\ p[5] = SseEndOf("lf")
    BY <1>1, <1>2, <1>8, SsePartFacts
  <2>2. /\ Len(w) = 5 * k
        /\ \A i \in 1 .. k : /\ w[5 * i - 4] = SseLine(i)
                             /\ w[5 * i - 3] = SseEndOf("cr") /\ w[5 * i - 2] = SseEndOf("lf")
                             /\ w[5 * i - 1] = SseEndOf("cr") /\ w[5 * i] = SseEndOf("lf")
    BY <1>8 DEF SseWireIs
  <2>3. \A i \in 1 .. k : {5 * i - 4, 5 * i - 3, 5 * i - 2, 5 * i - 1, 5 * i} \subseteq DOMAIN w
    BY ONLY <1>1, <1>6, <2>2
  <2>4. \A i \in 1 .. k : /\ v[5 * i - 4] = SseLine(i)
                          /\ v[5 * i - 3] = SseEndOf("cr") /\ v[5 * i - 2] = SseEndOf("lf")
                          /\ v[5 * i - 1] = SseEndOf("cr") /\ v[5 * i] = SseEndOf("lf")
    BY <1>5, <2>2, <2>3
  <2>5. /\ v[5 * k + 1] = SseLine(k + 1) /\ v[5 * k + 2] = SseEndOf("cr") /\ v[5 * k + 3] = SseEndOf("lf")
        /\ v[5 * k + 4] = SseEndOf("cr") /\ v[5 * k + 5] = SseEndOf("lf")
    <3>1. {1, 2, 3, 4, 5} \subseteq DOMAIN p
      BY <1>6, <2>1
    <3>. QED  BY <1>5, <2>1, <2>2, <3>1
  <2>6. ASSUME NEW i \in 1 .. k + 1
        PROVE  /\ v[5 * i - 4] = SseLine(i)
               /\ v[5 * i - 3] = SseEndOf("cr") /\ v[5 * i - 2] = SseEndOf("lf")
               /\ v[5 * i - 1] = SseEndOf("cr") /\ v[5 * i] = SseEndOf("lf")
    <3>1. CASE i = k + 1
      <4>1. /\ 5 * i - 4 = 5 * k + 1 /\ 5 * i - 3 = 5 * k + 2 /\ 5 * i - 2 = 5 * k + 3
            /\ 5 * i - 1 = 5 * k + 4 /\ 5 * i = 5 * k + 5
        BY ONLY <1>1, <3>1
      <4>. QED  BY <2>5, <3>1, <4>1
    <3>2. CASE i # k + 1
      <4>1. i \in 1 .. k
        BY <1>1, <3>2
      <4>. QED  BY <2>4, <4>1
    <3>. QED  BY <3>1, <3>2
  <2>7. Len(v) = 5 * (k + 1)
    BY ONLY <1>1, <1>5, <2>1, <2>2
  <2>8. sseEnds # SseLf
    BY <1>8 DEF SseLf, SseCrLf
  <2>. QED  BY <1>2, <1>4, <1>5, <2>6, <2>7, <2>8 DEF SseWireIs
<1>. QED  BY <1>7, <1>8 DEF SseBody

\* The whole body.
LEMMA SseWireFacts ==
  ASSUME SseBody
  PROVE  SseWireIs(SseWire, Len(sseLines))
<1>1. PICK m \in Nat : m = Len(sseLines) /\ DOMAIN sseLines = 1 .. m
  BY DEF SseBody
<1>2. PICK parts : parts = [i \in 1 .. m |-> SsePart(i)]
  OBVIOUS
<1>3. parts \in Seq(Seq(SseSymbols)) /\ Len(parts) = m /\ \A i \in 1 .. m : parts[i] = SsePart(i)
  <2>1. parts \in [1 .. m -> Seq(SseSymbols)]
    BY <1>1, <1>2, SsePartFacts
  <2>. QED  BY <1>2, <2>1
<1>4. SseWire = FlattenSeq(parts)
  BY <1>1, <1>2 DEF SseWire, SsePart, SseLine
<1> DEFINE Is(k) == SseWireIs(FlattenSeq(SubSeq(parts, 1, k)), k)
           wrong == {k \in 0 .. m : ~ Is(k)}
<1>5. wrong = {}
  <2>1. SUFFICES ASSUME wrong # {} PROVE FALSE
    OBVIOUS
  <2>2. PICK k \in wrong : \A j \in wrong : ~ (<<j, k>> \in OpToRel(<, Nat))
    <3>1. wrong \subseteq Nat
      OBVIOUS
    <3>. QED  BY <2>1, <3>1, NatLessThanWellFounded, WFMin
  <2>3. k \in 0 .. m /\ ~ Is(k)
    BY <2>2
  <2>4. CASE k = 0
    <3>1. SubSeq(parts, 1, 0) = << >>
      BY <1>3
    <3>2. FlattenSeq(SubSeq(parts, 1, 0)) = << >>
      BY <3>1 DEF FlattenSeq
    <3>3. SseWireIs(<< >>, 0)
      BY DEF SseWireIs
    <3>. QED  BY <2>3, <2>4, <3>2, <3>3
  <2>5. CASE k # 0
    <3>1. PICK j \in 0 .. m - 1 : k = j + 1
      BY ONLY <1>1, <2>3, <2>5
    <3>2. j \in 0 .. m /\ j \in Nat /\ k \in Nat /\ j < k /\ j + 1 \in 1 .. m
      BY ONLY <1>1, <2>3, <3>1
    <3>3. <<j, k>> \in OpToRel(<, Nat)
      BY <3>2 DEF OpToRel
    <3>4. Is(j)
      BY <2>2, <3>2, <3>3
    <3>5. PICK p \in Seq(Seq(SseSymbols)), x \in Seq(SseSymbols) :
            p = SubSeq(parts, 1, j) /\ x = parts[j + 1] /\ SubSeq(parts, 1, j + 1) = Append(p, x)
      BY <1>3, <3>1, PrefixAppend
    <3>6. FlattenSeq(Append(p, x)) = FlattenSeq(p) \o x
      BY FlattenAppend
    <3>7. SseWireIs(FlattenSeq(p), j)
      BY <3>4, <3>5
    <3>8. SseWireIs(FlattenSeq(p) \o SsePart(j + 1), j + 1)
      BY <1>1, <3>1, <3>7, SseWireStep
    <3>9. x = SsePart(j + 1)
      BY <1>3, <3>2, <3>5
    <3>. QED  BY <2>3, <3>1, <3>5, <3>6, <3>8, <3>9
  <2>. QED  BY <2>4, <2>5
<1>6. Is(m)
  BY <1>1, <1>5
<1>7. SubSeq(parts, 1, m) = parts
  BY <1>3
<1>. QED  BY <1>1, <1>4, <1>6, <1>7

\* Symbols of the wire before line b + 1.
SseAt(b) == IF sseEnds = SseLf THEN 3 * b ELSE 5 * b

\* The characters of the two line ends.
LEMMA SseEndsFacts ==
  /\ SseLf # SseCrLf /\ Len(SseLf) = 2 /\ Len(SseCrLf) = 4
  /\ SseLf[1] = SseEndOf("lf") /\ SseLf[2] = SseEndOf("lf")
  /\ SseCrLf[1] = SseEndOf("cr") /\ SseCrLf[2] = SseEndOf("lf")
  /\ SseCrLf[3] = SseEndOf("cr") /\ SseCrLf[4] = SseEndOf("lf")
  BY DEF SseLf, SseCrLf

\* Where a line ends is where the next begins, and how many have arrived.
LEMMA SseAtFacts ==
  ASSUME SseBody
  PROVE  /\ SseAt(0) = 0 /\ SseAt(Len(sseLines)) = Len(SseWire)
         /\ \A b \in Nat : SseAt(b) \in Nat /\ SseAt(b) < SseAt(b + 1) /\ b <= SseAt(b)
         /\ \A b, c \in Nat : b <= c => SseAt(b) <= SseAt(c)
         /\ \A b, c \in Nat : b < c => SseAt(b) < SseAt(c)
         /\ \A p, c \in Nat : SseAt(c) <= p /\ p < SseAt(c + 1) => p \div (1 + Len(sseEnds)) = c
         /\ \A p \in Nat : /\ p \div (1 + Len(sseEnds)) \in Nat
                           /\ SseAt(p \div (1 + Len(sseEnds))) <= p
                           /\ p < SseAt(p \div (1 + Len(sseEnds)) + 1)
<1>1. CASE sseEnds = SseLf
  <2>1. SseAt(Len(sseLines)) = Len(SseWire)
    BY <1>1, SseWireFacts DEF SseWireIs, SseAt
  <2>2. \A b : SseAt(b) = 3 * b
    BY <1>1 DEF SseAt
  <2>3. 1 + Len(sseEnds) = 3
    BY <1>1, SseEndsFacts
  <2>4. \A p, c \in Nat : 3 * c <= p /\ p < 3 * (c + 1) => p \div 3 = c
    OBVIOUS
  <2>8. \A p, c \in Nat : SseAt(c) <= p /\ p < SseAt(c + 1) => p \div (1 + Len(sseEnds)) = c
    BY ONLY <2>2, <2>3, <2>4
  <2>5. \A p \in Nat : p \div 3 \in Nat /\ 3 * (p \div 3) <= p /\ p < 3 * (p \div 3 + 1)
    OBVIOUS
  <2>9. \A p \in Nat : /\ p \div (1 + Len(sseEnds)) \in Nat
                       /\ SseAt(p \div (1 + Len(sseEnds))) <= p
                       /\ p < SseAt(p \div (1 + Len(sseEnds)) + 1)
    BY ONLY <2>2, <2>3, <2>5
  <2>10. SseAt(0) = 0
    BY <2>2
  <2>6. \A b \in Nat : SseAt(b) \in Nat /\ SseAt(b) < SseAt(b + 1) /\ b <= SseAt(b)
    BY <2>2
  <2>7. \A b, c \in Nat : (b <= c => SseAt(b) <= SseAt(c)) /\ (b < c => SseAt(b) < SseAt(c))
    BY <2>2
  <2>. QED  BY ONLY <2>1, <2>6, <2>7, <2>8, <2>9, <2>10
<1>2. CASE sseEnds = SseCrLf
  <2>1. SseAt(Len(sseLines)) = Len(SseWire)
    BY <1>2, SseWireFacts, SseEndsFacts DEF SseWireIs, SseAt
  <2>2. \A b : SseAt(b) = 5 * b
    BY <1>2, SseEndsFacts DEF SseAt
  <2>3. 1 + Len(sseEnds) = 5
    BY <1>2, SseEndsFacts
  <2>4. \A p, c \in Nat : 5 * c <= p /\ p < 5 * (c + 1) => p \div 5 = c
    OBVIOUS
  <2>8. \A p, c \in Nat : SseAt(c) <= p /\ p < SseAt(c + 1) => p \div (1 + Len(sseEnds)) = c
    BY ONLY <2>2, <2>3, <2>4
  <2>5. \A p \in Nat : p \div 5 \in Nat /\ 5 * (p \div 5) <= p /\ p < 5 * (p \div 5 + 1)
    OBVIOUS
  <2>9. \A p \in Nat : /\ p \div (1 + Len(sseEnds)) \in Nat
                       /\ SseAt(p \div (1 + Len(sseEnds))) <= p
                       /\ p < SseAt(p \div (1 + Len(sseEnds)) + 1)
    BY ONLY <2>2, <2>3, <2>5
  <2>10. SseAt(0) = 0
    BY <2>2
  <2>6. \A b \in Nat : SseAt(b) \in Nat /\ SseAt(b) < SseAt(b + 1) /\ b <= SseAt(b)
    BY <2>2
  <2>7. \A b, c \in Nat : (b <= c => SseAt(b) <= SseAt(c)) /\ (b < c => SseAt(b) < SseAt(c))
    BY <2>2
  <2>. QED  BY ONLY <2>1, <2>6, <2>7, <2>8, <2>9, <2>10
<1>. QED  BY <1>1, <1>2 DEF SseBody

\* The places of a line end.
LEMMA SseFoundLf ==
  ASSUME NEW S, NEW buf \in Seq(S), NEW i \in Nat
  PROVE  i \in SseFound(buf, SseLf) <=>
           /\ i \in 1 .. Len(buf) - 1
           /\ buf[i] = SseEndOf("lf") /\ buf[i + 1] = SseEndOf("lf")
<1>1. PICK l : l = SseEndOf("lf") /\ SseLf = <<l, l>>
  BY DEF SseLf
<1>2. i \in SseFound(buf, SseLf) <=> i \in 1 .. Len(buf) - 1 /\ SubSeq(buf, i, i + 1) = SseLf
  <2>1. Len(buf) - Len(SseLf) + 1 = Len(buf) - 1 /\ i + Len(SseLf) - 1 = i + 1
    BY SseEndsFacts
  <2>. QED  BY <2>1 DEF SseFound
<1>3. ASSUME i \in 1 .. Len(buf) - 1
      PROVE  SubSeq(buf, i, i + 1) = <<l, l>> <=> buf[i] = l /\ buf[i + 1] = l
  <2>1. PICK t : t = SubSeq(buf, i, i + 1)
    OBVIOUS
  <2>2. t \in Seq(S) /\ Len(t) = 2 /\ t[1] = buf[i] /\ t[2] = buf[i + 1]
    <3>1. PICK x, y : x = i - 1 /\ y = i + 1
      OBVIOUS
    <3>2. y \in 0 .. Len(buf) /\ x \in 0 .. y /\ y - x = 2 /\ x + 1 = i /\ x + 2 = i + 1
      BY <1>3, <3>1
    <3>3. PICK u : u = SubSeq(buf, x + 1, y)
      OBVIOUS
    <3>4. u \in Seq(S) /\ Len(u) = y - x /\ \A j \in 1 .. y - x : u[j] = buf[x + j]
      BY ONLY <3>2, <3>3, StretchFacts, buf \in Seq(S)
    <3>5. t = u
      BY <2>1, <3>1, <3>2, <3>3
    <3>6. \A j \in 1 .. 2 : j \in 1 .. y - x
      BY <3>2
    <3>7. \A j \in 1 .. 2 : u[j] = buf[x + j]
      BY ONLY <3>4, <3>6
    <3>8. u[1] = buf[x + 1] /\ u[2] = buf[x + 2]
      BY ONLY <3>7
    <3>9. Len(u) = 2
      BY ONLY <3>2, <3>4
    <3>. QED  BY ONLY <3>2, <3>4, <3>5, <3>8, <3>9, Zenon
  <2>3. t = <<l, l>> <=> t[1] = l /\ t[2] = l
    BY ONLY <2>2
  <2>. QED  BY <2>1, <2>2, <2>3
<1>. QED  BY <1>1, <1>2, <1>3

\* Where the second line end can be found.
LEMMA SseFoundCrLf ==
  ASSUME NEW S, NEW buf \in Seq(S), NEW i \in Nat
  PROVE  i \in SseFound(buf, SseCrLf) <=>
           /\ i \in 1 .. Len(buf) - 3
           /\ buf[i] = SseEndOf("cr") /\ buf[i + 1] = SseEndOf("lf")
           /\ buf[i + 2] = SseEndOf("cr") /\ buf[i + 3] = SseEndOf("lf")
<1>1. PICK l, c : l = SseEndOf("lf") /\ c = SseEndOf("cr") /\ SseCrLf = <<c, l, c, l>>
  BY DEF SseCrLf
<1>2. i \in SseFound(buf, SseCrLf) <=> i \in 1 .. Len(buf) - 3 /\ SubSeq(buf, i, i + 3) = SseCrLf
  <2>1. Len(buf) - Len(SseCrLf) + 1 = Len(buf) - 3 /\ i + Len(SseCrLf) - 1 = i + 3
    BY SseEndsFacts
  <2>. QED  BY <2>1 DEF SseFound
<1>3. ASSUME i \in 1 .. Len(buf) - 3
      PROVE  SubSeq(buf, i, i + 3) = <<c, l, c, l>> <=>
               buf[i] = c /\ buf[i + 1] = l /\ buf[i + 2] = c /\ buf[i + 3] = l
  <2>1. PICK t : t = SubSeq(buf, i, i + 3)
    OBVIOUS
  <2>2. /\ t \in Seq(S) /\ Len(t) = 4
        /\ t[1] = buf[i] /\ t[2] = buf[i + 1] /\ t[3] = buf[i + 2] /\ t[4] = buf[i + 3]
    <3>1. PICK x, y : x = i - 1 /\ y = i + 3
      OBVIOUS
    <3>2. /\ y \in 0 .. Len(buf) /\ x \in 0 .. y /\ y - x = 4
          /\ x + 1 = i /\ x + 2 = i + 1 /\ x + 3 = i + 2 /\ x + 4 = i + 3
      BY <1>3, <3>1
    <3>3. PICK u : u = SubSeq(buf, x + 1, y)
      OBVIOUS
    <3>4. u \in Seq(S) /\ Len(u) = y - x /\ \A j \in 1 .. y - x : u[j] = buf[x + j]
      BY ONLY <3>2, <3>3, StretchFacts, buf \in Seq(S)
    <3>5. t = u
      BY <2>1, <3>1, <3>2, <3>3
    <3>6. \A j \in 1 .. 4 : j \in 1 .. y - x
      BY <3>2
    <3>7. \A j \in 1 .. 4 : u[j] = buf[x + j]
      BY ONLY <3>4, <3>6
    <3>8. u[1] = buf[x + 1] /\ u[2] = buf[x + 2] /\ u[3] = buf[x + 3] /\ u[4] = buf[x + 4]
      BY ONLY <3>7
    <3>9. Len(u) = 4
      BY ONLY <3>2, <3>4
    <3>. QED  BY ONLY <3>2, <3>4, <3>5, <3>8, <3>9, Zenon
  <2>3. t = <<c, l, c, l>> <=> t[1] = c /\ t[2] = l /\ t[3] = c /\ t[4] = l
    BY ONLY <2>2
  <2>. QED  BY <2>1, <2>2, <2>3
<1>. QED  BY <1>1, <1>2, <1>3

\* The first of some places.
LEMMA SseFirstIs ==
  ASSUME NEW T, T \subseteq Nat, NEW k \in T, \A j \in T : k <= j
  PROVE  SseFirst(T) = k
<1>1. \A i \in T : (\A j \in T : i <= j) => i = k
  OBVIOUS
<1>. QED  BY <1>1 DEF SseFirst

\* What the buffer shows of a frame that has arrived, or not: the parser reads
\* one line, up to its end.
SseFrameIs(b, p, buf) ==
  /\ p < SseAt(b + 1) => ~ SseHasFrame(buf)
  /\ SseAt(b + 1) <= p =>
       /\ b < Len(sseLines) /\ SseHasFrame(buf)
       /\ SseFrame(buf) = [frame |-> <<SseLine(b + 1)>>, rest |-> SubSeq(SseWire, SseAt(b + 1) + 1, p)]

\* The next frame of a body that ends its frames with the first line end.
LEMMA SseFrameLf ==
  ASSUME SseBody, sseEnds = SseLf, NEW b \in 0 .. Len(sseLines), NEW p \in SseAt(b) .. Len(SseWire)
  PROVE  SseFrameIs(b, p, SubSeq(SseWire, SseAt(b) + 1, p))
<1>1. PICK m \in Nat : m = Len(sseLines)
  BY DEF SseBody
<1>2. PICK w \in Seq(SseSymbols) : w = SseWire
  BY SseWireFacts DEF SseWireIs
<1>3. /\ Len(w) = 3 * m
      /\ \A i \in 1 .. m : /\ w[3 * i - 2] = SseLine(i)
                           /\ w[3 * i - 1] = SseEndOf("lf") /\ w[3 * i] = SseEndOf("lf")
  BY <1>1, <1>2, SseWireFacts DEF SseWireIs
<1>4. SseAt(b) = 3 * b /\ SseAt(b + 1) = 3 * (b + 1)
  BY DEF SseAt
<1>5. PICK x \in Nat : x = 3 * b
  BY <1>1
<1>6. p \in 0 .. Len(w) /\ x \in 0 .. p /\ b \in 0 .. m /\ SseAt(b) = x /\ SseAt(b + 1) = x + 3
  BY <1>1, <1>2, <1>3, <1>4, <1>5
<1>7. PICK buf \in Seq(SseSymbols) : buf = SubSeq(w, x + 1, p)
  BY <1>6, StretchFacts
<1>8. Len(buf) = p - x /\ \A i \in 1 .. p - x : buf[i] = w[x + i]
  BY <1>6, <1>7, StretchFacts
<1>9. ASSUME x < p
      PROVE  b + 1 \in 1 .. m /\ buf[1] = SseLine(b + 1) /\ buf[1] # SseEndOf("lf")
  <2>1. b + 1 \in 1 .. m /\ 3 * (b + 1) - 2 = x + 1 /\ 1 \in 1 .. p - x
    BY ONLY <1>1, <1>3, <1>5, <1>6, <1>9
  <2>2. buf[1] = SseLine(b + 1)
    BY <1>3, <1>8, <2>1
  <2>. QED  BY <1>1, <2>1, <2>2, SseLineFacts
<1>10. CASE p < x + 3
  <2>1. ASSUME NEW i \in Nat, i \in SseFound(buf, SseLf) PROVE FALSE
    <3>1. i \in 1 .. Len(buf) - 1 /\ buf[i] = SseEndOf("lf")
      BY <2>1, SseFoundLf
    <3>2. i \in 1 .. (p - x) - 1 /\ p \in Nat
      BY <1>6, <1>8, <3>1
    <3>3. i = 1 /\ x < p
      BY ONLY <1>5, <1>10, <3>2
    <3>. QED  BY <1>9, <3>1, <3>3
  <2>2. ASSUME NEW i \in Nat, i \in SseFound(buf, SseCrLf) PROVE FALSE
    <3>1. i \in 1 .. Len(buf) - 3
      BY <2>2, SseFoundCrLf
    <3>. QED  BY <1>6, <1>8, <1>10, <3>1
  <2>3. SseFound(buf, SseLf) \subseteq Nat /\ SseFound(buf, SseCrLf) \subseteq Nat
    BY DEF SseFound
  <2>4. ~ SseHasFrame(buf)
    BY <2>1, <2>2, <2>3 DEF SseHasFrame
  <2>5. ~ (SseAt(b + 1) <= p)
    BY <1>6, <1>10
  <2>. QED  BY <1>2, <1>6, <1>7, <2>4, <2>5 DEF SseFrameIs
<1>11. CASE ~ (p < x + 3)
  <2>1. x < p /\ x + 3 <= p /\ 3 \in 0 .. p - x /\ {1, 2, 3} \subseteq 1 .. p - x
    BY <1>6, <1>11
  <2>2. b + 1 \in 1 .. m /\ buf[1] = SseLine(b + 1) /\ buf[1] # SseEndOf("lf")
    BY <1>9, <2>1
  <2>3. buf[2] = SseEndOf("lf") /\ buf[3] = SseEndOf("lf")
    <3>1. 3 * (b + 1) - 1 = x + 2 /\ 3 * (b + 1) = x + 3
      BY ONLY <1>5, <1>6
    <3>2. w[x + 2] = SseEndOf("lf") /\ w[x + 3] = SseEndOf("lf")
      BY <1>3, <2>2, <3>1
    <3>. QED  BY <1>8, <2>1, <3>2
  <2> DEFINE found == SseFound(buf, SseLf)
  <2>4. found \subseteq Nat
    BY DEF SseFound
  <2>5. 2 \in found
    <3>1. 2 \in Nat /\ 2 \in 1 .. Len(buf) - 1 /\ 2 + 1 = 3
      BY <1>8, <2>1
    <3>. QED  BY <2>3, <3>1, SseFoundLf
  <2>6. \A j \in found : 2 <= j
    <3>1. SUFFICES ASSUME NEW j \in found PROVE 2 <= j
      OBVIOUS
    <3>2. j \in Nat /\ j \in 1 .. Len(buf) - 1 /\ buf[j] = SseEndOf("lf")
      BY <2>4, SseFoundLf
    <3>3. j # 1
      BY <2>2, <3>2
    <3>. QED  BY <3>2, <3>3
  <2>. HIDE DEF found
  <2>7. SseFirst(found) = 2
    BY <2>4, <2>5, <2>6, SseFirstIs
  <2>8. SseFrame(buf) = [frame |-> SubSeq(buf, 1, 1), rest |-> SubSeq(buf, 4, Len(buf))]
    <3>1. SseFrame(buf) = SseCut(buf, SseLf)
      BY <2>5 DEF SseFrame, found
    <3>2. SseFirst(SseFound(buf, SseLf)) = 2
      BY <2>7 DEF found
    <3>3. 2 - 1 = 1 /\ 2 + Len(SseLf) = 4
      BY SseEndsFacts
    <3>. QED  BY <3>1, <3>2, <3>3 DEF SseCut
  <2>9. SubSeq(buf, 1, 1) = <<SseLine(b + 1)>>
    <3>1. Len(buf) >= 1
      BY <1>8, <2>1
    <3>2. SubSeq(buf, 1, 1) = <<buf[1]>>
      BY <3>1, FirstAlone
    <3>. QED  BY <2>2, <3>2
  <2>10. SubSeq(buf, 4, Len(buf)) = SubSeq(w, x + 3 + 1, p)
    <3>1. SubSeq(SubSeq(w, x + 1, p), 3 + 1, p - x) = SubSeq(w, x + 3 + 1, p)
      BY <1>6, <2>1, StretchRest
    <3>2. 3 + 1 = 4
      OBVIOUS
    <3>. QED  BY ONLY <1>7, <1>8, <3>1, <3>2
  <2>11. SseHasFrame(buf)
    BY <2>5 DEF SseHasFrame, found
  <2>12. ~ (p < SseAt(b + 1)) /\ b < Len(sseLines)
    BY <1>1, <1>6, <1>11, <2>2
  <2>. QED  BY <1>2, <1>6, <1>7, <2>8, <2>9, <2>10, <2>11, <2>12 DEF SseFrameIs
<1>. QED  BY <1>10, <1>11

\* Where frames end with "\r\n\r\n" nowhere is one "\n" followed by another.
LEMMA SseNoLfLf ==
  ASSUME SseBody, sseEnds = SseCrLf, NEW q \in 1 .. Len(SseWire) - 1,
         SseWire[q] = SseEndOf("lf"), SseWire[q + 1] = SseEndOf("lf")
  PROVE  FALSE
<1>1. PICK m \in Nat : m = Len(sseLines)
  BY DEF SseBody
<1>2. PICK w \in Seq(SseSymbols) : w = SseWire
  BY SseWireFacts DEF SseWireIs
<1>3. /\ Len(w) = 5 * m
      /\ \A i \in 1 .. m : /\ w[5 * i - 4] = SseLine(i)
                           /\ w[5 * i - 3] = SseEndOf("cr") /\ w[5 * i - 2] = SseEndOf("lf")
                           /\ w[5 * i - 1] = SseEndOf("cr") /\ w[5 * i] = SseEndOf("lf")
  BY <1>1, <1>2, SseWireFacts, SseEndsFacts DEF SseWireIs
<1>4. q \in Nat /\ 1 <= q /\ q <= 5 * m - 1
  BY <1>1, <1>2, <1>3
<1>5. PICK i \in Nat : 5 * i <= q - 1 /\ q - 1 < 5 * (i + 1)
  <2>1. (q - 1) \div 5 \in Nat /\ 5 * ((q - 1) \div 5) <= q - 1 /\ q - 1 < 5 * ((q - 1) \div 5 + 1)
    BY ONLY <1>4
  <2>. QED  BY <2>1
<1>6. i + 1 \in 1 .. m
  BY ONLY <1>1, <1>4, <1>5
<1>7. \/ q = 5 * (i + 1) - 4
      \/ q = 5 * (i + 1) - 3
      \/ q = 5 * (i + 1) - 2 /\ q + 1 = 5 * (i + 1) - 1
      \/ q = 5 * (i + 1) - 1
      \/ q = 5 * (i + 1) /\ q + 1 = 5 * (i + 1 + 1) - 4 /\ i + 1 + 1 \in 1 .. m
  BY ONLY <1>1, <1>4, <1>5, <1>6
<1>8. /\ w[q] = SseEndOf("lf") /\ w[q + 1] = SseEndOf("lf") /\ SseEndOf("cr") # SseEndOf("lf")
      /\ \A k \in 1 .. m : SseLine(k) # SseEndOf("lf")
  BY <1>1, <1>2, SseLineFacts
<1>9. CASE q = 5 * (i + 1) - 4
  BY <1>3, <1>6, <1>8, <1>9
<1>10. CASE q = 5 * (i + 1) - 3
  BY <1>3, <1>6, <1>8, <1>10
<1>11. CASE q = 5 * (i + 1) - 2 /\ q + 1 = 5 * (i + 1) - 1
  BY <1>3, <1>6, <1>8, <1>11
<1>12. CASE q = 5 * (i + 1) - 1
  BY <1>3, <1>6, <1>8, <1>12
<1>13. CASE q = 5 * (i + 1) /\ q + 1 = 5 * (i + 1 + 1) - 4 /\ i + 1 + 1 \in 1 .. m
  BY <1>3, <1>8, <1>13
<1>. QED  BY <1>7, <1>9, <1>10, <1>11, <1>12, <1>13

\* The same with the second line end.
LEMMA SseFrameCrLf ==
  ASSUME SseBody, sseEnds = SseCrLf, NEW b \in 0 .. Len(sseLines), NEW p \in SseAt(b) .. Len(SseWire)
  PROVE  SseFrameIs(b, p, SubSeq(SseWire, SseAt(b) + 1, p))
<1>1. PICK m \in Nat : m = Len(sseLines)
  BY DEF SseBody
<1>2. PICK w \in Seq(SseSymbols) : w = SseWire
  BY SseWireFacts DEF SseWireIs
<1>3. /\ Len(w) = 5 * m
      /\ \A i \in 1 .. m : /\ w[5 * i - 4] = SseLine(i)
                           /\ w[5 * i - 3] = SseEndOf("cr") /\ w[5 * i - 2] = SseEndOf("lf")
                           /\ w[5 * i - 1] = SseEndOf("cr") /\ w[5 * i] = SseEndOf("lf")
  BY <1>1, <1>2, SseWireFacts, SseEndsFacts DEF SseWireIs
<1>4. SseAt(b) = 5 * b /\ SseAt(b + 1) = 5 * (b + 1)
  BY SseEndsFacts DEF SseAt
<1>5. PICK x \in Nat : x = 5 * b
  BY <1>1
<1>6. p \in 0 .. Len(w) /\ x \in 0 .. p /\ b \in 0 .. m /\ SseAt(b) = x /\ SseAt(b + 1) = x + 5
  BY <1>1, <1>2, <1>3, <1>4, <1>5
<1>7. PICK buf \in Seq(SseSymbols) : buf = SubSeq(w, x + 1, p)
  BY <1>6, StretchFacts
<1>8. Len(buf) = p - x /\ \A i \in 1 .. p - x : buf[i] = w[x + i]
  BY <1>6, <1>7, StretchFacts
<1>9. ASSUME x < p
      PROVE  b + 1 \in 1 .. m /\ buf[1] = SseLine(b + 1) /\ buf[1] # SseEndOf("cr")
  <2>1. b + 1 \in 1 .. m /\ 5 * (b + 1) - 4 = x + 1 /\ 1 \in 1 .. p - x
    BY ONLY <1>1, <1>3, <1>5, <1>6, <1>9
  <2>2. buf[1] = SseLine(b + 1)
    BY <1>3, <1>8, <2>1
  <2>. QED  BY <1>1, <2>1, <2>2, SseLineFacts
<1>12. SseFound(buf, SseLf) \subseteq Nat /\ SseFound(buf, SseCrLf) \subseteq Nat
  BY DEF SseFound
<1>13. SseFound(buf, SseLf) = {}
  <2>1. ASSUME NEW i \in Nat, i \in SseFound(buf, SseLf) PROVE FALSE
    <3>1. i \in 1 .. Len(buf) - 1 /\ buf[i] = SseEndOf("lf") /\ buf[i + 1] = SseEndOf("lf")
      BY <2>1, SseFoundLf
    <3>2. /\ i \in 1 .. p - x /\ i + 1 \in 1 .. p - x /\ x + i \in 1 .. Len(w) - 1
          /\ x + (i + 1) = x + i + 1
      BY <1>6, <1>8, <3>1
    <3>3. w[x + i] = SseEndOf("lf") /\ w[x + i + 1] = SseEndOf("lf")
      BY <1>8, <3>1, <3>2
    <3>. QED  BY <1>2, <3>2, <3>3, SseNoLfLf
  <2>. QED  BY <1>12, <2>1
<1>10. CASE p < x + 5
  <2>2. ASSUME NEW i \in Nat, i \in SseFound(buf, SseCrLf) PROVE FALSE
    <3>1. i \in 1 .. Len(buf) - 3 /\ buf[i] = SseEndOf("cr")
      BY <2>2, SseFoundCrLf
    <3>2. i \in 1 .. (p - x) - 3 /\ p \in Nat
      BY <1>6, <1>8, <3>1
    <3>3. i = 1 /\ x < p
      BY ONLY <1>5, <1>10, <3>2
    <3>. QED  BY <1>9, <3>1, <3>3
  <2>4. ~ SseHasFrame(buf)
    BY <1>12, <1>13, <2>2 DEF SseHasFrame
  <2>5. ~ (SseAt(b + 1) <= p)
    BY <1>6, <1>10
  <2>. QED  BY <1>2, <1>6, <1>7, <2>4, <2>5 DEF SseFrameIs
<1>11. CASE ~ (p < x + 5)
  <2>1. x < p /\ x + 5 <= p /\ 5 \in 0 .. p - x /\ {1, 2, 3, 4, 5} \subseteq 1 .. p - x
    BY <1>6, <1>11
  <2>2. b + 1 \in 1 .. m /\ buf[1] = SseLine(b + 1) /\ buf[1] # SseEndOf("cr")
    BY <1>9, <2>1
  <2>3. /\ buf[2] = SseEndOf("cr") /\ buf[3] = SseEndOf("lf")
        /\ buf[4] = SseEndOf("cr") /\ buf[5] = SseEndOf("lf")
    <3>1. /\ 5 * (b + 1) - 3 = x + 2 /\ 5 * (b + 1) - 2 = x + 3
          /\ 5 * (b + 1) - 1 = x + 4 /\ 5 * (b + 1) = x + 5
      BY ONLY <1>5, <1>6
    <3>2. /\ w[x + 2] = SseEndOf("cr") /\ w[x + 3] = SseEndOf("lf")
          /\ w[x + 4] = SseEndOf("cr") /\ w[x + 5] = SseEndOf("lf")
      BY <1>3, <2>2, <3>1
    <3>. QED  BY <1>8, <2>1, <3>2
  <2> DEFINE found == SseFound(buf, SseCrLf)
  <2>5. 2 \in found
    <3>1. 2 \in Nat /\ 2 \in 1 .. Len(buf) - 3 /\ 2 + 1 = 3 /\ 2 + 2 = 4 /\ 2 + 3 = 5
      BY <1>8, <2>1
    <3>. QED  BY <2>3, <3>1, SseFoundCrLf
  <2>6. \A j \in found : 2 <= j
    <3>1. SUFFICES ASSUME NEW j \in found PROVE 2 <= j
      OBVIOUS
    <3>2. j \in Nat /\ j \in 1 .. Len(buf) - 3 /\ buf[j] = SseEndOf("cr")
      BY <1>12, SseFoundCrLf
    <3>3. j # 1
      BY <2>2, <3>2
    <3>. QED  BY <3>2, <3>3
  <2>7. SseFirst(found) = 2
    BY <1>12, <2>5, <2>6, SseFirstIs
  <2>. HIDE DEF found
  <2>8. SseFrame(buf) = [frame |-> SubSeq(buf, 1, 1), rest |-> SubSeq(buf, 6, Len(buf))]
    <3>1. SseFrame(buf) = SseCut(buf, SseCrLf)
      BY <1>13 DEF SseFrame
    <3>2. SseFirst(SseFound(buf, SseCrLf)) = 2
      BY <2>7 DEF found
    <3>3. 2 - 1 = 1 /\ 2 + Len(SseCrLf) = 6
      BY SseEndsFacts
    <3>. QED  BY <3>1, <3>2, <3>3 DEF SseCut
  <2>9. SubSeq(buf, 1, 1) = <<SseLine(b + 1)>>
    <3>1. Len(buf) >= 1
      BY <1>8, <2>1
    <3>2. SubSeq(buf, 1, 1) = <<buf[1]>>
      BY <3>1, FirstAlone
    <3>. QED  BY <2>2, <3>2
  <2>10. SubSeq(buf, 6, Len(buf)) = SubSeq(w, x + 5 + 1, p)
    <3>1. SubSeq(SubSeq(w, x + 1, p), 5 + 1, p - x) = SubSeq(w, x + 5 + 1, p)
      BY <1>6, <2>1, StretchRest
    <3>2. 5 + 1 = 6
      OBVIOUS
    <3>. QED  BY ONLY <1>7, <1>8, <3>1, <3>2
  <2>11. SseHasFrame(buf)
    BY <2>5 DEF SseHasFrame, found
  <2>12. ~ (p < SseAt(b + 1)) /\ b < Len(sseLines)
    BY <1>1, <1>6, <1>11, <2>2
  <2>. QED  BY <1>2, <1>6, <1>7, <2>8, <2>9, <2>10, <2>11, <2>12 DEF SseFrameIs
<1>. QED  BY <1>10, <1>11

\* The next frame, whichever the line end: the next line, or none yet.
LEMMA SseFrameFacts ==
  ASSUME SseBody, NEW b \in 0 .. Len(sseLines), NEW p \in SseAt(b) .. Len(SseWire)
  PROVE  SseFrameIs(b, p, SubSeq(SseWire, SseAt(b) + 1, p))
BY SseFrameLf, SseFrameCrLf DEF SseBody

\* One line is its data, or none of it.
LEMMA SseOfOne ==
  ASSUME NEW S, NEW x \in S, NEW kinds
  PROVE  SseOf(<<x>>, kinds) = IF x.kind \in kinds THEN <<x>> ELSE << >>
<1>1. PICK none : none = << >>
  OBVIOUS
<1>2. none \in Seq(S) /\ Append(none, x) = <<x>>
  BY <1>1
<1>3. SseOf(Append(none, x), kinds) = SseOf(none, kinds) \o (IF x.kind \in kinds THEN <<x>> ELSE << >>)
  <2>1. none \in Seq(S) /\ x \in S
    BY <1>2
  <2>. QED  BY ONLY <2>1, SseOfAppend
<1>4. SseOf(none, kinds) = << >>
  BY <1>1, SseOfNone
<1>5. << >> \o <<x>> = <<x>> /\ << >> \o << >> = << >>
  OBVIOUS
<1>6. SseOf(<<x>>, kinds) = << >> \o (IF x.kind \in kinds THEN <<x>> ELSE << >>)
  BY <1>2, <1>3, <1>4
<1>7. CASE x.kind \in kinds
  BY <1>5, <1>6, <1>7
<1>8. CASE ~ (x.kind \in kinds)
  BY <1>5, <1>6, <1>8
<1>. QED  BY <1>7, <1>8

\* A frame of one line does not parse if the line is bad, and becomes its event.
LEMMA SseLineRead ==
  ASSUME SseBody, NEW i \in 1 .. Len(sseLines)
  PROVE  /\ SseBad(<<SseLine(i)>>) <=> sseLines[i] = "bad"
         /\ sseLines[i] # "bad" => SseMapped(<<SseLine(i)>>) = SsePut(i)
         /\ SsePut(i) \in Seq(SseSymbols)
<1>1. PICK x \in SseSymbols : x = SseLine(i)
  BY SseLineFacts
<1>2. x.kind = sseLines[i] /\ x.kind \in SseKinds
  BY <1>1, SseLineFacts DEF SseLine
<1>3. SseData(<<x>>) = IF x.kind = "note" THEN << >> ELSE <<x>>
  <2>1. SseOf(<<x>>, SseKinds \ {"note"}) = IF x.kind \in SseKinds \ {"note"} THEN <<x>> ELSE << >>
    BY SseOfOne
  <2>. QED  BY <1>2, <2>1 DEF SseData
<1>4. SsePut(i) = IF x.kind \in {"note", "done", "bad"} THEN << >> ELSE <<x>>
  BY <1>1, <1>2 DEF SsePut, SseSaid
<1>5. CASE x.kind = "note"
  <2>1. SseData(<<x>>) = << >>
    BY <1>3, <1>5
  <2>2. ~ SseBad(<<x>>)
    BY <2>1 DEF SseBad, ToSet
  <2>3. SseMapped(<<x>>) = << >>
    BY <2>1, SseOfNone DEF SseMapped
  <2>. QED  BY <1>1, <1>2, <1>4, <1>5, <2>2, <2>3
<1>6. CASE x.kind # "note"
  <2>1. SseData(<<x>>) = <<x>>
    BY <1>3, <1>6
  <2>2. SseBad(<<x>>) <=> x.kind = "bad"
    <3>1. Len(<<x>>) = 1 /\ ToSet(<<x>>) = {x}
      BY DEF ToSet
    <3>2. PICK d : d = SseData(<<x>>)
      OBVIOUS
    <3>3. Len(d) = 1 /\ ToSet(d) = {x}
      BY <2>1, <3>1, <3>2
    <3>4. SseBad(<<x>>) <=> Len(d) > 1 \/ \E y \in ToSet(d) : y.kind = "bad"
      BY <3>2, Zenon DEF SseBad
    <3>. QED  BY ONLY <3>3, <3>4
  <2>3. SseMapped(<<x>>) = IF x.kind = "done" THEN << >> ELSE <<x>>
    <3>1. SseOf(<<x>>, SseKinds \ {"done"}) = IF x.kind \in SseKinds \ {"done"} THEN <<x>> ELSE << >>
      BY SseOfOne
    <3>. QED  BY <1>2, <2>1, <3>1 DEF SseMapped
  <2>. QED  BY <1>1, <1>2, <1>4, <1>6, <2>2, <2>3
<1>. QED  BY <1>5, <1>6

\* es are events of lines b + 1 to c, in order, with Errors anywhere.
SseRun(es, b, c) ==
  /\ es \in Seq(SseSymbols)
  /\ \A i \in DOMAIN es :
       es[i] = SseError \/ \E n \in b + 1 .. c : es[i] = SseLine(n) /\ sseLines[n] \in SseSaid
  /\ \A i, j \in DOMAIN es : i < j => es[i] = SseError \/ es[j] = SseError \/ es[i].n < es[j].n

\* r is what has been read of the lines b + 1 to c, when p symbols are there.
SseReadTo(r, b, c, p) ==
  /\ c \in b .. Len(sseLines) /\ SseAt(c) <= p
  /\ r.rest = SubSeq(SseWire, SseAt(c) + 1, p)
  /\ SseRun(r.events, b, c)
  /\ r.bad \in BOOLEAN
  /\ r.bad => \E i \in b + 1 .. c : sseLines[i] = "bad"
  /\ ~ r.bad => /\ \A i \in b + 1 .. c : sseLines[i] # "bad"
                /\ SseMeantTo(b) \o r.events = SseMeantTo(c)

\* The number of an event that is no Error.
LEMMA SseRunNumber ==
  ASSUME NEW b \in Nat, NEW c \in Nat, NEW es, SseRun(es, b, c), NEW i \in DOMAIN es, es[i] # SseError
  PROVE  es[i].n \in b + 1 .. c
<1>1. PICK n \in b + 1 .. c : es[i] = SseLine(n)
  BY DEF SseRun
<1>2. es[i].n = n
  BY <1>1 DEF SseLine
<1>. QED  BY <1>2

\* Events behind others.
LEMMA SseRunOn ==
  ASSUME NEW b \in Nat, NEW c \in Nat, b <= c, NEW d \in Nat, c <= d,
         NEW es, NEW fs, SseRun(es, b, c), SseRun(fs, c, d)
  PROVE  SseRun(es \o fs, b, d)
<1>1. es \in Seq(SseSymbols) /\ fs \in Seq(SseSymbols)
  BY DEF SseRun
<1>2. PICK v : v = es \o fs
  OBVIOUS
<1>3. /\ v \in Seq(SseSymbols) /\ Len(v) = Len(es) + Len(fs)
      /\ \A i \in DOMAIN es : v[i] = es[i]
      /\ \A i \in DOMAIN fs : v[Len(es) + i] = fs[i]
  BY <1>1, <1>2, ConcatFacts
<1>4. PICK k \in Nat, l \in Nat : k = Len(es) /\ l = Len(fs) /\ DOMAIN es = 1 .. k /\ DOMAIN fs = 1 .. l
  BY <1>1
<1>5. DOMAIN v = 1 .. k + l
  BY <1>3, <1>4
<1>6. (\A i \in 1 .. k : v[i] = es[i]) /\ (\A i \in 1 .. l : v[k + i] = fs[i])
  BY ONLY <1>3, <1>4
<1>7. ASSUME NEW i \in 1 .. k + l PROVE i \in 1 .. k \/ \E j \in 1 .. l : i = k + j
  <2>1. i \in 1 .. k \/ (i - k \in 1 .. l /\ i = k + (i - k))
    OBVIOUS
  <2>. QED  BY <2>1
<1>8. ASSUME NEW i \in 1 .. k + l
      PROVE  v[i] = SseError \/ \E n \in b + 1 .. d : v[i] = SseLine(n) /\ sseLines[n] \in SseSaid
  <2>1. CASE i \in 1 .. k
    <3>1. es[i] = SseError \/ \E n \in b + 1 .. c : es[i] = SseLine(n) /\ sseLines[n] \in SseSaid
      BY <1>4, <2>1 DEF SseRun
    <3>2. \A n \in b + 1 .. c : n \in b + 1 .. d
      OBVIOUS
    <3>. QED  BY <1>6, <2>1, <3>1, <3>2
  <2>2. CASE \E j \in 1 .. l : i = k + j
    <3>1. PICK j \in 1 .. l : i = k + j
      BY <2>2
    <3>2. fs[j] = SseError \/ \E n \in c + 1 .. d : fs[j] = SseLine(n) /\ sseLines[n] \in SseSaid
      BY <1>4 DEF SseRun
    <3>3. \A n \in c + 1 .. d : n \in b + 1 .. d
      OBVIOUS
    <3>. QED  BY <1>6, <3>1, <3>2, <3>3
  <2>. QED  BY <1>7, <2>1, <2>2
<1>9. ASSUME NEW i \in 1 .. k + l, NEW j \in 1 .. k + l, i < j, v[i] # SseError, v[j] # SseError
      PROVE  v[i].n < v[j].n
  <2>1. CASE j \in 1 .. k
    <3>1. i \in 1 .. k
      BY <1>9, <2>1
    <3>2. es[i] # SseError /\ es[j] # SseError
      BY <1>6, <1>9, <2>1, <3>1
    <3>3. es[i].n < es[j].n
      BY <1>4, <1>9, <2>1, <3>1, <3>2 DEF SseRun
    <3>. QED  BY <1>6, <2>1, <3>1, <3>3
  <2>2. CASE \E f \in 1 .. l : j = k + f
    <3>1. PICK f \in 1 .. l : j = k + f
      BY <2>2
    <3>2. v[j] = fs[f] /\ fs[f] # SseError
      BY <1>6, <1>9, <3>1
    <3>3. CASE i \in 1 .. k
      <4>1. es[i].n \in b + 1 .. c
        BY <1>4, <1>6, <1>9, <3>3, SseRunNumber
      <4>2. fs[f].n \in c + 1 .. d
        BY <1>4, <3>2, SseRunNumber
      <4>3. v[i] = es[i]
        BY <1>6, <3>3
      <4>. QED  BY <3>2, <4>1, <4>2, <4>3
    <3>4. CASE \E e \in 1 .. l : i = k + e
      <4>1. PICK e \in 1 .. l : i = k + e
        BY <3>4
      <4>2. e < f
        BY <1>9, <3>1, <4>1
      <4>3. v[i] = fs[e] /\ fs[e] # SseError
        BY <1>6, <1>9, <4>1
      <4>4. fs[e].n < fs[f].n
        BY <1>4, <3>2, <4>2, <4>3 DEF SseRun
      <4>. QED  BY <3>2, <4>3, <4>4
    <3>. QED  BY <1>7, <3>3, <3>4
  <2>. QED  BY <1>7, <2>1, <2>2
<1>. QED  BY <1>2, <1>3, <1>5, <1>8, <1>9 DEF SseRun

\* No event, one Error, and the event of one line.
LEMMA SseRunShort ==
  ASSUME NEW b, NEW c
  PROVE  SseRun(<< >>, b, c) /\ SseRun(<<SseError>>, b, c)
<1>1. SseRun(<< >>, b, c)
  BY DEF SseRun
<1>2. SseError \in SseSymbols
  BY DEF SseError, SseSymbols
<1>3. PICK s \in Seq(SseSymbols) : s = <<SseError>> /\ DOMAIN s = {1} /\ s[1] = SseError
  <2>1. <<SseError>> \in Seq(SseSymbols) /\ DOMAIN <<SseError>> = {1} /\ <<SseError>>[1] = SseError
    BY <1>2
  <2>. QED  BY <2>1
<1>4. SseRun(s, b, c)
  BY <1>3 DEF SseRun
<1>. QED  BY <1>1, <1>3, <1>4

\* The events of one line more.
LEMMA SseRunPut ==
  ASSUME SseBody, NEW c \in 0 .. Len(sseLines) - 1
  PROVE  SseRun(SsePut(c + 1), c, c + 1)
<1>1. c \in Nat /\ c + 1 \in 1 .. Len(sseLines) /\ c + 1 \in c + 1 .. c + 1
  BY DEF SseBody
<1>2. PICK x \in SseSymbols : x = SseLine(c + 1)
  BY <1>1, SseLineFacts
<1>3. ASSUME sseLines[c + 1] \in SseSaid PROVE SseRun(<<x>>, c, c + 1)
  <2>1. PICK s \in Seq(SseSymbols) : s = <<x>> /\ DOMAIN s = {1} /\ s[1] = x
    <3>1. <<x>> \in Seq(SseSymbols) /\ DOMAIN <<x>> = {1} /\ <<x>>[1] = x
      OBVIOUS
    <3>. QED  BY <3>1
  <2>2. \A i \in DOMAIN s : s[i] = SseLine(c + 1)
    BY <1>2, <2>1
  <2>3. \A i, j \in DOMAIN s : ~ (i < j)
    BY ONLY <2>1
  <2>4. SseRun(s, c, c + 1)
    BY <1>1, <1>3, <2>2, <2>3 DEF SseRun
  <2>. QED  BY <2>1, <2>4
<1>. QED  BY <1>2, <1>3, SseRunShort DEF SsePut

\* Lines take at least a symbol each.
LEMMA SseAtGrows ==
  ASSUME SseBody, NEW b \in Nat, NEW c \in Nat, b <= c
  PROVE  SseAt(b) + (c - b) <= SseAt(c)
<1>1. CASE sseEnds = SseLf
  <2>1. SseAt(b) = 3 * b /\ SseAt(c) = 3 * c
    BY <1>1 DEF SseAt
  <2>. QED  BY <2>1
<1>2. CASE sseEnds # SseLf
  <2>1. SseAt(b) = 5 * b /\ SseAt(c) = 5 * c
    BY <1>2 DEF SseAt
  <2>. QED  BY <2>1
<1>. QED  BY <1>1, <1>2

\* One frame more, or none.
LEMMA SseReadStep ==
  ASSUME SseBody, NEW b \in 0 .. Len(sseLines), NEW c \in b .. Len(sseLines),
         NEW p \in 0 .. Len(SseWire), NEW r, SseReadTo(r, b, c, p)
  PROVE  /\ r.bad \/ p < SseAt(c + 1) => SseReadNext(r) = r
         /\ ~ r.bad /\ SseAt(c + 1) <= p =>
              c + 1 \in b .. Len(sseLines) /\ SseReadTo(SseReadNext(r), b, c + 1, p)
<1>1. b \in Nat /\ c \in Nat /\ c \in 0 .. Len(sseLines) /\ b <= c
  BY DEF SseBody
<1>2. SseAt(c) \in Nat /\ p \in SseAt(c) .. Len(SseWire)
  <2>1. SseAt(c) \in Nat /\ SseAt(c) <= p
    BY <1>1, SseAtFacts DEF SseReadTo
  <2>. QED  BY <2>1
<1>3. SseFrameIs(c, p, r.rest)
  BY <1>1, <1>2, SseFrameFacts DEF SseReadTo
<1>4. CASE r.bad \/ p < SseAt(c + 1)
  <2>1. SseReadNext(r) = r
    BY <1>3, <1>4 DEF SseReadNext, SseFrameIs
  <2>2. SseAt(c + 1) \in Nat
    BY <1>1, SseAtFacts
  <2>. QED  BY <1>4, <2>1, <2>2
<1>5. CASE ~ r.bad /\ SseAt(c + 1) <= p
  <2>1. /\ c < Len(sseLines) /\ SseHasFrame(r.rest)
        /\ SseFrame(r.rest) = [frame |-> <<SseLine(c + 1)>>, rest |-> SubSeq(SseWire, SseAt(c + 1) + 1, p)]
    BY <1>3, <1>5 DEF SseFrameIs
  <2>2. c \in 0 .. Len(sseLines) - 1 /\ c + 1 \in 1 .. Len(sseLines) /\ c + 1 \in b .. Len(sseLines)
        /\ c + 1 \in Nat
    BY <1>1, <2>1 DEF SseBody
  <2>3. /\ SseBad(<<SseLine(c + 1)>>) <=> sseLines[c + 1] = "bad"
        /\ sseLines[c + 1] # "bad" => SseMapped(<<SseLine(c + 1)>>) = SsePut(c + 1)
        /\ SsePut(c + 1) \in Seq(SseSymbols)
    BY <2>2, SseLineRead
  <2>4. SseReadNext(r) =
          [events |-> r.events \o (IF SseBad(<<SseLine(c + 1)>>) THEN << >> ELSE SseMapped(<<SseLine(c + 1)>>)),
           bad |-> SseBad(<<SseLine(c + 1)>>), rest |-> SubSeq(SseWire, SseAt(c + 1) + 1, p)]
    BY <1>5, <2>1 DEF SseReadNext
  <2>5. PICK fs : fs = IF sseLines[c + 1] = "bad" THEN << >> ELSE SsePut(c + 1)
    OBVIOUS
  <2>6. PICK q : q = SseReadNext(r)
    OBVIOUS
  <2>7. /\ q.events = r.events \o fs /\ q.rest = SubSeq(SseWire, SseAt(c + 1) + 1, p)
        /\ q.bad \in BOOLEAN /\ (q.bad <=> sseLines[c + 1] = "bad")
    <3>4. (IF SseBad(<<SseLine(c + 1)>>) THEN << >> ELSE SseMapped(<<SseLine(c + 1)>>)) = fs
      <4>1. CASE sseLines[c + 1] = "bad"
        BY <2>3, <2>5, <4>1
      <4>2. CASE sseLines[c + 1] # "bad"
        BY <2>3, <2>5, <4>2
      <4>. QED  BY <4>1, <4>2
    <3>5. q = [events |-> r.events \o fs, bad |-> SseBad(<<SseLine(c + 1)>>),
               rest |-> SubSeq(SseWire, SseAt(c + 1) + 1, p)]
      BY ONLY <2>4, <2>6, <3>4, Zenon
    <3>1. q.events = r.events \o fs /\ q.rest = SubSeq(SseWire, SseAt(c + 1) + 1, p)
      BY ONLY <3>5, Zenon
    <3>2. q.bad = SseBad(<<SseLine(c + 1)>>)
      BY <2>4, <2>6
    <3>3. q.bad \in BOOLEAN
      BY <3>2 DEF SseBad
    <3>. QED  BY <2>3, <3>1, <3>2, <3>3
  <2>8. SseRun(fs, c, c + 1)
    BY <2>2, <2>5, SseRunShort, SseRunPut
  <2>9. SseRun(r.events \o fs, b, c + 1)
    <3>1. SseRun(r.events, b, c)
      BY DEF SseReadTo
    <3>2. c <= c + 1
      BY <1>1
    <3>. QED  BY <1>1, <2>2, <2>8, <3>1, <3>2, SseRunOn
  <2>10. \A i \in b + 1 .. c : sseLines[i] # "bad"
    BY <1>5 DEF SseReadTo
  <2>11. q.bad => \E i \in b + 1 .. c + 1 : sseLines[i] = "bad"
    <3>1. c + 1 \in b + 1 .. c + 1
      BY <1>1
    <3>. QED  BY <2>7, <3>1
  <2>12. ~ q.bad => \A i \in b + 1 .. c + 1 : sseLines[i] # "bad"
    <3>1. \A i \in b + 1 .. c + 1 : i = c + 1 \/ i \in b + 1 .. c
      BY <1>1
    <3>. QED  BY <2>7, <2>10, <3>1
  <2>13. ~ q.bad => SseMeantTo(b) \o (r.events \o fs) = SseMeantTo(c + 1)
    <3>1. SUFFICES ASSUME ~ q.bad PROVE SseMeantTo(b) \o (r.events \o fs) = SseMeantTo(c + 1)
      OBVIOUS
    <3>2. fs = SsePut(c + 1)
      BY <2>5, <2>7, <3>1
    <3>3. SseMeantTo(b) \in Seq(SseSymbols)
      BY SseMeantFacts
    <3>4. r.events \in Seq(SseSymbols) /\ SseMeantTo(b) \o r.events = SseMeantTo(c)
      BY <1>5 DEF SseReadTo, SseRun
    <3>5. SseMeantTo(b) \o (r.events \o fs) = (SseMeantTo(b) \o r.events) \o fs
      <4>1. PICK s \in Seq(SseSymbols), t \in Seq(SseSymbols), u \in Seq(SseSymbols) :
              s = SseMeantTo(b) /\ t = r.events /\ u = fs
        BY <2>3, <3>2, <3>3, <3>4
      <4>2. (s \o t) \o u = s \o (t \o u)
        BY ONLY s \in Seq(SseSymbols), t \in Seq(SseSymbols), u \in Seq(SseSymbols), ConcatAssociates, SMTT(30)
      <4>. QED  BY <4>1, <4>2
    <3>6. SseMeantTo(c + 1) = SseMeantTo(c) \o SsePut(c + 1)
      BY <2>2, SseMeantStep
    <3>. QED  BY <3>2, <3>4, <3>5, <3>6
  <2>14. SseReadTo(q, b, c + 1, p)
    BY <1>5, <2>2, <2>7, <2>9, <2>11, <2>12, <2>13 DEF SseReadTo
  <2>15. ~ (p < SseAt(c + 1))
    <3>1. SseAt(c + 1) \in Nat /\ p \in Nat
      BY <1>2, <2>2, SseAtFacts
    <3>. QED  BY <1>5, <3>1
  <2>. QED  BY <1>5, <2>2, <2>6, <2>14, <2>15
<1>. QED
  <2>1. SseAt(c + 1) \in Nat /\ p \in Nat
    BY <1>1, <1>2, SseAtFacts
  <2>2. SseAt(c + 1) <= p \/ p < SseAt(c + 1)
    BY <2>1
  <2>3. r.bad \/ ~ r.bad
    OBVIOUS
  <2>. QED  BY <1>4, <1>5, <2>2, <2>3

\* How far k frames get.
SseReadGoes(r, b, p, k) ==
  \E c \in b .. Len(sseLines) :
    SseReadTo(r, b, c, p) /\ (~ r.bad /\ SseAt(c + 1) <= p => b + k <= c)

\* Whatever is in the buffer is read up to the first line that is bad, or to the
\* last that is there.
LEMMA SseReadFacts ==
  ASSUME SseBody, NEW b \in 0 .. Len(sseLines), NEW p \in SseAt(b) .. Len(SseWire)
  PROVE  \E c \in b .. Len(sseLines) :
           /\ SseReadTo(SseRead(SubSeq(SseWire, SseAt(b) + 1, p)), b, c, p)
           /\ ~ SseRead(SubSeq(SseWire, SseAt(b) + 1, p)).bad => p < SseAt(c + 1)
<1> DEFINE buf == SubSeq(SseWire, SseAt(b) + 1, p)
           begin == [events |-> << >>, bad |-> FALSE, rest |-> buf]
           Solves(f, n) == f = [k \in 0 .. n |-> IF k = 0 THEN begin ELSE SseReadNext(f[k - 1])]
           after == CHOOSE f : Solves(f, Len(buf))
           unsolved == {n \in Nat : ~ \E f : Solves(f, n)}
<1>. HIDE DEF Solves, begin
<1>1. unsolved = {}
  <2>1. SUFFICES ASSUME unsolved # {} PROVE FALSE
    OBVIOUS
  <2>2. PICK n \in unsolved : \A j \in unsolved : ~ (<<j, n>> \in OpToRel(<, Nat))
    <3>1. unsolved \subseteq Nat
      OBVIOUS
    <3>. QED  BY <2>1, <3>1, NatLessThanWellFounded, WFMin
  <2>3. CASE n = 0
    <3>1. PICK g : g = [k \in 0 .. 0 |-> begin]
      OBVIOUS
    <3>2. g = [k \in 0 .. 0 |-> IF k = 0 THEN begin ELSE SseReadNext(g[k - 1])]
      BY <3>1
    <3>3. Solves(g, 0)
      BY <3>2 DEF Solves
    <3>. QED  BY <2>2, <2>3, <3>3
  <2>4. CASE n # 0
    <3>1. n \in Nat /\ n - 1 \in Nat /\ n - 1 < n
      <4>1. n \in Nat
        BY <2>2
      <4>. HIDE DEF unsolved
      <4>. QED  BY <2>4, <4>1
    <3>2. <<n - 1, n>> \in OpToRel(<, Nat)
      BY <3>1 DEF OpToRel
    <3>3. PICK f : Solves(f, n - 1)
      BY <2>2, <3>1, <3>2
    <3>. HIDE DEF unsolved
    <3>4. PICK g : g = [k \in 0 .. n |-> IF k = n THEN SseReadNext(f[n - 1]) ELSE f[k]]
      OBVIOUS
    <3>5. ASSUME NEW k \in 0 .. n PROVE g[k] = IF k = 0 THEN begin ELSE SseReadNext(g[k - 1])
      <4>1. CASE k = n
        <5>1. k # 0 /\ k - 1 \in 0 .. n /\ k - 1 # n /\ k - 1 = n - 1
          BY <2>4, <3>1, <4>1
        <5>2. g[k] = SseReadNext(f[n - 1]) /\ g[k - 1] = f[n - 1]
          BY <3>4, <4>1, <5>1
        <5>. QED  BY <4>1, <5>1, <5>2
      <4>2. CASE k # n
        <5>1. k \in 0 .. n - 1 /\ g[k] = f[k]
          BY <3>1, <3>4, <4>2
        <5>2. f[k] = IF k = 0 THEN begin ELSE SseReadNext(f[k - 1])
          BY <3>3, <5>1 DEF Solves
        <5>3. k # 0 => g[k - 1] = f[k - 1]
          BY <3>1, <3>4, <5>1
        <5>. QED  BY <5>1, <5>2, <5>3
      <4>. QED  BY <4>1, <4>2
    <3>6. g = [k \in 0 .. n |-> g[k]]
      BY <3>4
    <3>7. Solves(g, n)
      BY <3>5, <3>6 DEF Solves
    <3>. QED  BY <2>2, <3>7 DEF unsolved
  <2>. QED  BY <2>3, <2>4
<1>2. b \in Nat /\ SseAt(b) \in Nat /\ p \in Nat /\ SseWire \in Seq(SseSymbols)
  <2>1. b \in Nat
    BY DEF SseBody
  <2>2. SseAt(b) \in Nat /\ SseWire \in Seq(SseSymbols)
    BY <2>1, SseAtFacts, SseWireFacts DEF SseWireIs
  <2>. QED  BY <2>1, <2>2
<1>3. PICK l \in Nat : l = Len(buf) /\ l = p - SseAt(b)
  <2>1. p \in 0 .. Len(SseWire) /\ SseAt(b) \in 0 .. p /\ p - SseAt(b) \in Nat
    BY <1>2
  <2>2. Len(SubSeq(SseWire, SseAt(b) + 1, p)) = p - SseAt(b)
    BY <1>2, <2>1, StretchFacts
  <2>. QED  BY <2>1, <2>2
<1>4. Solves(after, Len(buf))
  <2>1. \E f : Solves(f, Len(buf))
    BY <1>1, <1>3
  <2>. QED  BY <2>1
<1>5. SseRead(buf) = after[Len(buf)]
  BY DEF SseRead, Solves, begin
<1>6. PICK a : a = after
  OBVIOUS
<1>7. \A k \in 0 .. l : a[k] = IF k = 0 THEN begin ELSE SseReadNext(a[k - 1])
  <2>1. a = [k \in 0 .. l |-> IF k = 0 THEN begin ELSE SseReadNext(a[k - 1])]
    BY <1>3, <1>4, <1>6 DEF Solves
  <2>. QED  BY <2>1
<1>8. p \in 0 .. Len(SseWire)
  BY <1>2
<1>9. SseReadGoes(begin, b, p, 0)
  <2>1. begin.events = << >> /\ begin.bad = FALSE /\ begin.rest = SubSeq(SseWire, SseAt(b) + 1, p)
    BY DEF begin
  <2>2. b + 1 .. b = {} /\ b \in b .. Len(sseLines) /\ SseAt(b) <= p
    BY <1>2
  <2>3. SseMeantTo(b) \o << >> = SseMeantTo(b)
    <3>1. SseMeantTo(b) \in Seq(SseSymbols)
      BY SseMeantFacts
    <3>. QED  BY <3>1
  <2>4. SseReadTo(begin, b, b, p)
    BY <2>1, <2>2, <2>3, SseRunShort DEF SseReadTo
  <2>5. b + 0 <= b
    BY <1>2
  <2>. QED  BY <2>2, <2>4, <2>5 DEF SseReadGoes
<1>. HIDE DEF after, unsolved, buf
<1> DEFINE wrong == {k \in 0 .. l : ~ SseReadGoes(a[k], b, p, k)}
<1>10. wrong = {}
  <2>1. SUFFICES ASSUME wrong # {} PROVE FALSE
    OBVIOUS
  <2>2. PICK k \in wrong : \A j \in wrong : ~ (<<j, k>> \in OpToRel(<, Nat))
    <3>1. wrong \subseteq Nat
      OBVIOUS
    <3>. QED  BY <2>1, <3>1, NatLessThanWellFounded, WFMin
  <2>3. k \in 0 .. l /\ k \in Nat /\ ~ SseReadGoes(a[k], b, p, k)
    <3>1. k \in 0 .. l /\ ~ SseReadGoes(a[k], b, p, k)
      BY <2>2
    <3>. HIDE DEF wrong
    <3>. QED  BY <3>1
  <2>4. CASE k = 0
    <3>1. a[k] = begin
      BY <1>7, <2>3, <2>4
    <3>. QED  BY <1>9, <2>3, <2>4, <3>1
  <2>5. CASE k # 0
    <3>. HIDE DEF wrong
    <3>1. k - 1 \in 0 .. l /\ k - 1 \in Nat /\ k - 1 < k
      BY <2>3, <2>5
    <3>2. <<k - 1, k>> \in OpToRel(<, Nat)
      BY <2>3, <3>1 DEF OpToRel
    <3>3. SseReadGoes(a[k - 1], b, p, k - 1)
      BY <2>2, <3>1, <3>2 DEF wrong
    <3>4. a[k] = SseReadNext(a[k - 1])
      BY <1>7, <2>3, <2>5
    <3>5. PICK r : r = a[k - 1]
      OBVIOUS
    <3>6. PICK c \in b .. Len(sseLines) :
            SseReadTo(r, b, c, p) /\ (~ r.bad /\ SseAt(c + 1) <= p => b + (k - 1) <= c)
      BY <3>3, <3>5 DEF SseReadGoes
    <3>7. /\ r.bad \/ p < SseAt(c + 1) => SseReadNext(r) = r
          /\ ~ r.bad /\ SseAt(c + 1) <= p =>
               c + 1 \in b .. Len(sseLines) /\ SseReadTo(SseReadNext(r), b, c + 1, p)
      BY <1>8, <3>6, SseReadStep
    <3>8. c \in Nat /\ SseAt(c + 1) \in Nat
      <4>1. c \in Nat /\ c + 1 \in Nat
        BY <1>2, <3>6
      <4>. QED  BY <4>1, SseAtFacts
    <3>9. CASE r.bad \/ p < SseAt(c + 1)
      <4>1. ~ (~ r.bad /\ SseAt(c + 1) <= p)
        BY <1>2, <3>8, <3>9
      <4>. QED  BY <2>3, <3>4, <3>5, <3>6, <3>7, <3>9, <4>1 DEF SseReadGoes
    <3>10. CASE ~ r.bad /\ SseAt(c + 1) <= p
      <4>1. b + (k - 1) <= c
        BY <3>6, <3>10
      <4>2. b + k <= c + 1
        BY ONLY <1>2, <2>3, <3>8, <4>1
      <4>3. SseReadGoes(SseReadNext(r), b, p, k)
        BY <3>7, <3>10, <4>2 DEF SseReadGoes
      <4>. QED  BY <2>3, <3>4, <3>5, <4>3
    <3>. QED  BY <1>2, <3>8, <3>9, <3>10
  <2>. QED  BY <2>4, <2>5
<1>11. l \in 0 .. l
  OBVIOUS
<1>12. SseReadGoes(a[l], b, p, l)
  BY <1>10, <1>11
<1>13. SseRead(buf) = a[l]
  BY <1>3, <1>5, <1>6
<1>14. PICK r : r = a[l]
  OBVIOUS
<1>15. PICK c \in b .. Len(sseLines) :
         SseReadTo(r, b, c, p) /\ (~ r.bad /\ SseAt(c + 1) <= p => b + l <= c)
  BY <1>12, <1>14 DEF SseReadGoes
<1>16. ~ r.bad => p < SseAt(c + 1)
  <2>1. c \in Nat /\ c + 1 \in Nat /\ b <= c + 1
    BY <1>2, <1>15
  <2>2. SseAt(c + 1) \in Nat /\ SseAt(b) + ((c + 1) - b) <= SseAt(c + 1)
    BY <1>2, <2>1, SseAtFacts, SseAtGrows
  <2>3. ~ r.bad /\ SseAt(c + 1) <= p => b + l <= c
    BY <1>15
  <2>4. SseAt(c + 1) <= p \/ p < SseAt(c + 1)
    BY <1>2, <2>2
  <2>5. b + l <= c => p < SseAt(c + 1)
    BY ONLY <1>2, <1>3, <2>1, <2>2
  <2>. QED  BY ONLY <2>3, <2>4, <2>5
<1>. QED  BY <1>13, <1>14, <1>15, <1>16 DEF buf

\* What has become of p symbols: the first b lines are read, the rest is in the
\* buffer; and without a bad line nothing is late, missing or too many.
SseGotTo(b, p, buf, es, over) ==
  /\ SseAt(b) <= p /\ buf = SubSeq(SseWire, SseAt(b) + 1, p)
  /\ SseRun(es, 0, b)
  /\ \/ /\ \A i \in 1 .. b : sseLines[i] # "bad"
        /\ p < SseAt(b + 1)
        /\ es = SseMeantTo(b) \/ (over /\ es = Append(SseMeantTo(b), SseError))
     \/ /\ \E i \in 1 .. b : sseLines[i] = "bad"
        /\ SseError \in ToSet(es)

SseGot(p, buf, es, over) ==
  /\ p \in 0 .. Len(SseWire) /\ over \in BOOLEAN
  /\ \E b \in 0 .. Len(sseLines) : SseGotTo(b, p, buf, es, over)

\* Nothing is sent, it is sent and nothing has arrived, or something has.
SseInv ==
  \/ /\ sseLines = << >> /\ sseEnds = << >> /\ ssePos = 0
     /\ sseBuf = << >> /\ sseEvents = << >> /\ sseOver = FALSE
  \/ /\ SseBody /\ sseLines # << >>
     /\ \/ ssePos = 0 /\ sseBuf = << >> /\ sseEvents = << >> /\ sseOver = FALSE
        \/ SseGot(ssePos, sseBuf, sseEvents, sseOver)

\* Before anything has arrived.
LEMMA SseGotNone ==
  ASSUME SseBody
  PROVE  SseGot(0, << >>, << >>, FALSE)
<1>1. 0 \in 0 .. Len(SseWire) /\ 0 \in 0 .. Len(sseLines) /\ SseWire \in Seq(SseSymbols)
  <2>1. SseWire \in Seq(SseSymbols)
    BY SseWireFacts DEF SseWireIs
  <2>. QED  BY <2>1 DEF SseBody
<1>2. SubSeq(SseWire, 0 + 1, 0) = << >>
  BY <1>1
<1>3. SseAt(0) = 0 /\ SseAt(0) < SseAt(0 + 1)
  BY SseAtFacts
<1>4. 1 .. 0 = {} /\ SseMeantTo(0) = << >>
  BY SseMeantFacts
<1>5. SseGotTo(0, 0, << >>, << >>, FALSE)
  BY <1>2, <1>3, <1>4, SseRunShort DEF SseGotTo
<1>. QED  BY <1>1, <1>5 DEF SseGot

\* One element behind others is there.
LEMMA ToSetConcatLast ==
  ASSUME NEW S, NEW a \in Seq(S), NEW x \in S
  PROVE  a \o <<x>> \in Seq(S) /\ x \in ToSet(a \o <<x>>) /\ ToSet(a) \subseteq ToSet(a \o <<x>>)
<1>1. <<x>> \in Seq(S)
  OBVIOUS
<1>2. ToSet(a \o <<x>>) = ToSet(a) \cup ToSet(<<x>>)
  BY <1>1, ToSetConcat
<1>3. ToSet(<<x>>) = {x}
  BY DEF ToSet
<1>. QED  BY <1>1, <1>2, <1>3

\* A chunk arrives.
LEMMA SseChunkGets ==
  ASSUME SseBody, NEW p \in Nat, NEW buf, NEW es, SseGot(p, buf, es, FALSE),
         NEW to \in p + 1 .. Len(SseWire), NEW got,
         got = SseRead(buf \o SubSeq(SseWire, p + 1, to))
  PROVE  SseGot(to, got.rest, es \o (IF got.bad THEN <<SseError>> ELSE got.events), FALSE)
<1>1. PICK b \in 0 .. Len(sseLines) : SseGotTo(b, p, buf, es, FALSE)
  BY DEF SseGot
<1>2. b \in Nat /\ SseAt(b) \in Nat /\ SseAt(b) <= p /\ SseWire \in Seq(SseSymbols) /\ Len(SseWire) \in Nat
  <2>1. b \in Nat /\ SseWire \in Seq(SseSymbols)
    BY SseWireFacts DEF SseBody, SseWireIs
  <2>. QED  BY <1>1, <2>1, SseAtFacts DEF SseGotTo
<1>3. to \in 0 .. Len(SseWire) /\ p \in 0 .. to /\ SseAt(b) \in 0 .. p /\ to \in SseAt(b) .. Len(SseWire)
  BY <1>2
<1>4. buf \o SubSeq(SseWire, p + 1, to) = SubSeq(SseWire, SseAt(b) + 1, to)
  <2>1. buf = SubSeq(SseWire, SseAt(b) + 1, p)
    BY <1>1 DEF SseGotTo
  <2>. QED  BY <1>2, <1>3, <2>1, StretchJoin
<1>5. PICK c \in b .. Len(sseLines) : SseReadTo(got, b, c, to) /\ (~ got.bad => to < SseAt(c + 1))
  BY <1>3, <1>4, SseReadFacts
<1>6. c \in Nat /\ b <= c /\ c \in 0 .. Len(sseLines)
  BY <1>2, <1>5
<1>7. PICK new : new = IF got.bad THEN <<SseError>> ELSE got.events
  OBVIOUS
<1>8. SseRun(new, b, c)
  BY <1>5, <1>7, SseRunShort DEF SseReadTo
<1>9. SseRun(es, 0, b)
  BY <1>1 DEF SseGotTo
<1>10. SseRun(es \o new, 0, c)
  <2>1. 0 <= b /\ 0 \in Nat
    BY <1>2
  <2>. QED  BY <1>2, <1>6, <1>8, <1>9, <2>1, SseRunOn
<1>11. es \in Seq(SseSymbols) /\ new \in Seq(SseSymbols) /\ SseError \in SseSymbols
  BY <1>8, <1>9, SseLineFacts DEF SseRun
<1>12. \A i \in 1 .. c : i \in 1 .. b \/ i \in b + 1 .. c
  BY <1>2, <1>6
<1>13. (\A i \in 1 .. b : i \in 1 .. c) /\ (\A i \in b + 1 .. c : i \in 1 .. c)
  BY <1>2, <1>6
<1>14. SseAt(c) <= to /\ got.rest = SubSeq(SseWire, SseAt(c) + 1, to) /\ got.bad \in BOOLEAN
  BY <1>5 DEF SseReadTo
<1>15. CASE got.bad
  <2>1. \E i \in 1 .. c : sseLines[i] = "bad"
    <3>1. \E i \in b + 1 .. c : sseLines[i] = "bad"
      BY <1>5, <1>15 DEF SseReadTo
    <3>. QED  BY <1>13, <3>1
  <2>2. SseError \in ToSet(es \o new)
    BY <1>7, <1>11, <1>15, ToSetConcatLast
  <2>3. SseGotTo(c, to, got.rest, es \o new, FALSE)
    BY <1>10, <1>14, <2>1, <2>2 DEF SseGotTo
  <2>. QED  BY <1>3, <1>6, <1>7, <2>3 DEF SseGot
<1>16. CASE ~ got.bad
  <2>1. new = got.events /\ to < SseAt(c + 1)
    BY <1>5, <1>7, <1>16
  <2>2. (\A i \in b + 1 .. c : sseLines[i] # "bad") /\ SseMeantTo(b) \o new = SseMeantTo(c)
    BY <1>5, <1>16, <2>1 DEF SseReadTo
  <2>3. CASE \E i \in 1 .. b : sseLines[i] = "bad"
    <3>1. SseError \in ToSet(es)
      BY <1>1, <2>3 DEF SseGotTo
    <3>2. SseError \in ToSet(es \o new)
      BY <1>11, <3>1, ToSetConcat
    <3>3. \E i \in 1 .. c : sseLines[i] = "bad"
      BY <1>13, <2>3
    <3>4. SseGotTo(c, to, got.rest, es \o new, FALSE)
      BY <1>10, <1>14, <3>2, <3>3 DEF SseGotTo
    <3>. QED  BY <1>3, <1>6, <1>7, <3>4 DEF SseGot
  <2>4. CASE \A i \in 1 .. b : sseLines[i] # "bad"
    <3>1. es = SseMeantTo(b)
      BY <1>1, <2>4 DEF SseGotTo
    <3>2. es \o new = SseMeantTo(c)
      BY <2>2, <3>1
    <3>3. \A i \in 1 .. c : sseLines[i] # "bad"
      BY <1>12, <2>2, <2>4
    <3>4. SseGotTo(c, to, got.rest, es \o new, FALSE)
      BY <1>10, <1>14, <2>1, <3>2, <3>3 DEF SseGotTo
    <3>. QED  BY <1>3, <1>6, <1>7, <3>4 DEF SseGot
  <2>. QED  BY <2>3, <2>4
<1>. QED  BY <1>14, <1>15, <1>16

\* The connection breaks.
LEMMA SseBreakGets ==
  ASSUME SseBody, NEW p, NEW buf, NEW es, SseGot(p, buf, es, FALSE)
  PROVE  SseGot(p, buf, Append(es, SseError), TRUE)
<1>1. PICK b \in 0 .. Len(sseLines) : SseGotTo(b, p, buf, es, FALSE)
  BY DEF SseGot
<1>2. SseRun(es, 0, b) /\ es \in Seq(SseSymbols) /\ SseError \in SseSymbols /\ b \in Nat
  BY <1>1, SseLineFacts DEF SseGotTo, SseRun, SseBody
<1>3. Append(es, SseError) = es \o <<SseError>>
  BY <1>2
<1>4. SseRun(es \o <<SseError>>, 0, b)
  <2>1. 0 \in Nat /\ 0 <= b /\ b <= b
    BY <1>2
  <2>. QED  BY <1>2, <2>1, SseRunShort, SseRunOn
<1>5. SseError \in ToSet(es \o <<SseError>>)
  BY <1>2, ToSetConcatLast
<1>6. SseGotTo(b, p, buf, Append(es, SseError), TRUE)
  BY <1>1, <1>3, <1>4, <1>5 DEF SseGotTo
<1>. QED  BY <1>6 DEF SseGot

\* The body ends.
LEMMA SseEndGets ==
  ASSUME NEW p, NEW buf, NEW es, SseGot(p, buf, es, FALSE)
  PROVE  SseGot(p, buf, es, TRUE)
BY DEF SseGot, SseGotTo

\* What has become of the symbols is said of the body alone.
LEMMA SseGotStays ==
  ASSUME sseLines' = sseLines, sseEnds' = sseEnds, NEW p, NEW buf, NEW es, NEW over,
         SseGot(p, buf, es, over), p = ssePos', buf = sseBuf', es = sseEvents', over = sseOver'
  PROVE  SseGot(ssePos, sseBuf, sseEvents, sseOver)'
<1>1. SseWire' = SseWire
  BY DEF SseWire
<1>2. \A b : SseAt(b)' = SseAt(b)
  BY DEF SseAt
<1>. QED  BY <1>1, <1>2 DEF SseGot, SseGotTo, SseRun, SseAt, SseMeantTo, SseSent, SseLine

\* Before the body is sent there is nothing.
LEMMA SseStarts == SseInit => SseInv
BY DEF SseInit, SseInv

\* A body that has been sent, and what has become of it.
LEMMA SseInvSent ==
  ASSUME SseInv, sseLines # << >>
  PROVE  SseBody /\ SseGot(ssePos, sseBuf, sseEvents, sseOver)
<1>1. SseBody /\ (\/ ssePos = 0 /\ sseBuf = << >> /\ sseEvents = << >> /\ sseOver = FALSE
                  \/ SseGot(ssePos, sseBuf, sseEvents, sseOver))
  BY DEF SseInv
<1>2. CASE ssePos = 0 /\ sseBuf = << >> /\ sseEvents = << >> /\ sseOver = FALSE
  BY <1>1, <1>2, SseGotNone
<1>. QED  BY <1>1, <1>2

\* The provider sends a body.
LEMMA SseSendKeeps ==
  ASSUME SseInv, SseSend
  PROVE  SseInv'
<1>1. sseLines = << >> /\ ssePos = 0 /\ sseBuf = << >> /\ sseEvents = << >> /\ sseOver = FALSE
  BY DEF SseInv, SseSend
<1>2. PICK m \in 1 .. SseMaxLines : sseLines' \in [1 .. m -> SseKinds]
  BY DEF SseSend
<1>3. m \in Nat /\ 1 <= m
  BY SseConstants
<1>4. sseLines' \in Seq(SseKinds) /\ sseLines' # << >>
  <2>1. PICK l : l = sseLines'
    OBVIOUS
  <2>2. l \in Seq(SseKinds) /\ Len(l) = m
    BY <1>2, <1>3, <2>1
  <2>3. l # << >>
    BY <1>3, <2>2
  <2>. QED  BY <2>1, <2>2, <2>3
<1>5. sseEnds' \in {SseLf, SseCrLf} /\ UNCHANGED <<ssePos, sseBuf, sseEvents, sseOver>>
  BY DEF SseSend
<1>6. SseBody'
  BY <1>4, <1>5 DEF SseBody, SseLf, SseCrLf, SseEndOf
<1>. QED  BY <1>1, <1>4, <1>5, <1>6 DEF SseInv

\* A step that leaves the body alone and accounts for its symbols.
LEMMA SseGotKeeps ==
  ASSUME SseBody, sseLines # << >>, UNCHANGED <<sseLines, sseEnds>>,
         NEW p, NEW buf, NEW es, NEW over, SseGot(p, buf, es, over),
         p = ssePos', buf = sseBuf', es = sseEvents', over = sseOver'
  PROVE  SseInv'
<1>1. sseLines' = sseLines /\ sseEnds' = sseEnds
  OBVIOUS
<1>2. SseGot(ssePos, sseBuf, sseEvents, sseOver)'
  BY <1>1, SseGotStays
<1>3. SseBody' /\ (sseLines # << >>)'
  BY <1>1 DEF SseBody, SseLf, SseCrLf, SseEndOf
<1>. QED  BY <1>2, <1>3 DEF SseInv

\* A chunk arrives, cut anywhere.
LEMMA SseChunkKeeps ==
  ASSUME SseInv, SseChunk
  PROVE  SseInv'
<1>1. sseLines # << >>
  <2>1. SUFFICES ASSUME sseLines = << >> PROVE FALSE
    OBVIOUS
  <2>2. SseWire = << >>
    BY <2>1 DEF SseWire, FlattenSeq
  <2>3. ssePos = 0
    BY <2>1 DEF SseInv
  <2>4. ssePos < Len(SseWire)
    BY DEF SseChunk
  <2>. QED  BY <2>2, <2>3, <2>4
<1>2. SseBody /\ SseGot(ssePos, sseBuf, sseEvents, sseOver)
  BY <1>1, SseInvSent
<1>3. sseOver = FALSE /\ sseOver \in BOOLEAN /\ ssePos \in Nat
  BY <1>2 DEF SseGot, SseChunk
<1>7. PICK to \in ssePos + 1 .. Len(SseWire) :
        /\ ssePos' = to /\ sseBuf' = SseRead(sseBuf \o SubSeq(SseWire, ssePos + 1, to)).rest
        /\ sseEvents' = sseEvents \o (IF SseRead(sseBuf \o SubSeq(SseWire, ssePos + 1, to)).bad
                                      THEN <<SseError>>
                                      ELSE SseRead(sseBuf \o SubSeq(SseWire, ssePos + 1, to)).events)
  BY DEF SseChunk
<1>8. PICK got : got = SseRead(sseBuf \o SubSeq(SseWire, ssePos + 1, to))
  OBVIOUS
<1>4. /\ ssePos' = to /\ sseBuf' = got.rest
      /\ sseEvents' = sseEvents \o (IF got.bad THEN <<SseError>> ELSE got.events)
  BY <1>7, <1>8
<1>5. SseGot(to, got.rest, sseEvents \o (IF got.bad THEN <<SseError>> ELSE got.events), FALSE)
  BY <1>2, <1>3, <1>8, SseChunkGets
<1>6. UNCHANGED <<sseLines, sseEnds, sseOver>>
  BY DEF SseChunk
<1>. QED  BY <1>1, <1>2, <1>3, <1>4, <1>5, <1>6, SseGotKeeps

\* The body ends, or breaks.
LEMMA SseEndKeeps ==
  ASSUME SseInv, SseEnd \/ SseBreak
  PROVE  SseInv'
<1>1. sseLines # << >> /\ ~ sseOver
  BY DEF SseEnd, SseBreak
<1>2. SseBody /\ SseGot(ssePos, sseBuf, sseEvents, sseOver)
  BY <1>1, SseInvSent
<1>3. sseOver = FALSE
  BY <1>1, <1>2 DEF SseGot
<1>4. CASE SseEnd
  <2>1. SseGot(ssePos, sseBuf, sseEvents, TRUE)
    BY <1>2, <1>3, SseEndGets
  <2>2. UNCHANGED <<sseLines, sseEnds, ssePos, sseBuf, sseEvents>> /\ sseOver' = TRUE
    BY <1>4 DEF SseEnd
  <2>. QED  BY <1>1, <1>2, <2>1, <2>2, SseGotKeeps
<1>5. CASE SseBreak
  <2>1. SseGot(ssePos, sseBuf, Append(sseEvents, SseError), TRUE)
    BY <1>2, <1>3, SseBreakGets
  <2>2. UNCHANGED <<sseLines, sseEnds, ssePos, sseBuf>> /\ sseOver' = TRUE /\ sseEvents' = Append(sseEvents, SseError)
    BY <1>5 DEF SseBreak
  <2>. QED  BY <1>1, <1>2, <2>1, <2>2, SseGotKeeps
<1>. QED  BY <1>4, <1>5

\* Every step keeps it.
LEMMA SseKeeps == SseInv /\ [SseNext]_sseVars => SseInv'
<1>. SUFFICES ASSUME SseInv, [SseNext]_sseVars PROVE SseInv'
  OBVIOUS
<1>1. CASE UNCHANGED sseVars
  <2>1. CASE sseLines = << >>
    BY <1>1, <2>1 DEF SseInv, sseVars
  <2>2. CASE sseLines # << >>
    <3>1. SseBody /\ SseGot(ssePos, sseBuf, sseEvents, sseOver)
      BY <2>2, SseInvSent
    <3>2. UNCHANGED <<sseLines, sseEnds, ssePos, sseBuf, sseEvents, sseOver>>
      BY <1>1 DEF sseVars
    <3>. QED  BY <2>2, <3>1, <3>2, SseGotKeeps
  <2>. QED  BY <2>1, <2>2
<1>. QED  BY <1>1, SseSendKeeps, SseChunkKeeps, SseEndKeeps DEF SseNext

\* The lines whose frames have arrived.
LEMMA SseWholeFacts ==
  ASSUME SseBody, sseLines # << >>, NEW b \in 0 .. Len(sseLines), ssePos \in 0 .. Len(SseWire),
         SseAt(b) <= ssePos
  PROVE  \E d \in b .. Len(sseLines) :
           /\ SseMeant = SseMeantTo(d) /\ (ssePos < SseAt(b + 1) => d = b)
           /\ (\E x \in ToSet(SseWhole) : x.kind = "bad") <=> \E i \in 1 .. d : sseLines[i] = "bad"
<1>1. PICK d : d = ssePos \div (1 + Len(sseEnds))
  OBVIOUS
<1>2. Len(sseLines) \in Nat /\ Len(SseWire) \in Nat /\ ssePos \in Nat /\ b \in Nat
  <2>1. SseWire \in Seq(SseSymbols)
    BY SseWireFacts DEF SseWireIs
  <2>. QED  BY <2>1 DEF SseBody
<1>3. d \in Nat /\ SseAt(d) <= ssePos /\ ssePos < SseAt(d + 1)
  BY <1>1, <1>2, SseAtFacts
<1>4. \A c \in Nat : SseAt(c) \in Nat
  BY SseAtFacts
<1>5. d <= Len(sseLines)
  <2>1. SUFFICES ASSUME Len(sseLines) < d PROVE FALSE
    BY <1>2, <1>3
  <2>2. SseAt(Len(sseLines)) < SseAt(d) /\ SseAt(Len(sseLines)) = Len(SseWire)
    BY <1>2, <1>3, <2>1, SseAtFacts
  <2>. QED  BY <1>2, <1>3, <1>4, <2>2
<1>6. b <= d
  <2>1. SUFFICES ASSUME d + 1 <= b PROVE FALSE
    BY <1>2, <1>3
  <2>2. SseAt(d + 1) <= SseAt(b)
    BY <1>2, <1>3, <2>1, SseAtFacts
  <2>3. SseAt(d + 1) \in Nat /\ SseAt(b) \in Nat
    BY <1>2, <1>3, <1>4
  <2>. QED  BY ONLY <1>2, <1>3, <2>2, <2>3, SseAt(b) <= ssePos
<1>7. ssePos < SseAt(b + 1) => d = b
  BY <1>1, <1>2, SseAtFacts
<1>8. SseWhole = SubSeq(SseSent, 1, d)
  BY <1>1 DEF SseWhole, SseSent, SseLine
<1>9. SseMeant = SseMeantTo(d)
  BY <1>8 DEF SseMeant, SseMeantTo, SseSaid
<1>10. (\E x \in ToSet(SseWhole) : x.kind = "bad") <=> \E i \in 1 .. d : sseLines[i] = "bad"
  <2>1. PICK s \in Seq(SseSymbols) : s = SseSent /\ Len(s) = Len(sseLines)
    BY SseLineFacts
  <2>2. PICK t : t = SubSeq(s, 1, d)
    OBVIOUS
  <2>3. DOMAIN t = 1 .. d /\ \A i \in 1 .. d : t[i] = s[i]
    BY <1>2, <1>3, <1>5, <2>1, <2>2
  <2>4. \A i \in 1 .. d : t[i].kind = sseLines[i]
    <3>1. \A i \in 1 .. d : i \in 1 .. Len(sseLines)
      BY <1>2, <1>3, <1>5
    <3>2. \A i \in 1 .. d : t[i] = SseLine(i)
      BY <2>1, <2>3, <3>1, SseLineFacts
    <3>3. \A i \in 1 .. d : SseLine(i).kind = sseLines[i]
      BY DEF SseLine
    <3>. QED  BY ONLY <3>2, <3>3
  <2>5. ToSet(t) = {t[i] : i \in 1 .. d}
    BY <2>3 DEF ToSet
  <2>6. SseWhole = t
    BY <1>8, <2>1, <2>2
  <2>. QED  BY <2>4, <2>5, <2>6
<1>11. d \in b .. Len(sseLines)
  BY <1>2, <1>3, <1>5, <1>6
<1>. QED  BY <1>7, <1>9, <1>10, <1>11

\* The inductive invariant gives what the run checks.
LEMMA SseInvBlind == SseInv => SseChunkingBlind
<1>. SUFFICES ASSUME SseInv PROVE SseChunkingBlind
  OBVIOUS
<1>1. CASE sseLines = << >>
  <2>1. sseEvents = << >> /\ sseLines = << >>
    BY <1>1 DEF SseInv
  <2>2. SseWhole = << >>
    BY <2>1 DEF SseWhole
  <2>3. SseMeant = << >> /\ SseOf(sseEvents, SseKinds) = << >> /\ SseOf(SseMeant, {"text", "tool"}) = << >>
    BY <2>1, <2>2, SseOfNone DEF SseMeant
  <2>4. ToSet(SseWhole) = {} /\ ToSet(sseEvents) = {} /\ DOMAIN sseEvents = {}
    BY <2>1, <2>2 DEF ToSet
  <2>5. SseCollected = << >>
    BY <2>1, <2>4, SseOfNone DEF SseCollected
  <2>. QED  BY <2>3, <2>4, <2>5 DEF SseChunkingBlind, SseGood
<1>2. CASE sseLines # << >>
  <2>1. SseBody /\ SseGot(ssePos, sseBuf, sseEvents, sseOver)
    BY <1>2, SseInvSent
  <2>2. PICK b \in 0 .. Len(sseLines) : SseGotTo(b, ssePos, sseBuf, sseEvents, sseOver)
    BY <2>1 DEF SseGot
  <2>3. PICK d \in b .. Len(sseLines) :
          /\ SseMeant = SseMeantTo(d) /\ (ssePos < SseAt(b + 1) => d = b)
          /\ (\E x \in ToSet(SseWhole) : x.kind = "bad") <=> \E i \in 1 .. d : sseLines[i] = "bad"
    <3>1. ssePos \in 0 .. Len(SseWire) /\ SseAt(b) <= ssePos
      BY <2>1, <2>2 DEF SseGot, SseGotTo
    <3>. QED  BY <1>2, <2>1, <3>1, SseWholeFacts
  <2>4. b \in Nat /\ d \in Nat /\ d \in 0 .. Len(sseLines) /\ \A i \in 1 .. b : i \in 1 .. d
    BY <2>1 DEF SseBody
  <2>5. SseRun(sseEvents, 0, b)
    BY <2>2 DEF SseGotTo
  <2>6. SseError.n = 0
    BY DEF SseError
  <2>7. \A i, j \in DOMAIN sseEvents :
          i < j /\ {sseEvents[i], sseEvents[j]} \subseteq SseGood => sseEvents[i].n < sseEvents[j].n
    <3>1. SUFFICES ASSUME NEW i \in DOMAIN sseEvents, NEW j \in DOMAIN sseEvents, i < j,
                          sseEvents[i].n # 0, sseEvents[j].n # 0
                   PROVE  sseEvents[i].n < sseEvents[j].n
      BY DEF SseGood
    <3>2. sseEvents[i] # SseError /\ sseEvents[j] # SseError
      BY <2>6, <3>1
    <3>. QED  BY <2>5, <3>1, <3>2 DEF SseRun
  <2>8. SseGood \subseteq ToSet(SseMeant)
    <3>1. SUFFICES ASSUME NEW e \in SseGood PROVE e \in ToSet(SseMeant)
      OBVIOUS
    <3>2. PICK i \in DOMAIN sseEvents : e = sseEvents[i]
      BY <3>1 DEF SseGood, ToSet
    <3>3. e # SseError
      BY <2>6, <3>1 DEF SseGood
    <3>4. PICK n \in 0 + 1 .. b : e = SseLine(n) /\ sseLines[n] \in SseSaid
      BY <2>5, <3>2, <3>3 DEF SseRun
    <3>5. n \in 1 .. d
      BY <2>4, <3>4
    <3>6. ToSet(SseMeantTo(d)) = {SseLine(k) : k \in {k \in 1 .. d : sseLines[k] \in SseSaid}}
      BY <2>1, <2>4, SseMeantFacts
    <3>. QED  BY <2>3, <3>4, <3>5, <3>6
  <2>9. PICK broken \in BOOLEAN : broken <=> \E i \in 1 .. d : sseLines[i] = "bad"
    OBVIOUS
  <2>10. ASSUME \A i \in 1 .. b : sseLines[i] # "bad"
         PROVE  /\ SseMeant = SseMeantTo(b) /\ d = b
                /\ sseEvents = SseMeantTo(b) \/ sseEvents = Append(SseMeantTo(b), SseError)
    BY <2>2, <2>3, <2>10 DEF SseGotTo
  <2>11. PICK s \in Seq(SseSymbols) : s = SseMeantTo(b) /\ \A i \in 1 .. Len(s) : s[i].kind \in SseKinds
    <3>1. SseMeantTo(b) \in Seq(SseSymbols)
      BY <2>1, SseMeantFacts
    <3>2. \A x \in ToSet(SseMeantTo(b)) : x.kind \in SseKinds
      <4>1. ToSet(SseMeantTo(b)) = {SseLine(k) : k \in {k \in 1 .. b : sseLines[k] \in SseSaid}}
        BY <2>1, SseMeantFacts
      <4>2. SUFFICES ASSUME NEW x \in ToSet(SseMeantTo(b)) PROVE x.kind \in SseKinds
        OBVIOUS
      <4>3. PICK k \in 1 .. b : x = SseLine(k) /\ sseLines[k] \in SseSaid
        BY <4>1
      <4>4. x.kind = sseLines[k]
        BY <4>3 DEF SseLine
      <4>. QED  BY <4>3, <4>4 DEF SseSaid
    <3>3. PICK s \in Seq(SseSymbols) : s = SseMeantTo(b)
      BY <3>1
    <3>4. \A i \in 1 .. Len(s) : s[i] \in ToSet(s)
      <4>1. DOMAIN s = 1 .. Len(s)
        OBVIOUS
      <4>. QED  BY <4>1 DEF ToSet
    <3>5. \A i \in 1 .. Len(s) : s[i].kind \in SseKinds
      BY <3>2, <3>3, <3>4
    <3>. QED  BY <3>3, <3>5
  <2>12. SseOf(s, SseKinds) = s
    BY <2>11, SseOfAll
  <2>13. SseOf(Append(s, SseError), SseKinds) = s
    <3>1. SseError \in SseSymbols /\ SseError.kind \notin SseKinds
      BY SseConstants DEF SseError, SseSymbols
    <3>2. SseOf(Append(s, SseError), SseKinds) = SseOf(s, SseKinds) \o << >>
      BY <3>1, SseOfAppend
    <3>3. s \o << >> = s
      OBVIOUS
    <3>. QED  BY <2>12, <3>2, <3>3
  <2>14. ~ broken => SseOf(sseEvents, SseKinds) = SseMeant
    <3>1. SUFFICES ASSUME ~ broken PROVE SseOf(sseEvents, SseKinds) = SseMeant
      OBVIOUS
    <3>2. \A i \in 1 .. b : sseLines[i] # "bad"
      BY <2>4, <2>9, <3>1
    <3>3. /\ SseMeant = SseMeantTo(b)
          /\ sseEvents = SseMeantTo(b) \/ sseEvents = Append(SseMeantTo(b), SseError)
      BY <2>10, <3>2
    <3>. QED  BY <2>11, <2>12, <2>13, <3>3
  <2>15. SseCollected # <<SseError>> => ~ broken /\ SseCollected = SseOf(SseMeant, {"text", "tool"})
    <3>1. SUFFICES ASSUME SseCollected # <<SseError>>
                   PROVE  ~ broken /\ SseCollected = SseOf(SseMeant, {"text", "tool"})
      OBVIOUS
    <3>2. SseError \notin ToSet(sseEvents)
      BY <3>1 DEF SseCollected
    <3>3. \A i \in 1 .. b : sseLines[i] # "bad"
      BY <2>2, <3>2 DEF SseGotTo
    <3>4. /\ SseMeant = s /\ d = b
          /\ sseEvents = s \/ sseEvents = Append(s, SseError)
      BY <2>10, <2>11, <3>3
    <3>5. SseError \in ToSet(Append(s, SseError))
      <4>1. SseError \in SseSymbols
        BY DEF SseError, SseSymbols
      <4>. QED  BY <4>1, ToSetAppend
    <3>6. sseEvents = SseMeant
      BY <3>2, <3>4, <3>5
    <3>7. SseCollected = SseOf(SseMeant, {"text", "tool"})
      BY <3>2, <3>6 DEF SseCollected
    <3>. QED  BY <2>9, <3>3, <3>4, <3>7
  <2>. QED  BY <2>3, <2>7, <2>8, <2>9, <2>14, <2>15 DEF SseChunkingBlind
<1>. QED  BY <1>1, <1>2

\* Whatever the provider sends, however its body is cut into chunks and wherever
\* it ends or breaks: a reader gets the events of the lines that arrived, each
\* once, in order and not late while all of them parse; and a response is made
\* only of a body of which every line that arrived whole parsed, and of all of it.
THEOREM StreamsAreChunkingBlind == SseSpec => []SseChunkingBlind
BY SseStarts, SseKeeps, SseInvBlind, PTL DEF SseSpec
=============================================================================
