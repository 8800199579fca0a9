----------------------------- MODULE Cancellation -----------------------------
(***************************************************************************)
(* CancellationToken of ullm (cancel.rs): a tree of tokens, each with an   *)
(* atomic flag and a tokio Notify, cancelled by some threads and awaited   *)
(* by tasks on others.  A step is one atomic access: between a load, the   *)
(* registration at a Notify and its notification other threads run.        *)
(*                                                                         *)
(* notify_waiters wakes the futures registered at that moment and leaves   *)
(* no permit behind, which is how tokio documents it.                      *)
(***************************************************************************)
CONSTANTS
  Tokens,
  NoToken,
  Parent,      \* Parent[t]: the token t was made from by child_token, or NoToken
  Chain,       \* Chain[t]: t and the tokens above it
  Waiters,     \* tasks awaiting cancelled()
  TokenOf,     \* TokenOf[w]: the token w awaits
  Cancellers   \* threads calling cancel() on tokens of their choice

ASSUME CancellationConstants ==
  /\ NoToken \notin Tokens
  /\ Parent \in [Tokens -> Tokens \cup {NoToken}]
  /\ Chain \in [Tokens -> SUBSET Tokens]
  /\ \A t \in Tokens :
       Chain[t] = {t} \cup IF Parent[t] = NoToken THEN {} ELSE Chain[Parent[t]]
  /\ TokenOf \in [Waiters -> Tokens]

VARIABLES
  cancelled,   \* cancelled[t]: the flag of t
  waker,       \* waker[t]: the waiters registered at t's Notify
  pc,          \* pc[w]: "idle", "check", "subscribe", "listen", "wait" or "done"
  at,          \* at[w]: the token whose flag w loads next
  early,       \* history: early[w] iff w's token was cancelled when w called cancelled()
  calling      \* calling[c]: the token whose flag c has set and not notified, or NoToken

vars == <<cancelled, waker, pc, at, early, calling>>

IsCancelled(t) == \E a \in Chain[t] : cancelled[a]

Init ==
  /\ cancelled = [t \in Tokens |-> FALSE]
  /\ waker     = [t \in Tokens |-> {}]
  /\ pc        = [w \in Waiters |-> "idle"]
  /\ at        = [w \in Waiters |-> NoToken]
  /\ early     = [w \in Waiters |-> FALSE]
  /\ calling   = [c \in Cancellers |-> NoToken]

\* cancelled() is called and begins with is_cancelled().
Await(w) ==
  /\ pc[w] = "idle"
  /\ pc'    = [pc EXCEPT ![w] = "check"]
  /\ at'    = [at EXCEPT ![w] = TokenOf[w]]
  /\ early' = [early EXCEPT ![w] = IsCancelled(TokenOf[w])]
  /\ UNCHANGED <<cancelled, waker, calling>>

\* Mistake: the walk ends at the parent.
OnlyParent(w) == IF at[w] = TokenOf[w] THEN Parent[at[w]] ELSE NoToken

\* Where is_cancelled() looks after the flag of at[w].
Up(w) == Parent[at[w]]

\* is_cancelled(): load one flag, then go up the chain.
Check(w) ==
  /\ pc[w] = "check"
  /\ \/ /\ cancelled[at[w]]
        /\ pc' = [pc EXCEPT ![w] = "done"]
        /\ at' = [at EXCEPT ![w] = NoToken]
     \/ /\ ~cancelled[at[w]]
        /\ at' = [at EXCEPT ![w] = Up(w)]
        /\ pc' = [pc EXCEPT ![w] = IF Up(w) = NoToken THEN "subscribe" ELSE "check"]
  /\ UNCHANGED <<cancelled, waker, early, calling>>

\* select! makes the future of the token's own Notify ...
Subscribe(w) ==
  /\ pc[w] = "subscribe"
  /\ waker' = [waker EXCEPT ![TokenOf[w]] = @ \cup {w}]
  /\ pc'    = [pc EXCEPT ![w] = "listen"]
  /\ UNCHANGED <<cancelled, at, early, calling>>

\* ... and, when it polls its second branch, that of the parent's.
ListenToParent(w) ==
  LET p == Parent[TokenOf[w]]
  IN
  /\ pc[w] = "listen"
  /\ waker' = IF p = NoToken THEN waker ELSE [waker EXCEPT ![p] = @ \cup {w}]
  /\ pc'    = [pc EXCEPT ![w] = "wait"]
  /\ UNCHANGED <<cancelled, at, early, calling>>

\* Mistake: the flag is left alone.
CancelOnlyNotifies(c, t) ==
  /\ calling[c] = NoToken
  /\ calling' = [calling EXCEPT ![c] = t]
  /\ UNCHANGED <<cancelled, waker, pc, at, early>>

\* cancel(), first half: set the flag.
Cancel(c, t) ==
  /\ calling[c] = NoToken
  /\ cancelled' = [cancelled EXCEPT ![t] = TRUE]
  /\ calling'   = [calling EXCEPT ![c] = t]
  /\ UNCHANGED <<waker, pc, at, early>>

\* Mistake: one waiter is woken, as by notify_one.
NotifyOne(c) ==
  LET t == calling[c]
  IN
  /\ t # NoToken
  /\ \/ waker[t] = {} /\ UNCHANGED <<waker, pc>>
     \/ \E w \in waker[t] :
          /\ pc'    = [pc EXCEPT ![w] = "done"]
          /\ waker' = [s \in Tokens |-> waker[s] \ {w}]
  /\ calling' = [calling EXCEPT ![c] = NoToken]
  /\ UNCHANGED <<cancelled, at, early>>

\* cancel(), second half: notify_waiters.  A woken select! returns and drops
\* its other future.
Notify(c) ==
  LET t == calling[c]
  IN
  /\ t # NoToken
  /\ pc'      = [w \in Waiters |-> IF w \in waker[t] THEN "done" ELSE pc[w]]
  /\ waker'   = [s \in Tokens |-> waker[s] \ waker[t]]
  /\ calling' = [calling EXCEPT ![c] = NoToken]
  /\ UNCHANGED <<cancelled, at, early>>

Run(w) == Await(w) \/ Check(w) \/ Subscribe(w) \/ ListenToParent(w)

Next ==
  \/ \E w \in Waiters : Run(w)
  \/ \E c \in Cancellers : Notify(c) \/ \E t \in Tokens : Cancel(c, t)

Spec == Init /\ [][Next]_vars

\* A task that awaits is polled and a cancel() that was begun is finished;
\* nobody has to begin either.
CancellationFairness ==
  /\ \A w \in Waiters : WF_vars(pc[w] # "idle" /\ Run(w))
  /\ \A c \in Cancellers : WF_vars(Notify(c))

FairSpec == Spec /\ CancellationFairness
-----------------------------------------------------------------------------
(* Properties *)

TypeOK ==
  /\ cancelled \in [Tokens -> BOOLEAN]
  /\ waker \in [Tokens -> SUBSET Waiters]
  /\ pc \in [Waiters -> {"idle", "check", "subscribe", "listen", "wait", "done"}]
  /\ at \in [Waiters -> Tokens \cup {NoToken}]
  /\ early \in [Waiters -> BOOLEAN]
  /\ calling \in [Cancellers -> Tokens \cup {NoToken}]

\* cancelled() returns only when the token is cancelled, by itself or by one of
\* its ancestors: no notification overtakes the flag it stands for.
ReturnsOnlyIfCancelled ==
  \A w \in Waiters : pc[w] = "done" => IsCancelled(TokenOf[w])

\* is_cancelled() loads the flags of the chain one by one while other threads
\* set them; it still never overlooks a cancellation that was complete when the
\* walk began.
WalkMissesNoEarlierCancel ==
  \A w \in Waiters : pc[w] \in {"subscribe", "listen", "wait"} => ~early[w]

\* A task asleep when its token or the token's parent is being cancelled is
\* woken, however many others sleep on the same tokens.
DirectCancelWakesSleepers ==
  \A w \in Waiters :
    (pc[w] = "wait" /\ \E c \in Cancellers : calling[c] \in {TokenOf[w], Parent[TokenOf[w]]} \ {NoToken})
      ~> pc[w] = "done"

\* What cancel() promises, to wake every waiter: a task awaiting a token that is
\* itself cancelled returns.
CancelWakesAll ==
  \A w \in Waiters : (pc[w] # "idle" /\ cancelled[TokenOf[w]]) ~> pc[w] = "done"

-----------------------------------------------------------------------------
(* The inductive invariant of the proofs. *)

\* A sleeping waiter is registered at the Notify of its token and of the parent.
SleepersAreRegistered ==
  \A w \in Waiters : pc[w] = "wait" =>
    {s \in Tokens : w \in waker[s]} = {TokenOf[w], Parent[TokenOf[w]]} \ {NoToken}

Registered(w) == {s \in Tokens : w \in waker[s]}

CancellationInv ==
  /\ ReturnsOnlyIfCancelled
  /\ WalkMissesNoEarlierCancel
  /\ SleepersAreRegistered
  /\ \A c \in Cancellers : calling[c] # NoToken => cancelled[calling[c]]
  /\ \A w \in Waiters :
       /\ pc[w] = "check" =>
            /\ at[w] \in Tokens
            /\ Chain[at[w]] \subseteq Chain[TokenOf[w]]
            /\ early[w] => IsCancelled(at[w])
       /\ pc[w] = "listen" => Registered(w) = {TokenOf[w]}
       /\ pc[w] \notin {"listen", "wait"} => Registered(w) = {}

\* All of it, with the types.
CancellationSafe == TypeOK /\ CancellationInv
=============================================================================
