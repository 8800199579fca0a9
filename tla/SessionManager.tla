---------------------------- MODULE SessionManager ----------------------------
(***************************************************************************)
(* One session of knowledge-api's MCP session manager                      *)
(* (mcp/sessions/session_manager.rs): the copy in active_sessions, the     *)
(* copy in the SessionStore, the tasks that call the manager and the       *)
(* cleanup task.  Sessions share nothing but the shards of the map.        *)
(*                                                                         *)
(* active_sessions is a DashMap: get_mut and remove wait while a reader    *)
(* holds the shard, and persist_session is such a reader for as long as    *)
(* store.save runs.  No code puts a session into Idle or Expired, so those *)
(* states, and touch_session, which would only leave Idle, are left out.   *)
(*                                                                         *)
(* Messages are pushed at the end of a window and taken out anywhere, so   *)
(* they stay in the order of their numbers: a window is the set of them.   *)
(***************************************************************************)
EXTENDS Naturals, FiniteSets, FiniteSetsExt, Functions

CONSTANTS
  SessCallers,     \* tasks calling add_message, compress_context, close_session
  SessTokens,      \* token counts of messages
  SessMaxMessages, SessMaxTokens,
  NoSession,
  SessMaxAdds,     \* bound: messages added
  SessMaxFailures  \* bound: calls of the store that fail

\* An MCPSession: its state and its context_window.
SessMessages == [id : Nat, system : BOOLEAN, tokens : Nat]
SessWindows  == [open : BOOLEAN, messages : SUBSET SessMessages, tokens : Nat]

ASSUME SessConstants ==
  /\ NoSession \notin SessWindows
  /\ SessTokens \subseteq Nat \ {0}
  /\ {SessMaxMessages, SessMaxTokens, SessMaxAdds, SessMaxFailures} \subseteq Nat

VARIABLES
  sessLife,    \* create_session: "none", "saved" or "made"
  sessActive,  \* the session in active_sessions
  sessStored,  \* the session in the store
  sessPc,      \* sessPc[c]: "idle", "compress", "persist", "saving" or "remove"
  sessOp,      \* sessOp[c]: what c calls: [call, id of the message]
  sessHeld,    \* sessHeld[c]: the session c holds a guard on while it saves
  sessExpired, \* expires_at has passed
  sessSweep,   \* cleanup_expired: "idle", "evict" or "delete"
  sessAdded,   \* messages pushed so far, which numbers them
  sessFailed,  \* calls of the store that failed
  sessAcked, sessDropped, sessClosed, sessDeleted
               \* history: messages add_message returned Ok for, messages
               \*   compressed away, close_session returned Ok, delete did

sessCalls == <<sessPc, sessOp, sessHeld>>
sessPast  == <<sessAcked, sessDropped, sessClosed, sessDeleted>>
sessVars  == <<sessLife, sessActive, sessStored, sessCalls, sessExpired, sessSweep,
               sessAdded, sessFailed, sessPast>>

SessFresh == [open |-> TRUE, messages |-> {}, tokens |-> 0]

SessInit ==
  /\ sessLife = "none" /\ sessActive = NoSession /\ sessStored = NoSession
  /\ sessPc   = [c \in SessCallers |-> "idle"]
  /\ sessOp   = [c \in SessCallers |-> [call |-> "none", id |-> 0]]
  /\ sessHeld = [c \in SessCallers |-> NoSession]
  /\ sessExpired = FALSE /\ sessSweep = "idle" /\ sessAdded = 0 /\ sessFailed = 0
  /\ sessAcked = {} /\ sessDropped = {} /\ sessClosed = FALSE /\ sessDeleted = FALSE

\* Mistake: persist_session copies the session and lets the shard go.
SessNeverHeld == TRUE

\* Nobody reads the shard, so get_mut and remove go through.
SessFree == \A c \in SessCallers : sessPc[c] # "saving"

SessMayFail == sessFailed < SessMaxFailures /\ sessFailed' = sessFailed + 1

-----------------------------------------------------------------------------
(* The context window *)

SessSize(w) == Cardinality(w.messages)

SessOver(w) == SessSize(w) > SessMaxMessages \/ w.tokens > SessMaxTokens

\* should_compress, which is already true at the limits.
SessShouldCompress(w) == SessSize(w) >= SessMaxMessages \/ w.tokens >= SessMaxTokens

SessSum(ms) == SumFunctionOnSet([m \in ms |-> m.tokens], ms)

\* Mistake: the message goes, its tokens stay counted.
SessWithoutOnly(w, gone) ==
  [w EXCEPT !.messages = {m \in @ : m.id \notin gone}]

SessWithout(w, gone) ==
  [w EXCEPT !.messages = {m \in @ : m.id \notin gone},
            !.tokens = @ - SessSum({m \in w.messages : m.id \in gone})]

SessIds(w) == {m.id : m \in w.messages}

\* As few of the oldest of "from" as have to go for w to fit, or all of them.
SessOldest(w, from) ==
  LET Upto(n) == {i \in from : i <= n}
      fits    == {n \in 0 .. sessAdded : ~SessOver(SessWithout(w, Upto(n)))}
  IN  IF fits = {} THEN from ELSE Upto(Min(fits))

\* TruncateOldest spares system messages, its fallback for Summarize does not.
SessTruncated(w)  == SessOldest(w, {m.id : m \in {n \in w.messages : ~n.system}})
SessSummarized(w) == SessOldest(w, SessIds(w))

\* SlidingWindow(keep), and ImportanceSampling, which keeps 70 of 100 of the
\* limit; which messages score lowest is left open.
SessSlid(w, keep) ==
  {i \in SessIds(w) : Cardinality({j \in SessIds(w) : j > i}) >= keep}
SessSampled(w) ==
  LET target == (SessMaxMessages * 70) \div 100 IN
  IF SessSize(w) <= 1 \/ SessSize(w) <= target THEN {{}}
  ELSE kSubset(SessSize(w) - target, SessIds(w))

-----------------------------------------------------------------------------
(* Calls *)

SessTo(c, pc) == sessPc' = [sessPc EXCEPT ![c] = pc]

\* create_session saves first, ...
SessCreate ==
  /\ sessLife = "none"
  /\ sessLife' = "saved" /\ sessStored' = SessFresh
  /\ UNCHANGED <<sessActive, sessCalls, sessExpired, sessSweep, sessAdded, sessFailed, sessPast>>

\* ... then enters the session into the map.
SessActivate ==
  /\ sessLife = "saved"
  /\ sessLife' = "made" /\ sessActive' = SessFresh
  /\ UNCHANGED <<sessStored, sessCalls, sessExpired, sessSweep, sessAdded, sessFailed, sessPast>>

\* add_message looks at the state, not at expires_at.
SessAdd(c, system, tokens) ==
  /\ sessPc[c] = "idle" /\ sessActive # NoSession /\ SessFree /\ sessActive.open
  /\ sessAdded < SessMaxAdds
  /\ sessAdded' = sessAdded + 1
  /\ LET w == [sessActive EXCEPT
                 !.messages = @ \cup {[id |-> sessAdded + 1, system |-> system, tokens |-> tokens]},
                 !.tokens = @ + tokens]
     IN  /\ sessActive' = w
         /\ SessTo(c, IF SessShouldCompress(w) THEN "compress" ELSE "persist")
  /\ sessOp' = [sessOp EXCEPT ![c] = [call |-> "add", id |-> sessAdded + 1]]
  /\ UNCHANGED <<sessLife, sessStored, sessHeld, sessExpired, sessSweep, sessFailed, sessPast>>

SessDrop(gone) ==
  /\ sessActive'  = SessWithout(sessActive, gone)
  /\ sessDropped' = sessDropped \cup gone

\* add_message let the shard go before it compresses.
SessTruncate(c) ==
  /\ sessPc[c] = "compress" /\ SessFree
  /\ \/ /\ sessActive = NoSession
        /\ SessTo(c, "idle")
        /\ UNCHANGED <<sessActive, sessDropped>>
     \/ /\ sessActive # NoSession
        /\ SessTo(c, "persist")
        /\ SessDrop(SessTruncated(sessActive))
  /\ UNCHANGED <<sessLife, sessStored, sessOp, sessHeld, sessExpired, sessSweep, sessAdded, sessFailed,
                 sessAcked, sessClosed, sessDeleted>>

\* compress_context by itself persists nothing.
SessCompress(c) ==
  /\ sessPc[c] = "idle" /\ sessActive # NoSession /\ SessFree
  /\ \E gone \in {SessTruncated(sessActive), SessSummarized(sessActive), SessSlid(sessActive, 1)}
                   \cup SessSampled(sessActive) :
       gone # {} /\ SessDrop(gone)
  /\ UNCHANGED <<sessLife, sessStored, sessCalls, sessExpired, sessSweep, sessAdded, sessFailed,
                 sessAcked, sessClosed, sessDeleted>>

\* close_session marks the session ...
SessClose(c) ==
  /\ sessPc[c] = "idle" /\ sessActive # NoSession /\ SessFree /\ sessActive.open
  /\ sessActive' = [sessActive EXCEPT !.open = FALSE]
  /\ sessOp' = [sessOp EXCEPT ![c] = [call |-> "close", id |-> 0]]
  /\ SessTo(c, "persist")
  /\ UNCHANGED <<sessLife, sessStored, sessHeld, sessExpired, sessSweep, sessAdded, sessFailed, sessPast>>

\* What a call does when persist_session returned Ok.
SessPersisted(c) ==
  /\ SessTo(c, IF sessOp[c].call = "close" THEN "remove" ELSE "idle")
  /\ sessAcked' = IF sessOp[c].call = "add" THEN sessAcked \cup {sessOp[c].id} ELSE sessAcked

\* persist_session: nothing to do without an active session, ...
SessPersist(c) ==
  /\ sessPc[c] = "persist"
  /\ \/ /\ sessActive = NoSession
        /\ SessPersisted(c)
        /\ UNCHANGED sessHeld
     \/ /\ sessActive # NoSession
        /\ SessTo(c, "saving")
        /\ sessHeld' = [sessHeld EXCEPT ![c] = sessActive]
        /\ UNCHANGED sessAcked
  /\ UNCHANGED <<sessLife, sessActive, sessStored, sessOp, sessExpired, sessSweep, sessAdded, sessFailed,
                 sessDropped, sessClosed, sessDeleted>>

\* ... otherwise it is saved with its shard held, or the store fails.
SessSave(c) ==
  /\ sessPc[c] = "saving"
  /\ sessHeld' = [sessHeld EXCEPT ![c] = NoSession]
  /\ \/ /\ sessStored' = sessHeld[c]
        /\ SessPersisted(c)
        /\ UNCHANGED sessFailed
     \/ /\ SessMayFail
        /\ SessTo(c, "idle")
        /\ UNCHANGED <<sessStored, sessAcked>>
  /\ UNCHANGED <<sessLife, sessActive, sessOp, sessExpired, sessSweep, sessAdded,
                 sessDropped, sessClosed, sessDeleted>>

\* ... and takes it out of the map once it is stored as closed.
SessRemove(c) ==
  /\ sessPc[c] = "remove" /\ SessFree
  /\ SessTo(c, "idle")
  /\ sessActive' = NoSession /\ sessClosed' = TRUE
  /\ UNCHANGED <<sessLife, sessStored, sessOp, sessHeld, sessExpired, sessSweep, sessAdded, sessFailed,
                 sessAcked, sessDropped, sessDeleted>>

-----------------------------------------------------------------------------
(* Time and the cleanup task *)

SessExpire ==
  /\ sessLife = "made" /\ ~sessExpired
  /\ sessExpired' = TRUE
  /\ UNCHANGED <<sessLife, sessActive, sessStored, sessCalls, sessSweep, sessAdded, sessFailed, sessPast>>

\* cleanup_expired notes the expired sessions, ...
SessCollect ==
  /\ sessSweep = "idle" /\ sessActive # NoSession /\ sessExpired
  /\ sessSweep' = "evict"
  /\ UNCHANGED <<sessLife, sessActive, sessStored, sessCalls, sessExpired, sessAdded, sessFailed, sessPast>>

\* ... takes each out of the map ...
SessEvict ==
  /\ sessSweep = "evict" /\ SessFree
  /\ sessActive' = NoSession /\ sessSweep' = "delete"
  /\ UNCHANGED <<sessLife, sessStored, sessCalls, sessExpired, sessAdded, sessFailed, sessPast>>

\* ... and deletes it; an error is logged.
SessDelete ==
  /\ sessSweep = "delete"
  /\ sessSweep' = "idle"
  /\ \/ /\ sessStored' = NoSession /\ sessDeleted' = TRUE
        /\ UNCHANGED sessFailed
     \/ /\ SessMayFail
        /\ UNCHANGED <<sessStored, sessDeleted>>
  /\ UNCHANGED <<sessLife, sessActive, sessCalls, sessExpired, sessAdded,
                 sessAcked, sessDropped, sessClosed>>

SessNext ==
  \/ SessCreate \/ SessActivate \/ SessExpire \/ SessCollect \/ SessEvict \/ SessDelete
  \/ \E c \in SessCallers :
       \/ \E system \in BOOLEAN, tokens \in SessTokens : SessAdd(c, system, tokens)
       \/ SessTruncate(c) \/ SessCompress(c) \/ SessClose(c)
       \/ SessPersist(c) \/ SessSave(c) \/ SessRemove(c)

SessSpec == SessInit /\ [][SessNext]_sessVars
-----------------------------------------------------------------------------
(* Properties *)

\* What get_session finds.
SessFound ==
  /\ ~sessExpired
  /\ sessActive # NoSession \/ (sessStored # NoSession /\ sessStored.open)

\* The window of every copy counts the tokens of the messages it holds, and
\* fits its limits whenever no add_message is about to compress it, unless
\* only system messages are left.
SessWindowBounded ==
  /\ \A w \in {sessActive, sessStored} \ {NoSession} : w.tokens = SessSum(w.messages)
  /\ sessActive # NoSession /\ (\A c \in SessCallers : sessPc[c] # "compress") =>
       ~SessOver(sessActive) \/ \A m \in sessActive.messages : m.system

\* While a session lives, a message add_message said Ok to is in the store
\* unless it was compressed away; a session whose close or whose deletion
\* succeeded is not brought back by a late save.
SessStoreHonest ==
  /\ ~sessExpired /\ sessStored # NoSession => sessAcked \subseteq SessIds(sessStored) \cup sessDropped
  /\ sessClosed => ~SessFound
  /\ sessDeleted => sessStored = NoSession

\* A session's window is right and so is what its store holds.
SessionsKept == SessWindowBounded /\ SessStoreHonest
=============================================================================
