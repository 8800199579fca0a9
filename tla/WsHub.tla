-------------------------------- MODULE WsHub ---------------------------------
(***************************************************************************)
(* The WebSocket hub of knowledge-api (ws.rs): WsConnectionManager, its    *)
(* connections, its rooms (one tokio broadcast channel per document) and   *)
(* the task each connection spawns to carry broadcasts to its socket.      *)
(*                                                                         *)
(* One action is one stretch between two awaits: the connections map and   *)
(* the rooms map are locked separately, each read or write by itself.      *)
(* WsStats is left out: nothing reads it but get_stats.                    *)
(* All names carry the prefix Hub, so that a module can extend this one    *)
(* together with another component.                                        *)
(***************************************************************************)
EXTENDS Naturals, Sequences, FiniteSets, SequencesExt

CONSTANTS
  Conns,          \* connections, each made once
  Docs,           \* documents
  HubConnLimit,   \* max_connections
  HubSubLimit,    \* max_subscriptions_per_connection
  HubRoomKeeps,   \* capacity of a room's broadcast channel (256)
  HubOutbound,    \* capacity of a connection's outbound queue (256)
  HubMaxRequests, \* bound: subscribe and unsubscribe messages
  HubMaxSent      \* bound: messages broadcast

ASSUME HubConstants ==
  /\ {HubConnLimit, HubSubLimit, HubMaxRequests, HubMaxSent} \subseteq Nat
  /\ HubRoomKeeps \in Nat \ {0} /\ HubOutbound \in Nat \ {0}

VARIABLES
  hubRoom,   \* hubRoom[d]: the room of d: its channel's number, or 0
  hubMade,   \* channels made so far
  hubLog,    \* hubLog[d]: numbers of the messages sent to the room, oldest first
  hubSent,   \* messages broadcast so far, which numbers them
  hubSubs,   \* connections: the open ones and the documents each subscribed to
  hubConn,   \* hubConn[c]: the task serving c: its step and the rooms to prune
  hubTask,   \* hubTask[c]: the broadcast task of c: its step, the snapshot of
             \*   subscriptions it works on, what it is yet to visit, "received"
  hubRx,     \* hubRx[c][d]: the task's receiver: channel, next position,
             \*   and as history where it began and what it was told it lost
  hubOut,    \* hubOut[c]: the outbound queue
  hubGot,    \* history: the messages written to c's socket
  hubAsked   \* requests the connections sent so far

hubVars == <<hubRoom, hubMade, hubLog, hubSent, hubSubs, hubConn, hubTask, hubRx,
             hubOut, hubGot, hubAsked>>
hubRooms == <<hubRoom, hubMade, hubLog, hubSent>>

HubNoRx == [ch |-> 0, from |-> 1, pos |-> 1, lost |-> {}]

HubInit ==
  /\ hubRoom  = [d \in Docs |-> 0]
  /\ hubMade  = 0
  /\ hubLog   = [d \in Docs |-> << >>]
  /\ hubSent  = 0
  /\ hubSubs  = << >>
  /\ hubConn  = [c \in Conns |-> [at |-> "new", left |-> {}]]
  /\ hubTask  = [c \in Conns |-> [at |-> "none", seen |-> {}, todo |-> {}, received |-> << >>]]
  /\ hubRx    = [c \in Conns |-> [d \in Docs |-> HubNoRx]]
  /\ hubOut   = [c \in Conns |-> << >>]
  /\ hubGot   = [c \in Conns |-> << >>]
  /\ hubAsked = 0

HubSubsOf(c) == IF c \in DOMAIN hubSubs THEN hubSubs[c] ELSE {}

\* receiver_count of the room of d.
HubListeners(d) == {c \in Conns : hubRoom[d] # 0 /\ hubRx[c][d].ch = hubRoom[d]}

-----------------------------------------------------------------------------
(* The connection *)

\* The limit is checked and the connection entered under one write lock; then
\* the greeting goes out and the broadcast task starts.  A connection over the
\* limit is refused and leaves no trace.  (A greeting that cannot be sent is
\* HubLeave: the task has done nothing yet.)
HubConnect(c) ==
  /\ hubConn[c].at = "new"
  /\ Cardinality(DOMAIN hubSubs) < HubConnLimit
  /\ hubSubs' = [x \in DOMAIN hubSubs \cup {c} |-> IF x = c THEN {} ELSE hubSubs[x]]
  /\ hubConn' = [hubConn EXCEPT ![c].at = "select"]
  /\ hubTask' = [hubTask EXCEPT ![c].at = "receive"]
  /\ UNCHANGED <<hubRooms, hubRx, hubOut, hubGot, hubAsked>>

\* subscribe_to_document: the room is made if there is none, ...
HubSubscribe(c, d) ==
  /\ hubConn[c].at = "select" /\ hubAsked < HubMaxRequests
  /\ hubAsked' = hubAsked + 1
  /\ hubConn'  = [hubConn EXCEPT ![c] = [at |-> "insert", left |-> {d}]]
  /\ IF hubRoom[d] = 0
       THEN /\ hubMade' = hubMade + 1
            /\ hubRoom' = [hubRoom EXCEPT ![d] = hubMade + 1]
       ELSE UNCHANGED <<hubMade, hubRoom>>
  /\ UNCHANGED <<hubLog, hubSent, hubSubs, hubTask, hubRx, hubOut, hubGot>>

\* ... then the subscription entered and acknowledged, unless there are too
\* many, which ends the connection.  (An acknowledgement that cannot be written
\* ends it too: HubLeave.)
HubInsert(c) ==
  /\ hubConn[c].at = "insert"
  /\ \/ /\ Cardinality(hubSubs[c]) >= HubSubLimit
        /\ hubConn' = [hubConn EXCEPT ![c] = [at |-> "cleanup", left |-> {}]]
        /\ UNCHANGED hubSubs
     \/ /\ Cardinality(hubSubs[c]) < HubSubLimit
        /\ hubSubs' = [hubSubs EXCEPT ![c] = @ \cup hubConn[c].left]
        /\ hubConn' = [hubConn EXCEPT ![c] = [at |-> "select", left |-> {}]]
  /\ UNCHANGED <<hubRooms, hubTask, hubRx, hubOut, hubGot, hubAsked>>

HubUnsubscribe(c, d) ==
  /\ hubConn[c].at = "select" /\ hubAsked < HubMaxRequests
  /\ hubAsked' = hubAsked + 1
  /\ hubSubs'  = [hubSubs EXCEPT ![c] = @ \ {d}]
  /\ hubConn'  = [hubConn EXCEPT ![c] = [at |-> "prune", left |-> {d}]]
  /\ UNCHANGED <<hubRooms, hubTask, hubRx, hubOut, hubGot>>

\* A queued message is written to the socket.
HubDeliver(c) ==
  /\ hubConn[c].at = "select" /\ hubOut[c] # << >>
  /\ hubOut' = [hubOut EXCEPT ![c] = Tail(@)]
  /\ hubGot' = [hubGot EXCEPT ![c] = Append(@, Head(hubOut[c]))]
  /\ UNCHANGED <<hubRooms, hubSubs, hubConn, hubTask, hubRx, hubAsked>>

\* What is left to prune; with nothing left the handler goes on.
HubPruned(c, left) ==
  LET closes == hubConn[c].at # "prune"
  IN  /\ hubConn' = [hubConn EXCEPT ![c] =
                       [at |-> IF ~closes THEN (IF left = {} THEN "select" ELSE "prune")
                               ELSE IF left = {} THEN "gone" ELSE "closing",
                        left |-> left]]
      /\ hubOut'  = [hubOut EXCEPT ![c] = IF closes /\ left = {} THEN << >> ELSE @]

\* The loop ends: a Close, a read error, a message that does not parse or is
\* refused, anything that cannot be written.  cleanup_connection takes the
\* connection out, then prunes its rooms.
HubLeave(c) ==
  /\ hubConn[c].at \in {"select", "cleanup"}
  /\ HubPruned(c, hubSubs[c])
  /\ hubSubs' = [x \in DOMAIN hubSubs \ {c} |-> hubSubs[x]]
  /\ UNCHANGED <<hubRooms, hubTask, hubRx, hubGot, hubAsked>>

\* Mistake: a room goes as soon as one subscriber leaves it.
HubUnused(d) == TRUE

HubEmpty(d) == HubListeners(d) = {}

\* remove_room_if_empty, for one document.  After the last one an unsubscribe
\* is acknowledged, or the closed connection is done, and its queue with it.
HubPrune(c) ==
  /\ hubConn[c].at \in {"prune", "closing"}
  /\ \E d \in hubConn[c].left :
       /\ HubPruned(c, hubConn[c].left \ {d})
       /\ IF hubRoom[d] # 0 /\ HubEmpty(d)
            THEN /\ hubRoom' = [hubRoom EXCEPT ![d] = 0]
                 /\ hubLog'  = [hubLog EXCEPT ![d] = << >>]
            ELSE UNCHANGED <<hubRoom, hubLog>>
  /\ UNCHANGED <<hubMade, hubSent, hubSubs, hubTask, hubRx, hubGot, hubAsked>>

HubServe(c) ==
  HubInsert(c) \/ HubDeliver(c) \/ HubPrune(c) \/ (hubConn[c].at = "cleanup" /\ HubLeave(c))

-----------------------------------------------------------------------------
(* broadcast_to_document: the lookup and the send are under the read lock.  *)
(* Without a room, or a receiver in it, the call fails and changes nothing. *)

HubBroadcast(d) ==
  /\ hubSent < HubMaxSent
  /\ HubListeners(d) # {}
  /\ hubSent' = hubSent + 1
  /\ hubLog'  = [hubLog EXCEPT ![d] = Append(@, hubSent + 1)]
  /\ UNCHANGED <<hubRoom, hubMade, hubSubs, hubConn, hubTask, hubRx, hubOut, hubGot, hubAsked>>

-----------------------------------------------------------------------------
(* The broadcast task *)

HubToTask(c, task) ==
  /\ hubTask' = [hubTask EXCEPT ![c] = task]
  /\ UNCHANGED <<hubRooms, hubSubs, hubConn, hubGot, hubAsked>>

\* The head of the loop reads the subscriptions.  With none it sleeps and
\* reads again, and keeps the receivers it has.
HubLook(c) ==
  /\ hubTask[c].at = "receive" /\ hubTask[c].todo = {} /\ hubTask[c].received = << >>
  /\ HubSubsOf(c) # {}
  /\ HubToTask(c, [at |-> "listen", seen |-> HubSubsOf(c), todo |-> HubSubsOf(c), received |-> << >>])
  /\ UNCHANGED <<hubRx, hubOut>>

\* A document without a receiver gets one, if it has a room.
HubListen(c) ==
  /\ hubTask[c].at = "listen"
  /\ \E d \in hubTask[c].todo :
       /\ HubToTask(c, [hubTask[c] EXCEPT !.todo = @ \ {d}])
       /\ hubRx' = [hubRx EXCEPT ![c][d] =
                      IF @.ch = 0 /\ hubRoom[d] # 0
                        THEN [ch |-> hubRoom[d], from |-> Len(hubLog[d]) + 1,
                              pos |-> Len(hubLog[d]) + 1, lost |-> {}]
                        ELSE @]
  /\ UNCHANGED hubOut

\* Receivers of documents no longer subscribed to are dropped.
HubRetain(c) ==
  /\ hubTask[c].at = "listen" /\ hubTask[c].todo = {}
  /\ hubRx' = [hubRx EXCEPT ![c] = [d \in Docs |-> IF d \in hubTask[c].seen THEN @[d] ELSE HubNoRx]]
  /\ HubToTask(c, [at |-> "receive", seen |-> {}, todo |-> {d \in hubTask[c].seen : hubRx[c][d].ch # 0},
                   received |-> << >>])
  /\ UNCHANGED hubOut

HubOldest(d) == IF Len(hubLog[d]) <= HubRoomKeeps THEN 1 ELSE Len(hubLog[d]) - HubRoomKeeps + 1

\* try_recv on one receiver: nothing, a message, or word of lost ones.
HubReceive(c) ==
  /\ hubTask[c].at = "receive"
  /\ \E d \in hubTask[c].todo :
       LET rx   == hubRx[c][d]
           live == rx.ch = hubRoom[d]
           rest == [hubTask[c] EXCEPT !.todo = @ \ {d}]
       IN  \/ /\ ~live \/ rx.pos > Len(hubLog[d])
              /\ HubToTask(c, rest)
              /\ UNCHANGED hubRx
           \/ /\ live /\ rx.pos <= Len(hubLog[d]) /\ rx.pos < HubOldest(d)
              /\ HubToTask(c, rest)
              /\ hubRx' = [hubRx EXCEPT ![c][d] = [ch |-> rx.ch, from |-> rx.from, pos |-> HubOldest(d),
                                                   lost |-> rx.lost \cup rx.pos .. HubOldest(d) - 1]]
           \/ /\ live /\ rx.pos \in HubOldest(d) .. Len(hubLog[d])
              /\ HubToTask(c, [rest EXCEPT !.received = Append(@, [doc |-> d, n |-> hubLog[d][rx.pos]])])
              /\ hubRx' = [hubRx EXCEPT ![c][d].pos = @ + 1]
  /\ UNCHANGED hubOut

\* Mistake: the last place in the queue is never used.
HubQueueShort(c, m) ==
  /\ Len(hubOut[c]) < HubOutbound - 1
  /\ hubOut' = [hubOut EXCEPT ![c] = Append(@, m)]

\* send().await waits for room in the queue.
HubQueue(c, m) ==
  /\ Len(hubOut[c]) < HubOutbound
  /\ hubOut' = [hubOut EXCEPT ![c] = Append(@, m)]

\* The messages go to the queue one by one; when the connection is done the
\* task ends and drops its receivers.
HubForward(c) ==
  /\ hubTask[c].at = "receive" /\ hubTask[c].todo = {} /\ hubTask[c].received # << >>
  /\ \/ /\ hubConn[c].at # "gone"
        /\ HubQueue(c, Head(hubTask[c].received))
        /\ HubToTask(c, [hubTask[c] EXCEPT !.received = Tail(@)])
        /\ UNCHANGED hubRx
     \/ /\ hubConn[c].at = "gone"
        /\ HubToTask(c, [at |-> "done", seen |-> {}, todo |-> {}, received |-> << >>])
        /\ hubRx' = [hubRx EXCEPT ![c] = [d \in Docs |-> HubNoRx]]
        /\ UNCHANGED hubOut

HubCarry(c) == HubLook(c) \/ HubListen(c) \/ HubRetain(c) \/ HubReceive(c) \/ HubForward(c)

HubNext ==
  \/ \E c \in Conns : HubConnect(c) \/ HubServe(c) \/ HubLeave(c) \/ HubCarry(c)
  \/ \E c \in Conns, d \in Docs : HubSubscribe(c, d) \/ HubUnsubscribe(c, d)
  \/ \E d \in Docs : HubBroadcast(d)

\* The runtime polls the connection's loop and its task; select! picks any
\* branch that is ready, in turn.
HubFairness == \A c \in Conns : WF_hubVars(HubServe(c)) /\ WF_hubVars(HubCarry(c))

HubSpec == HubInit /\ [][HubNext]_hubVars /\ HubFairness
-----------------------------------------------------------------------------
(* Properties *)

HubMessages == [doc : Docs, n : Nat]

HubTypeOK ==
  /\ hubRoom \in [Docs -> Nat] /\ hubMade \in Nat /\ hubLog \in [Docs -> Seq(Nat)] /\ hubSent \in Nat
  /\ hubSubs \in UNION {[known -> SUBSET Docs] : known \in SUBSET Conns}
  /\ hubConn \in [Conns -> [at : {"new", "select", "insert", "prune", "cleanup", "closing", "gone"},
                            left : SUBSET Docs]]
  /\ hubTask \in [Conns -> [at : {"none", "receive", "listen", "done"}, seen : SUBSET Docs,
                            todo : SUBSET Docs, received : Seq(HubMessages)]]
  /\ hubRx \in [Conns -> [Docs -> [ch : Nat, from : Nat, pos : Nat, lost : SUBSET Nat]]]
  /\ hubOut \in [Conns -> Seq(HubMessages)] /\ hubGot \in [Conns -> Seq(HubMessages)]
  /\ hubAsked \in Nat

\* What has been taken from the rooms for c, in order: on the wire, queued, in hand.
HubLine(c) == hubGot[c] \o hubOut[c] \o hubTask[c].received

\* Every receiver is one of its room's present channel: a room is never
\* removed under a task that listens, nor a second one made beside it
\* (remove_room_if_empty against the subscribe in the broadcast task).
HubReceiversCurrent ==
  \A c \in Conns, d \in Docs : hubRx[c][d].ch # 0 => hubRx[c][d].ch = hubRoom[d]

\* A connection gets each message of a room at most once and in the order of
\* the broadcasts ...
HubInOrder ==
  \A c \in Conns : LET line == HubLine(c) IN
    \A i, j \in DOMAIN line : i < j /\ line[i].doc = line[j].doc => line[i].n < line[j].n

\* ... and while it is open every message its receiver went past is on its way
\* to the socket or was reported as lost.
HubNoneVanish ==
  \A c \in Conns, d \in Docs :
    LET rx == hubRx[c][d] IN
    rx.ch # 0 /\ c \in DOMAIN hubSubs =>
      \A k \in rx.from .. rx.pos - 1 :
        k \in rx.lost \/ \E m \in ToSet(HubLine(c)) : m.doc = d /\ m.n = hubLog[d][k]

\* What the hub promises its connections: nobody listens to a room that is
\* gone, and messages come once, in order, and are not lost in silence.
HubDelivers == HubTypeOK /\ HubReceiversCurrent /\ HubInOrder /\ HubNoneVanish

\* A message broadcast to a room goes out on the socket of a connection that
\* listens there, if the room still keeps it and the connection stays
\* subscribed: no queue and no task holds it back for ever.
HubBroadcastsArrive ==
  \A c \in Conns, d \in Docs :
    []<>(\/ d \notin HubSubsOf(c) \/ hubRx[c][d].ch = 0
         \/ /\ hubRx[c][d].pos > Len(hubLog[d])
            /\ hubOut[c] \o hubTask[c].received = << >>)
=============================================================================
