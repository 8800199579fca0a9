------------------------------- MODULE EventBus -------------------------------
(***************************************************************************)
(* The in-process event bus of knowledge-core (event/event_bus.rs) with    *)
(* the handlers bound to it by AsyncEventHandler (event/event_handler.rs). *)
(*                                                                         *)
(* The bus is one tokio broadcast channel: every event is sent to all      *)
(* receivers, the last Capacity events are kept, and a receiver that fell  *)
(* behind is told that it lagged and goes on with the oldest one kept.     *)
(* "sent" is the whole history; a receiver is its position in it.          *)
(* EventBus::shutdown only counts receivers and changes nothing.           *)
(***************************************************************************)
EXTENDS Naturals, Sequences, FiniteSets, SequencesExt

CONSTANTS
  Publishers,   \* tasks calling publish
  Handlers,     \* AsyncEventHandler instances, each spawned at most once
  Types,        \* event types
  Accepts,      \* Accepts[h]: the types handler h accepts
  Capacity,     \* channel_capacity
  RetryMax,     \* retry_max_attempts
  MaxPublishes  \* bound: calls of publish

ASSUME BusConstants ==
  /\ Types # {} /\ Accepts \in [Handlers -> SUBSET Types]
  /\ Capacity \in Nat \ {0}
  /\ RetryMax \in Nat
  /\ MaxPublishes \in Nat

VARIABLES
  sent,       \* the types of the events sent, oldest first
  open,       \* a Sender is alive
  held,       \* held[h]: the receiver inside the wrapper h exists
  running,    \* running[h]: the flag shutdown() clears
  task,       \* task[h]: "none", "loop", "recv", "handle" or "stopped"
  from,       \* from[h]: history, the first position the task's receiver sees
  pos,        \* pos[h]: the next position of that receiver
  handled,    \* handled[h]: positions whose handle() succeeded, in order
  failed,     \* failed[h]: positions whose handle() failed
  lagged,     \* lagged[h]: positions h was told it lost
  busCall,    \* busCall[p]: "idle", "send", "count" or "sleep"
  busAttempt, \* busAttempt[p]: the attempt p is at
  busEvent,    \* busEvent[p]: the type of the event p publishes
  busAnswer,   \* busAnswer[p]: what p's last publish returned
  published   \* calls of publish so far

receiving  == <<task, from, pos, handled, failed, lagged>>
publishing == <<busCall, busAttempt, busEvent, busAnswer, published>>
busVars    == <<sent, open, held, running, receiving, publishing>>

Tasks == {"loop", "recv", "handle"}
Receivers == Cardinality({h \in Handlers : held[h]}) + Cardinality({h \in Handlers : task[h] \in Tasks})

\* The oldest event the channel still keeps.
Oldest == IF Len(sent) <= Capacity THEN 1 ELSE Len(sent) - Capacity + 1

AnyType == CHOOSE t \in Types : TRUE

BusInit ==
  /\ sent = << >> /\ open = TRUE
  /\ held      = [h \in Handlers |-> FALSE]
  /\ running   = [h \in Handlers |-> TRUE]
  /\ task      = [h \in Handlers |-> "none"]
  /\ from      = [h \in Handlers |-> 1]
  /\ pos       = [h \in Handlers |-> 1]
  /\ handled   = [h \in Handlers |-> << >>]
  /\ failed    = [h \in Handlers |-> {}]
  /\ lagged    = [h \in Handlers |-> {}]
  /\ busCall    = [p \in Publishers |-> "idle"]
  /\ busAttempt = [p \in Publishers |-> 0]
  /\ busEvent   = [p \in Publishers |-> AnyType]
  /\ busAnswer  = [p \in Publishers |-> "none"]
  /\ published = 0

-----------------------------------------------------------------------------
(* Publishers *)

Publish(p, t) ==
  /\ open
  /\ busCall[p] = "idle"
  /\ published < MaxPublishes
  /\ published' = published + 1
  /\ busCall'    = [busCall EXCEPT ![p] = "send"]
  /\ busAttempt' = [busAttempt EXCEPT ![p] = 0]
  /\ busEvent'   = [busEvent EXCEPT ![p] = t]
  /\ busAnswer'  = [busAnswer EXCEPT ![p] = "none"]
  /\ UNCHANGED <<sent, open, held, running, receiving>>

Published(p, a) ==
  /\ busCall'   = [busCall EXCEPT ![p] = "idle"]
  /\ busAnswer' = [busAnswer EXCEPT ![p] = a]
  /\ UNCHANGED busAttempt

\* Mistake: after the last attempt the call waits and tries again.
NeverGivesUp(p) == FALSE

GivesUp(p) == busAttempt[p] = RetryMax

\* One turn of the retry loop.  A send fails only when nobody receives ...
Send(p) ==
  /\ busCall[p] = "send"
  /\ \/ /\ Receivers > 0
        /\ sent' = Append(sent, busEvent[p])
        /\ Published(p, "ok")
     \/ /\ Receivers = 0
        /\ busCall' = [busCall EXCEPT ![p] = "count"]
        /\ UNCHANGED <<sent, busAttempt, busAnswer>>
  /\ UNCHANGED <<open, held, running, receiving, busEvent, published>>

\* ... and then asks again how many receive, to name the reason.
Count(p) ==
  /\ busCall[p] = "count"
  /\ \/ /\ GivesUp(p)
        /\ Published(p, IF Receivers = 0 THEN "no_subscribers" ELSE "shutdown")
     \/ /\ ~GivesUp(p)
        /\ busCall' = [busCall EXCEPT ![p] = "sleep"]
        /\ UNCHANGED <<busAttempt, busAnswer>>
  /\ UNCHANGED <<sent, open, held, running, receiving, busEvent, published>>

\* The back-off is over.
Retry(p) ==
  /\ busCall[p] = "sleep"
  /\ busCall'    = [busCall EXCEPT ![p] = "send"]
  /\ busAttempt' = [busAttempt EXCEPT ![p] = IF @ < RetryMax THEN @ + 1 ELSE @]
  /\ UNCHANGED <<sent, open, held, running, receiving, busEvent, busAnswer, published>>

\* The last clone of the bus is dropped, which closes the channel.
BusDropped ==
  /\ open
  /\ \A p \in Publishers : busCall[p] = "idle"
  /\ open' = FALSE
  /\ UNCHANGED <<sent, held, running, receiving, publishing>>

-----------------------------------------------------------------------------
(* Handlers *)

\* AsyncEventHandler::new subscribes; this receiver is never read.
NewHandler(h) ==
  /\ open /\ ~held[h] /\ task[h] = "none"
  /\ held' = [held EXCEPT ![h] = TRUE]
  /\ UNCHANGED <<sent, open, running, receiving, publishing>>

\* Where a new receiver starts.
NewPosition == Len(sent) + 1

\* spawn: the task gets a receiver of its own, which starts behind what was
\* sent so far.
SpawnTask(h) ==
  /\ held[h] /\ task[h] = "none"
  /\ task' = [task EXCEPT ![h] = "loop"]
  /\ from' = [from EXCEPT ![h] = NewPosition]
  /\ pos'  = [pos EXCEPT ![h] = NewPosition]
  /\ UNCHANGED <<sent, open, held, running, handled, failed, lagged, publishing>>

\* The wrapper is dropped; its task goes on.
DropHandler(h) ==
  /\ held[h] /\ task[h] # "none"
  /\ held' = [held EXCEPT ![h] = FALSE]
  /\ UNCHANGED <<sent, open, running, receiving, publishing>>

Shutdown(h) ==
  /\ held[h] /\ running[h]
  /\ running' = [running EXCEPT ![h] = FALSE]
  /\ UNCHANGED <<sent, open, held, receiving, publishing>>

\* The head of the loop.
Loop(h) ==
  /\ task[h] = "loop"
  /\ task' = [task EXCEPT ![h] = IF running[h] THEN "recv" ELSE "stopped"]
  /\ UNCHANGED <<sent, open, held, running, from, pos, handled, failed, lagged, publishing>>

\* Mistake: a lagging receiver starts over at the newest event.
SkipToNewest == Len(sent)

\* Where a lagging receiver goes on.
ResumeAt == Oldest

Advanced(h) == pos[h] + 1

\* recv().await returns.
Recv(h) ==
  /\ task[h] = "recv"
  /\ \/ /\ pos[h] <= Len(sent) /\ pos[h] < Oldest            \* Lagged
        /\ lagged' = [lagged EXCEPT ![h] = @ \cup pos[h] .. Oldest - 1]
        /\ pos'    = [pos EXCEPT ![h] = ResumeAt]
        /\ task'   = [task EXCEPT ![h] = "loop"]
     \/ /\ pos[h] <= Len(sent) /\ pos[h] >= Oldest           \* Ok(event)
        /\ pos'  = [pos EXCEPT ![h] = Advanced(h)]
        /\ task' = [task EXCEPT ![h] = IF sent[pos[h]] \in Accepts[h] THEN "handle" ELSE "loop"]
        /\ UNCHANGED lagged
     \/ /\ pos[h] > Len(sent) /\ ~open                       \* Closed
        /\ task' = [task EXCEPT ![h] = "stopped"]
        /\ UNCHANGED <<pos, lagged>>
  /\ UNCHANGED <<sent, open, held, running, from, handled, failed, publishing>>

\* Mistake: a failing handle() ends the task.
HandleOrDie(h) ==
  /\ task[h] = "handle"
  /\ \/ /\ handled' = [handled EXCEPT ![h] = Append(@, pos[h] - 1)]
        /\ task' = [task EXCEPT ![h] = "loop"]
        /\ UNCHANGED failed
     \/ /\ failed' = [failed EXCEPT ![h] = @ \cup {pos[h] - 1}]
        /\ task' = [task EXCEPT ![h] = "stopped"]
        /\ UNCHANGED handled
  /\ UNCHANGED <<sent, open, held, running, from, pos, lagged, publishing>>

\* handle() succeeds, or fails, which is logged and otherwise forgotten.
Handle(h) ==
  /\ task[h] = "handle"
  /\ \/ handled' = [handled EXCEPT ![h] = Append(@, pos[h] - 1)] /\ UNCHANGED failed
     \/ failed' = [failed EXCEPT ![h] = @ \cup {pos[h] - 1}] /\ UNCHANGED handled
  /\ task' = [task EXCEPT ![h] = "loop"]
  /\ UNCHANGED <<sent, open, held, running, from, pos, lagged, publishing>>

RunTask(h) == Loop(h) \/ Recv(h) \/ Handle(h)
RunCall(p) == Send(p) \/ Count(p) \/ Retry(p)

BusNext ==
  \/ \E p \in Publishers : RunCall(p) \/ \E t \in Types : Publish(p, t)
  \/ \E h \in Handlers : RunTask(h) \/ NewHandler(h) \/ SpawnTask(h) \/ DropHandler(h) \/ Shutdown(h)
  \/ BusDropped

BusSpec == BusInit /\ [][BusNext]_busVars

\* The runtime polls the tasks and the calls that were begun.
BusFairness ==
  /\ \A h \in Handlers : WF_busVars(RunTask(h))
  /\ \A p \in Publishers : WF_busVars(RunCall(p))

BusFairSpec == BusSpec /\ BusFairness
-----------------------------------------------------------------------------
(* Properties *)

BusTypeOK ==
  /\ sent \in Seq(Types)
  /\ open \in BOOLEAN
  /\ held \in [Handlers -> BOOLEAN]
  /\ running \in [Handlers -> BOOLEAN]
  /\ task \in [Handlers -> Tasks \cup {"none", "stopped"}]
  /\ from \in [Handlers -> 1 .. Len(sent) + 1]
  /\ pos \in [Handlers -> 1 .. Len(sent) + 1]
  /\ handled \in [Handlers -> Seq(1 .. Len(sent))]
  /\ failed \in [Handlers -> SUBSET (1 .. Len(sent))]
  /\ lagged \in [Handlers -> SUBSET (1 .. Len(sent))]
  /\ busCall \in [Publishers -> {"idle", "send", "count", "sleep"}]
  /\ busAttempt \in [Publishers -> 0 .. RetryMax]
  /\ busEvent \in [Publishers -> Types]
  /\ busAnswer \in [Publishers -> {"none", "ok", "no_subscribers", "shutdown"}]
  /\ published \in 0 .. MaxPublishes

\* Every event the task's receiver went past is accounted for: handled, failed,
\* reported as lagged, being handled, or of a type the handler refuses.  None is
\* lost in silence, and none is counted twice.  They are handled in the order of
\* sending, at most once.
EveryEventAccounted ==
  BusTypeOK /\ \A h \in Handlers :
    LET inHand == IF task[h] = "handle" THEN {pos[h] - 1} ELSE {}
        wanted == {k \in from[h] .. pos[h] - 1 : sent[k] \in Accepts[h]}
    IN  /\ wanted \subseteq ToSet(handled[h]) \cup failed[h] \cup lagged[h] \cup inHand
        /\ ToSet(handled[h]) \cap (failed[h] \cup lagged[h] \cup inHand) = {}
        /\ failed[h] \cap (lagged[h] \cup inHand) = {}
        /\ lagged[h] \cap inHand = {}
        /\ \A i, j \in DOMAIN handled[h] : i < j => handled[h][i] < handled[h][j]

\* A published event that a running handler's receiver can see is dealt with,
\* unless the handler is shut down first.
HandlersCatchUp ==
  \A h \in Handlers : []<>(task[h] = "none" \/ pos[h] > Len(sent) \/ ~running[h])

\* Every publish returns, whatever subscribers do during its retries.
PublishReturns == \A p \in Publishers : []<>(busCall[p] = "idle")

\* The bus does not hang, on either side of it.
BusLives == HandlersCatchUp /\ PublishReturns
=============================================================================
