-------------------------------- MODULE MCTasks -------------------------------
(* Tasks and calls that others wait for: the orchestrator with three nodes,  *)
(* a ReAct agent, the event bus with two publishers and a handler of one of  *)
(* two types, and the WebSocket hub with two connections to one room.  They  *)
(* share no state (the orchestrator may be given any answer by its agents),  *)
(* so a behaviour runs one of them.                                          *)
EXTENDS Orchestrator, ReactAgent, EventBus, WsHub, TLC

CONSTANTS a, b, c, e1, llm, tool, h1, p1, p2, doc, search, c1, c2, d1

-----------------------------------------------------------------------------
(* Three nodes: a workflow that stops at a failure, one that does not and    *)
(* one with a cycle.                                                         *)

Nodes3 == {a, b, c}
OneExecutor == {e1}
BothAgents == {llm, tool}

Agents  == (a :> llm @@ b :> llm @@ c :> tool)
Retries == (a :> 1 @@ b :> 0 @@ c :> 0)

\* c needs a; b stands alone.
Careful == [nodes |-> <<a, b, c>>, edges |-> {<<a, c>>}, agent |-> Agents, retries |-> Retries,
            fail_fast |-> TRUE, max_concurrency |-> 1]
\* c needs a and b, which run together.
Bold    == [nodes |-> <<b, a, c>>, edges |-> {<<a, c>>, <<b, c>>}, agent |-> Agents,
            retries |-> Retries, fail_fast |-> FALSE, max_concurrency |-> 2]
Cyclic  == [nodes |-> <<a, b>>, edges |-> {<<a, b>>, <<b, a>>}, agent |-> Agents,
            retries |-> Retries, fail_fast |-> FALSE, max_concurrency |-> 2]

AllDefinitions == {Careful, Bold, Cyclic}

-----------------------------------------------------------------------------

OneHandler    == {h1}
TwoPublishers == {p1, p2}
TwoTypes      == {doc, search}
OnlyDocs      == [h \in Handlers |-> {doc}]
TwoConns      == {c1, c2}
OneDoc        == {d1}

TasksNext ==
  \/ ReactInit /\ BusInit /\ HubInit /\ Next
     /\ UNCHANGED <<reactVars, busVars, hubVars>>
  \/ Init /\ BusInit /\ HubInit /\ ReactNext
     /\ UNCHANGED <<vars, busVars, hubVars>>
  \/ Init /\ ReactInit /\ HubInit /\ BusNext
     /\ UNCHANGED <<vars, reactVars, hubVars>>
  \/ Init /\ ReactInit /\ BusInit /\ HubNext
     /\ UNCHANGED <<vars, reactVars, busVars>>

TasksInit == Init /\ ReactInit /\ BusInit /\ HubInit

TasksSpec ==
  /\ TasksInit
  /\ [][TasksNext]_<<vars, reactVars, busVars, hubVars>>
  /\ OrchestratorFairness /\ ReactFairness /\ BusFairness /\ HubFairness

\* Nobody waits for ever: for an execution that is not left paused, a run of an
\* agent, a publish or a handler's next event, or a room's message.
TasksEnd ==
  /\ ExecutionsReturn
  /\ ReactReturns
  /\ BusLives
  /\ HubBroadcastsArrive
=============================================================================
