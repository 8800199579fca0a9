----------------------------- MODULE Orchestrator -----------------------------
(***************************************************************************)
(* TaskOrchestrator of knowledge-api (agent/executor.rs): a workflow is a  *)
(* graph of nodes, executed in batches of the nodes whose dependencies     *)
(* have succeeded, while other tasks pause, resume, load and execute.      *)
(*                                                                         *)
(* Every stretch of code under one lock is one action.  Identifiers of     *)
(* workflows are left out: execute is called for the workflow loaded, any  *)
(* other identifier is refused and changes nothing.                        *)
(***************************************************************************)
EXTENDS Naturals, Sequences, FiniteSets, Functions

CONSTANTS
  Executors,    \* tasks calling execute
  Node,         \* identifiers of nodes
  Unknown,      \* the identifier an execution error is booked under
  AgentTypes,
  Definitions,  \* workflow definitions passed to load_workflow
  MaxLoads, MaxExecutes, MaxPauses   \* bounds: calls

\* The state before a workflow is loaded.
NoWorkflow == [nodes |-> << >>, edges |-> {}, agent |-> << >>, retries |-> << >>,
               fail_fast |-> FALSE, max_concurrency |-> 5]

\* With max_concurrency = 0 the semaphore has no permit and execute hangs; and
\* two nodes of one identifier are two vertices.  The code refuses neither.
ASSUME OrchestratorConstants ==
  /\ Unknown \notin Node
  /\ {MaxLoads, MaxExecutes, MaxPauses} \subseteq Nat
  /\ NoWorkflow \notin Definitions
  /\ \A d \in Definitions :
       /\ d.nodes \in Seq(Node) /\ IsInjective(d.nodes)
       /\ d.edges \subseteq Node \X Node
       /\ \A n \in Range(d.nodes) : d.agent[n] \in AgentTypes /\ d.retries[n] \in Nat
       /\ d.fail_fast \in BOOLEAN /\ d.max_concurrency \in Nat \ {0}

VARIABLES
  registered,  \* agents: the types an agent is registered for
  graph,       \* the definition the DAG was built from
  node_map,    \* the definition the indices of the nodes belong to
  workflow, node_statuses, node_results, status, paused,   \* SharedState
  loading,     \* [step, def]: the load_workflow in progress
  exec,        \* exec[e]: where execute is, its batch and its local variables
  calls,       \* history: number of loads, executes and pauses
  runs,        \* history: runs[n], how often n was started since it was loaded
  late,        \* history: late[e], batches e found since the last pause
  overlapped   \* history: calls of execute or load_workflow have overlapped
               \* since the last load that did not

shared  == <<workflow, node_statuses, node_results, status, paused>>
history == <<calls, runs, late, overlapped>>
vars == <<registered, graph, node_map, shared, loading, exec, history>>

Outcome    == {"Succeeded", "Failed", "TimedOut"}
NodeStatus == Outcome \cup {"Pending", "Running", "Skipped"}
WorkflowStatus == {"Idle", "Running", "Paused", "Succeeded", "Failed", "PartialFailure", "TimedOut"}
Failure    == {"Failed", "TimedOut"}

\* at: where a node of a batch is; left: the retries it has left.
Queued == [at |-> "queued", left |-> 0]
Finished == Outcome \cup {"Error"}

Resting == [pc |-> "idle", batch |-> << >>, permits |-> 0, should_stop |-> FALSE,
            final |-> "Idle", failed |-> FALSE]

Put(f, x, y) == [z \in DOMAIN f \cup {x} |-> IF z = x THEN y ELSE f[z]]
Without(f, x) == Restrict(f, DOMAIN f \ {x})

Init ==
  /\ registered = {}
  /\ graph = NoWorkflow /\ node_map = NoWorkflow /\ workflow = NoWorkflow
  /\ node_statuses = << >> /\ node_results = << >>
  /\ status = "Idle" /\ paused = FALSE
  /\ loading = [step |-> "idle", def |-> NoWorkflow]
  /\ exec  = [e \in Executors |-> Resting]
  /\ calls = [load |-> 0, execute |-> 0, pause |-> 0]
  /\ runs  = [n \in Node |-> 0]
  /\ late  = [e \in Executors |-> 0]
  /\ overlapped = FALSE

Busy == \E e \in Executors : exec[e].pc # "idle"

-----------------------------------------------------------------------------
(* register_agent and load_workflow *)

Register(t) ==
  /\ registered' = registered \cup {t}
  /\ UNCHANGED <<graph, node_map, shared, loading, exec, history>>

EdgesExist(d) == d.edges \subseteq Range(d.nodes) \X Range(d.nodes)

\* Every set of nodes has one that no edge from the set enters.
Acyclic(d) ==
  \A S \in SUBSET Range(d.nodes) :
    S # {} => \E n \in S : \A m \in S : <<m, n>> \notin d.edges

\* validate
Valid(d) == EdgesExist(d) /\ Acyclic(d)

LoadGraph(d) ==
  /\ loading.step = "idle" /\ calls.load < MaxLoads
  /\ Valid(d)
  /\ graph'   = d
  /\ loading' = [step |-> "map", def |-> d]
  /\ calls'   = [calls EXCEPT !.load = @ + 1]
  /\ overlapped' = (overlapped \/ Busy)
  /\ UNCHANGED <<registered, node_map, shared, exec, runs, late>>

LoadMap ==
  /\ loading.step = "map"
  /\ node_map' = loading.def
  /\ loading'  = [loading EXCEPT !.step = "state"]
  /\ overlapped' = (overlapped \/ Busy)
  /\ UNCHANGED <<registered, graph, shared, exec, calls, runs, late>>

\* paused keeps its value.
LoadState ==
  /\ loading.step = "state"
  /\ workflow'      = loading.def
  /\ node_statuses' = [n \in Range(loading.def.nodes) |-> "Pending"]
  /\ node_results'  = << >>
  /\ status'        = "Idle"
  /\ loading'       = [step |-> "idle", def |-> NoWorkflow]
  /\ runs'          = [n \in Node |-> 0]
  /\ overlapped'    = Busy
  /\ UNCHANGED <<registered, graph, node_map, paused, exec, calls, late>>

-----------------------------------------------------------------------------
(* pause and resume *)

Pause ==
  /\ status = "Running" /\ calls.pause < MaxPauses
  /\ paused' = TRUE /\ status' = "Paused"
  /\ calls'  = [calls EXCEPT !.pause = @ + 1]
  /\ late'   = [e \in Executors |-> 0]
  /\ UNCHANGED <<registered, graph, node_map, workflow, node_statuses, node_results,
                 loading, exec, runs, overlapped>>

Resume ==
  /\ status = "Paused"
  /\ paused' = FALSE /\ status' = "Running"
  /\ UNCHANGED <<registered, graph, node_map, workflow, node_statuses, node_results,
                 loading, exec, history>>

-----------------------------------------------------------------------------
(* execute: the loop over batches *)

Execute(e) ==
  /\ exec[e].pc = "idle" /\ calls.execute < MaxExecutes
  /\ workflow # NoWorkflow
  /\ status' = "Running" /\ paused' = FALSE
  /\ exec'   = [exec EXCEPT ![e] = [Resting EXCEPT !.pc = "check"]]
  /\ calls'  = [calls EXCEPT !.execute = @ + 1]
  /\ overlapped' = (overlapped \/ Busy \/ loading.step # "idle")
  /\ UNCHANGED <<registered, graph, node_map, workflow, node_statuses, node_results,
                 loading, runs, late>>

\* The check of paused; while it is set the loop polls.
CheckPause(e) ==
  /\ exec[e].pc = "check" /\ ~paused
  /\ exec' = [exec EXCEPT ![e].pc = "find"]
  /\ UNCHANGED <<registered, graph, node_map, shared, loading, history>>

\* The index comes from the map and is used in the graph.
Index(d, n) == CHOOSE i \in DOMAIN d.nodes : d.nodes[i] = n

Incoming(i) ==
  IF i \in DOMAIN graph.nodes THEN {m \in Node : <<m, graph.nodes[i]>> \in graph.edges} ELSE {}

StatusOf(n) == IF n \in DOMAIN node_statuses THEN node_statuses[n] ELSE "none"

\* Mistakes: a dependency that is over is enough; one dependency is enough.
OverIsEnough(n) == \A m \in Incoming(Index(node_map, n)) : StatusOf(m) \in Outcome \cup {"Skipped"}

DependenciesDone(n) ==
  \A m \in Incoming(Index(node_map, n)) : StatusOf(m) \in {"Succeeded", "Skipped"}

ReadyNodes ==
  {n \in Range(node_map.nodes) : StatusOf(n) = "Pending" /\ DependenciesDone(n)}

\* find_ready_nodes holds the three locks together.
FindReady(e) ==
  /\ exec[e].pc = "find"
  /\ exec' = [exec EXCEPT ![e].pc = IF ReadyNodes = {} THEN "decide" ELSE "limit",
                          ![e].batch = [n \in ReadyNodes |-> Queued],
                          ![e].should_stop = FALSE]
  /\ late' = [late EXCEPT ![e] = @ + (IF paused /\ ReadyNodes # {} THEN 1 ELSE 0)]
  /\ UNCHANGED <<registered, graph, node_map, shared, loading, calls, runs, overlapped>>

ReadLimit(e) ==
  /\ exec[e].pc = "limit"
  /\ exec' = [exec EXCEPT ![e].pc = "batch", ![e].permits = workflow.max_concurrency]
  /\ UNCHANGED <<registered, graph, node_map, shared, loading, history>>

-----------------------------------------------------------------------------
(* execute_node, for the nodes of a batch at the same time *)

At(e, n) == exec[e].batch[n].at

\* Mistake: a permit is not given back.
NeverGivenBack(e) == {n \in DOMAIN exec[e].batch : At(e, n) # "queued"}

\* The nodes that hold a permit of the batch's semaphore.
Holding(e) == {n \in DOMAIN exec[e].batch : At(e, n) \in {"marked", "trying"}}

InBatch(e, n) == exec[e].pc = "batch" /\ n \in DOMAIN exec[e].batch

\* Mistake: the node is not marked as running.
StartUnmarked(e, n) ==
  /\ InBatch(e, n) /\ At(e, n) = "queued"
  /\ Cardinality(Holding(e)) < exec[e].permits
  /\ exec' = [exec EXCEPT ![e].batch[n].at = "marked"]
  /\ runs' = [runs EXCEPT ![n] = @ + 1]
  /\ UNCHANGED <<registered, graph, node_map, shared, loading, calls, late, overlapped>>

Start(e, n) ==
  /\ InBatch(e, n) /\ At(e, n) = "queued"
  /\ Cardinality(Holding(e)) < exec[e].permits
  /\ node_statuses' = Put(node_statuses, n, "Running")
  /\ exec' = [exec EXCEPT ![e].batch[n].at = "marked"]
  /\ runs' = [runs EXCEPT ![n] = @ + 1]
  /\ UNCHANGED <<registered, graph, node_map, workflow, node_results, status, paused,
                 loading, calls, late, overlapped>>

\* resolve_node_and_agent; the node's configuration is copied.
Resolve(e, n) ==
  /\ InBatch(e, n) /\ At(e, n) = "marked"
  /\ exec' = [exec EXCEPT ![e].batch[n] =
       IF n \in Range(workflow.nodes) /\ workflow.agent[n] \in registered
       THEN [at |-> "trying", left |-> workflow.retries[n]]
       ELSE [at |-> "Error", left |-> 0]]
  /\ UNCHANGED <<registered, graph, node_map, shared, loading, history>>

\* Another attempt, or the end of the node, after one that ended in o.
AfterAttempt(entry, o) ==
  IF o \in Failure /\ entry.left > 0 THEN [entry EXCEPT !.left = @ - 1] ELSE [at |-> o, left |-> 0]

\* One call of the agent under the timeout, and what follows it.
Attempt(e, n, o) ==
  /\ InBatch(e, n) /\ At(e, n) = "trying"
  /\ exec' = [exec EXCEPT ![e].batch[n] = AfterAttempt(@, o)]
  /\ UNCHANGED <<registered, graph, node_map, shared, loading, history>>

\* join_all
JoinAll(e) ==
  /\ exec[e].pc = "batch"
  /\ \A n \in DOMAIN exec[e].batch : At(e, n) \in Finished
  /\ exec' = [exec EXCEPT ![e].pc = "apply"]
  /\ UNCHANGED <<registered, graph, node_map, shared, loading, history>>

-----------------------------------------------------------------------------
(* execute: the results of a batch *)

\* The status booked for a node that ended in o.
Booked(o) == o

\* Results come in the order of the batch, which is that of a HashMap.
ApplyResult(e, n) ==
  /\ exec[e].pc = "apply" /\ n \in DOMAIN exec[e].batch /\ At(e, n) \in Outcome
  /\ node_results'  = Put(node_results, n, At(e, n))
  /\ node_statuses' = Put(node_statuses, n, Booked(At(e, n)))
  /\ exec' = [exec EXCEPT ![e].batch = Without(@, n),
                          ![e].pc = IF At(e, n) \in Failure THEN "judge" ELSE "apply"]
  /\ UNCHANGED <<registered, graph, node_map, workflow, status, paused, loading, history>>

\* fail_fast is read under a lock of its own.
Judge(e) ==
  /\ exec[e].pc = "judge"
  /\ exec' = [exec EXCEPT ![e].pc = "apply",
                          ![e].should_stop = workflow.fail_fast \/ @,
                          ![e].failed = workflow.fail_fast \/ @]
  /\ UNCHANGED <<registered, graph, node_map, shared, loading, history>>

\* An error names no node: the node it struck stays Running.
ApplyError(e, n) ==
  /\ exec[e].pc = "apply" /\ n \in DOMAIN exec[e].batch /\ At(e, n) = "Error"
  /\ node_results'  = Put(node_results, Unknown, "Failed")
  /\ node_statuses' = Put(node_statuses, Unknown, "Failed")
  /\ exec' = [exec EXCEPT ![e].batch = Without(@, n), ![e].should_stop = TRUE, ![e].failed = TRUE]
  /\ UNCHANGED <<registered, graph, node_map, workflow, status, paused, loading, history>>

\* Mistake: the next batch is looked for without a look at paused.
EndBatchUnchecked(e) ==
  /\ exec[e].pc = "apply" /\ DOMAIN exec[e].batch = {}
  /\ exec' = [exec EXCEPT ![e].pc = IF exec[e].should_stop THEN "decide" ELSE "find"]
  /\ UNCHANGED <<registered, graph, node_map, shared, loading, history>>

EndBatch(e) ==
  /\ exec[e].pc = "apply" /\ DOMAIN exec[e].batch = {}
  /\ exec' = [exec EXCEPT ![e].pc = IF exec[e].should_stop THEN "decide" ELSE "check"]
  /\ UNCHANGED <<registered, graph, node_map, shared, loading, history>>

-----------------------------------------------------------------------------
(* execute: the answer *)

\* Mistake: a timeout is no failure.
FinalWithoutTimeouts ==
  LET S == Range(node_statuses)
  IN  IF S \cap {"Pending", "Running"} # {} THEN "Running"
      ELSE CASE {"Failed", "Succeeded"} \subseteq S -> "PartialFailure"
             [] "Failed" \in S /\ "Succeeded" \notin S -> "Failed"
             [] "Failed" \notin S -> "Succeeded"

\* determine_final_status
FinalStatus ==
  LET S == Range(node_statuses)
      has_failed == S \cap Failure # {}
  IN  IF S \cap {"Pending", "Running"} # {} THEN "Running"
      ELSE CASE has_failed /\ "Succeeded" \in S -> "PartialFailure"
             [] has_failed /\ "Succeeded" \notin S -> "Failed"
             [] ~has_failed -> "Succeeded"

Decide(e) ==
  /\ exec[e].pc = "decide"
  /\ exec' = [exec EXCEPT ![e].pc = "set", ![e].final = FinalStatus]
  /\ UNCHANGED <<registered, graph, node_map, shared, loading, history>>

\* A pause since Decide is written over; paused stays set.
SetStatus(e) ==
  /\ exec[e].pc = "set"
  /\ status' = exec[e].final
  /\ exec'   = [exec EXCEPT ![e].pc = "answer"]
  /\ UNCHANGED <<registered, graph, node_map, workflow, node_statuses, node_results, paused,
                 loading, history>>

\* The result holds exec[e].final and node_results as they are now.
Answer(e) ==
  /\ exec[e].pc = "answer"
  /\ exec' = [exec EXCEPT ![e] = Resting]
  /\ UNCHANGED <<registered, graph, node_map, shared, loading, history>>

-----------------------------------------------------------------------------
RunNode(e, n) ==
  \/ Start(e, n) \/ Resolve(e, n)
  \/ \E o \in Outcome : Attempt(e, n, o)
  \/ ApplyResult(e, n) \/ ApplyError(e, n)

Step(e) ==
  \/ CheckPause(e) \/ FindReady(e) \/ ReadLimit(e)
  \/ JoinAll(e) \/ Judge(e) \/ EndBatch(e)
  \/ Decide(e) \/ SetStatus(e) \/ Answer(e)
  \/ \E n \in Node : RunNode(e, n)

Next ==
  \/ \E t \in AgentTypes : Register(t)
  \/ \E d \in Definitions : LoadGraph(d)
  \/ LoadMap \/ LoadState \/ Pause \/ Resume
  \/ \E e \in Executors : Execute(e) \/ Step(e)

Spec == Init /\ [][Next]_vars

\* A task that calls execute is scheduled, and an attempt ends at its timeout.
\* Nothing is assumed of the callers.
OrchestratorFairness == \A e \in Executors : WF_vars(Step(e))

FairSpec == Spec /\ OrchestratorFairness

-----------------------------------------------------------------------------
(* Properties *)

\* The types; the retries left of a node never drop below zero.
TypeOK ==
  /\ registered \subseteq AgentTypes
  /\ {graph, node_map, workflow, loading.def} \subseteq Definitions \cup {NoWorkflow}
  /\ loading.step \in {"idle", "map", "state"}
  /\ DOMAIN node_statuses \subseteq Node \cup {Unknown} /\ Range(node_statuses) \subseteq NodeStatus
  /\ DOMAIN node_results \subseteq Node \cup {Unknown} /\ Range(node_results) \subseteq Outcome
  /\ status \in WorkflowStatus /\ paused \in BOOLEAN
  /\ \A e \in Executors :
       /\ exec[e].pc \in {"idle", "check", "find", "limit", "batch", "apply", "judge",
                          "decide", "set", "answer"}
       /\ DOMAIN exec[e].batch \subseteq Node
       /\ \A n \in DOMAIN exec[e].batch :
            exec[e].batch[n] \in [at : Finished \cup {"queued", "marked", "trying"}, left : Nat]

\* While no two calls overlap: a node that is no longer pending has only
\* dependencies that succeeded, so no step can make up for a failed one and no
\* node runs ahead of its inputs, whatever the batches, retries, pauses and
\* repeated executions were.  (find_ready_nodes, applied a batch at a time.)
DependenciesFirst ==
  ~overlapped =>
    \A edge \in workflow.edges :
      StatusOf(edge[2]) \in {"Pending", "none"} \/ StatusOf(edge[1]) = "Succeeded"

\* While no two calls overlap: a node is started once in all the executions of
\* a load, retries apart.  Its task may not be idempotent.
OneRunPerLoad == ~overlapped => \A n \in Node : runs[n] <= 1

\* While no two calls overlap and no result is being applied: the statuses and
\* the results, written under two inserts, tell of the same outcomes; and a
\* node is Running outside an execution only if an error was booked.
ResultsAgree ==
  ~overlapped /\ loading.step = "idle" =>
    /\ \A n \in DOMAIN node_results : StatusOf(n) = node_results[n]
    /\ \A n \in DOMAIN node_statuses :
         node_statuses[n] \in Outcome => n \in DOMAIN node_results
    /\ ~Busy /\ "Running" \in Range(node_statuses) => Unknown \in DOMAIN node_results

\* While no two calls overlap: the status an execution answers says of the
\* results it answers what its name says, although the two are read apart, and
\* nodes are left behind only because something failed (a cycle would leave some
\* without, were it not for validate); the statuses say what the results say.
AnswersAreHonest ==
  TypeOK /\ ResultsAgree /\ \A e \in Executors : exec[e].pc = "answer" /\ ~overlapped =>
    LET outcomes == Range(node_results)
        complete == Range(workflow.nodes) \subseteq DOMAIN node_results
    IN  CASE exec[e].final = "Succeeded" -> complete /\ outcomes \subseteq {"Succeeded"}
          [] exec[e].final = "Failed" -> complete /\ outcomes \subseteq Failure
          [] exec[e].final = "PartialFailure" ->
               complete /\ "Succeeded" \in outcomes /\ outcomes \cap Failure # {}
          [] OTHER -> exec[e].final = "Running" /\ ~complete /\ outcomes \cap Failure # {}

\* Once a pause is acknowledged each execution begins at most the one batch it
\* was about to look for, until it is resumed; one that met a failure under
\* fail_fast, or an error, starts no further batch, a later success in the same
\* batch notwithstanding.  Both hold while other calls overlap.
StopsHold ==
  \A e \in Executors :
    /\ late[e] <= 1
    /\ exec[e].failed => exec[e].pc \notin {"check", "find", "limit", "batch"}

\* execute returns, unless it is left paused for ever.
ExecutionsReturn == \A e \in Executors : <>[]paused \/ []<>(exec[e].pc = "idle")

=============================================================================
