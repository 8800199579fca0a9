-------------------------- MODULE OrchestratorProofs --------------------------
(* Proofs about Orchestrator and ReactAgent: the orchestrator's safety        *)
(* properties hold for every workflow, any number of executing tasks, loads,  *)
(* executions and pauses; the agent's for every limit of iterations and       *)
(* attempts.                                                                  *)
EXTENDS Orchestrator, ReactAgent, TLAPS

Entry   == [at : Finished \cup {"queued", "marked", "trying"}, left : Nat]
Batches == UNION {[S -> Entry] : S \in SUBSET Node}
Places  == {"idle", "check", "find", "limit", "batch", "apply", "judge", "decide", "set", "answer"}
ExecStates == [pc : Places, batch : Batches, permits : Nat, should_stop : BOOLEAN,
               final : WorkflowStatus, failed : BOOLEAN]
Workflows == Definitions \cup {NoWorkflow}

\* The types of all variables, of which TypeOK is a consequence.
WellTyped ==
  /\ registered \subseteq AgentTypes
  /\ graph \in Workflows /\ node_map \in Workflows /\ workflow \in Workflows
  /\ loading \in [step : {"idle", "map", "state"}, def : Workflows]
  /\ DOMAIN node_statuses \subseteq Node \cup {Unknown}
  /\ \A n \in DOMAIN node_statuses : node_statuses[n] \in NodeStatus
  /\ DOMAIN node_results \subseteq Node \cup {Unknown}
  /\ \A n \in DOMAIN node_results : node_results[n] \in Outcome
  /\ status \in WorkflowStatus /\ paused \in BOOLEAN
  /\ exec \in [Executors -> ExecStates]
  /\ runs \in [Node -> Nat] /\ late \in [Executors -> Nat]
  /\ overlapped \in BOOLEAN

-----------------------------------------------------------------------------
(* The operators of the model *)

\* A record with one of the domains of a batch.
LEMMA BatchFacts ==
  ASSUME NEW b \in Batches
  PROVE  /\ DOMAIN b \subseteq Node
         /\ \A n \in DOMAIN b : b[n] \in Entry
         /\ b \in [DOMAIN b -> Entry]
  BY DEF Batches

\* A batch of queued nodes, ...
LEMMA BatchNew ==
  ASSUME NEW S \in SUBSET Node
  PROVE  [n \in S |-> Queued] \in Batches
  <1>1. Queued \in Entry
    BY DEF Queued, Entry
  <1>2. [n \in S |-> Queued] \in [S -> Entry]
    BY <1>1
  <1>3. QED
    BY <1>2 DEF Batches

\* ... one with an entry changed ...
LEMMA BatchPut ==
  ASSUME NEW b \in Batches, NEW n, NEW x \in Entry
  PROVE  /\ [b EXCEPT ![n] = x] \in Batches
         /\ DOMAIN [b EXCEPT ![n] = x] = DOMAIN b
         /\ \A m \in DOMAIN b : [b EXCEPT ![n] = x][m] = IF m = n THEN x ELSE b[m]
  <1>1. b \in [DOMAIN b -> Entry] /\ DOMAIN b \in SUBSET Node
    BY BatchFacts
  <1>2. [b EXCEPT ![n] = x] \in [DOMAIN b -> Entry]
    BY <1>1
  <1>3. QED
    BY <1>1, <1>2 DEF Batches

\* ... and one with an entry removed.
LEMMA BatchWithout ==
  ASSUME NEW b \in Batches, NEW n
  PROVE  /\ Without(b, n) \in Batches
         /\ DOMAIN Without(b, n) = DOMAIN b \ {n}
         /\ \A m \in DOMAIN b \ {n} : Without(b, n)[m] = b[m]
  <1>1. b \in [DOMAIN b -> Entry] /\ DOMAIN b \in SUBSET Node
    BY BatchFacts
  <1>2. Without(b, n) \in [DOMAIN b \ {n} -> Entry]
    BY <1>1 DEF Without, Restrict
  <1>3. QED
    BY <1>1, <1>2 DEF Batches, Without, Restrict

\* The state of an executor that rests.
LEMMA RestingType == Resting \in ExecStates
  <1>1. << >> \in [{} -> Entry]
    OBVIOUS
  <1>2. << >> \in Batches
    BY <1>1 DEF Batches
  <1>3. QED
    BY <1>2 DEF Resting, ExecStates, Places, WorkflowStatus

\* An entry put into a map.
LEMMA PutFacts ==
  ASSUME NEW f, NEW x, NEW y
  PROVE  /\ DOMAIN Put(f, x, y) = DOMAIN f \cup {x}
         /\ Put(f, x, y)[x] = y
         /\ \A z \in DOMAIN f \ {x} : Put(f, x, y)[z] = f[z]
  BY DEF Put

\* A step of one executor leaves the state of the others alone.
LEMMA OneExecutor ==
  ASSUME exec \in [Executors -> ExecStates], NEW e \in Executors, NEW r \in ExecStates,
         exec' = [exec EXCEPT ![e] = r]
  PROVE  /\ exec' \in [Executors -> ExecStates]
         /\ exec'[e] = r
         /\ \A f \in Executors \ {e} : exec'[f] = exec[f]
  OBVIOUS

\* What a definition holds.
LEMMA WorkflowFacts ==
  ASSUME NEW d \in Workflows
  PROVE  /\ d.fail_fast \in BOOLEAN /\ d.max_concurrency \in Nat
         /\ Range(d.nodes) \subseteq Node /\ d.edges \subseteq Node \X Node
         /\ \A n \in Range(d.nodes) : d.retries[n] \in Nat
  <1>1. CASE d = NoWorkflow
    BY <1>1 DEF NoWorkflow, Range
  <1>2. CASE d \in Definitions
    <2>1. d.nodes \in Seq(Node)
      BY <1>2, OrchestratorConstants
    <2>2. Range(d.nodes) \subseteq Node
      BY <2>1 DEF Range
    <2>3. QED
      BY <1>2, <2>2, OrchestratorConstants
  <1>3. QED
    BY <1>1, <1>2 DEF Workflows

-----------------------------------------------------------------------------
(* What each step of an executor does to its state, and the types *)

\* exec changes at e alone, and what e holds there keeps its type.
OnlyAt(e) ==
  /\ exec' \in [Executors -> ExecStates]
  /\ \A f \in Executors \ {e} : exec'[f] = exec[f]

\* e keeps its batch, moves from place p to place q, and keeps the flags.
Moves(e, p, q) ==
  /\ exec[e].pc = p /\ exec'[e].pc = q
  /\ exec'[e].batch = exec[e].batch
  /\ exec'[e].should_stop = exec[e].should_stop
  /\ exec'[e].failed = exec[e].failed
  /\ exec'[e].final = exec[e].final

\* A call starts.
LEMMA ExecuteEffect ==
  ASSUME WellTyped, NEW e \in Executors, Execute(e)
  PROVE  /\ OnlyAt(e)
         /\ exec[e].pc = "idle" /\ exec'[e].pc = "check"
         /\ DOMAIN exec'[e].batch = {}
         /\ ~exec'[e].should_stop /\ ~exec'[e].failed
  <1> DEFINE r == [Resting EXCEPT !.pc = "check"]
  <1>1. r \in ExecStates /\ r.pc = "check" /\ r.batch = << >> /\ ~r.should_stop /\ ~r.failed
    BY RestingType DEF Resting, ExecStates, Places
  <1>2. exec' = [exec EXCEPT ![e] = r]
    BY DEF Execute
  <1>3. DOMAIN << >> = {}
    OBVIOUS
  <1>4. QED
    BY <1>1, <1>2, <1>3 DEF WellTyped, OnlyAt, Execute

\* A call returns its answer.
LEMMA AnswerEffect ==
  ASSUME WellTyped, NEW e \in Executors, Answer(e)
  PROVE  /\ OnlyAt(e)
         /\ exec[e].pc = "answer" /\ exec'[e].pc = "idle"
         /\ DOMAIN exec'[e].batch = {}
         /\ ~exec'[e].should_stop /\ ~exec'[e].failed
  <1>1. Resting.pc = "idle" /\ DOMAIN Resting.batch = {} /\ ~Resting.should_stop /\ ~Resting.failed
    BY DEF Resting
  <1>2. QED
    BY <1>1, RestingType DEF WellTyped, OnlyAt, Answer

\* The head of the loop.
LEMMA CheckPauseEffect ==
  ASSUME WellTyped, NEW e \in Executors, CheckPause(e)
  PROVE  OnlyAt(e) /\ Moves(e, "check", "find")
  BY DEF WellTyped, OnlyAt, Moves, CheckPause, ExecStates, Places

\* The ready nodes become the batch.
LEMMA FindReadyEffect ==
  ASSUME WellTyped, NEW e \in Executors, FindReady(e)
  PROVE  /\ OnlyAt(e)
         /\ exec[e].pc = "find"
         /\ exec'[e].pc = IF ReadyNodes = {} THEN "decide" ELSE "limit"
         /\ exec'[e].batch = [n \in ReadyNodes |-> Queued]
         /\ ~exec'[e].should_stop /\ exec'[e].failed = exec[e].failed
         /\ ReadyNodes \subseteq Range(node_map.nodes)
  <1>1. ReadyNodes \subseteq Range(node_map.nodes) /\ ReadyNodes \subseteq Node
    BY WorkflowFacts DEF ReadyNodes, WellTyped
  <1>2. [n \in ReadyNodes |-> Queued] \in Batches
    BY <1>1, BatchNew
  <1> DEFINE b == [n \in ReadyNodes |-> Queued]
             p == IF ReadyNodes = {} THEN "decide" ELSE "limit"
  <1>3. exec' = [exec EXCEPT ![e].pc = p, ![e].batch = b, ![e].should_stop = FALSE]
    BY DEF FindReady
  <1>4. p \in Places /\ b \in Batches
    BY <1>2 DEF Places
  <1> HIDE DEF b, p
  <1> DEFINE r == [exec[e] EXCEPT !.pc = p, !.batch = b, !.should_stop = FALSE]
  <1>5. exec' \in [Executors -> ExecStates] /\ \A f \in Executors \ {e} : exec'[f] = exec[f]
    <2>1. exec[e] \in ExecStates /\ exec \in [Executors -> ExecStates]
      BY DEF WellTyped
    <2>2. r \in ExecStates
      BY <1>4, <2>1 DEF ExecStates
    <2>3. exec' = [exec EXCEPT ![e] = r]
      BY <1>3, <2>1
    <2> HIDE DEF r
    <2>4. QED
      BY <2>1, <2>2, <2>3, OneExecutor
  <1>6. exec'[e].pc = p /\ exec'[e].batch = b /\ ~exec'[e].should_stop /\ exec'[e].failed = exec[e].failed
    BY <1>3, <1>4 DEF WellTyped, ExecStates
  <1>7. QED
    BY <1>1, <1>5, <1>6 DEF OnlyAt, FindReady, p, b

\* The concurrency limit becomes the permits.
LEMMA ReadLimitEffect ==
  ASSUME WellTyped, NEW e \in Executors, ReadLimit(e)
  PROVE  OnlyAt(e) /\ Moves(e, "limit", "batch")
  <1>1. workflow.max_concurrency \in Nat
    BY WorkflowFacts DEF WellTyped
  <1>2. QED
    BY <1>1 DEF WellTyped, OnlyAt, Moves, ReadLimit, ExecStates, Places

\* e writes x for the node n of its batch.
Writes(e, n, x) ==
  /\ exec[e].pc = "batch" /\ exec'[e].pc = "batch"
  /\ n \in DOMAIN exec[e].batch /\ n \in Node
  /\ DOMAIN exec'[e].batch = DOMAIN exec[e].batch
  /\ \A m \in DOMAIN exec[e].batch : exec'[e].batch[m] = IF m = n THEN x ELSE exec[e].batch[m]
  /\ exec'[e].should_stop = exec[e].should_stop
  /\ exec'[e].failed = exec[e].failed

\* A step that writes a node's status.
LEMMA WriteEffect ==
  ASSUME WellTyped, NEW e \in Executors, NEW n, NEW x \in Entry, InBatch(e, n),
         exec' = [exec EXCEPT ![e].batch[n] = x]
  PROVE  OnlyAt(e) /\ Writes(e, n, x)
  <1> DEFINE b == [exec[e].batch EXCEPT ![n] = x]
  <1>1. exec[e].batch \in Batches
    BY DEF WellTyped, ExecStates
  <1>2. /\ b \in Batches /\ DOMAIN b = DOMAIN exec[e].batch
        /\ \A m \in DOMAIN exec[e].batch : b[m] = IF m = n THEN x ELSE exec[e].batch[m]
    BY <1>1, BatchPut
  <1>3. exec' = [exec EXCEPT ![e].batch = b]
    OBVIOUS
  <1> HIDE DEF b
  <1>4. OnlyAt(e) /\ exec'[e] = [exec[e] EXCEPT !.batch = b]
    BY <1>2, <1>3 DEF WellTyped, ExecStates, OnlyAt
  <1>5. exec'[e].batch = b /\ exec'[e].pc = exec[e].pc /\ exec'[e].should_stop = exec[e].should_stop
        /\ exec'[e].failed = exec[e].failed
    BY <1>4 DEF WellTyped, ExecStates
  <1>6. n \in Node
    BY <1>1, BatchFacts DEF InBatch
  <1>7. QED
    BY <1>2, <1>4, <1>5, <1>6 DEF Writes, InBatch

\* A node starts if a permit is left.
LEMMA StartEffect ==
  ASSUME WellTyped, NEW e \in Executors, NEW n \in Node, Start(e, n)
  PROVE  /\ OnlyAt(e) /\ At(e, n) = "queued"
         /\ \E x \in Entry : Writes(e, n, x) /\ x.at = "marked"
  <1> DEFINE x == [exec[e].batch[n] EXCEPT !.at = "marked"]
  <1>1. n \in DOMAIN exec[e].batch /\ exec[e].batch \in Batches
    BY DEF WellTyped, ExecStates, Start, InBatch
  <1>2. exec[e].batch[n] \in Entry
    BY <1>1, BatchFacts
  <1>3. x \in Entry /\ x.at = "marked"
    BY <1>2 DEF Entry
  <1>4. exec' = [exec EXCEPT ![e].batch[n] = x]
    BY DEF Start
  <1>5. OnlyAt(e) /\ Writes(e, n, x)
    BY <1>3, <1>4, WriteEffect DEF Start
  <1>6. QED
    BY <1>3, <1>5 DEF Start

\* The agent of a node is looked up.
LEMMA ResolveEffect ==
  ASSUME WellTyped, NEW e \in Executors, NEW n \in Node, Resolve(e, n)
  PROVE  /\ OnlyAt(e) /\ At(e, n) = "marked"
         /\ \E x \in Entry : Writes(e, n, x) /\ x.at \in {"trying", "Error"}
  <1> DEFINE x == IF n \in Range(workflow.nodes) /\ workflow.agent[n] \in registered
                  THEN [at |-> "trying", left |-> workflow.retries[n]]
                  ELSE [at |-> "Error", left |-> 0]
  <1>1. n \in Range(workflow.nodes) => workflow.retries[n] \in Nat
    BY WorkflowFacts DEF WellTyped
  <1>2. x \in Entry /\ x.at \in {"trying", "Error"}
    BY <1>1 DEF Entry, Finished
  <1>3. exec' = [exec EXCEPT ![e].batch[n] = x] /\ InBatch(e, n) /\ At(e, n) = "marked"
    BY DEF Resolve
  <1> HIDE DEF x
  <1>4. QED
    BY <1>2, <1>3, WriteEffect

\* An attempt at a node succeeds, fails or is repeated.
LEMMA AttemptEffect ==
  ASSUME WellTyped, NEW e \in Executors, NEW n \in Node, NEW o \in Outcome, Attempt(e, n, o)
  PROVE  /\ OnlyAt(e) /\ At(e, n) = "trying"
         /\ \E x \in Entry : Writes(e, n, x) /\ x.at \in Outcome \cup {"trying"}
  <1> DEFINE y == exec[e].batch[n]
  <1>1. InBatch(e, n) /\ At(e, n) = "trying" /\ exec' = [exec EXCEPT ![e].batch[n] = AfterAttempt(y, o)]
    BY DEF Attempt
  <1>2. y \in Entry /\ y.at = "trying"
    BY <1>1, BatchFacts DEF InBatch, WellTyped, ExecStates, At
  <1>3. AfterAttempt(y, o) \in Entry /\ AfterAttempt(y, o).at \in Outcome \cup {"trying"}
    BY <1>2 DEF Entry, Finished, AfterAttempt
  <1> HIDE DEF y
  <1>4. QED
    BY <1>1, <1>3, WriteEffect

\* The batch has finished.
LEMMA JoinAllEffect ==
  ASSUME WellTyped, NEW e \in Executors, JoinAll(e)
  PROVE  OnlyAt(e) /\ Moves(e, "batch", "apply") /\ \A n \in DOMAIN exec[e].batch : At(e, n) \in Finished
  BY DEF WellTyped, OnlyAt, Moves, JoinAll, ExecStates, Places

\* A failure is judged by fail_fast.
LEMMA JudgeEffect ==
  ASSUME WellTyped, NEW e \in Executors, Judge(e)
  PROVE  /\ OnlyAt(e)
         /\ exec[e].pc = "judge" /\ exec'[e].pc = "apply"
         /\ exec'[e].batch = exec[e].batch
         /\ exec'[e].should_stop = (workflow.fail_fast \/ exec[e].should_stop)
         /\ exec'[e].failed = (workflow.fail_fast \/ exec[e].failed)
  <1>1. workflow.fail_fast \in BOOLEAN
    BY WorkflowFacts DEF WellTyped
  <1> DEFINE s == workflow.fail_fast \/ exec[e].should_stop
             g == workflow.fail_fast \/ exec[e].failed
  <1>2. exec' = [exec EXCEPT ![e].pc = "apply", ![e].should_stop = s, ![e].failed = g]
    BY DEF Judge, WellTyped, ExecStates
  <1>3. s \in BOOLEAN /\ g \in BOOLEAN
    BY <1>1
  <1> HIDE DEF s, g
  <1>4. OnlyAt(e)
    <2> DEFINE r == [exec[e] EXCEPT !.pc = "apply", !.should_stop = s, !.failed = g]
    <2>1. exec[e] \in ExecStates /\ exec \in [Executors -> ExecStates]
      BY DEF WellTyped
    <2>2. r \in ExecStates
      BY <1>3, <2>1 DEF ExecStates, Places
    <2>3. exec' = [exec EXCEPT ![e] = r]
      BY <1>2, <2>1
    <2> HIDE DEF r
    <2>4. QED
      BY <2>1, <2>2, <2>3, OneExecutor DEF OnlyAt
  <1>5. exec'[e].pc = "apply" /\ exec'[e].batch = exec[e].batch
        /\ exec'[e].should_stop = s /\ exec'[e].failed = g
    BY <1>2 DEF WellTyped, ExecStates
  <1>6. QED
    BY <1>4, <1>5 DEF Judge, s, g

\* e takes the node n off its batch.
Takes(e, n) ==
  /\ exec[e].pc = "apply" /\ n \in DOMAIN exec[e].batch
  /\ DOMAIN exec'[e].batch = DOMAIN exec[e].batch \ {n}
  /\ \A m \in DOMAIN exec[e].batch \ {n} : exec'[e].batch[m] = exec[e].batch[m]

\* A result is written down.
LEMMA ApplyResultEffect ==
  ASSUME WellTyped, NEW e \in Executors, NEW n \in Node, ApplyResult(e, n)
  PROVE  /\ OnlyAt(e) /\ Takes(e, n) /\ At(e, n) \in Outcome
         /\ exec'[e].pc = IF At(e, n) \in Failure THEN "judge" ELSE "apply"
         /\ exec'[e].should_stop = exec[e].should_stop
         /\ exec'[e].failed = exec[e].failed
  <1> DEFINE b == Without(exec[e].batch, n)
             p == IF At(e, n) \in Failure THEN "judge" ELSE "apply"
  <1>1. exec[e].batch \in Batches
    BY DEF WellTyped, ExecStates
  <1>2. /\ b \in Batches /\ DOMAIN b = DOMAIN exec[e].batch \ {n}
        /\ \A m \in DOMAIN exec[e].batch \ {n} : b[m] = exec[e].batch[m]
    BY <1>1, BatchWithout
  <1>3. exec' = [exec EXCEPT ![e].batch = b, ![e].pc = p]
    BY DEF ApplyResult
  <1>4. p \in Places
    BY DEF Places
  <1> HIDE DEF b, p
  <1>5. OnlyAt(e)
    <2> DEFINE r == [exec[e] EXCEPT !.batch = b, !.pc = p]
    <2>1. exec[e] \in ExecStates /\ exec \in [Executors -> ExecStates]
      BY DEF WellTyped
    <2>2. r \in ExecStates
      BY <1>2, <1>4, <2>1 DEF ExecStates, Places
    <2>3. exec' = [exec EXCEPT ![e] = r]
      BY <1>3, <2>1
    <2> HIDE DEF r
    <2>4. QED
      BY <2>1, <2>2, <2>3, OneExecutor DEF OnlyAt
  <1>6. exec'[e].pc = p /\ exec'[e].batch = b
        /\ exec'[e].should_stop = exec[e].should_stop /\ exec'[e].failed = exec[e].failed
    BY <1>3 DEF WellTyped, ExecStates
  <1>7. QED
    BY <1>2, <1>5, <1>6 DEF Takes, ApplyResult, p

\* An error is written down.
LEMMA ApplyErrorEffect ==
  ASSUME WellTyped, NEW e \in Executors, NEW n \in Node, ApplyError(e, n)
  PROVE  /\ OnlyAt(e) /\ Takes(e, n) /\ At(e, n) = "Error"
         /\ exec'[e].pc = "apply" /\ exec'[e].should_stop /\ exec'[e].failed
  <1> DEFINE b == Without(exec[e].batch, n)
  <1>1. exec[e].batch \in Batches
    BY DEF WellTyped, ExecStates
  <1>2. /\ b \in Batches /\ DOMAIN b = DOMAIN exec[e].batch \ {n}
        /\ \A m \in DOMAIN exec[e].batch \ {n} : b[m] = exec[e].batch[m]
    BY <1>1, BatchWithout
  <1>3. exec' = [exec EXCEPT ![e].batch = b, ![e].should_stop = TRUE, ![e].failed = TRUE]
    BY DEF ApplyError
  <1> HIDE DEF b
  <1>4. OnlyAt(e)
    <2> DEFINE r == [exec[e] EXCEPT !.batch = b, !.should_stop = TRUE, !.failed = TRUE]
    <2>1. exec[e] \in ExecStates /\ exec \in [Executors -> ExecStates]
      BY DEF WellTyped
    <2>2. r \in ExecStates
      BY <1>2, <2>1 DEF ExecStates, Places
    <2>3. exec' = [exec EXCEPT ![e] = r]
      BY <1>3, <2>1
    <2> HIDE DEF r
    <2>4. QED
      BY <2>1, <2>2, <2>3, OneExecutor DEF OnlyAt
  <1>5. exec'[e].pc = exec[e].pc /\ exec'[e].batch = b /\ exec'[e].should_stop /\ exec'[e].failed
    BY <1>3 DEF WellTyped, ExecStates
  <1>6. QED
    BY <1>2, <1>4, <1>5 DEF Takes, ApplyError

\* A batch has been written down.
LEMMA EndBatchEffect ==
  ASSUME WellTyped, NEW e \in Executors, EndBatch(e)
  PROVE  /\ OnlyAt(e) /\ Moves(e, "apply", IF exec[e].should_stop THEN "decide" ELSE "check")
         /\ DOMAIN exec[e].batch = {}
  BY DEF WellTyped, OnlyAt, Moves, EndBatch, ExecStates, Places

\* The statuses are of the type of the answer.
LEMMA FinalType == FinalStatus \in {"Running", "PartialFailure", "Failed", "Succeeded"}
  BY DEF FinalStatus

\* The final status is computed.
LEMMA DecideEffect ==
  ASSUME WellTyped, NEW e \in Executors, Decide(e)
  PROVE  /\ OnlyAt(e)
         /\ exec[e].pc = "decide" /\ exec'[e].pc = "set" /\ exec'[e].final = FinalStatus
         /\ exec'[e].batch = exec[e].batch
         /\ exec'[e].should_stop = exec[e].should_stop
         /\ exec'[e].failed = exec[e].failed
  <1>1. FinalStatus \in WorkflowStatus
    BY FinalType DEF WorkflowStatus
  <1>2. QED
    BY <1>1 DEF WellTyped, OnlyAt, Decide, ExecStates, Places

\* The workflow gets the final status.
LEMMA SetStatusEffect ==
  ASSUME WellTyped, NEW e \in Executors, SetStatus(e)
  PROVE  OnlyAt(e) /\ Moves(e, "set", "answer") /\ status' = exec[e].final
  BY DEF WellTyped, OnlyAt, Moves, SetStatus, ExecStates, Places

-----------------------------------------------------------------------------
(* WellTyped *)

\* The types hold at the start, ...
LEMMA TypesInit == Init => WellTyped
  <1> SUFFICES ASSUME Init PROVE WellTyped
    OBVIOUS
  <1>1. exec \in [Executors -> ExecStates]
    BY RestingType DEF Init
  <1>2. DOMAIN node_statuses = {} /\ DOMAIN node_results = {}
    BY DEF Init
  <1>3. loading \in [step : {"idle", "map", "state"}, def : Workflows]
    BY DEF Init, Workflows
  <1>4. runs \in [Node -> Nat] /\ late \in [Executors -> Nat]
    BY DEF Init
  <1>5. QED
    BY <1>1, <1>2, <1>3, <1>4 DEF Init, WellTyped, WorkflowStatus, Workflows

\* ... after the steps of a node, ...
LEMMA TypesNode ==
  ASSUME WellTyped, NEW e \in Executors, NEW n \in Node, RunNode(e, n)
  PROVE  WellTyped'
  <1>1. CASE Start(e, n)
    <2>1. exec' \in [Executors -> ExecStates]
      BY <1>1, StartEffect DEF OnlyAt
    <2>2. DOMAIN node_statuses' = DOMAIN node_statuses \cup {n}
          /\ \A m \in DOMAIN node_statuses' : node_statuses'[m] \in NodeStatus
      BY <1>1 DEF Start, Put, WellTyped, NodeStatus
    <2>3. QED
      BY <1>1, <2>1, <2>2 DEF Start, WellTyped
  <1>2. CASE Resolve(e, n)
    BY <1>2, ResolveEffect DEF OnlyAt, Resolve, WellTyped, shared, history
  <1>3. ASSUME NEW o \in Outcome, Attempt(e, n, o) PROVE WellTyped'
    BY <1>3, AttemptEffect DEF OnlyAt, Attempt, WellTyped, shared, history
  <1>4. CASE ApplyResult(e, n)
    <2>1. exec' \in [Executors -> ExecStates] /\ At(e, n) \in Outcome
      BY <1>4, ApplyResultEffect DEF OnlyAt
    <2>2. DOMAIN node_statuses' = DOMAIN node_statuses \cup {n}
          /\ \A m \in DOMAIN node_statuses' : node_statuses'[m] \in NodeStatus
      BY <1>4, <2>1 DEF ApplyResult, Put, Booked, WellTyped, NodeStatus
    <2>3. DOMAIN node_results' = DOMAIN node_results \cup {n}
          /\ \A m \in DOMAIN node_results' : node_results'[m] \in Outcome
      BY <1>4, <2>1 DEF ApplyResult, Put, WellTyped
    <2>4. QED
      BY <1>4, <2>1, <2>2, <2>3 DEF ApplyResult, WellTyped, history
  <1>5. CASE ApplyError(e, n)
    <2>1. exec' \in [Executors -> ExecStates]
      BY <1>5, ApplyErrorEffect DEF OnlyAt
    <2>2. DOMAIN node_statuses' = DOMAIN node_statuses \cup {Unknown}
          /\ \A m \in DOMAIN node_statuses' : node_statuses'[m] \in NodeStatus
      BY <1>5 DEF ApplyError, Put, WellTyped, NodeStatus, Outcome
    <2>3. DOMAIN node_results' = DOMAIN node_results \cup {Unknown}
          /\ \A m \in DOMAIN node_results' : node_results'[m] \in Outcome
      BY <1>5 DEF ApplyError, Put, WellTyped, Outcome
    <2>4. QED
      BY <1>5, <2>1, <2>2, <2>3 DEF ApplyError, WellTyped, history
  <1>6. QED
    BY <1>1, <1>2, <1>3, <1>4, <1>5 DEF RunNode

\* ... of an execution ...
LEMMA TypesExecutor ==
  ASSUME WellTyped, NEW e \in Executors, Execute(e) \/ Step(e)
  PROVE  WellTyped'
  <1>1. CASE Execute(e)
    BY <1>1, ExecuteEffect DEF OnlyAt, Execute, WellTyped, WorkflowStatus, Busy
  <1>2. CASE CheckPause(e)
    BY <1>2, CheckPauseEffect DEF OnlyAt, CheckPause, WellTyped, shared, history
  <1>3. CASE FindReady(e)
    <2>1. late' \in [Executors -> Nat]
      <3> DEFINE k == IF paused /\ ReadyNodes # {} THEN 1 ELSE 0
      <3>1. k \in Nat /\ late' = [late EXCEPT ![e] = late[e] + k]
        BY <1>3 DEF FindReady
      <3> HIDE DEF k
      <3>2. QED
        BY <3>1 DEF WellTyped
    <2>2. QED
      BY <1>3, <2>1, FindReadyEffect DEF OnlyAt, FindReady, WellTyped, shared
  <1>4. CASE ReadLimit(e)
    BY <1>4, ReadLimitEffect DEF OnlyAt, ReadLimit, WellTyped, shared, history
  <1>5. CASE JoinAll(e)
    BY <1>5, JoinAllEffect DEF OnlyAt, JoinAll, WellTyped, shared, history
  <1>6. CASE Judge(e)
    BY <1>6, JudgeEffect DEF OnlyAt, Judge, WellTyped, shared, history
  <1>7. CASE EndBatch(e)
    BY <1>7, EndBatchEffect DEF OnlyAt, EndBatch, WellTyped, shared, history
  <1>8. CASE Decide(e)
    BY <1>8, DecideEffect DEF OnlyAt, Decide, WellTyped, shared, history
  <1>9. CASE SetStatus(e)
    <2>1. exec[e].final \in WorkflowStatus
      BY DEF WellTyped, ExecStates
    <2>2. QED
      BY <1>9, <2>1, SetStatusEffect DEF OnlyAt, SetStatus, WellTyped, history
  <1>10. CASE Answer(e)
    BY <1>10, AnswerEffect DEF OnlyAt, Answer, WellTyped, shared, history
  <1>11. QED
    BY <1>1, <1>2, <1>3, <1>4, <1>5, <1>6, <1>7, <1>8, <1>9, <1>10, TypesNode DEF Step

\* The steps outside executions.
Outside == \/ \E t \in AgentTypes : Register(t)
           \/ \E d \in Definitions : LoadGraph(d)
           \/ LoadMap \/ LoadState \/ Pause \/ Resume

\* Steps belong to an execution or to none.
LEMMA NextSplit ==
  [Next]_vars <=> Outside \/ (\E e \in Executors : Execute(e) \/ Step(e)) \/ UNCHANGED vars
  BY DEF Next, Outside

\* ... and of the calls beside it.
LEMMA TypesOutside ==
  ASSUME WellTyped, Outside \/ UNCHANGED vars
  PROVE  WellTyped'
  <1>1. ASSUME NEW t \in AgentTypes, Register(t) PROVE WellTyped'
    BY <1>1 DEF Register, WellTyped, shared, history
  <1>2. ASSUME NEW d \in Definitions, LoadGraph(d) PROVE WellTyped'
    BY <1>2 DEF LoadGraph, WellTyped, shared, Workflows, Busy
  <1>3. CASE LoadMap
    BY <1>3 DEF LoadMap, WellTyped, shared, Busy
  <1>4. CASE LoadState
    <2>1. loading.def \in Workflows
      BY DEF WellTyped
    <2>2. Range(loading.def.nodes) \subseteq Node
      BY <2>1, WorkflowFacts
    <2>3. DOMAIN node_statuses' \subseteq Node
          /\ \A m \in DOMAIN node_statuses' : node_statuses'[m] \in NodeStatus
      BY <1>4, <2>2 DEF LoadState, NodeStatus
    <2>4. DOMAIN node_results' = {}
      BY <1>4 DEF LoadState
    <2>5. runs' \in [Node -> Nat]
      BY <1>4 DEF LoadState
    <2>6. QED
      BY <1>4, <2>1, <2>3, <2>4, <2>5 DEF LoadState, WellTyped, WorkflowStatus, Workflows, Busy
  <1>5. CASE Pause
    BY <1>5 DEF Pause, WellTyped, WorkflowStatus
  <1>6. CASE Resume
    BY <1>6 DEF Resume, WellTyped, WorkflowStatus, history
  <1>7. CASE UNCHANGED vars
    BY <1>7 DEF vars, WellTyped, shared, history
  <1>8. QED
    BY <1>1, <1>2, <1>3, <1>4, <1>5, <1>6, <1>7 DEF Outside

\* Every step keeps the types.
LEMMA TypesStep == WellTyped /\ [Next]_vars => WellTyped'
  BY NextSplit, TypesExecutor, TypesOutside

\* They include the type invariant.
LEMMA TypesImply == WellTyped => TypeOK
  <1> SUFFICES ASSUME WellTyped PROVE TypeOK
    OBVIOUS
  <1>1. Range(node_statuses) \subseteq NodeStatus /\ Range(node_results) \subseteq Outcome
    BY DEF WellTyped, Range
  <1>2. ASSUME NEW e \in Executors
        PROVE  /\ exec[e].pc \in Places
               /\ DOMAIN exec[e].batch \subseteq Node
               /\ \A n \in DOMAIN exec[e].batch : exec[e].batch[n] \in Entry
    <2>1. exec[e].batch \in Batches /\ exec[e].pc \in Places
      BY DEF WellTyped, ExecStates
    <2>2. QED
      BY <2>1, BatchFacts
  <1>3. QED
    BY <1>1, <1>2 DEF WellTyped, TypeOK, Places, Entry, Workflows

\* The types hold, and a node never has fewer than no retries left.
THEOREM OrchestratorTypes == Spec => []TypeOK
  <1>1. Spec => []WellTyped
    BY TypesInit, TypesStep, PTL DEF Spec
  <1>2. QED
    BY <1>1, TypesImply, PTL

-----------------------------------------------------------------------------
(* Pauses and failures stop executions *)

\* A pause that e has not seen leaves it at most the batch it looks for; one
\* that met a failure is on its way to the answer.
StopInv ==
  \A e \in Executors :
    /\ late[e] <= 1
    /\ exec[e].pc = "find" /\ paused => late[e] = 0
    /\ exec[e].failed => exec[e].should_stop /\ exec[e].pc \in {"apply", "judge", "decide", "set", "answer"}

StopAt(e) ==
  /\ late[e] <= 1
  /\ exec[e].pc = "find" /\ paused => late[e] = 0
  /\ exec[e].failed => exec[e].should_stop /\ exec[e].pc \in {"apply", "judge", "decide", "set", "answer"}

\* An executor that a step passes by keeps its part, unless the step pauses.
LEMMA StopKept ==
  ASSUME StopInv, NEW e \in Executors, OnlyAt(e), paused' => paused,
         \A f \in Executors \ {e} : late'[f] = late[f], StopAt(e)'
  PROVE  StopInv'
  BY DEF StopInv, StopAt, OnlyAt

\* The steps of a node keep the stops.
LEMMA StopNode ==
  ASSUME WellTyped, StopInv, NEW e \in Executors, NEW n \in Node, RunNode(e, n)
  PROVE  StopInv'
  <1>1. late' = late /\ paused' = paused
    BY DEF RunNode, Start, Resolve, Attempt, ApplyResult, ApplyError, shared, history
  <1>2. ASSUME NEW x, OnlyAt(e), Writes(e, n, x) PROVE StopInv'
    BY <1>1, <1>2, StopKept DEF StopInv, StopAt, Writes
  <1>3. CASE Start(e, n)
    BY <1>2, <1>3, StartEffect
  <1>4. CASE Resolve(e, n)
    BY <1>2, <1>4, ResolveEffect
  <1>5. ASSUME NEW o \in Outcome, Attempt(e, n, o) PROVE StopInv'
    BY <1>2, <1>5, AttemptEffect
  <1>6. CASE ApplyResult(e, n)
    BY <1>1, <1>6, ApplyResultEffect, StopKept DEF StopInv, StopAt, Takes
  <1>7. CASE ApplyError(e, n)
    BY <1>1, <1>7, ApplyErrorEffect, StopKept DEF StopInv, StopAt, Takes
  <1>8. QED
    BY <1>3, <1>4, <1>5, <1>6, <1>7 DEF RunNode

\* So do those of an execution ...
LEMMA StopExecutor ==
  ASSUME WellTyped, StopInv, NEW e \in Executors, Execute(e) \/ Step(e)
  PROVE  StopInv'
  <1>1. CASE Execute(e)
    BY <1>1, ExecuteEffect, StopKept DEF StopInv, StopAt, Execute
  <1>2. CASE CheckPause(e)
    <2>1. late' = late /\ paused' = paused
      BY <1>2 DEF CheckPause, shared, history
    <2>2. OnlyAt(e) /\ StopAt(e)'
      BY <1>2, <2>1, CheckPauseEffect DEF StopInv, StopAt, Moves, CheckPause
    <2>3. QED
      BY <2>1, <2>2, StopKept
  <1>3. CASE FindReady(e)
    <2>1. exec'[e].pc # "find" /\ exec'[e].failed = exec[e].failed /\ ~exec[e].failed
      BY <1>3, FindReadyEffect DEF StopInv
    <2>2. late'[e] <= 1
      <3>1. late'[e] = late[e] + (IF paused /\ ReadyNodes # {} THEN 1 ELSE 0)
        BY <1>3 DEF FindReady, WellTyped
      <3>2. late[e] \in Nat /\ late[e] <= 1 /\ (paused => late[e] = 0)
        BY <1>3 DEF FindReady, StopInv, WellTyped
      <3>3. QED
        BY <3>1, <3>2
    <2>3. paused' = paused /\ \A f \in Executors \ {e} : late'[f] = late[f]
      BY <1>3 DEF FindReady, shared, WellTyped
    <2>4. QED
      BY <1>3, <2>1, <2>2, <2>3, FindReadyEffect, StopKept DEF StopAt
  <1>4. CASE ReadLimit(e)
    <2>1. late' = late /\ paused' = paused
      BY <1>4 DEF ReadLimit, shared, history
    <2>2. OnlyAt(e) /\ StopAt(e)'
      BY <1>4, <2>1, ReadLimitEffect DEF StopInv, StopAt, Moves
    <2>3. QED
      BY <2>1, <2>2, StopKept
  <1>5. CASE JoinAll(e)
    <2>1. late' = late /\ paused' = paused
      BY <1>5 DEF JoinAll, shared, history
    <2>2. OnlyAt(e) /\ StopAt(e)'
      BY <1>5, <2>1, JoinAllEffect DEF StopInv, StopAt, Moves
    <2>3. QED
      BY <2>1, <2>2, StopKept
  <1>6. CASE Judge(e)
    <2>1. late' = late /\ paused' = paused
      BY <1>6 DEF Judge, shared, history
    <2>2. OnlyAt(e) /\ StopAt(e)'
      BY <1>6, <2>1, JudgeEffect DEF StopInv, StopAt, Moves
    <2>3. QED
      BY <2>1, <2>2, StopKept
  <1>7. CASE EndBatch(e)
    <2>1. late' = late /\ paused' = paused
      BY <1>7 DEF EndBatch, shared, history
    <2>2. OnlyAt(e) /\ StopAt(e)'
      BY <1>7, <2>1, EndBatchEffect DEF StopInv, StopAt, Moves
    <2>3. QED
      BY <2>1, <2>2, StopKept
  <1>8. CASE Decide(e)
    <2>1. late' = late /\ paused' = paused
      BY <1>8 DEF Decide, shared, history
    <2>2. OnlyAt(e) /\ StopAt(e)'
      BY <1>8, <2>1, DecideEffect DEF StopInv, StopAt, Moves
    <2>3. QED
      BY <2>1, <2>2, StopKept
  <1>9. CASE SetStatus(e)
    <2>1. late' = late /\ paused' = paused
      BY <1>9 DEF SetStatus, shared, history
    <2>2. OnlyAt(e) /\ StopAt(e)'
      BY <1>9, <2>1, SetStatusEffect DEF StopInv, StopAt, Moves
    <2>3. QED
      BY <2>1, <2>2, StopKept
  <1>10. CASE Answer(e)
    <2>1. late' = late /\ paused' = paused
      BY <1>10 DEF Answer, shared, history
    <2>2. OnlyAt(e) /\ StopAt(e)'
      BY <1>10, <2>1, AnswerEffect DEF StopInv, StopAt, Moves
    <2>3. QED
      BY <2>1, <2>2, StopKept
  <1>11. QED
    BY <1>1, <1>2, <1>3, <1>4, <1>5, <1>6, <1>7, <1>8, <1>9, <1>10, StopNode DEF Step

\* ... and of the calls beside it.
LEMMA StopOutside ==
  ASSUME WellTyped, StopInv, Outside \/ UNCHANGED vars
  PROVE  StopInv'
  <1>1. CASE Pause
    BY <1>1 DEF Pause, StopInv
  <1>2. CASE Resume
    BY <1>2 DEF Resume, StopInv, history
  <1>3. CASE ~Pause /\ ~Resume
    <2>1. exec' = exec /\ late' = late /\ paused' = paused
      BY <1>3 DEF Outside, Register, LoadGraph, LoadMap, LoadState, vars, shared, history
    <2>2. QED
      BY <2>1 DEF StopInv
  <1>4. QED
    BY <1>1, <1>2, <1>3

\* Pausing stops an execution at its next batch, and a failure under fail_fast,
\* or an error, stops it for good, whatever else is called meanwhile.
THEOREM OrchestratorStops == Spec => []StopsHold
  <1>1. Init => WellTyped /\ StopInv
    BY TypesInit DEF Init, StopInv, Resting
  <1>2. WellTyped /\ StopInv /\ [Next]_vars => WellTyped' /\ StopInv'
    BY TypesStep, NextSplit, StopExecutor, StopOutside
  <1>3. WellTyped /\ StopInv => StopsHold
    BY DEF StopInv, StopsHold
  <1>4. QED
    BY <1>1, <1>2, <1>3, PTL DEF Spec

-----------------------------------------------------------------------------
(* While no two calls overlap *)

\* A load replaces the graph, the map and the state one after the other.
LoadInv ==
  /\ loading.step = "idle" => graph = workflow /\ node_map = workflow
  /\ loading.step # "idle" => loading.def \in Definitions /\ Valid(loading.def) /\ graph = loading.def
  /\ loading.step = "state" => node_map = loading.def
  /\ workflow # NoWorkflow => workflow \in Definitions /\ Valid(workflow)

RestInv ==
  \A e \in Executors : exec[e].pc = "idle" => DOMAIN exec[e].batch = {} /\ ~exec[e].should_stop

Alone ==
  ~overlapped =>
    \A e \in Executors : exec[e].pc # "idle" =>
      /\ loading.step = "idle"
      /\ \A f \in Executors : exec[f].pc # "idle" => f = e

HasFailure == \E n \in DOMAIN node_results : node_results[n] \in Failure

\* Each node of the workflow has a status, and its dependencies succeeded before
\* it was started, which happened at most once.
StatusInv ==
  /\ Range(workflow.nodes) \subseteq DOMAIN node_statuses
  /\ DOMAIN node_statuses \subseteq Range(workflow.nodes) \cup {Unknown}
  /\ \A n \in DOMAIN node_statuses : node_statuses[n] # "Skipped"
  /\ \A edge \in workflow.edges :
       StatusOf(edge[2]) \in {"Pending", "none"} \/ StatusOf(edge[1]) = "Succeeded"
  /\ \A n \in Node : runs[n] = IF StatusOf(n) \in {"Pending", "none"} THEN 0 ELSE 1

\* The results are the outcomes among the statuses.
ResultInv ==
  /\ \A n \in DOMAIN node_results : n \in DOMAIN node_statuses /\ node_statuses[n] = node_results[n]
  /\ \A n \in DOMAIN node_statuses : node_statuses[n] \in Outcome => n \in DOMAIN node_results
  /\ Unknown \in DOMAIN node_statuses => node_statuses[Unknown] = "Failed"

\* A running node is in a batch, unless an error struck it.
RunningInv ==
  \A n \in DOMAIN node_statuses :
    node_statuses[n] = "Running" =>
      Unknown \in DOMAIN node_results \/ \E e \in Executors : n \in DOMAIN exec[e].batch

BatchInv(e) ==
  \A n \in DOMAIN exec[e].batch :
    /\ n \in Range(workflow.nodes)
    /\ \A m \in Node : <<m, n>> \in workflow.edges => StatusOf(m) = "Succeeded"
    /\ StatusOf(n) = IF At(e, n) = "queued" THEN "Pending" ELSE "Running"
    /\ exec[e].pc \in {"apply", "judge"} => At(e, n) \in Finished

\* Why e may leave the loop, and what it answers then.
LeaveInv(e) ==
  /\ exec[e].pc \notin {"limit", "batch", "apply", "judge"} => DOMAIN exec[e].batch = {}
  /\ exec[e].should_stop \/ exec[e].pc = "judge" => HasFailure
  /\ exec[e].pc \in {"decide", "set", "answer"} =>
       HasFailure \/ \A n \in DOMAIN node_statuses : node_statuses[n] \notin {"Pending", "Running"}
  /\ exec[e].pc \in {"set", "answer"} => exec[e].final = FinalStatus

BookInv ==
  ~overlapped => StatusInv /\ ResultInv /\ RunningInv /\ \A e \in Executors : BatchInv(e) /\ LeaveInv(e)

OrchestratorInv == WellTyped /\ LoadInv /\ RestInv /\ Alone /\ BookInv

\* What depends on statuses and results only.
LEMMA SameStatuses ==
  ASSUME node_statuses' = node_statuses, node_results' = node_results
  PROVE  /\ \A n : StatusOf(n)' = StatusOf(n)
         /\ FinalStatus' = FinalStatus
         /\ HasFailure' = HasFailure
  BY DEF StatusOf, FinalStatus, HasFailure

\* One status more.
LEMMA StatusPut ==
  ASSUME NEW x, NEW y, node_statuses' = Put(node_statuses, x, y)
  PROVE  /\ DOMAIN node_statuses' = DOMAIN node_statuses \cup {x}
         /\ node_statuses'[x] = y /\ StatusOf(x)' = y
         /\ \A n \in DOMAIN node_statuses \ {x} : node_statuses'[n] = node_statuses[n]
         /\ \A n : n # x => StatusOf(n)' = StatusOf(n)
  BY DEF Put, StatusOf

\* One result more.
LEMMA ResultPut ==
  ASSUME NEW x, NEW y, node_results' = Put(node_results, x, y)
  PROVE  /\ DOMAIN node_results' = DOMAIN node_results \cup {x}
         /\ node_results'[x] = y
         /\ \A n \in DOMAIN node_results \ {x} : node_results'[n] = node_results[n]
  BY DEF Put

\* In a loaded workflow the dependencies a node is judged by are its own.
LEMMA IncomingFacts ==
  ASSUME WellTyped, LoadInv, loading.step = "idle", NEW n \in Range(workflow.nodes)
  PROVE  Incoming(Index(node_map, n)) = {m \in Node : <<m, n>> \in workflow.edges}
  <1>1. graph = workflow /\ node_map = workflow
    BY DEF LoadInv
  <1>2. \E i \in DOMAIN workflow.nodes : workflow.nodes[i] = n
    BY DEF Range
  <1>3. Index(node_map, n) \in DOMAIN graph.nodes /\ graph.nodes[Index(node_map, n)] = n
    BY <1>1, <1>2 DEF Index
  <1>4. QED
    BY <1>1, <1>3 DEF Incoming

\* A ready node is pending and its dependencies have succeeded.
LEMMA ReadyFacts ==
  ASSUME WellTyped, LoadInv, loading.step = "idle", StatusInv, NEW n \in ReadyNodes
  PROVE  /\ n \in Range(workflow.nodes) /\ StatusOf(n) = "Pending"
         /\ \A m \in Node : <<m, n>> \in workflow.edges => StatusOf(m) = "Succeeded"
  <1>1. n \in Range(workflow.nodes) /\ StatusOf(n) = "Pending" /\ DependenciesDone(n)
    BY DEF ReadyNodes, LoadInv
  <1>2. ASSUME NEW m \in Node, <<m, n>> \in workflow.edges PROVE StatusOf(m) = "Succeeded"
    <2>1. m \in Incoming(Index(node_map, n))
      BY <1>1, <1>2, IncomingFacts
    <2>2. StatusOf(m) \in {"Succeeded", "Skipped"}
      BY <1>1, <2>1 DEF DependenciesDone
    <2>3. QED
      BY <2>2 DEF StatusInv, StatusOf
  <1>3. QED
    BY <1>1, <1>2

\* A workflow without cycles has a node to start, or is over, or has met a failure.
LEMMA NothingReady ==
  ASSUME WellTyped, LoadInv, loading.step = "idle", StatusInv, ResultInv, RunningInv,
         \A e \in Executors : DOMAIN exec[e].batch = {}, ReadyNodes = {}
  PROVE  HasFailure \/ \A n \in DOMAIN node_statuses : node_statuses[n] \notin {"Pending", "Running"}
  <1> SUFFICES ASSUME ~HasFailure
               PROVE  \A n \in DOMAIN node_statuses : node_statuses[n] \notin {"Pending", "Running"}
    OBVIOUS
  <1>1. Unknown \notin DOMAIN node_results
    BY DEF ResultInv, HasFailure, Failure
  <1>2. \A n \in DOMAIN node_statuses : node_statuses[n] # "Running"
    BY <1>1 DEF RunningInv
  <1>3. \A n \in DOMAIN node_statuses : node_statuses[n] \notin Failure
    BY DEF ResultInv, HasFailure, Failure, Outcome
  <1> DEFINE S == {n \in Range(workflow.nodes) : StatusOf(n) = "Pending"}
  <1>4. S = {}
    <2> SUFFICES ASSUME S # {} PROVE FALSE
      OBVIOUS
    <2>1. workflow # NoWorkflow
      BY DEF NoWorkflow, Range
    <2>2. Valid(workflow)
      BY <2>1 DEF LoadInv
    <2>3. PICK n \in S : \A m \in S : <<m, n>> \notin workflow.edges
      BY <2>2 DEF Valid, Acyclic
    <2>4. ASSUME NEW m \in Node, <<m, n>> \in workflow.edges PROVE StatusOf(m) = "Succeeded"
      <3>1. m \in Range(workflow.nodes)
        BY <2>2, <2>4 DEF Valid, EdgesExist
      <3>2. m \in DOMAIN node_statuses /\ m \notin S
        BY <2>3, <2>4, <3>1 DEF StatusInv
      <3>3. StatusOf(m) = node_statuses[m] /\ node_statuses[m] \in NodeStatus
        BY <3>2 DEF StatusOf, WellTyped
      <3>4. QED
        BY <1>2, <1>3, <3>1, <3>2, <3>3 DEF NodeStatus, Outcome, Failure, StatusInv
    <2>5. DependenciesDone(n)
      <3>1. Incoming(Index(node_map, n)) = {m \in Node : <<m, n>> \in workflow.edges}
        BY IncomingFacts
      <3>2. QED
        BY <2>4, <3>1 DEF DependenciesDone
    <2>6. n \in ReadyNodes
      BY <2>5 DEF ReadyNodes, LoadInv
    <2>7. QED
      BY <2>6
  <1>5. \A n \in DOMAIN node_statuses : node_statuses[n] # "Pending"
    <2> SUFFICES ASSUME NEW n \in DOMAIN node_statuses, node_statuses[n] = "Pending" PROVE FALSE
      OBVIOUS
    <2>1. n # Unknown
      BY DEF ResultInv
    <2>2. n \in Range(workflow.nodes) /\ StatusOf(n) = "Pending"
      BY <2>1 DEF StatusInv, StatusOf
    <2>3. QED
      BY <1>4, <2>2
  <1>6. QED
    BY <1>2, <1>5

-----------------------------------------------------------------------------
(* Steps outside executions *)

\* Loads keep workflow and graph together.
LEMMA LoadOutside ==
  ASSUME WellTyped, LoadInv, Outside \/ UNCHANGED vars
  PROVE  LoadInv'
  <1>1. ASSUME NEW d \in Definitions, LoadGraph(d) PROVE LoadInv'
    BY <1>1 DEF LoadGraph, LoadInv, Valid, EdgesExist, Acyclic, shared
  <1>2. CASE LoadMap
    BY <1>2 DEF LoadMap, LoadInv, Valid, EdgesExist, Acyclic, WellTyped, shared
  <1>3. CASE LoadState
    BY <1>3 DEF LoadState, LoadInv, Valid, EdgesExist, Acyclic
  <1>4. CASE (\E t \in AgentTypes : Register(t)) \/ Pause \/ Resume \/ UNCHANGED vars
    <2>1. graph' = graph /\ node_map' = node_map /\ workflow' = workflow /\ loading' = loading
      BY <1>4 DEF Register, Pause, Resume, vars, shared
    <2>2. QED
      BY <2>1 DEF LoadInv, Valid, EdgesExist, Acyclic
  <1>5. QED
    BY <1>1, <1>2, <1>3, <1>4 DEF Outside

\* Unless calls overlap, loads happen while no execution runs.
LEMMA AloneOutside ==
  ASSUME WellTyped, Alone, Outside \/ UNCHANGED vars
  PROVE  Alone'
  <1>1. exec' = exec
    BY DEF Outside, Register, LoadGraph, LoadMap, LoadState, Pause, Resume, vars
  <1>2. CASE (\E d \in Definitions : LoadGraph(d)) \/ LoadMap \/ LoadState
    <2>1. ~overlapped' => ~Busy
      BY <1>2 DEF LoadGraph, LoadMap, LoadState
    <2>2. QED
      BY <1>1, <2>1 DEF Alone, Busy
  <1>3. CASE (\E t \in AgentTypes : Register(t)) \/ Pause \/ Resume \/ UNCHANGED vars
    <2>1. loading' = loading /\ overlapped' = overlapped
      BY <1>3 DEF Register, Pause, Resume, vars, history
    <2>2. QED
      BY <1>1, <2>1 DEF Alone
  <1>4. QED
    BY <1>2, <1>3 DEF Outside

\* The books do not depend on the rest of the state.
LEMMA BooksKept ==
  ASSUME BookInv, overlapped' \/ ~overlapped,
         workflow' = workflow, node_statuses' = node_statuses, node_results' = node_results,
         exec' = exec, runs' = runs
  PROVE  BookInv'
  <1>1. CASE overlapped'
    BY <1>1 DEF BookInv
  <1>2. CASE ~overlapped
    <2>1. StatusInv' /\ ResultInv' /\ RunningInv'
      BY <1>2, SameStatuses DEF BookInv, StatusInv, ResultInv, RunningInv
    <2>2. ASSUME NEW e \in Executors PROVE BatchInv(e)' /\ LeaveInv(e)'
      BY <1>2, SameStatuses DEF BookInv, BatchInv, LeaveInv, At
    <2>3. QED
      BY <2>1, <2>2 DEF BookInv
  <1>3. QED
    BY <1>1, <1>2

\* What calls beside an execution do to its books.
LEMMA BookOutside ==
  ASSUME WellTyped, LoadInv, RestInv, Alone, BookInv, Outside \/ UNCHANGED vars
  PROVE  BookInv'
  <1>1. CASE LoadState
    <2> SUFFICES ASSUME ~overlapped' PROVE BookInv'
      BY DEF BookInv
    <2> DEFINE d == loading.def
    <2>1. ~Busy /\ exec' = exec /\ workflow' = d /\ d \in Workflows
      BY <1>1 DEF LoadState, WellTyped
    <2>2. Range(d.nodes) \subseteq Node /\ d.edges \subseteq Node \X Node
      BY <2>1, WorkflowFacts
    <2>3. /\ DOMAIN node_statuses' = Range(d.nodes) /\ DOMAIN node_results' = {}
          /\ \A n \in Range(d.nodes) : node_statuses'[n] = "Pending"
          /\ runs' = [n \in Node |-> 0]
      BY <1>1 DEF LoadState
    <2>4. \A n : StatusOf(n)' \in {"Pending", "none"}
      BY <2>3 DEF StatusOf
    <2>5. StatusInv'
      BY <2>1, <2>2, <2>3, <2>4 DEF StatusInv
    <2>6. ResultInv' /\ RunningInv'
      BY <2>2, <2>3, OrchestratorConstants DEF ResultInv, RunningInv, Outcome
    <2>7. ASSUME NEW e \in Executors PROVE BatchInv(e)' /\ LeaveInv(e)'
      <3>1. exec'[e] = exec[e] /\ exec[e].pc = "idle"
        BY <2>1 DEF Busy
      <3>2. DOMAIN exec[e].batch = {} /\ ~exec[e].should_stop
        BY <3>1 DEF RestInv
      <3>3. QED
        BY <3>1, <3>2 DEF BatchInv, LeaveInv
    <2>8. QED
      BY <2>5, <2>6, <2>7 DEF BookInv
  <1>2. ASSUME NEW d \in Definitions, LoadGraph(d) PROVE BookInv'
    <2>1. /\ workflow' = workflow /\ node_statuses' = node_statuses /\ node_results' = node_results
          /\ exec' = exec /\ runs' = runs /\ (overlapped' \/ ~overlapped)
      BY <1>2 DEF LoadGraph, shared
    <2>2. QED
      BY <2>1, BooksKept
  <1>3. CASE LoadMap
    <2>1. /\ workflow' = workflow /\ node_statuses' = node_statuses /\ node_results' = node_results
          /\ exec' = exec /\ runs' = runs /\ (overlapped' \/ ~overlapped)
      BY <1>3 DEF LoadMap, shared
    <2>2. QED
      BY <2>1, BooksKept
  <1>4. CASE (\E t \in AgentTypes : Register(t)) \/ Pause \/ Resume \/ UNCHANGED vars
    <2>1. /\ workflow' = workflow /\ node_statuses' = node_statuses /\ node_results' = node_results
          /\ exec' = exec /\ runs' = runs /\ overlapped' = overlapped
      BY <1>4 DEF Register, Pause, Resume, vars, shared, history
    <2>2. QED
      BY <2>1, BooksKept DEF WellTyped
  <1>5. QED
    BY <1>1, <1>2, <1>3, <1>4 DEF Outside

-----------------------------------------------------------------------------
(* Steps of executions *)

\* An execution loads nothing.
LEMMA LoadExecutor ==
  ASSUME LoadInv, NEW e \in Executors, Execute(e) \/ Step(e)
  PROVE  LoadInv' /\ workflow' = workflow /\ loading' = loading
  <1>1. graph' = graph /\ node_map' = node_map /\ workflow' = workflow /\ loading' = loading
    BY DEF Execute, Step, RunNode, CheckPause, FindReady, ReadLimit, JoinAll, Judge, EndBatch,
           Decide, SetStatus, Answer, Start, Resolve, Attempt, ApplyResult, ApplyError, shared
  <1>2. QED
    BY <1>1 DEF LoadInv, Valid, EdgesExist, Acyclic

\* A step of an execution overlaps with nothing new; only Execute begins one.
LEMMA StepShape ==
  ASSUME WellTyped, NEW e \in Executors, Step(e)
  PROVE  /\ overlapped' = overlapped /\ OnlyAt(e) /\ exec[e].pc # "idle"
         /\ exec'[e].pc = "idle" => DOMAIN exec'[e].batch = {} /\ ~exec'[e].should_stop
  <1>0. overlapped' = overlapped
    BY DEF Step, RunNode, CheckPause, FindReady, ReadLimit, JoinAll, Judge, EndBatch, Decide,
           SetStatus, Answer, Start, Resolve, Attempt, ApplyResult, ApplyError, history
  <1>1. CASE CheckPause(e)
    BY <1>0, <1>1, CheckPauseEffect DEF Moves
  <1>2. CASE FindReady(e)
    BY <1>0, <1>2, FindReadyEffect
  <1>3. CASE ReadLimit(e)
    BY <1>0, <1>3, ReadLimitEffect DEF Moves
  <1>4. CASE JoinAll(e)
    BY <1>0, <1>4, JoinAllEffect DEF Moves
  <1>5. CASE Judge(e)
    BY <1>0, <1>5, JudgeEffect
  <1>6. CASE EndBatch(e)
    BY <1>0, <1>6, EndBatchEffect DEF Moves
  <1>7. CASE Decide(e)
    BY <1>0, <1>7, DecideEffect
  <1>8. CASE SetStatus(e)
    BY <1>0, <1>8, SetStatusEffect DEF Moves
  <1>9. CASE Answer(e)
    BY <1>0, <1>9, AnswerEffect
  <1>10. ASSUME NEW n \in Node, RunNode(e, n)
         PROVE  OnlyAt(e) /\ exec[e].pc # "idle" /\ exec'[e].pc # "idle"
    <2>1. CASE Start(e, n)
      BY <2>1, StartEffect DEF Writes
    <2>2. CASE Resolve(e, n)
      BY <2>2, ResolveEffect DEF Writes
    <2>3. ASSUME NEW o \in Outcome, Attempt(e, n, o)
          PROVE  OnlyAt(e) /\ exec[e].pc # "idle" /\ exec'[e].pc # "idle"
      BY <2>3, AttemptEffect DEF Writes
    <2>4. CASE ApplyResult(e, n)
      BY <2>4, ApplyResultEffect DEF Takes
    <2>5. CASE ApplyError(e, n)
      BY <2>5, ApplyErrorEffect DEF Takes
    <2>6. QED
      BY <1>10, <2>1, <2>2, <2>3, <2>4, <2>5 DEF RunNode
  <1>11. QED
    BY <1>0, <1>1, <1>2, <1>3, <1>4, <1>5, <1>6, <1>7, <1>8, <1>9, <1>10 DEF Step

\* An executor that rests holds nothing.
LEMMA RestStep ==
  ASSUME WellTyped, RestInv, [Next]_vars
  PROVE  RestInv'
  <1>1. CASE Outside \/ UNCHANGED vars
    <2>1. exec' = exec
      BY <1>1 DEF Outside, Register, LoadGraph, LoadMap, LoadState, Pause, Resume, vars
    <2>2. QED
      BY <2>1 DEF RestInv
  <1>2. ASSUME NEW e \in Executors, Execute(e) PROVE RestInv'
    BY <1>2, ExecuteEffect DEF RestInv, OnlyAt
  <1>3. ASSUME NEW e \in Executors, Step(e) PROVE RestInv'
    BY <1>3, StepShape DEF RestInv, OnlyAt
  <1>4. QED
    BY <1>1, <1>2, <1>3, NextSplit

\* Unless calls overlap, one execution runs at a time.
LEMMA AloneExecutor ==
  ASSUME WellTyped, LoadInv, Alone, NEW e \in Executors, Execute(e) \/ Step(e)
  PROVE  Alone'
  <1> SUFFICES ASSUME ~overlapped' PROVE Alone'
    BY DEF Alone
  <1>1. loading' = loading
    BY LoadExecutor
  <1>2. CASE Execute(e)
    <2>1. ~overlapped /\ ~Busy /\ loading.step = "idle" /\ OnlyAt(e)
      BY <1>2, ExecuteEffect DEF Execute
    <2>2. QED
      BY <1>1, <2>1 DEF Alone, Busy, OnlyAt
  <1>3. CASE Step(e)
    BY <1>1, <1>3, StepShape DEF Alone, OnlyAt
  <1>4. QED
    BY <1>2, <1>3

\* What holds around a step of e while no two calls overlap.
OnlyBusy(e) ==
  /\ loading.step = "idle"
  /\ \A f \in Executors \ {e} : exec[f].pc = "idle"
  /\ StatusInv /\ ResultInv /\ RunningInv
  /\ \A f \in Executors : BatchInv(f) /\ LeaveInv(f)

\* What a step of the only busy executor leaves to the others.
LEMMA OthersKept ==
  ASSUME WellTyped, NEW e \in Executors, OnlyBusy(e), OnlyAt(e), HasFailure => HasFailure'
  PROVE  \A f \in Executors \ {e} : BatchInv(f)' /\ LeaveInv(f)'
  <1> SUFFICES ASSUME NEW f \in Executors \ {e} PROVE BatchInv(f)' /\ LeaveInv(f)'
    OBVIOUS
  <1>1. exec'[f] = exec[f] /\ exec[f].pc = "idle"
    BY DEF OnlyAt, OnlyBusy
  <1>2. DOMAIN exec[f].batch = {} /\ (exec[f].should_stop => HasFailure)
    BY <1>1 DEF OnlyBusy, LeaveInv
  <1>3. QED
    BY <1>1, <1>2 DEF BatchInv, LeaveInv

\* A step that writes no status and no result.
LEMMA QuietStep ==
  ASSUME WellTyped, NEW e \in Executors, OnlyBusy(e), OnlyAt(e),
         workflow' = workflow, node_statuses' = node_statuses, node_results' = node_results,
         runs' = runs, DOMAIN exec[e].batch \subseteq DOMAIN exec'[e].batch,
         BatchInv(e)', LeaveInv(e)'
  PROVE  BookInv'
  <1>1. StatusInv' /\ ResultInv'
    BY SameStatuses DEF OnlyBusy, StatusInv, ResultInv
  <1>2. RunningInv'
    BY DEF OnlyBusy, OnlyAt, RunningInv
  <1>3. \A f \in Executors \ {e} : BatchInv(f)' /\ LeaveInv(f)'
    BY SameStatuses, OthersKept
  <1>4. QED
    BY <1>1, <1>2, <1>3 DEF BookInv

\* A step that moves e on with the batch it has.
LEMMA MoveStep ==
  ASSUME WellTyped, NEW e \in Executors, OnlyBusy(e), OnlyAt(e),
         workflow' = workflow, node_statuses' = node_statuses, node_results' = node_results,
         runs' = runs, exec'[e].batch = exec[e].batch,
         exec'[e].pc \in {"apply", "judge"} => \A n \in DOMAIN exec[e].batch : At(e, n) \in Finished,
         LeaveInv(e)'
  PROVE  BookInv'
  <1>1. BatchInv(e)'
    BY SameStatuses DEF OnlyBusy, BatchInv, At
  <1>2. QED
    BY <1>1, QuietStep

\* The books when a call starts, ...
LEMMA BookExecute ==
  ASSUME WellTyped, NEW e \in Executors, OnlyBusy(e), Execute(e)
  PROVE  BookInv'
  <1>1. workflow' = workflow /\ node_statuses' = node_statuses /\ node_results' = node_results /\ runs' = runs
    BY DEF Execute
  <1>2. OnlyAt(e) /\ exec'[e].pc = "check" /\ DOMAIN exec'[e].batch = {} /\ ~exec'[e].should_stop
        /\ exec[e].pc = "idle"
    BY ExecuteEffect
  <1>3. DOMAIN exec[e].batch = {} /\ BatchInv(e)' /\ LeaveInv(e)'
    BY <1>2 DEF OnlyBusy, LeaveInv, BatchInv
  <1>4. QED
    BY <1>1, <1>2, <1>3, QuietStep

\* ... when a batch is made, ...
LEMMA BookFindReady ==
  ASSUME WellTyped, LoadInv, NEW e \in Executors, OnlyBusy(e), FindReady(e)
  PROVE  BookInv'
  <1>1. workflow' = workflow /\ node_statuses' = node_statuses /\ node_results' = node_results /\ runs' = runs
    BY DEF FindReady, shared
  <1>2. /\ OnlyAt(e) /\ exec[e].pc = "find"
        /\ exec'[e].pc = IF ReadyNodes = {} THEN "decide" ELSE "limit"
        /\ exec'[e].batch = [n \in ReadyNodes |-> Queued] /\ ~exec'[e].should_stop
    BY FindReadyEffect
  <1>3. \A f \in Executors : DOMAIN exec[f].batch = {}
    BY <1>2 DEF OnlyBusy, LeaveInv
  <1>4. DOMAIN exec'[e].batch = ReadyNodes /\ \A n \in ReadyNodes : exec'[e].batch[n].at = "queued"
    BY <1>2 DEF Queued
  <1>5. BatchInv(e)'
    <2> SUFFICES ASSUME NEW n \in ReadyNodes
                 PROVE  /\ n \in Range(workflow.nodes)
                        /\ \A m \in Node : <<m, n>> \in workflow.edges => StatusOf(m)' = "Succeeded"
                        /\ StatusOf(n)' = "Pending"
      BY <1>1, <1>2, <1>4 DEF BatchInv, At
    <2>1. QED
      BY <1>1, ReadyFacts, SameStatuses DEF OnlyBusy
  <1>6. LeaveInv(e)'
    <2>1. ReadyNodes = {} =>
            HasFailure \/ \A n \in DOMAIN node_statuses : node_statuses[n] \notin {"Pending", "Running"}
      BY <1>3, NothingReady DEF OnlyBusy
    <2>2. QED
      BY <1>1, <1>2, <1>4, <2>1, SameStatuses DEF LeaveInv
  <1>7. QED
    BY <1>1, <1>2, <1>3, <1>5, <1>6, QuietStep

\* ... in steps that write nothing, ...
LEMMA BookMove ==
  ASSUME WellTyped, NEW e \in Executors, OnlyBusy(e),
         CheckPause(e) \/ ReadLimit(e) \/ JoinAll(e) \/ Judge(e) \/ EndBatch(e)
           \/ Decide(e) \/ SetStatus(e) \/ Answer(e)
  PROVE  BookInv'
  <1>1. workflow' = workflow /\ node_statuses' = node_statuses /\ node_results' = node_results /\ runs' = runs
    BY DEF CheckPause, ReadLimit, JoinAll, Judge, EndBatch, Decide, SetStatus, Answer, shared, history
  <1>2. /\ HasFailure' = HasFailure /\ FinalStatus' = FinalStatus
        /\ BatchInv(e) /\ LeaveInv(e)
    BY <1>1, SameStatuses DEF OnlyBusy
  <1>3. CASE CheckPause(e)
    <2>1. OnlyAt(e) /\ Moves(e, "check", "find")
      BY <1>3, CheckPauseEffect
    <2>2. LeaveInv(e)'
      BY <1>1, <1>2, <2>1 DEF LeaveInv, Moves
    <2>3. QED
      BY <1>1, <2>1, <2>2, MoveStep DEF Moves
  <1>4. CASE ReadLimit(e)
    <2>1. OnlyAt(e) /\ Moves(e, "limit", "batch")
      BY <1>4, ReadLimitEffect
    <2>2. LeaveInv(e)'
      BY <1>1, <1>2, <2>1 DEF LeaveInv, Moves
    <2>3. QED
      BY <1>1, <2>1, <2>2, MoveStep DEF Moves
  <1>5. CASE JoinAll(e)
    <2>1. OnlyAt(e) /\ Moves(e, "batch", "apply") /\ \A n \in DOMAIN exec[e].batch : At(e, n) \in Finished
      BY <1>5, JoinAllEffect
    <2>2. LeaveInv(e)'
      BY <1>1, <1>2, <2>1 DEF LeaveInv, Moves
    <2>3. QED
      BY <1>1, <2>1, <2>2, MoveStep DEF Moves
  <1>6. CASE Judge(e)
    <2>1. /\ OnlyAt(e) /\ exec[e].pc = "judge" /\ exec'[e].pc = "apply"
          /\ exec'[e].batch = exec[e].batch
      BY <1>6, JudgeEffect
    <2>2. LeaveInv(e)'
      BY <1>1, <1>2, <2>1 DEF LeaveInv
    <2>3. \A n \in DOMAIN exec[e].batch : At(e, n) \in Finished
      BY <1>2, <2>1 DEF BatchInv
    <2>4. QED
      BY <1>1, <2>1, <2>2, <2>3, MoveStep
  <1>7. CASE EndBatch(e)
    <2>1. /\ OnlyAt(e) /\ Moves(e, "apply", IF exec[e].should_stop THEN "decide" ELSE "check")
          /\ DOMAIN exec[e].batch = {}
      BY <1>7, EndBatchEffect
    <2>2. LeaveInv(e)'
      BY <1>1, <1>2, <2>1 DEF LeaveInv, Moves
    <2>3. QED
      BY <1>1, <2>1, <2>2, MoveStep DEF Moves
  <1>8. CASE Decide(e)
    <2>1. /\ OnlyAt(e) /\ exec[e].pc = "decide" /\ exec'[e].pc = "set" /\ exec'[e].final = FinalStatus
          /\ exec'[e].batch = exec[e].batch /\ exec'[e].should_stop = exec[e].should_stop
      BY <1>8, DecideEffect
    <2>2. LeaveInv(e)'
      BY <1>1, <1>2, <2>1 DEF LeaveInv
    <2>3. QED
      BY <1>1, <2>1, <2>2, MoveStep
  <1>9. CASE SetStatus(e)
    <2>1. OnlyAt(e) /\ Moves(e, "set", "answer")
      BY <1>9, SetStatusEffect
    <2>2. LeaveInv(e)'
      BY <1>1, <1>2, <2>1 DEF LeaveInv, Moves
    <2>3. QED
      BY <1>1, <2>1, <2>2, MoveStep DEF Moves
  <1>10. CASE Answer(e)
    <2>1. /\ OnlyAt(e) /\ exec[e].pc = "answer" /\ exec'[e].pc = "idle"
          /\ DOMAIN exec'[e].batch = {} /\ ~exec'[e].should_stop
      BY <1>10, AnswerEffect
    <2>2. DOMAIN exec[e].batch = {} /\ BatchInv(e)' /\ LeaveInv(e)'
      BY <1>2, <2>1 DEF LeaveInv, BatchInv
    <2>3. QED
      BY <1>1, <2>1, <2>2, QuietStep
  <1>11. QED
    BY <1>3, <1>4, <1>5, <1>6, <1>7, <1>8, <1>9, <1>10

\* A node of a batch that is given another entry, started before and after.
LEMMA BookWrite ==
  ASSUME WellTyped, NEW e \in Executors, OnlyBusy(e), NEW n \in Node, NEW x,
         OnlyAt(e), Writes(e, n, x), At(e, n) # "queued", x.at # "queued",
         workflow' = workflow, node_statuses' = node_statuses, node_results' = node_results,
         runs' = runs
  PROVE  BookInv'
  <1>1. BatchInv(e)'
    BY SameStatuses DEF OnlyBusy, BatchInv, Writes, At
  <1>2. LeaveInv(e)'
    BY SameStatuses DEF OnlyBusy, LeaveInv, Writes
  <1>3. QED
    BY <1>1, <1>2, QuietStep DEF Writes

\* ... when a node starts, ...
LEMMA BookStart ==
  ASSUME WellTyped, NEW e \in Executors, OnlyBusy(e), NEW n \in Node, Start(e, n)
  PROVE  BookInv'
  <1>1. PICK x \in Entry : Writes(e, n, x) /\ x.at = "marked"
    BY StartEffect
  <1>2. /\ OnlyAt(e) /\ At(e, n) = "queued" /\ n \in DOMAIN exec[e].batch
        /\ workflow' = workflow /\ node_results' = node_results
        /\ node_statuses' = Put(node_statuses, n, "Running")
        /\ runs' = [runs EXCEPT ![n] = @ + 1]
    BY StartEffect DEF Start, InBatch
  <1>3. /\ n \in Range(workflow.nodes) /\ StatusOf(n) = "Pending"
        /\ \A m \in Node : <<m, n>> \in workflow.edges => StatusOf(m) = "Succeeded"
    BY <1>2 DEF OnlyBusy, BatchInv
  <1>4. n \in DOMAIN node_statuses /\ node_statuses[n] = "Pending" /\ n \notin DOMAIN node_results
        /\ n # Unknown
    BY <1>3, OrchestratorConstants DEF OnlyBusy, StatusInv, StatusOf, ResultInv, WellTyped, Outcome
  <1>5. /\ DOMAIN node_statuses' = DOMAIN node_statuses /\ node_statuses'[n] = "Running"
        /\ StatusOf(n)' = "Running" /\ \A m : m # n => StatusOf(m)' = StatusOf(m)
        /\ \A m \in DOMAIN node_statuses \ {n} : node_statuses'[m] = node_statuses[m]
    BY <1>2, <1>4, StatusPut
  <1>6. StatusInv'
    <2>1. workflow.edges \subseteq Node \X Node
      BY WorkflowFacts DEF WellTyped
    <2>2. ASSUME NEW edge \in workflow.edges
          PROVE  StatusOf(edge[2])' \in {"Pending", "none"} \/ StatusOf(edge[1])' = "Succeeded"
      <3>1. /\ edge[1] \in Node /\ edge[2] \in Node /\ edge = <<edge[1], edge[2]>>
            /\ StatusOf(edge[2]) \in {"Pending", "none"} \/ StatusOf(edge[1]) = "Succeeded"
        BY <2>1 DEF OnlyBusy, StatusInv
      <3>2. QED
        BY <1>3, <1>5, <3>1
    <2>3. \A m \in Node : runs'[m] = IF StatusOf(m)' \in {"Pending", "none"} THEN 0 ELSE 1
      BY <1>2, <1>3, <1>5 DEF OnlyBusy, StatusInv, WellTyped
    <2>4. QED
      BY <1>2, <1>5, <2>2, <2>3 DEF OnlyBusy, StatusInv
  <1>7. ResultInv' /\ RunningInv'
    BY <1>1, <1>2, <1>4, <1>5 DEF OnlyBusy, ResultInv, RunningInv, Writes, OnlyAt, Outcome
  <1>8. BatchInv(e)'
    BY <1>1, <1>2, <1>3, <1>5 DEF OnlyBusy, BatchInv, Writes, At
  <1>9. LeaveInv(e)'
    BY <1>1, <1>2 DEF OnlyBusy, LeaveInv, Writes, HasFailure
  <1>10. \A f \in Executors \ {e} : BatchInv(f)' /\ LeaveInv(f)'
    BY <1>2, OthersKept DEF HasFailure
  <1>11. QED
    BY <1>6, <1>7, <1>8, <1>9, <1>10 DEF BookInv

\* ... when a result ...
LEMMA BookApplyResult ==
  ASSUME WellTyped, NEW e \in Executors, OnlyBusy(e), NEW n \in Node, ApplyResult(e, n)
  PROVE  BookInv'
  <1> DEFINE o == At(e, n)
  <1>1. /\ OnlyAt(e) /\ Takes(e, n) /\ o \in Outcome
        /\ exec'[e].pc = IF o \in Failure THEN "judge" ELSE "apply"
        /\ exec'[e].should_stop = exec[e].should_stop
    BY ApplyResultEffect
  <1>2. /\ workflow' = workflow /\ runs' = runs
        /\ node_statuses' = Put(node_statuses, n, o)
        /\ node_results' = Put(node_results, n, o)
    BY DEF ApplyResult, Booked, history
  <1> HIDE DEF o
  <1>3. /\ n \in Range(workflow.nodes) /\ StatusOf(n) = "Running"
        /\ \A m \in Node : <<m, n>> \in workflow.edges => StatusOf(m) = "Succeeded"
    BY <1>1 DEF OnlyBusy, BatchInv, Takes, Outcome, o
  <1>4. n \in DOMAIN node_statuses /\ node_statuses[n] = "Running" /\ n \notin DOMAIN node_results
        /\ n # Unknown
    BY <1>3, OrchestratorConstants DEF OnlyBusy, StatusInv, StatusOf, ResultInv, WellTyped, Outcome
  <1>5. /\ DOMAIN node_statuses' = DOMAIN node_statuses /\ node_statuses'[n] = o
        /\ StatusOf(n)' = o /\ \A m : m # n => StatusOf(m)' = StatusOf(m)
        /\ \A m \in DOMAIN node_statuses \ {n} : node_statuses'[m] = node_statuses[m]
    BY <1>2, <1>4 DEF Put, StatusOf
  <1>6. /\ DOMAIN node_results' = DOMAIN node_results \cup {n} /\ node_results'[n] = o
        /\ \A m \in DOMAIN node_results \ {n} : node_results'[m] = node_results[m]
    BY <1>2, ResultPut
  <1>7. HasFailure => HasFailure'
    BY <1>4, <1>6 DEF HasFailure
  <1>8. StatusInv'
    <2>1. workflow.edges \subseteq Node \X Node
      BY WorkflowFacts DEF WellTyped
    <2>2. ASSUME NEW edge \in workflow.edges
          PROVE  StatusOf(edge[2])' \in {"Pending", "none"} \/ StatusOf(edge[1])' = "Succeeded"
      <3>1. /\ edge[1] \in Node /\ edge[2] \in Node /\ edge = <<edge[1], edge[2]>>
            /\ StatusOf(edge[2]) \in {"Pending", "none"} \/ StatusOf(edge[1]) = "Succeeded"
        BY <2>1 DEF OnlyBusy, StatusInv
      <3>2. QED
        BY <1>3, <1>5, <3>1
    <2>3. \A m \in Node : runs'[m] = IF StatusOf(m)' \in {"Pending", "none"} THEN 0 ELSE 1
      BY <1>1, <1>2, <1>3, <1>5 DEF OnlyBusy, StatusInv, Outcome
    <2>4. QED
      BY <1>1, <1>2, <1>5, <2>2, <2>3 DEF OnlyBusy, StatusInv, Outcome
  <1>9. ResultInv'
    BY <1>1, <1>4, <1>5, <1>6 DEF OnlyBusy, ResultInv
  <1>10. RunningInv'
    BY <1>1, <1>5, <1>6 DEF OnlyBusy, RunningInv, Takes, OnlyAt, Outcome
  <1>11. BatchInv(e)'
    BY <1>1, <1>2, <1>3, <1>5 DEF OnlyBusy, BatchInv, Takes, At
  <1>12. LeaveInv(e)'
    BY <1>1, <1>6, <1>7 DEF OnlyBusy, LeaveInv, Takes, HasFailure
  <1>13. QED
    BY <1>1, <1>7, <1>8, <1>9, <1>10, <1>11, <1>12, OthersKept DEF BookInv

\* ... or an error is written down: ...
LEMMA BookApplyError ==
  ASSUME WellTyped, NEW e \in Executors, OnlyBusy(e), NEW n \in Node, ApplyError(e, n)
  PROVE  BookInv'
  <1>1. /\ OnlyAt(e) /\ Takes(e, n) /\ exec'[e].pc = "apply"
    BY ApplyErrorEffect
  <1>2. /\ workflow' = workflow /\ runs' = runs
        /\ node_statuses' = Put(node_statuses, Unknown, "Failed")
        /\ node_results' = Put(node_results, Unknown, "Failed")
    BY DEF ApplyError, history
  <1>3. /\ DOMAIN node_statuses' = DOMAIN node_statuses \cup {Unknown} /\ node_statuses'[Unknown] = "Failed"
        /\ \A m : m # Unknown => StatusOf(m)' = StatusOf(m)
        /\ \A m \in DOMAIN node_statuses \ {Unknown} : node_statuses'[m] = node_statuses[m]
    BY <1>2, StatusPut
  <1>4. /\ DOMAIN node_results' = DOMAIN node_results \cup {Unknown} /\ node_results'[Unknown] = "Failed"
        /\ \A m \in DOMAIN node_results \ {Unknown} : node_results'[m] = node_results[m]
    BY <1>2, ResultPut
  <1>5. HasFailure'
    BY <1>4 DEF HasFailure, Failure
  <1>6. \A m \in Node : StatusOf(m)' = StatusOf(m)
    BY <1>3, OrchestratorConstants
  <1>7. Range(workflow.nodes) \subseteq Node /\ workflow.edges \subseteq Node \X Node
    BY WorkflowFacts DEF WellTyped
  <1>8. StatusInv'
    <2>1. ASSUME NEW edge \in workflow.edges
          PROVE  StatusOf(edge[2])' \in {"Pending", "none"} \/ StatusOf(edge[1])' = "Succeeded"
      BY <1>6, <1>7 DEF OnlyBusy, StatusInv
    <2>2. QED
      BY <1>2, <1>3, <1>6, <2>1 DEF OnlyBusy, StatusInv
  <1>9. ResultInv' /\ RunningInv'
    BY <1>3, <1>4 DEF OnlyBusy, ResultInv, RunningInv, Outcome
  <1>10. BatchInv(e)'
    <2> SUFFICES ASSUME NEW m \in DOMAIN exec'[e].batch
                 PROVE  /\ m \in Range(workflow.nodes)
                        /\ \A k \in Node : <<k, m>> \in workflow.edges => StatusOf(k)' = "Succeeded"
                        /\ StatusOf(m)' = IF At(e, m)' = "queued" THEN "Pending" ELSE "Running"
                        /\ At(e, m)' \in Finished
      BY <1>1, <1>2 DEF BatchInv
    <2>1. m \in DOMAIN exec[e].batch /\ At(e, m)' = At(e, m) /\ exec[e].pc = "apply"
      BY <1>1 DEF Takes, At
    <2>2. QED
      BY <1>6, <1>7, <2>1 DEF OnlyBusy, BatchInv
  <1>11. LeaveInv(e)'
    BY <1>1, <1>5 DEF LeaveInv
  <1>12. QED
    BY <1>1, <1>5, <1>8, <1>9, <1>10, <1>11, OthersKept DEF BookInv

\* ... every step of an execution keeps them.
LEMMA BookExecutor ==
  ASSUME WellTyped, LoadInv, Alone, BookInv, NEW e \in Executors, Execute(e) \/ Step(e)
  PROVE  BookInv'
  <1> SUFFICES ASSUME ~overlapped' PROVE BookInv'
    BY DEF BookInv
  <1>1. CASE Execute(e)
    <2>1. OnlyBusy(e)
      BY <1>1 DEF Execute, Busy, BookInv, OnlyBusy
    <2>2. QED
      BY <1>1, <2>1, BookExecute
  <1>2. CASE Step(e)
    <2>1. OnlyBusy(e)
      BY <1>2, StepShape DEF Alone, BookInv, OnlyBusy
    <2>2. ASSUME NEW n \in Node, RunNode(e, n) PROVE BookInv'
      <3>1. CASE Resolve(e, n)
        <4>1. PICK x \in Entry : Writes(e, n, x) /\ x.at \in {"trying", "Error"}
          BY <3>1, ResolveEffect
        <4>2. OnlyAt(e) /\ At(e, n) = "marked"
          BY <3>1, ResolveEffect
        <4>3. workflow' = workflow /\ node_statuses' = node_statuses /\ node_results' = node_results /\ runs' = runs
          BY <3>1 DEF Resolve, shared, history
        <4>4. QED
          BY <2>1, <4>1, <4>2, <4>3, BookWrite
      <3>2. ASSUME NEW o \in Outcome, Attempt(e, n, o) PROVE BookInv'
        <4>1. PICK x \in Entry : Writes(e, n, x) /\ x.at \in Outcome \cup {"trying"}
          BY <3>2, AttemptEffect
        <4>2. OnlyAt(e) /\ At(e, n) = "trying"
          BY <3>2, AttemptEffect
        <4>3. workflow' = workflow /\ node_statuses' = node_statuses /\ node_results' = node_results /\ runs' = runs
          BY <3>2 DEF Attempt, shared, history
        <4>4. QED
          BY <2>1, <4>1, <4>2, <4>3, BookWrite DEF Outcome
      <3>3. QED
        BY <2>1, <2>2, <3>1, <3>2, BookStart, BookApplyResult, BookApplyError DEF RunNode
    <2>3. QED
      BY <1>2, <2>1, <2>2, BookFindReady, BookMove DEF Step
  <1>3. QED
    BY <1>1, <1>2

-----------------------------------------------------------------------------
(* The invariant and what follows from it *)

\* The invariant holds at the start ...
LEMMA OrchestratorStarts == Init => OrchestratorInv
  <1> SUFFICES ASSUME Init PROVE OrchestratorInv
    OBVIOUS
  <1>1. NoWorkflow.nodes = << >> /\ NoWorkflow.edges = {} /\ Range(<< >>) = {}
    BY DEF NoWorkflow, Range
  <1>2. \A n : StatusOf(n) = "none"
    BY DEF Init, StatusOf
  <1>3. \A e \in Executors : exec[e].pc = "idle" /\ DOMAIN exec[e].batch = {} /\ ~exec[e].should_stop
    BY DEF Init, Resting
  <1>4. LoadInv /\ RestInv /\ Alone
    BY <1>3 DEF Init, LoadInv, RestInv, Alone
  <1>5. StatusInv /\ ResultInv /\ RunningInv
    BY <1>1, <1>2 DEF Init, StatusInv, ResultInv, RunningInv
  <1>6. \A e \in Executors : BatchInv(e) /\ LeaveInv(e)
    BY <1>3 DEF BatchInv, LeaveInv
  <1>7. QED
    BY <1>4, <1>5, <1>6, TypesInit DEF OrchestratorInv, BookInv

\* ... and every step keeps it.
LEMMA InvStep == OrchestratorInv /\ [Next]_vars => OrchestratorInv'
  <1> SUFFICES ASSUME OrchestratorInv, [Next]_vars PROVE OrchestratorInv'
    OBVIOUS
  <1> USE DEF OrchestratorInv
  <1>1. WellTyped' /\ RestInv'
    BY TypesStep, RestStep
  <1>2. CASE Outside \/ UNCHANGED vars
    BY <1>1, <1>2, LoadOutside, AloneOutside, BookOutside
  <1>3. ASSUME NEW e \in Executors, Execute(e) \/ Step(e) PROVE OrchestratorInv'
    BY <1>1, <1>3, LoadExecutor, AloneExecutor, BookExecutor
  <1>4. QED
    BY <1>2, <1>3, NextSplit

\* So it always holds.
LEMMA OrchestratorInvariant == Spec => []OrchestratorInv
  BY OrchestratorStarts, InvStep, PTL DEF Spec

\* While no two calls overlap, a node is only started after all it depends on
\* has succeeded, in every workflow.
THEOREM DependenciesComeFirst == Spec => []DependenciesFirst
  <1>1. OrchestratorInv => DependenciesFirst
    BY DEF OrchestratorInv, BookInv, StatusInv, DependenciesFirst
  <1>2. QED
    BY <1>1, OrchestratorInvariant, PTL

\* And it is started at most once in all the executions of a load.
THEOREM NodesRunOnce == Spec => []OneRunPerLoad
  <1>1. OrchestratorInv => OneRunPerLoad
    BY DEF OrchestratorInv, BookInv, StatusInv, OneRunPerLoad
  <1>2. QED
    BY <1>1, OrchestratorInvariant, PTL

\* The answer of an execution says what its results say, and it leaves nodes
\* behind only after a failure.
THEOREM AnswersHonest == Spec => []AnswersAreHonest
  <1>1. OrchestratorInv => AnswersAreHonest
    <2> SUFFICES ASSUME OrchestratorInv PROVE AnswersAreHonest
      OBVIOUS
    <2>1. TypeOK
      BY TypesImply DEF OrchestratorInv
    <2>2. ResultsAgree
      <3> SUFFICES ASSUME ~overlapped PROVE ResultsAgree
        BY DEF ResultsAgree
      <3>1. \A n \in DOMAIN node_results : StatusOf(n) = node_results[n]
        BY DEF OrchestratorInv, BookInv, ResultInv, StatusOf
      <3>2. ~Busy => \A e \in Executors : DOMAIN exec[e].batch = {}
        BY DEF OrchestratorInv, RestInv, Busy
      <3>3. ~Busy /\ "Running" \in Range(node_statuses) => Unknown \in DOMAIN node_results
        BY <3>2 DEF OrchestratorInv, BookInv, RunningInv, Range
      <3>4. QED
        BY <3>1, <3>3 DEF OrchestratorInv, BookInv, ResultInv, ResultsAgree
    <2>3. ASSUME NEW e \in Executors, exec[e].pc = "answer", ~overlapped
          PROVE  LET outcomes == Range(node_results)
                     complete == Range(workflow.nodes) \subseteq DOMAIN node_results
                 IN  CASE exec[e].final = "Succeeded" -> complete /\ outcomes \subseteq {"Succeeded"}
                       [] exec[e].final = "Failed" -> complete /\ outcomes \subseteq Failure
                       [] exec[e].final = "PartialFailure" ->
                            complete /\ "Succeeded" \in outcomes /\ outcomes \cap Failure # {}
                       [] OTHER -> exec[e].final = "Running" /\ ~complete /\ outcomes \cap Failure # {}
      <3> DEFINE outcomes == Range(node_results)
                 complete == Range(workflow.nodes) \subseteq DOMAIN node_results
                 S == Range(node_statuses)
      <3>1. /\ StatusInv /\ ResultInv /\ exec[e].final = FinalStatus
            /\ HasFailure \/ \A n \in DOMAIN node_statuses : node_statuses[n] \notin {"Pending", "Running"}
        BY <2>3 DEF OrchestratorInv, BookInv, LeaveInv
      <3>2. S \subseteq NodeStatus \ {"Skipped"} /\ outcomes \subseteq Outcome
        BY <3>1 DEF OrchestratorInv, WellTyped, StatusInv, Range
      <3>3. outcomes = S \cap Outcome
        BY <3>1, <3>2 DEF ResultInv, Range
      <3>4. complete <=> S \cap {"Pending", "Running"} = {}
        <4>1. ASSUME S \cap {"Pending", "Running"} = {}, NEW n \in Range(workflow.nodes)
              PROVE  n \in DOMAIN node_results
          <5>1. n \in DOMAIN node_statuses
            BY <3>1, <4>1 DEF StatusInv
          <5>2. node_statuses[n] \in Outcome
            BY <3>2, <4>1, <5>1 DEF Range, NodeStatus
          <5>3. QED
            BY <3>1, <5>1, <5>2 DEF ResultInv
        <4>2. ASSUME complete, NEW n \in DOMAIN node_statuses, node_statuses[n] \in {"Pending", "Running"}
              PROVE  FALSE
          <5>1. n # Unknown
            BY <3>1, <4>2 DEF ResultInv
          <5>2. n \in DOMAIN node_results
            BY <3>1, <4>2, <5>1 DEF StatusInv
          <5>3. QED
            BY <3>1, <4>2, <5>2 DEF ResultInv, OrchestratorInv, WellTyped, Outcome
        <4>3. QED
          BY <4>1, <4>2 DEF Range
      <3>5. HasFailure => outcomes \cap Failure # {}
        BY DEF HasFailure, Range
      <3>6. S \cap {"Pending", "Running"} # {} => outcomes \cap Failure # {}
        BY <3>1, <3>5 DEF Range
      <3> HIDE DEF outcomes, complete
      <3>7. CASE S \cap {"Pending", "Running"} # {}
        <4>1. exec[e].final = "Running"
          BY <3>1, <3>7 DEF FinalStatus
        <4>2. QED
          BY <3>4, <3>6, <3>7, <4>1 DEF outcomes, complete
      <3>8. CASE S \cap {"Pending", "Running"} = {} /\ S \cap Failure # {} /\ "Succeeded" \in S
        <4>1. exec[e].final = "PartialFailure"
          BY <3>1, <3>8 DEF FinalStatus
        <4>2. "Succeeded" \in outcomes /\ outcomes \cap Failure # {}
          BY <3>3, <3>8 DEF Outcome, Failure
        <4>3. QED
          BY <3>4, <3>8, <4>1, <4>2 DEF outcomes, complete
      <3>9. CASE S \cap {"Pending", "Running"} = {} /\ S \cap Failure # {} /\ "Succeeded" \notin S
        <4>1. exec[e].final = "Failed"
          BY <3>1, <3>9 DEF FinalStatus
        <4>2. outcomes \subseteq Failure
          BY <3>3, <3>9 DEF Outcome, Failure
        <4>3. QED
          BY <3>4, <3>9, <4>1, <4>2 DEF outcomes, complete
      <3>10. CASE S \cap {"Pending", "Running"} = {} /\ S \cap Failure = {}
        <4>1. exec[e].final = "Succeeded"
          BY <3>1, <3>10 DEF FinalStatus
        <4>2. outcomes \subseteq {"Succeeded"}
          BY <3>3, <3>10 DEF Outcome, Failure
        <4>3. QED
          BY <3>4, <3>10, <4>1, <4>2 DEF outcomes, complete
      <3>11. QED
        BY <3>7, <3>8, <3>9, <3>10
    <2>4. QED
      BY <2>1, <2>2, <2>3 DEF AnswersAreHonest
  <1>2. QED
    BY <1>1, OrchestratorInvariant, PTL

(***************************************************************************)
(* The agent and the call of a tool                                        *)
(***************************************************************************)

InvOutcomes == {"success", "failure", "error", "timeout"}

InvTyped ==
  /\ invTool \in Nat /\ invTools \in Nat
  /\ invCall \in [at : {"idle", "run", "delay", "done"}, tool : Nat, attempt : Nat,
                  result : {"none", "unknown", "refused", "success", "failure", "exhausted"}]
  /\ invTried \in Seq([tool : Nat, outcome : InvOutcomes])

\* A call that has not ended has as many runs behind it as retries, each of its
\* tool and each to be retried; without a call there are none.
InvUnderWay ==
  /\ invCall.at = "idle" => invCall = InvIdle /\ invTried = << >>
  /\ invCall.at \in {"run", "delay"} =>
       /\ Len(invTried) = invCall.attempt /\ invCall.attempt < InvMaxAttempts
       /\ \A i \in DOMAIN invTried : invTried[i].outcome \in {"error", "timeout"}

InvInv == InvTyped /\ InvUnderWay /\ InvocationsFaithful

ReactStatuses == {"Idle", "Running", "Thinking", "WaitingForTool"} \cup ReactTerminal

ReactTyped ==
  /\ reactStatus \in ReactStatuses /\ reactSeen \in ReactStatuses
  /\ reactResult \in Nat /\ reactIter \in Nat /\ reactRuns \in Nat
  /\ reactHistory \in Seq([n : Nat, observed : Nat])
  /\ reactAt \in {"idle", "head", "think", "act", "call", "tool", "next"}
  /\ reactUnsent \in [{"run", "user"} -> {"none"} \cup ReactStatuses]
  /\ reactCut \in BOOLEAN

\* A run that began is not Idle, and has a number.
ReactBegan == reactAt # "idle" => reactStatus # "Idle" /\ reactRuns > 0

\* What is left of the history counts up to the iteration, whose step is there
\* from its thought on and is observed behind its tool.
ReactSteps(steps, last, open, run) ==
  \A i \in 1 .. Len(steps) :
    /\ steps[i].n + (Len(steps) - i) = last
    /\ steps[i].observed = IF open /\ i = Len(steps) THEN 0 ELSE run

ReactProgress ==
  /\ reactAt \in {"head", "think"} =>
       IF reactIter = 0 THEN reactHistory = << >>
       ELSE ReactSteps(reactHistory, reactIter - 1, FALSE, reactRuns)
  /\ reactAt \in {"act", "call", "tool"} => ReactSteps(reactHistory, reactIter, TRUE, reactRuns)
  /\ reactAt = "next" => ReactSteps(reactHistory, reactIter, FALSE, reactRuns)

\* Without an interrupt the snapshot that is due, or seen, is the status.
ReactShown ==
  ~reactCut =>
    /\ reactUnsent["user"] = "none"
    /\ IF reactUnsent["run"] = "none" THEN reactSeen = reactStatus ELSE reactUnsent["run"] = reactStatus

ReactOwnInv ==
  ReactTyped /\ ReactBegan /\ ReactProgress /\ ReactShown /\ ReactAnswerMatches /\ ReactHistoryFaithful
ReactInv == InvInv /\ ReactOwnInv

-----------------------------------------------------------------------------
(* The call of a tool *)

\* What a sequence holds.
LEMMA ElementIn ==
  ASSUME NEW S, NEW s \in Seq(S), NEW i \in 1 .. Len(s)
  PROVE  s[i] \in S
  OBVIOUS

\* The initial state.
LEMMA InvStarts == InvInit => InvInv
  BY InvConstants DEF InvInit, InvInv, InvTyped, InvUnderWay, InvocationsFaithful, InvIdle

\* The registry is none of the call's business.
LEMMA InvRegistryKeeps ==
  ASSUME InvInv, InvRegister \/ InvUnregister
  PROVE  InvInv'
<1>1. invCall' = invCall /\ invTried' = invTried
  BY DEF InvRegister, InvUnregister
<1>2. invTool' \in Nat /\ invTools' \in Nat
  BY DEF InvRegister, InvUnregister, InvInv, InvTyped
<1>. QED  BY <1>1, <1>2 DEF InvInv, InvTyped, InvUnderWay, InvocationsFaithful

\* A call begins with nothing run.
LEMMA InvBeginKeeps ==
  ASSUME InvInv, InvBegin
  PROVE  InvInv'
<1>0. invCall = InvIdle /\ invTried = << >> /\ invTried' = << >> /\ UNCHANGED <<invTool, invTools>>
  BY DEF InvBegin, InvInv, InvUnderWay, invRegistry
<1>a. invTool \in Nat /\ invTools \in Nat
  BY DEF InvInv, InvTyped
<1>b. \/ invCall' = [at |-> "done", tool |-> 0, attempt |-> 0, result |-> "unknown"]
      \/ invCall' = [at |-> "done", tool |-> 0, attempt |-> 0, result |-> "refused"]
      \/ invCall' = [at |-> "run", tool |-> invTool, attempt |-> 0, result |-> "none"]
  BY <1>0 DEF InvBegin, InvEnd, InvIdle
<1>1. InvTyped'
  BY <1>0, <1>a, <1>b DEF InvTyped
<1>2. InvUnderWay'
  BY <1>0, <1>b, InvConstants DEF InvUnderWay
<1>3. InvocationsFaithful'
  BY <1>0, <1>b DEF InvocationsFaithful
<1>. QED  BY <1>1, <1>2, <1>3 DEF InvInv

\* A delay is over.
LEMMA InvRetryKeeps ==
  ASSUME InvInv, InvRetry
  PROVE  InvInv'
<1>0. /\ invCall.at = "delay" /\ invCall' = [invCall EXCEPT !.at = "run"]
      /\ UNCHANGED <<invTool, invTools, invTried>>
  BY DEF InvRetry, invRegistry
<1>1. InvTyped'
  BY <1>0 DEF InvInv, InvTyped
<1>2. /\ invCall'.at = "run" /\ invCall'.tool = invCall.tool /\ invCall'.attempt = invCall.attempt
  BY <1>0 DEF InvInv, InvTyped
<1>3. InvUnderWay'
  BY <1>0, <1>2 DEF InvInv, InvUnderWay
<1>4. InvocationsFaithful'
  BY <1>0, <1>2 DEF InvInv, InvocationsFaithful
<1>. QED  BY <1>1, <1>3, <1>4 DEF InvInv

\* A run: it is one more, and only its outcome can end the call.
LEMMA InvRunKeeps ==
  ASSUME InvInv, InvRun
  PROVE  InvInv'
<1>0. invCall.at = "run" /\ UNCHANGED <<invTool, invTools>>
  BY DEF InvRun, invRegistry
<1>1. PICK outcome \in InvOutcomes :
        /\ invTried' = Append(invTried, [tool |-> invCall.tool, outcome |-> outcome])
        /\ IF outcome \in {"success", "failure"}
             THEN InvEnd(outcome, invCall.attempt)
             ELSE IF invCall.attempt + 1 < InvMaxAttempts
                    THEN invCall' = [invCall EXCEPT !.at = "delay", !.attempt = @ + 1]
                    ELSE InvEnd("exhausted", InvMaxAttempts - 1)
  BY DEF InvRun, InvTaken, InvOutcomes
<1>2. /\ invCall.attempt \in Nat /\ invCall.tool \in Nat
      /\ invCall.attempt < InvMaxAttempts /\ InvMaxAttempts \in Nat
  BY <1>0, InvConstants DEF InvInv, InvTyped, InvUnderWay
<1>3. /\ invTried \in Seq([tool : Nat, outcome : InvOutcomes]) /\ Len(invTried) = invCall.attempt
      /\ \A i \in DOMAIN invTried : invTried[i].outcome \in {"error", "timeout"}
      /\ \A i \in DOMAIN invTried : invTried[i].tool = invCall.tool
  BY <1>0 DEF InvInv, InvTyped, InvUnderWay, InvocationsFaithful
<1>4. /\ invTried' \in Seq([tool : Nat, outcome : InvOutcomes])
      /\ Len(invTried') = invCall.attempt + 1
      /\ \A i \in 1 .. Len(invTried') - 1 : invTried'[i] = invTried[i]
      /\ DOMAIN invTried' = 1 .. Len(invTried')
      /\ invTried'[Len(invTried')] = [tool |-> invCall.tool, outcome |-> outcome]
      /\ invTried' # << >>
  BY <1>1, <1>2, <1>3
<1>5. /\ \A i \in DOMAIN invTried' : invTried'[i].tool = invCall.tool
      /\ \A i \in 1 .. Len(invTried') - 1 : invTried'[i].outcome \in {"error", "timeout"}
      /\ Last(invTried') = [tool |-> invCall.tool, outcome |-> outcome]
  <2>1. \A i \in DOMAIN invTried' : i = Len(invTried') \/ i \in 1 .. Len(invTried') - 1
    BY <1>2, <1>4
  <2>2. \A i \in 1 .. Len(invTried') - 1 : i \in DOMAIN invTried
    BY <1>2, <1>3, <1>4
  <2>3. ASSUME NEW i \in DOMAIN invTried'
        PROVE  invTried'[i].tool = invCall.tool
    <3>1. CASE i = Len(invTried')
      BY <3>1, <1>4
    <3>2. CASE i \in 1 .. Len(invTried') - 1
      BY <3>2, <2>2, <1>3, <1>4
    <3>. QED  BY <2>1, <3>1, <3>2
  <2>4. \A i \in 1 .. Len(invTried') - 1 : invTried'[i].outcome \in {"error", "timeout"}
    BY <2>2, <1>3, <1>4
  <2>. QED  BY <2>3, <2>4, <1>4 DEF Last
<1>6. invCall \in [at : {"idle", "run", "delay", "done"}, tool : Nat, attempt : Nat,
                   result : {"none", "unknown", "refused", "success", "failure", "exhausted"}]
  BY DEF InvInv, InvTyped
<1>a. CASE outcome \in {"success", "failure"}
  <2>1. invCall' = [invCall EXCEPT !.at = "done", !.result = outcome, !.attempt = invCall.attempt]
    BY <1>a, <1>1 DEF InvEnd
  <2>2. /\ invCall'.at = "done" /\ invCall'.tool = invCall.tool
        /\ invCall'.attempt = invCall.attempt /\ invCall'.result = outcome
    BY <2>1, <1>6
  <2>b. invCall' \in [at : {"idle", "run", "delay", "done"}, tool : Nat, attempt : Nat,
                    result : {"none", "unknown", "refused", "success", "failure", "exhausted"}]
    <3>1. invCall' = [at |-> "done", tool |-> invCall.tool, attempt |-> invCall.attempt,
                      result |-> outcome]
      BY <2>1, <1>6
    <3>2. outcome = "success" \/ outcome = "failure"
      BY <1>a
    <3>. QED  BY <3>1, <3>2, <1>2
  <2>3. InvTyped'
    BY <2>b, <1>0, <1>4 DEF InvInv, InvTyped
  <2>4. InvUnderWay'
    BY <2>2 DEF InvUnderWay
  <2>5. InvocationsFaithful'
    BY <2>2, <1>a, <1>4, <1>5 DEF InvocationsFaithful
  <2>. QED  BY <2>3, <2>4, <2>5 DEF InvInv
<1>b. CASE outcome \notin {"success", "failure"} /\ invCall.attempt + 1 < InvMaxAttempts
  <2>1. invCall' = [invCall EXCEPT !.at = "delay", !.attempt = invCall.attempt + 1]
    BY <1>b, <1>1
  <2>2. /\ invCall'.at = "delay" /\ invCall'.tool = invCall.tool
        /\ invCall'.attempt = invCall.attempt + 1
    BY <2>1, <1>6
  <2>b. invCall' \in [at : {"idle", "run", "delay", "done"}, tool : Nat, attempt : Nat,
                    result : {"none", "unknown", "refused", "success", "failure", "exhausted"}]
    <3>1. invCall' = [at |-> "delay", tool |-> invCall.tool, attempt |-> invCall.attempt + 1,
                      result |-> invCall.result]
      BY <2>1, <1>6
    <3>2. invCall.result \in {"none", "unknown", "refused", "success", "failure", "exhausted"}
      BY <1>6
    <3>. QED  BY <3>1, <3>2, <1>2
  <2>3. InvTyped'
    BY <2>b, <1>0, <1>4 DEF InvInv, InvTyped
  <2>4. outcome \in {"error", "timeout"}
    BY <1>b DEF InvOutcomes
  <2>5. InvUnderWay'
    BY <2>2, <2>4, <1>b, <1>2, <1>4, <1>5 DEF InvUnderWay, Last
  <2>6. InvocationsFaithful'
    BY <2>2, <1>5 DEF InvocationsFaithful
  <2>. QED  BY <2>3, <2>5, <2>6 DEF InvInv
<1>c. CASE outcome \notin {"success", "failure"} /\ ~(invCall.attempt + 1 < InvMaxAttempts)
  <2>1. invCall' = [invCall EXCEPT !.at = "done", !.result = "exhausted",
                                   !.attempt = InvMaxAttempts - 1]
    BY <1>c, <1>1 DEF InvEnd
  <2>2. /\ invCall'.at = "done" /\ invCall'.tool = invCall.tool
        /\ invCall'.attempt = InvMaxAttempts - 1 /\ invCall'.result = "exhausted"
    BY <2>1, <1>6
  <2>a. invCall.attempt + 1 = InvMaxAttempts
    BY <1>c, <1>2
  <2>b. invCall' \in [at : {"idle", "run", "delay", "done"}, tool : Nat, attempt : Nat,
                    result : {"none", "unknown", "refused", "success", "failure", "exhausted"}]
    <3>1. invCall' = [at |-> "done", tool |-> invCall.tool, attempt |-> InvMaxAttempts - 1,
                      result |-> "exhausted"]
      BY <2>1, <1>6
    <3>2. InvMaxAttempts - 1 \in Nat
      BY <2>a, <1>2
    <3>. QED  BY <3>1, <3>2, <1>2
  <2>3. InvTyped'
    BY <2>b, <1>0, <1>4 DEF InvInv, InvTyped
  <2>4. InvUnderWay'
    BY <2>2 DEF InvUnderWay
  <2>5. outcome \in {"error", "timeout"} /\ Len(invTried') = InvMaxAttempts
    BY <1>c, <2>a, <1>4 DEF InvOutcomes
  <2>6. InvocationsFaithful'
    BY <2>2, <2>5, <1>2, <1>4, <1>5 DEF InvocationsFaithful
  <2>. QED  BY <2>3, <2>4, <2>6 DEF InvInv
<1>. QED  BY <1>a, <1>b, <1>c

\* The call is over.
LEMMA InvOverKeeps ==
  ASSUME InvInv, InvOver
  PROVE  InvInv'
  BY InvConstants
     DEF InvOver, InvInv, InvTyped, InvUnderWay, InvocationsFaithful, InvIdle, invRegistry

-----------------------------------------------------------------------------
(* The agent *)

\* What the agent's own invariant reads.
reactRead == <<reactStatus, reactResult, reactHistory, reactRun, reactWatch, reactRuns, reactCut>>

\* It is the same where they are.
LEMMA ReactSame ==
  ASSUME ReactOwnInv, UNCHANGED reactRead
  PROVE  ReactOwnInv'
  BY DEF reactRead, reactRun, reactWatch, ReactOwnInv, ReactTyped, ReactBegan, ReactProgress,
         ReactSteps, ReactShown, ReactAnswerMatches, ReactHistoryFaithful

\* A history that counts up is a faithful one.
LEMMA ReactStepsFaithful ==
  ASSUME NEW steps \in Seq([n : Nat, observed : Nat]), NEW last \in Nat, NEW open \in BOOLEAN,
         NEW run \in Nat, run > 0, ReactSteps(steps, last, open, run)
  PROVE  \A i \in DOMAIN steps :
           /\ steps[i].observed \in {0, run}
           /\ i < Len(steps) => /\ steps[i].observed # 0
                                /\ steps[i + 1].n = steps[i].n + 1
<1>. TAKE i \in DOMAIN steps
<1>1. i \in 1 .. Len(steps) /\ Len(steps) \in Nat
  OBVIOUS
<1>a. steps[i] \in [n : Nat, observed : Nat]
  BY ONLY <1>1, ElementIn, steps \in Seq([n : Nat, observed : Nat])
<1>2. /\ steps[i].n \in Nat /\ steps[i].n + (Len(steps) - i) = last
      /\ steps[i].observed = IF open /\ i = Len(steps) THEN 0 ELSE run
  BY <1>1, <1>a DEF ReactSteps
<1>3. ASSUME i < Len(steps)
      PROVE  steps[i + 1].n = steps[i].n + 1
  <2>1. i + 1 \in 1 .. Len(steps)
    BY <1>1, <1>3
  <2>a. steps[i + 1] \in [n : Nat, observed : Nat]
    BY ONLY <2>1, ElementIn, steps \in Seq([n : Nat, observed : Nat])
  <2>b. \A j \in 1 .. Len(steps) : steps[j].n + (Len(steps) - j) = last
    BY DEF ReactSteps
  <2>2. steps[i + 1].n \in Nat /\ steps[i + 1].n + (Len(steps) - (i + 1)) = last
    BY <2>1, <2>a, <2>b
  <2>3. PICK k \in Nat : k = Len(steps)
    BY <1>1
  <2>4. PICK a \in Nat : a = steps[i].n
    BY <1>2
  <2>5. PICK b \in Nat : b = steps[i + 1].n
    BY <2>2
  <2>6. a + (k - i) = last /\ b + (k - (i + 1)) = last /\ i \in Nat
    BY <2>2, <2>3, <2>4, <2>5, <1>1, <1>2
  <2>7. b = a + 1
    BY ONLY <2>6, a \in Nat, b \in Nat, k \in Nat, last \in Nat
  <2>. QED  BY <2>4, <2>5, <2>7
<1>. QED  BY <1>1, <1>2, <1>3

\* So is that of a run under way.
LEMMA ReactProgressFaithful ==
  ASSUME ReactTyped, ReactBegan, ReactProgress, reactAt # "idle"
  PROVE  ReactHistoryFaithful
<1>0. reactRuns \in Nat /\ reactRuns > 0 /\ reactIter \in Nat
      /\ reactHistory \in Seq([n : Nat, observed : Nat])
  BY DEF ReactTyped, ReactBegan
<1>1. CASE reactAt \in {"head", "think"} /\ reactIter = 0
  BY <1>1 DEF ReactProgress, ReactHistoryFaithful
<1>2. CASE reactAt \in {"head", "think"} /\ reactIter # 0
  <2>1. ReactSteps(reactHistory, reactIter - 1, FALSE, reactRuns)
    BY <1>2 DEF ReactProgress
  <2>2. reactIter - 1 \in Nat
    BY <1>0, <1>2
  <2>. QED  BY <1>0, <2>1, <2>2, ReactStepsFaithful DEF ReactHistoryFaithful
<1>3. CASE reactAt \in {"act", "call", "tool"}
  BY <1>0, <1>3, ReactStepsFaithful DEF ReactHistoryFaithful, ReactProgress
<1>4. CASE reactAt = "next"
  BY <1>0, <1>4, ReactStepsFaithful DEF ReactHistoryFaithful, ReactProgress
<1>. QED  BY <1>1, <1>2, <1>3, <1>4 DEF ReactTyped

\* set_status by a run that is ready: the new status is the one that is due, and
\* the run's snapshot shows it, or nothing changes.
LEMMA ReactSetFacts ==
  ASSUME ReactTyped, ReactShown, NEW s \in ReactStatuses, reactUnsent["run"] = "none", ReactSet(s),
         reactStatus # "Idle", s # "Idle", UNCHANGED reactCut
  PROVE  /\ reactStatus' \in ReactStatuses \ {"Idle"}
         /\ reactUnsent' \in [{"run", "user"} -> {"none"} \cup ReactStatuses] /\ reactSeen' = reactSeen
         /\ ReactShown'
         /\ s \in {"Timeout", "Failed"} => reactStatus' = s
<1>. USE DEF ReactStatuses, ReactTerminal
<1>0. /\ reactStatus \in ReactStatuses
      /\ reactUnsent \in [{"run", "user"} -> {"none"} \cup ReactStatuses]
  BY DEF ReactTyped
<1>1. CASE reactStatus' = s /\ ReactSnapshot("run", s)
  <2>1. reactUnsent' = [reactUnsent EXCEPT !["run"] = s] /\ reactSeen' = reactSeen
    BY <1>1 DEF ReactSnapshot
  <2>2. reactUnsent'["run"] = s /\ reactUnsent'["user"] = reactUnsent["user"]
    BY <2>1, <1>0
  <2>3. ReactShown'
    BY <1>1, <2>2 DEF ReactShown
  <2>. QED  BY <1>0, <1>1, <2>1, <2>3
<1>2. CASE /\ <<reactStatus, s>> \notin ReactCanGo /\ reactStatus \notin ReactTerminal
           /\ UNCHANGED <<reactStatus, reactWatch>>
  <2>1. ReactShown'
    BY <1>2 DEF ReactShown, reactWatch
  <2>2. ASSUME s \in {"Timeout", "Failed"} PROVE FALSE
    BY <1>0, <1>2, <2>2 DEF ReactCanGo
  <2>. QED  BY <1>0, <1>2, <2>1, <2>2 DEF reactWatch
<1>. QED  BY <1>1, <1>2 DEF ReactSet

\* The initial state.
LEMMA ReactStarts == ReactInit => ReactOwnInv
<1>. SUFFICES ASSUME ReactInit PROVE ReactOwnInv
  OBVIOUS
<1>1. ReactTyped
  <2>1. reactUnsent \in [{"run", "user"} -> {"none"} \cup ReactStatuses]
    BY DEF ReactInit
  <2>2. reactHistory \in Seq([n : Nat, observed : Nat])
    BY DEF ReactInit
  <2>3. reactStatus \in ReactStatuses /\ reactSeen \in ReactStatuses
    BY DEF ReactInit, ReactStatuses
  <2>4. /\ reactResult \in Nat /\ reactIter \in Nat /\ reactRuns \in Nat
        /\ reactAt \in {"idle", "head", "think", "act", "call", "tool", "next"}
        /\ reactCut \in BOOLEAN
    BY DEF ReactInit
  <2>. QED  BY ONLY <2>1, <2>2, <2>3, <2>4 DEF ReactTyped
<1>2. ReactBegan /\ ReactProgress
  BY DEF ReactInit, ReactBegan, ReactProgress
<1>3. ReactShown
  BY DEF ReactInit, ReactShown
<1>4. ReactAnswerMatches /\ ReactHistoryFaithful
  BY DEF ReactInit, ReactAnswerMatches, ReactHistoryFaithful
<1>. QED  BY <1>1, <1>2, <1>3, <1>4 DEF ReactOwnInv

\* A run begins with an empty history.
LEMMA ReactBeginKeeps ==
  ASSUME ReactOwnInv, ReactBegin
  PROVE  ReactOwnInv'
<1>0. ReactTyped /\ ReactShown
  BY DEF ReactOwnInv
<1>1. /\ reactRuns' = reactRuns + 1 /\ reactStatus' = "Running"
      /\ reactUnsent' = [reactUnsent EXCEPT !["run"] = "Running"] /\ reactSeen' = reactSeen
      /\ reactResult' = 0 /\ reactHistory' = << >> /\ reactIter' = 0
      /\ reactCut' = (reactUnsent["user"] # "none") /\ reactAt' = "head"
  BY DEF ReactBegin, ReactSnapshot
<1>2. /\ reactUnsent' \in [{"run", "user"} -> {"none"} \cup ReactStatuses]
      /\ reactUnsent'["run"] = "Running" /\ reactUnsent'["user"] = reactUnsent["user"]
  BY <1>0, <1>1 DEF ReactTyped, ReactStatuses
<1>3. ReactTyped'
  BY <1>0, <1>1, <1>2 DEF ReactTyped, ReactStatuses
<1>4. ReactBegan'
  BY <1>0, <1>1 DEF ReactBegan, ReactTyped
<1>5. ReactProgress'
  BY <1>1 DEF ReactProgress
<1>6. ReactShown'
  BY <1>1, <1>2 DEF ReactShown
<1>7. ReactAnswerMatches' /\ ReactHistoryFaithful'
  BY <1>1 DEF ReactAnswerMatches, ReactHistoryFaithful
<1>. QED  BY <1>3, <1>4, <1>5, <1>6, <1>7 DEF ReactOwnInv

\* The head of the loop.
LEMMA ReactHeadKeeps ==
  ASSUME ReactOwnInv, ReactHead
  PROVE  ReactOwnInv'
<1>0. /\ ReactTyped /\ ReactBegan /\ ReactShown /\ ReactProgress /\ ReactHistoryFaithful
      /\ reactAt = "head" /\ reactUnsent["run"] = "none" /\ reactStatus # "Idle"
      /\ UNCHANGED <<reactResult, reactHistory, reactIter, reactRuns, reactCut>>
  BY DEF ReactOwnInv, ReactHead, ReactReady, ReactBegan
<1>1. PICK s \in {"MaxIterationsReached", "Timeout", "Thinking"} :
        /\ ReactSet(s)
        /\ \/ s = "MaxIterationsReached" /\ ReactReturn("max_iterations")
           \/ s = "Timeout" /\ ReactReturn("timeout")
           \/ s = "Thinking" /\ ReactGoTo("think")
  BY DEF ReactHead
<1>2. /\ reactStatus' \in ReactStatuses \ {"Idle"}
      /\ reactUnsent' \in [{"run", "user"} -> {"none"} \cup ReactStatuses] /\ reactSeen' = reactSeen
      /\ ReactShown'
      /\ s \in {"Timeout", "Failed"} => reactStatus' = s
  BY <1>0, <1>1, ReactSetFacts DEF ReactStatuses, ReactTerminal
<1>3. /\ reactAt' \in {"idle", "think"}
      /\ reactAt' = "idle" => s # "Thinking" /\ reactAnswer' \in {"max_iterations", "timeout"}
      /\ reactAt' = "idle" /\ reactAnswer' = "timeout" => s = "Timeout"
  BY <1>1 DEF ReactReturn, ReactGoTo
<1>4. ReactTyped'
  BY <1>0, <1>2, <1>3 DEF ReactTyped
<1>5. ReactBegan'
  BY <1>0, <1>2 DEF ReactBegan
<1>6. ReactProgress'
  BY <1>0, <1>3 DEF ReactProgress, ReactSteps
<1>7. ReactAnswerMatches'
  BY <1>2, <1>3 DEF ReactAnswerMatches
<1>8. ReactHistoryFaithful'
  BY <1>0 DEF ReactHistoryFaithful
<1>. QED  BY <1>2, <1>4, <1>5, <1>6, <1>7, <1>8 DEF ReactOwnInv

\* A thought is a step of the iteration; without one the run fails.
LEMMA ReactThinkKeeps ==
  ASSUME ReactOwnInv, ReactThink
  PROVE  ReactOwnInv'
<1>0. /\ ReactTyped /\ ReactBegan /\ ReactShown /\ ReactProgress /\ ReactHistoryFaithful
      /\ reactAt = "think" /\ reactUnsent["run"] = "none" /\ reactStatus # "Idle"
      /\ UNCHANGED <<reactResult, reactIter, reactRuns, reactCut>>
  BY DEF ReactOwnInv, ReactThink, ReactReady, ReactBegan
<1>a. CASE /\ reactHistory' = Append(reactHistory, [n |-> reactIter, observed |-> 0])
           /\ ReactGoTo("act") /\ UNCHANGED <<reactStatus, reactWatch>>
  <2>1. reactHistory \in Seq([n : Nat, observed : Nat]) /\ reactIter \in Nat
    BY <1>0 DEF ReactTyped
  <2>2. [n |-> reactIter, observed |-> 0] \in [n : Nat, observed : Nat]
    BY <2>1
  <2>3. reactHistory' \in Seq([n : Nat, observed : Nat])
    BY ONLY <1>a, <2>1, <2>2
  <2>4. ReactTyped'
    BY <1>0, <1>a, <2>3 DEF ReactTyped, ReactGoTo, reactWatch
  <2>5. ReactBegan'
    BY <1>0, <1>a DEF ReactBegan
  <2>6. ReactSteps(reactHistory', reactIter, TRUE, reactRuns)
    <3>1. /\ Len(reactHistory') = Len(reactHistory) + 1 /\ Len(reactHistory) \in Nat
          /\ \A i \in 1 .. Len(reactHistory) : reactHistory'[i] = reactHistory[i]
          /\ reactHistory'[Len(reactHistory) + 1] = [n |-> reactIter, observed |-> 0]
      BY ONLY <1>a, <2>1
    <3>2. SUFFICES ASSUME NEW i \in 1 .. Len(reactHistory')
                   PROVE  /\ reactHistory'[i].n + (Len(reactHistory') - i) = reactIter
                          /\ reactHistory'[i].observed =
                                IF i = Len(reactHistory') THEN 0 ELSE reactRuns
      BY DEF ReactSteps
    <3>3. CASE i = Len(reactHistory) + 1
      BY <2>1, <3>1, <3>3
    <3>4. CASE i \in 1 .. Len(reactHistory)
      <4>1. reactHistory # << >>
        BY <3>4
      <4>2. reactIter # 0 /\ ReactSteps(reactHistory, reactIter - 1, FALSE, reactRuns)
        BY <1>0, <4>1 DEF ReactProgress
      <4>3. reactHistory[i].n + (Len(reactHistory) - i) = reactIter - 1
            /\ reactHistory[i].observed = reactRuns
        BY <4>2, <3>4 DEF ReactSteps
      <4>4. reactHistory[i] \in [n : Nat, observed : Nat]
        BY ONLY <2>1, <3>4, ElementIn
      <4>5. PICK a \in Nat : a = reactHistory[i].n
        BY <4>4
      <4>6. PICK k \in Nat : k = Len(reactHistory)
        BY <3>1
      <4>7. a + (k - i) = reactIter - 1 /\ i \in Nat /\ i # k + 1
        BY <4>3, <4>5, <4>6, <3>4
      <4>8. a + ((k + 1) - i) = reactIter
        BY ONLY <4>7, <2>1, a \in Nat, k \in Nat
      <4>. QED  BY <4>3, <4>5, <4>6, <4>7, <4>8, <3>1, <3>4
    <3>. QED  BY <3>1, <3>2, <3>3, <3>4
  <2>7. ReactProgress'
    BY <1>0, <1>a, <2>6 DEF ReactProgress, ReactGoTo
  <2>8. ReactShown'
    BY <1>0, <1>a DEF ReactShown, reactWatch
  <2>9. ReactAnswerMatches'
    BY <1>a DEF ReactAnswerMatches, ReactGoTo
  <2>10. ReactHistoryFaithful'
    <3>1. /\ reactRuns \in Nat /\ reactRuns > 0
      BY <1>0 DEF ReactTyped, ReactBegan
    <3>. QED  BY <1>0, <2>1, <2>3, <2>6, <3>1, ReactStepsFaithful DEF ReactHistoryFaithful
  <2>. QED  BY <2>4, <2>5, <2>7, <2>8, <2>9, <2>10 DEF ReactOwnInv
<1>b. CASE ReactSet("Failed") /\ ReactReturn("error") /\ UNCHANGED reactHistory
  <2>1. /\ reactStatus' = "Failed" /\ reactSeen' = reactSeen
        /\ reactUnsent' \in [{"run", "user"} -> {"none"} \cup ReactStatuses]
        /\ ReactShown'
    BY <1>0, <1>b, ReactSetFacts DEF ReactStatuses, ReactTerminal
  <2>2. reactAt' = "idle" /\ reactAnswer' = "error"
    BY <1>b DEF ReactReturn
  <2>3. ReactTyped'
    BY <1>0, <1>b, <2>1, <2>2 DEF ReactTyped, ReactStatuses, ReactTerminal
  <2>4. ReactBegan' /\ ReactProgress' /\ ReactAnswerMatches'
    BY <2>1, <2>2 DEF ReactBegan, ReactProgress, ReactAnswerMatches
  <2>5. ReactHistoryFaithful'
    BY <1>0, <1>b DEF ReactHistoryFaithful
  <2>. QED  BY <2>1, <2>3, <2>4, <2>5 DEF ReactOwnInv
<1>. QED  BY <1>a, <1>b DEF ReactThink

\* What the thought asks for.
LEMMA ReactActKeeps ==
  ASSUME ReactOwnInv, ReactAct
  PROVE  ReactOwnInv'
<1>0. /\ ReactTyped /\ ReactBegan /\ ReactShown /\ ReactProgress /\ ReactHistoryFaithful
      /\ reactAt = "act" /\ reactUnsent["run"] = "none" /\ reactStatus # "Idle"
      /\ UNCHANGED <<reactHistory, reactIter, reactRuns, reactCut>>
  BY DEF ReactOwnInv, ReactAct, ReactReady, ReactBegan
<1>h. ReactHistoryFaithful'
  BY <1>0 DEF ReactHistoryFaithful
<1>a. CASE reactStatus' = "Completed" /\ ReactSnapshot("run", "Completed")
           /\ reactResult' = reactRuns /\ ReactReturn("ok")
  <2>1. reactUnsent' = [reactUnsent EXCEPT !["run"] = "Completed"] /\ reactSeen' = reactSeen
    BY <1>a DEF ReactSnapshot
  <2>2. /\ reactUnsent' \in [{"run", "user"} -> {"none"} \cup ReactStatuses]
        /\ reactUnsent'["run"] = "Completed" /\ reactUnsent'["user"] = reactUnsent["user"]
    BY <1>0, <2>1 DEF ReactTyped, ReactStatuses, ReactTerminal
  <2>3. reactAt' = "idle" /\ reactAnswer' = "ok"
    BY <1>a DEF ReactReturn
  <2>4. ReactTyped'
    BY <1>0, <1>a, <2>1, <2>2, <2>3 DEF ReactTyped, ReactStatuses, ReactTerminal
  <2>5. ReactShown'
    BY <1>0, <1>a, <2>2 DEF ReactShown
  <2>6. ReactBegan' /\ ReactProgress' /\ ReactAnswerMatches'
    BY <1>0, <1>a, <2>3 DEF ReactBegan, ReactProgress, ReactAnswerMatches
  <2>. QED  BY <1>h, <2>4, <2>5, <2>6 DEF ReactOwnInv
<1>b. CASE ReactSet("WaitingForTool") /\ ReactGoTo("call") /\ UNCHANGED reactResult
  <2>1. /\ reactStatus' \in ReactStatuses \ {"Idle"} /\ reactSeen' = reactSeen
        /\ reactUnsent' \in [{"run", "user"} -> {"none"} \cup ReactStatuses]
        /\ ReactShown'
    BY <1>0, <1>b, ReactSetFacts DEF ReactStatuses, ReactTerminal
  <2>2. reactAt' = "call"
    BY <1>b DEF ReactGoTo
  <2>3. ReactTyped'
    BY <1>0, <1>b, <2>1, <2>2 DEF ReactTyped
  <2>4. ReactBegan' /\ ReactAnswerMatches'
    BY <1>0, <2>1, <2>2 DEF ReactBegan, ReactAnswerMatches
  <2>5. ReactProgress'
    BY <1>0, <2>2 DEF ReactProgress, ReactSteps
  <2>. QED  BY <1>h, <2>1, <2>3, <2>4, <2>5 DEF ReactOwnInv
<1>c. CASE ReactSet("Failed") /\ ReactReturn("error") /\ UNCHANGED reactResult
  <2>1. /\ reactStatus' = "Failed" /\ reactSeen' = reactSeen
        /\ reactUnsent' \in [{"run", "user"} -> {"none"} \cup ReactStatuses]
        /\ ReactShown'
    BY <1>0, <1>c, ReactSetFacts DEF ReactStatuses, ReactTerminal
  <2>2. reactAt' = "idle" /\ reactAnswer' = "error"
    BY <1>c DEF ReactReturn
  <2>3. ReactTyped'
    BY <1>0, <1>c, <2>1, <2>2 DEF ReactTyped, ReactStatuses, ReactTerminal
  <2>4. ReactBegan' /\ ReactProgress' /\ ReactAnswerMatches'
    BY <2>1, <2>2 DEF ReactBegan, ReactProgress, ReactAnswerMatches
  <2>. QED  BY <1>h, <2>1, <2>3, <2>4 DEF ReactOwnInv
<1>d. CASE ReactReturn("garbled") /\ UNCHANGED <<reactStatus, reactWatch, reactResult>>
  <2>1. reactAt' = "idle" /\ reactAnswer' = "garbled"
    BY <1>d DEF ReactReturn
  <2>2. ReactTyped'
    BY <1>0, <1>d, <2>1 DEF ReactTyped, reactWatch
  <2>3. ReactBegan' /\ ReactProgress' /\ ReactAnswerMatches'
    BY <2>1 DEF ReactBegan, ReactProgress, ReactAnswerMatches
  <2>4. ReactShown'
    BY <1>0, <1>d DEF ReactShown, reactWatch
  <2>. QED  BY <1>h, <2>2, <2>3, <2>4 DEF ReactOwnInv
<1>. QED  BY <1>a, <1>b, <1>c, <1>d DEF ReactAct

\* A step that moves execute on and touches nothing else of the agent.
LEMMA ReactMoves ==
  ASSUME ReactOwnInv, reactAt # "idle",
         UNCHANGED <<reactStatus, reactResult, reactHistory, reactWatch, reactRuns, reactCut>>,
         reactIter' \in Nat, ReactProgress',
         \/ reactAt' \in {"head", "tool", "next"}
         \/ reactAt' = "idle" /\ reactAnswer' = "dropped"
  PROVE  ReactOwnInv'
<1>1. ReactTyped'
  BY DEF ReactOwnInv, ReactTyped, reactWatch
<1>2. ReactBegan' /\ ReactAnswerMatches'
  BY DEF ReactOwnInv, ReactBegan, ReactAnswerMatches
<1>3. ReactShown' /\ ReactHistoryFaithful'
  BY DEF ReactOwnInv, ReactShown, ReactHistoryFaithful, reactWatch
<1>. QED  BY <1>1, <1>2, <1>3 DEF ReactOwnInv

\* The observation goes to the step of the iteration, which is the last.
LEMMA ReactObserveKeeps ==
  ASSUME ReactOwnInv, reactAt = "tool", ReactObserve
  PROVE  ReactOwnInv'
<1>0. /\ ReactTyped /\ ReactBegan /\ ReactShown /\ ReactProgress
      /\ UNCHANGED <<reactStatus, reactResult, reactIter, reactWatch, reactRuns, reactCut>>
      /\ reactAt' = "next"
      /\ reactHistory \in Seq([n : Nat, observed : Nat]) /\ reactIter \in Nat
      /\ reactRuns \in Nat /\ reactRuns > 0
  BY DEF ReactOwnInv, ReactObserve, ReactGoTo, ReactTyped, ReactBegan
<1>1. ReactSteps(reactHistory, reactIter, TRUE, reactRuns)
  BY <1>0 DEF ReactProgress
<1>2. /\ reactHistory' = [i \in 1 .. Len(reactHistory) |->
         IF i \in ReactStep(reactIter) THEN [reactHistory[i] EXCEPT !.observed = reactRuns]
         ELSE reactHistory[i]]
      /\ Len(reactHistory) \in Nat
  BY <1>0 DEF ReactObserve
<1>3. ASSUME NEW i \in 1 .. Len(reactHistory)
      PROVE  reactHistory'[i] = [n |-> reactHistory[i].n, observed |-> reactRuns]
             /\ reactHistory[i].n \in Nat
  <2>1. reactHistory[i] \in [n : Nat, observed : Nat]
    BY ONLY <1>0, <1>3, ElementIn
  <2>a. PICK r \in [n : Nat, observed : Nat] : r = reactHistory[i]
    BY <2>1
  <2>2. PICK k \in Nat : k = Len(reactHistory)
    BY <1>2
  <2>3. PICK a \in Nat : a = reactHistory[i].n
    BY <2>1
  <2>b. /\ reactHistory[i].n + (Len(reactHistory) - i) = reactIter
        /\ reactHistory[i].observed = IF i = Len(reactHistory) THEN 0 ELSE reactRuns
    BY <1>1, <1>3 DEF ReactSteps
  <2>4. a + (k - i) = reactIter /\ i \in Nat /\ i =< k
        /\ reactHistory[i].observed = IF i = k THEN 0 ELSE reactRuns
    BY <2>b, <1>3, <2>2, <2>3
  <2>5. CASE i = k
    <3>1. a = reactIter
      BY ONLY <2>4, <2>5, <1>0, a \in Nat, k \in Nat
    <3>2. ASSUME NEW j \in 1 .. i - 1
          PROVE  reactHistory[j].n # reactIter
      <4>1. j \in 1 .. Len(reactHistory) /\ j \in Nat /\ j < k
        BY <3>2, <2>2, <2>5
      <4>2. reactHistory[j] \in [n : Nat, observed : Nat]
        BY ONLY <1>0, <4>1, ElementIn
      <4>3. PICK b \in Nat : b = reactHistory[j].n
        BY <4>2
      <4>4. b + (k - j) = reactIter
        BY <1>1, <4>1, <4>3, <2>2 DEF ReactSteps
      <4>5. b # reactIter
        BY ONLY <4>1, <4>4, <1>0, b \in Nat, k \in Nat
      <4>. QED  BY <4>3, <4>5
    <3>3. i \in ReactStep(reactIter)
      BY <3>1, <3>2, <2>3, <1>3 DEF ReactStep
    <3>. QED  BY <3>3, <1>2, <2>1, <1>3
  <2>6. CASE i # k
    <3>1. a # reactIter
      BY ONLY <2>4, <2>6, <1>0, a \in Nat, k \in Nat
    <3>2. i \notin ReactStep(reactIter)
      BY <3>1, <2>3 DEF ReactStep
    <3>3. reactHistory'[i] = r /\ r.observed = reactRuns
      BY <3>2, <1>2, <1>3, <2>a, <2>4, <2>6
    <3>4. r = [n |-> r.n, observed |-> r.observed]
      OBVIOUS
    <3>. QED  BY <3>3, <3>4, <2>a, <2>1
  <2>. QED  BY <2>5, <2>6
<1>4. reactHistory' \in Seq([n : Nat, observed : Nat]) /\ Len(reactHistory') = Len(reactHistory)
  <2>1. ASSUME NEW i \in 1 .. Len(reactHistory)
        PROVE  reactHistory'[i] \in [n : Nat, observed : Nat]
    <3>1. PICK a \in Nat : a = reactHistory[i].n
      BY <1>3
    <3>2. reactHistory'[i] = [n |-> a, observed |-> reactRuns]
      BY <1>3, <3>1
    <3>. QED  BY <3>2, <1>0
  <2>2. reactHistory' \in [1 .. Len(reactHistory) -> [n : Nat, observed : Nat]]
    BY <2>1, <1>2
  <2>. QED  BY <2>2, <1>2
<1>5. ReactSteps(reactHistory', reactIter, FALSE, reactRuns)
  <2>1. SUFFICES ASSUME NEW i \in 1 .. Len(reactHistory)
                 PROVE  /\ reactHistory'[i].n + (Len(reactHistory) - i) = reactIter
                        /\ reactHistory'[i].observed = reactRuns
    BY <1>4 DEF ReactSteps
  <2>2. reactHistory'[i].n = reactHistory[i].n /\ reactHistory'[i].observed = reactRuns
    <3>1. PICK n : n = reactHistory[i].n
      OBVIOUS
    <3>2. PICK step : step = reactHistory'[i]
      OBVIOUS
    <3>3. step = [n |-> n, observed |-> reactRuns]
      BY <1>3, <3>1, <3>2
    <3>4. step.n = n /\ step.observed = reactRuns
      BY ONLY <3>3
    <3>. QED  BY <3>1, <3>2, <3>4
  <2>. QED  BY <2>2, <1>1 DEF ReactSteps
<1>6. ReactTyped'
  BY <1>0, <1>4 DEF ReactTyped, reactWatch
<1>7. ReactBegan' /\ ReactAnswerMatches'
  BY <1>0 DEF ReactBegan, ReactAnswerMatches
<1>8. ReactProgress'
  BY <1>0, <1>5 DEF ReactProgress
<1>9. ReactShown'
  BY <1>0 DEF ReactShown, reactWatch
<1>10. ReactHistoryFaithful'
  BY <1>0, <1>4, <1>5, ReactStepsFaithful DEF ReactHistoryFaithful
<1>. QED  BY <1>6, <1>7, <1>8, <1>9, <1>10 DEF ReactOwnInv

\* A snapshot is sent.
LEMMA ReactSendKeeps ==
  ASSUME ReactOwnInv, NEW by \in {"run", "user"}, ReactSend(by)
  PROVE  ReactOwnInv'
<1>0. /\ reactUnsent \in [{"run", "user"} -> {"none"} \cup ReactStatuses] /\ ReactTyped
      /\ reactUnsent[by] # "none" /\ reactSeen' = reactUnsent[by]
      /\ reactUnsent' = [reactUnsent EXCEPT ![by] = "none"]
      /\ UNCHANGED <<reactStatus, reactResult, reactHistory, reactAt, reactIter, reactAnswer,
                     reactRuns, reactCut>>
  BY DEF ReactOwnInv, ReactTyped, ReactSend, reactRun
<1>1. /\ reactUnsent' \in [{"run", "user"} -> {"none"} \cup ReactStatuses]
      /\ reactUnsent'[by] = "none" /\ \A w \in {"run", "user"} : w # by => reactUnsent'[w] = reactUnsent[w]
  BY <1>0
<1>2. ReactTyped'
  BY <1>0, <1>1 DEF ReactTyped
<1>3. ReactBegan' /\ ReactAnswerMatches'
  BY <1>0 DEF ReactOwnInv, ReactBegan, ReactAnswerMatches
<1>4. ReactProgress' /\ ReactHistoryFaithful'
  BY <1>0 DEF ReactOwnInv, ReactProgress, ReactSteps, ReactHistoryFaithful
<1>5. ReactShown'
  BY <1>0, <1>1 DEF ReactOwnInv, ReactShown
<1>. QED  BY <1>2, <1>3, <1>4, <1>5 DEF ReactOwnInv

\* A user interrupts.
LEMMA ReactInterruptKeeps ==
  ASSUME ReactOwnInv, ReactInterrupt
  PROVE  ReactOwnInv'
<1>0. /\ ReactTyped
      /\ reactStatus \in {"Running", "Thinking", "WaitingForTool"}
      /\ reactStatus' = "Failed" /\ reactCut' = TRUE /\ reactSeen' = reactSeen
      /\ reactUnsent' = [reactUnsent EXCEPT !["user"] = "Failed"]
      /\ UNCHANGED <<reactResult, reactHistory, reactAt, reactIter, reactAnswer, reactRuns>>
  BY DEF ReactOwnInv, ReactInterrupt, ReactSnapshot, reactRun
<1>1. reactUnsent' \in [{"run", "user"} -> {"none"} \cup ReactStatuses]
  BY <1>0 DEF ReactTyped, ReactStatuses, ReactTerminal
<1>2. ReactTyped'
  BY <1>0, <1>1 DEF ReactTyped, ReactStatuses, ReactTerminal
<1>3. ReactBegan' /\ ReactAnswerMatches'
  BY <1>0 DEF ReactOwnInv, ReactBegan, ReactAnswerMatches
<1>4. ReactProgress' /\ ReactHistoryFaithful'
  BY <1>0 DEF ReactOwnInv, ReactProgress, ReactSteps, ReactHistoryFaithful
<1>5. ReactShown'
  BY <1>0 DEF ReactShown
<1>. QED  BY <1>2, <1>3, <1>4, <1>5 DEF ReactOwnInv

\* The history is cleared under the run.
LEMMA ReactClearKeeps ==
  ASSUME ReactOwnInv, ReactClear
  PROVE  ReactOwnInv'
<1>0. /\ reactHistory' = << >>
      /\ UNCHANGED <<reactStatus, reactResult, reactAt, reactIter, reactAnswer, reactWatch,
                     reactRuns, reactCut>>
  BY DEF ReactClear, reactRun
<1>1. ReactTyped'
  BY <1>0 DEF ReactOwnInv, ReactTyped, reactWatch
<1>2. ReactBegan' /\ ReactAnswerMatches'
  BY <1>0 DEF ReactOwnInv, ReactBegan, ReactAnswerMatches
<1>3. ReactProgress' /\ ReactHistoryFaithful'
  BY <1>0 DEF ReactProgress, ReactSteps, ReactHistoryFaithful
<1>4. ReactShown'
  BY <1>0 DEF ReactOwnInv, ReactShown, reactWatch
<1>. QED  BY <1>1, <1>2, <1>3, <1>4 DEF ReactOwnInv

-----------------------------------------------------------------------------
\* Every step, of the agent or of the call.
LEMMA ReactKeeps ==
  ASSUME ReactInv, [ReactNext]_reactVars
  PROVE  ReactInv'
<1>0. InvInv /\ ReactOwnInv
  BY DEF ReactInv
<1>1. CASE ReactBegin
  <2>1. UNCHANGED invVars
    BY <1>1 DEF ReactBegin
  <2>. QED  BY <1>0, <1>1, <2>1, ReactBeginKeeps
            DEF ReactInv, InvInv, InvTyped, InvUnderWay, InvocationsFaithful, invVars, invRegistry
<1>2. CASE ReactHead
  <2>1. UNCHANGED invVars
    BY <1>2 DEF ReactHead
  <2>. QED  BY <1>0, <1>2, <2>1, ReactHeadKeeps
            DEF ReactInv, InvInv, InvTyped, InvUnderWay, InvocationsFaithful, invVars, invRegistry
<1>3. CASE ReactThink
  <2>1. UNCHANGED invVars
    BY <1>3 DEF ReactThink
  <2>. QED  BY <1>0, <1>3, <2>1, ReactThinkKeeps
            DEF ReactInv, InvInv, InvTyped, InvUnderWay, InvocationsFaithful, invVars, invRegistry
<1>4. CASE ReactAct
  <2>1. UNCHANGED invVars
    BY <1>4 DEF ReactAct
  <2>. QED  BY <1>0, <1>4, <2>1, ReactActKeeps
            DEF ReactInv, InvInv, InvTyped, InvUnderWay, InvocationsFaithful, invVars, invRegistry
<1>5. CASE ReactCall
  <2>1. InvInv'
    BY <1>0, <1>5, InvBeginKeeps DEF ReactCall
  <2>2. /\ reactAt = "call" /\ reactAt' = "tool"
        /\ UNCHANGED <<reactStatus, reactResult, reactHistory, reactIter, reactWatch, reactRuns, reactCut>>
    BY <1>5 DEF ReactCall, ReactReady, ReactGoTo
  <2>3. ReactProgress' /\ reactIter' \in Nat
    BY <1>0, <2>2 DEF ReactOwnInv, ReactTyped, ReactProgress, ReactSteps
  <2>4. ReactOwnInv'
    BY <1>0, <2>2, <2>3, ReactMoves
  <2>. QED  BY <2>1, <2>4 DEF ReactInv
<1>6. CASE ReactInvokes
  <2>1. InvInv'
    BY <1>0, <1>6, InvRunKeeps, InvRetryKeeps DEF ReactInvokes
  <2>2. ReactOwnInv'
    BY <1>0, <1>6, ReactSame DEF ReactInvokes, reactOwn, reactRead
  <2>. QED  BY <2>1, <2>2 DEF ReactInv
<1>7. CASE ReactTool
  <2>1. ReactObserve /\ reactAt = "tool"
    BY <1>7 DEF ReactTool, ReactReady
  <2>2. InvInv'
    BY <1>0, <2>1, InvOverKeeps DEF ReactObserve
  <2>3. ReactOwnInv'
    BY <1>0, <2>1, ReactObserveKeeps
  <2>. QED  BY <2>2, <2>3 DEF ReactInv
<1>8. CASE ReactNextIteration
  <2>1. /\ reactAt = "next" /\ reactAt' = "head" /\ reactIter' = reactIter + 1
        /\ UNCHANGED <<reactStatus, reactResult, reactHistory, reactWatch, reactRuns, reactCut>>
        /\ UNCHANGED invVars
    BY <1>8 DEF ReactNextIteration, ReactReady, ReactGoTo
  <2>2. reactIter \in Nat /\ ReactSteps(reactHistory, reactIter, FALSE, reactRuns)
    BY <1>0, <2>1 DEF ReactOwnInv, ReactTyped, ReactProgress
  <2>3. reactIter' \in Nat /\ reactIter' # 0 /\ reactIter' - 1 = reactIter
    BY <2>1, <2>2
  <2>4. ReactProgress'
    BY <2>1, <2>2, <2>3 DEF ReactProgress, ReactSteps
  <2>5. ReactOwnInv'
    BY <1>0, <2>1, <2>3, <2>4, ReactMoves
  <2>. QED  BY <1>0, <2>1, <2>5
            DEF ReactInv, InvInv, InvTyped, InvUnderWay, InvocationsFaithful, invVars, invRegistry
<1>9. CASE ReactDropped
  <2>1. InvInv'
    BY <1>0, <1>9, InvOverKeeps DEF ReactDropped
  <2>2. /\ reactAt # "idle" /\ reactAt' = "idle" /\ reactAnswer' = "dropped"
        /\ UNCHANGED <<reactStatus, reactResult, reactHistory, reactIter, reactWatch, reactRuns, reactCut>>
    BY <1>9 DEF ReactDropped, ReactReturn
  <2>3. ReactProgress' /\ reactIter' \in Nat
    BY <1>0, <2>2 DEF ReactOwnInv, ReactTyped, ReactProgress
  <2>4. ReactOwnInv'
    BY <1>0, <2>2, <2>3, ReactMoves
  <2>. QED  BY <2>1, <2>4 DEF ReactInv
<1>10. CASE ReactSend("run") \/ ReactSend("user")
  <2>1. UNCHANGED invVars
    BY <1>10 DEF ReactSend
  <2>. QED  BY <1>0, <1>10, <2>1, ReactSendKeeps
            DEF ReactInv, InvInv, InvTyped, InvUnderWay, InvocationsFaithful, invVars, invRegistry
<1>11. CASE ReactInterrupt
  <2>1. UNCHANGED invVars
    BY <1>11 DEF ReactInterrupt
  <2>. QED  BY <1>0, <1>11, <2>1, ReactInterruptKeeps
            DEF ReactInv, InvInv, InvTyped, InvUnderWay, InvocationsFaithful, invVars, invRegistry
<1>12. CASE ReactClear
  <2>1. UNCHANGED invVars
    BY <1>12 DEF ReactClear
  <2>. QED  BY <1>0, <1>12, <2>1, ReactClearKeeps
            DEF ReactInv, InvInv, InvTyped, InvUnderWay, InvocationsFaithful, invVars, invRegistry
<1>13. CASE ReactTimePasses \/ UNCHANGED reactVars
  <2>1. UNCHANGED invVars /\ UNCHANGED reactRead
    BY <1>13 DEF ReactTimePasses, reactVars, reactOwn, reactRead
  <2>2. ReactOwnInv'
    BY <1>0, <2>1, ReactSame
  <2>. QED  BY <1>0, <2>1, <2>2
            DEF ReactInv, InvInv, InvTyped, InvUnderWay, InvocationsFaithful, invVars, invRegistry
<1>14. CASE ReactToolsChange
  <2>1. InvInv'
    BY <1>0, <1>14, InvRegistryKeeps DEF ReactToolsChange
  <2>2. ReactOwnInv'
    BY <1>0, <1>14, ReactSame DEF ReactToolsChange, reactOwn, reactRead
  <2>. QED  BY <2>1, <2>2 DEF ReactInv
<1>. QED  BY <1>1, <1>2, <1>3, <1>4, <1>5, <1>6, <1>7, <1>8, <1>9, <1>10, <1>11, <1>12, <1>13,
             <1>14 DEF ReactNext, ReactGo

\* The answers of the agent and of its tools are what happened: between runs the
\* state says what execute returned, every step has the observation of its own
\* tool, watchers see the status of a run nobody interrupted, and a call of a
\* tool reports its runs, for every limit of iterations and attempts.
THEOREM AgentIsTruthful == ReactSpec => []ReactTruthful
<1>1. ReactInit => ReactInv
  BY InvStarts, ReactStarts DEF ReactInv, ReactInit
<1>2. ReactInv /\ [ReactNext]_reactVars => ReactInv'
  BY ReactKeeps
<1>3. ReactInv => ReactTruthful
  BY DEF ReactInv, ReactOwnInv, InvInv, ReactTruthful, ReactShown, ReactWatchCurrent, ReactTyped
<1>. QED  BY <1>1, <1>2, <1>3, PTL DEF ReactSpec
===============================================================================
