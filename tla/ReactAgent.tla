----------------------------- MODULE ReactAgent -----------------------------
(***************************************************************************)
(* An agent and its tools (knowledge-api, agent/tools.rs and               *)
(* agent/react_agent.rs).                                                  *)
(***************************************************************************)
EXTENDS Naturals, Sequences, SequencesExt, FiniteSets

(***************************************************************************)
(* The tools of an agent (agent/tools.rs): the registry, and invoke, which *)
(* takes a tool from it once and runs that tool until it answers, each     *)
(* time under a time limit.                                                *)
(*                                                                         *)
(* Tools of different names share only the registry's lock, so one name is *)
(* enough; a tool is the number of its registration.  An agent makes one   *)
(* call at a time; the calls of a batch share nothing else.  What a tool   *)
(* does, and the length of the delays between its runs, are left out.      *)
(***************************************************************************)

CONSTANTS
  InvMaxAttempts, \* max_attempts
  InvMaxTools     \* bound: registrations

\* With no attempt at all the count of retries would be one below zero.
ASSUME InvConstants == InvMaxAttempts \in Nat \ {0} /\ InvMaxTools \in Nat

VARIABLES
  invTool,   \* the tool in the registry, 0 for none
  invTools,  \* registrations so far
  invCall,   \* the call: [at, tool, attempt, result]
  invTried   \* history: the runs of this call: [tool, outcome]

invRegistry == <<invTool, invTools>>
invVars     == <<invRegistry, invCall, invTried>>

InvIdle == [at |-> "idle", tool |-> 0, attempt |-> 0, result |-> "none"]

InvInit == invTool = 0 /\ invTools = 0 /\ invCall = InvIdle /\ invTried = << >>

-----------------------------------------------------------------------------
(* The registry *)

\* register refuses a name that is there.
InvRegister ==
  /\ invTool = 0 /\ invTools < InvMaxTools
  /\ invTools' = invTools + 1 /\ invTool' = invTools + 1
  /\ UNCHANGED <<invCall, invTried>>

InvUnregister ==
  /\ invTool # 0
  /\ invTool' = 0
  /\ UNCHANGED <<invTools, invCall, invTried>>

-----------------------------------------------------------------------------
(* invoke *)

\* The call ends with a result and a count of retries.
InvEnd(result, retries) ==
  invCall' = [invCall EXCEPT !.at = "done", !.result = result, !.attempt = retries]

\* The tool is looked up; arguments that do not fit its schema are answered at
\* once.
InvBegin ==
  /\ invCall.at = "idle"
  /\ \/ invTool = 0 /\ InvEnd("unknown", 0)
     \/ invTool # 0 /\ InvEnd("refused", 0)
     \/ invTool # 0 /\ invCall' = [invCall EXCEPT !.at = "run", !.tool = invTool]
  /\ UNCHANGED <<invRegistry, invTried>>

\* Mistake: the tool is looked up for every attempt.
InvAnew == IF invTool = 0 THEN invCall.tool ELSE invTool

\* The tool that runs: the one the call has taken.
InvTaken == invCall.tool

\* One run: the tool answers (with success or not), or it fails or the time is
\* over, and after a delay it is tried again.
InvRun ==
  /\ invCall.at = "run"
  /\ \E outcome \in {"success", "failure", "error", "timeout"} :
       /\ invTried' = Append(invTried, [tool |-> InvTaken, outcome |-> outcome])
       /\ IF outcome \in {"success", "failure"}
            THEN InvEnd(outcome, invCall.attempt)
            ELSE IF invCall.attempt + 1 < InvMaxAttempts
                   THEN invCall' = [invCall EXCEPT !.at = "delay", !.attempt = @ + 1]
                   ELSE InvEnd("exhausted", InvMaxAttempts - 1)
  /\ UNCHANGED invRegistry

InvRetry ==
  /\ invCall.at = "delay"
  /\ invCall' = [invCall EXCEPT !.at = "run"]
  /\ UNCHANGED <<invRegistry, invTried>>

\* The answer is taken, or the call is dropped with its caller.
InvOver == invCall' = InvIdle /\ invTried' = << >> /\ UNCHANGED invRegistry

-----------------------------------------------------------------------------
(* Properties *)

\* What a call answers is what happened: every run was of the tool that was there
\* when the call began, whatever became of the registry since; it ran once more
\* than it says it was tried again; it succeeded or failed with the last run, and
\* it gave up only after all attempts; without a tool or with arguments that do
\* not fit nothing ran.
InvocationsFaithful ==
  /\ \A i \in DOMAIN invTried : invTried[i].tool = invCall.tool
  /\ invCall.at = "done" =>
       /\ invCall.result \in {"unknown", "refused"} <=> invTried = << >>
       /\ invTried # << >> =>
            /\ Len(invTried) = invCall.attempt + 1
            /\ \A i \in 1 .. Len(invTried) - 1 : invTried[i].outcome \in {"error", "timeout"}
            /\ CASE invCall.result = "exhausted" ->
                      Last(invTried).outcome \in {"error", "timeout"} /\ Len(invTried) = InvMaxAttempts
                 [] OTHER -> Last(invTried).outcome = invCall.result

-----------------------------------------------------------------------------
(***************************************************************************)
(* ReactAgent of knowledge-api (agent/react_agent.rs): execute's loop of   *)
(* thought, action and observation over a state behind a lock, while a     *)
(* user interrupts it or clears its history and watchers follow snapshots. *)
(*                                                                         *)
(* A snapshot is taken under the lock and sent after it is released, so    *)
(* the sends of execute and of interrupt may come out of order.  The agent *)
(* runs one task at a time; the orchestrator may drop a run at any await   *)
(* (its timeout) and start another.  A tool is called through the above,   *)
(* whose registry others change meanwhile.  The memory system and the      *)
(* texts are left out, as is current_iteration, which only the summary     *)
(* shows.                                                                  *)
(***************************************************************************)

CONSTANTS
  ReactMaxIterations, \* max_iterations
  ReactMaxRuns,       \* bound: calls of execute
  ReactMaxClears      \* bound: calls of clear_history

ASSUME ReactConstants == {ReactMaxIterations, ReactMaxRuns, ReactMaxClears} \subseteq Nat

VARIABLES
  reactStatus,  \* state.status
  reactResult,  \* state.result: the number of the run whose result it is, or 0
  reactHistory, \* state.history: steps [n, observed: the run whose tool answered, or 0]
  reactAt,      \* where execute is: "idle", "head", "think", "act", "call", "tool" or
                \*   "next"
  reactIter,    \* its iteration
  reactAction,  \* what the thought asks for
  reactLate,    \* config.timeout has passed
  reactAnswer,  \* what the last run returned
  reactUnsent,  \* snapshots taken and not sent yet, by "run" and by "user"
  reactSeen,    \* status in the watch channel
  reactRuns, reactClears,
  reactCut      \* history: an interrupt touched this run's snapshots

reactRun   == <<reactAt, reactIter, reactAction, reactAnswer>>
reactWatch == <<reactUnsent, reactSeen>>
reactOwn   == <<reactStatus, reactResult, reactHistory, reactRun, reactLate, reactWatch,
                reactRuns, reactClears, reactCut>>
reactVars  == <<reactOwn, invVars>>

ReactTerminal == {"Completed", "Failed", "Timeout", "MaxIterationsReached"}

\* can_transition_to
ReactCanGo ==
  ({"Idle"} \X {"Running"})
    \cup ({"Running"} \X ({"Thinking", "WaitingForTool"} \cup ReactTerminal))
    \cup ({"Thinking"} \X ({"WaitingForTool", "Running"} \cup ReactTerminal))
    \cup ({"WaitingForTool"} \X {"Running", "Failed", "Timeout"})

ReactInit ==
  /\ InvInit
  /\ reactStatus = "Idle" /\ reactResult = 0 /\ reactHistory = << >>
  /\ reactAt = "idle" /\ reactIter = 0 /\ reactAction = "none" /\ reactAnswer = "none"
  /\ reactLate = FALSE
  /\ reactUnsent = [w \in {"run", "user"} |-> "none"] /\ reactSeen = "Idle"
  /\ reactRuns = 0 /\ reactClears = 0 /\ reactCut = FALSE

-----------------------------------------------------------------------------
\* execute goes on once it has sent its snapshot.
ReactReady(at) == reactAt = at /\ reactUnsent["run"] = "none"

ReactSnapshot(by, s) ==
  /\ reactUnsent' = [reactUnsent EXCEPT ![by] = s]
  /\ UNCHANGED reactSeen

\* Mistake: a status that cannot follow is ignored even after a final one.
ReactSetStrictly(s) ==
  \/ /\ <<reactStatus, s>> \in ReactCanGo
     /\ reactStatus' = s /\ ReactSnapshot("run", s)
  \/ /\ <<reactStatus, s>> \notin ReactCanGo
     /\ UNCHANGED <<reactStatus, reactWatch>>

\* set_status ignores a status that cannot follow, but overwrites a final one.
ReactSet(s) ==
  \/ /\ <<reactStatus, s>> \in ReactCanGo \/ reactStatus \in ReactTerminal
     /\ reactStatus' = s /\ ReactSnapshot("run", s)
  \/ /\ <<reactStatus, s>> \notin ReactCanGo /\ reactStatus \notin ReactTerminal
     /\ UNCHANGED <<reactStatus, reactWatch>>

ReactGoTo(at) == reactAt' = at /\ UNCHANGED reactAnswer
ReactReturn(a) == reactAt' = "idle" /\ reactAnswer' = a

ReactBegin ==
  /\ ReactReady("idle") /\ reactRuns < ReactMaxRuns
  /\ reactRuns' = reactRuns + 1
  /\ reactStatus' = "Running" /\ ReactSnapshot("run", "Running")
  /\ reactResult' = 0 /\ reactHistory' = << >>
  /\ reactIter' = 0 /\ reactLate' = FALSE /\ reactCut' = (reactUnsent["user"] # "none")
  /\ reactAt' = "head" /\ reactAnswer' = "none"
  /\ UNCHANGED <<reactAction, reactClears, invVars>>

\* The head of the loop: out of iterations, out of time, or a thought.
ReactHead ==
  /\ ReactReady("head")
  /\ \/ reactIter = ReactMaxIterations /\ ReactSet("MaxIterationsReached") /\ ReactReturn("max_iterations")
     \/ reactIter < ReactMaxIterations /\ reactLate /\ ReactSet("Timeout") /\ ReactReturn("timeout")
     \/ reactIter < ReactMaxIterations /\ ~reactLate /\ ReactSet("Thinking") /\ ReactGoTo("think")
  /\ UNCHANGED <<reactResult, reactHistory, reactIter, reactAction, reactLate, reactRuns, reactClears, reactCut, invVars>>

\* The model answers and the thought is recorded, or the call fails.
ReactThink ==
  /\ ReactReady("think")
  /\ \/ /\ \E a \in {"finish", "tool", "clarify", "garbled"} : reactAction' = a
        /\ reactHistory' = Append(reactHistory, [n |-> reactIter, observed |-> 0])
        /\ ReactGoTo("act")
        /\ UNCHANGED <<reactStatus, reactWatch>>
     \/ /\ ReactSet("Failed") /\ ReactReturn("error")
        /\ UNCHANGED <<reactHistory, reactAction>>
  /\ UNCHANGED <<reactResult, reactIter, reactLate, reactRuns, reactClears, reactCut, invVars>>

\* parse_action and its branches.  finalize does not look at the old status;
\* an action that does not parse leaves it alone.
ReactAct ==
  /\ ReactReady("act")
  /\ \/ /\ reactAction = "finish"
        /\ reactStatus' = "Completed" /\ ReactSnapshot("run", "Completed")
        /\ reactResult' = reactRuns /\ ReactReturn("ok")
     \/ /\ reactAction = "tool"
        /\ ReactSet("WaitingForTool") /\ ReactGoTo("call")
        /\ UNCHANGED reactResult
     \/ /\ reactAction = "clarify"
        /\ ReactSet("Failed") /\ ReactReturn("error")
        /\ UNCHANGED reactResult
     \/ /\ reactAction = "garbled"
        /\ ReactReturn("garbled")
        /\ UNCHANGED <<reactStatus, reactWatch, reactResult>>
  /\ UNCHANGED <<reactHistory, reactIter, reactAction, reactLate, reactRuns, reactClears, reactCut, invVars>>

\* The step an observation belongs to: the first of its number, if there is one.
ReactStep(n) ==
  {i \in DOMAIN reactHistory :
     reactHistory[i].n = n /\ \A j \in 1 .. i - 1 : reactHistory[j].n # n}

\* execute_action calls the tool.
ReactCall ==
  /\ ReactReady("call")
  /\ InvBegin /\ ReactGoTo("tool")
  /\ UNCHANGED <<reactStatus, reactResult, reactHistory, reactIter, reactAction, reactLate, reactWatch, reactRuns, reactClears, reactCut>>

\* The tool answered or failed; either way that is the step's observation.
ReactObserve ==
  /\ invCall.at = "done" /\ InvOver
  /\ reactHistory' = [i \in DOMAIN reactHistory |->
       IF i \in ReactStep(reactIter) THEN [reactHistory[i] EXCEPT !.observed = reactRuns]
       ELSE reactHistory[i]]
  /\ ReactGoTo("next")
  /\ UNCHANGED <<reactStatus, reactResult, reactIter, reactAction, reactLate, reactWatch, reactRuns, reactClears, reactCut>>

\* Mistake: an observation is not taken before its step is there.
ReactToolWaits == ReactReady("tool") /\ ReactStep(reactIter) # {} /\ ReactObserve

ReactTool == ReactReady("tool") /\ ReactObserve

ReactNextIteration ==
  /\ ReactReady("next")
  /\ reactIter' = reactIter + 1 /\ ReactGoTo("head")
  /\ UNCHANGED <<reactStatus, reactResult, reactHistory, reactAction, reactLate, reactWatch, reactRuns, reactClears, reactCut, invVars>>

\* The caller's timeout drops the future; nobody tells the agent.
ReactDropped ==
  /\ reactAt # "idle" /\ reactUnsent["run"] = "none"
  /\ ReactReturn("dropped") /\ InvOver
  /\ UNCHANGED <<reactStatus, reactResult, reactHistory, reactIter, reactAction, reactLate, reactWatch, reactRuns, reactClears, reactCut>>

-----------------------------------------------------------------------------
ReactSend(by) ==
  /\ reactUnsent[by] # "none"
  /\ reactSeen' = reactUnsent[by]
  /\ reactUnsent' = [reactUnsent EXCEPT ![by] = "none"]
  /\ UNCHANGED <<reactStatus, reactResult, reactHistory, reactRun, reactLate, reactRuns, reactClears, reactCut, invVars>>

ReactInterrupt ==
  /\ reactUnsent["user"] = "none"
  /\ reactStatus \in {"Running", "Thinking", "WaitingForTool"}
  /\ reactStatus' = "Failed" /\ reactCut' = TRUE
  /\ ReactSnapshot("user", "Failed")
  /\ UNCHANGED <<reactResult, reactHistory, reactRun, reactLate, reactRuns, reactClears, invVars>>

ReactClear ==
  /\ reactClears < ReactMaxClears
  /\ reactClears' = reactClears + 1
  /\ reactHistory' = << >>
  /\ UNCHANGED <<reactStatus, reactResult, reactRun, reactLate, reactWatch, reactRuns, reactCut, invVars>>

ReactTimePasses ==
  /\ reactAt # "idle" /\ ~reactLate
  /\ reactLate' = TRUE
  /\ UNCHANGED <<reactStatus, reactResult, reactHistory, reactRun, reactWatch, reactRuns, reactClears, reactCut, invVars>>

\* The call runs its tool.
ReactInvokes == (InvRun \/ InvRetry) /\ UNCHANGED reactOwn

\* Somebody registers a tool or takes it away.
ReactToolsChange == (InvRegister \/ InvUnregister) /\ UNCHANGED reactOwn

ReactGo ==
  ReactHead \/ ReactThink \/ ReactAct \/ ReactCall \/ ReactInvokes \/ ReactTool
    \/ ReactNextIteration \/ ReactSend("run")

ReactNext ==
  ReactBegin \/ ReactGo \/ ReactDropped \/ ReactSend("user")
    \/ ReactInterrupt \/ ReactClear \/ ReactTimePasses \/ ReactToolsChange

\* The runtime polls execute, and its calls of the model and the tools return.
ReactFairness == WF_reactVars(ReactGo)

ReactSpec == ReactInit /\ [][ReactNext]_reactVars /\ ReactFairness
-----------------------------------------------------------------------------
(* Properties *)

\* Between runs the state tells what the last one returned: a result and
\* Completed after Ok, Timeout after a timeout, Failed after a failed model
\* call or a question, whatever interrupts came in between.
ReactAnswerMatches ==
  reactAt = "idle" =>
    /\ reactAnswer = "ok"      => reactStatus = "Completed" /\ reactResult = reactRuns
    /\ reactAnswer = "timeout" => reactStatus = "Timeout"
    /\ reactAnswer = "error"   => reactStatus = "Failed"

\* The history is a run of successive steps, each but the last with the
\* observation this run made for it, even when it is cleared under the run.
ReactHistoryFaithful ==
  \A i \in DOMAIN reactHistory :
    /\ reactHistory[i].observed \in {0, reactRuns}
    /\ i < Len(reactHistory) => /\ reactHistory[i].observed # 0
                                /\ reactHistory[i + 1].n = reactHistory[i].n + 1

\* Watchers see the agent's status once every snapshot is sent, unless the run
\* was interrupted (an interrupt's snapshot may be overtaken).
ReactWatchCurrent ==
  ~reactCut /\ (\A w \in DOMAIN reactUnsent : reactUnsent[w] = "none") => reactSeen = reactStatus

ReactTruthful == ReactAnswerMatches /\ ReactHistoryFaithful /\ ReactWatchCurrent /\ InvocationsFaithful

\* execute returns.
ReactReturns == []<>(reactAt = "idle")
=============================================================================
