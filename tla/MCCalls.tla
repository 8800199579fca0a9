-------------------------------- MODULE MCCalls -------------------------------
(* The tokens that cancel a call to a model, the call itself, the stream of  *)
(* its answer, the embedding queue, the rate limits of the MCP server, and   *)
(* the breaker and the retries of error-core.                                *)
(* LlmClient has a cancellation of its own (a flag that may be set at any    *)
(* time), so they share no state and a behaviour runs one of them.           *)
EXTENDS MCCancellation, LlmClient, CallLimits, EmbeddingQueue

CONSTANTS lc1, lc2, g1, g2

TwoLlmCallers == {lc1, lc2}
AllLines      == {"text", "tool", "note", "bad", "done"}
SlowRate      == [cap |-> 2, rate |-> 1]
TwoGuarded    == {g1, g2}
SlowDelays    == [initial |-> 2, factor |-> 2, max |-> 3]
OneOrTwoTexts == {<<"a">>, <<"a", "">>}
TwoRates      == {SlowRate, [cap |-> 3, rate |-> 2]}

CallsNext ==
  \/ LlmInit /\ SseInit /\ RateInit /\ EmbInit /\ RecInit /\ Next
     /\ UNCHANGED <<llmVars, sseVars, rateVars, embVars, recVars>>
  \/ Init /\ SseInit /\ RateInit /\ EmbInit /\ RecInit /\ LlmNext
     /\ UNCHANGED <<vars, sseVars, rateVars, embVars, recVars>>
  \/ Init /\ LlmInit /\ RateInit /\ EmbInit /\ RecInit /\ SseNext
     /\ UNCHANGED <<vars, llmVars, rateVars, embVars, recVars>>
  \/ Init /\ LlmInit /\ SseInit /\ EmbInit /\ RecInit /\ RateNext
     /\ UNCHANGED <<vars, llmVars, sseVars, embVars, recVars>>
  \/ Init /\ LlmInit /\ SseInit /\ RateInit /\ RecInit /\ EmbNext
     /\ UNCHANGED <<vars, llmVars, sseVars, rateVars, recVars>>
  \/ Init /\ LlmInit /\ SseInit /\ RateInit /\ EmbInit /\ RecNext
     /\ UNCHANGED <<vars, llmVars, sseVars, rateVars, embVars>>

CallsInit == Init /\ LlmInit /\ SseInit /\ RateInit /\ EmbInit /\ RecInit

CallsSpec ==
  /\ CallsInit
  /\ [][CallsNext]_<<vars, llmVars, sseVars, rateVars, embVars, recVars>>
  /\ CancellationFairness /\ LlmFairness /\ EmbFairness

\* A task that sleeps on a token wakes when it is cancelled, and a call of a
\* model or for embeddings ends.
CallsReturn == DirectCancelWakesSleepers /\ LlmCallsReturn /\ EmbCallsReturn
=============================================================================
