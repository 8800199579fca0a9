----------------------------- MODULE LlmClient ------------------------------
(***************************************************************************)
(* The LLM client, ullm: calls with their permits, retries and tokens, and *)
(* the stream an answer arrives by. The two share no state.                *)
(***************************************************************************)
EXTENDS Naturals, Sequences, FiniteSets, SequencesExt

(***************************************************************************)
(* Calls of ullm's LlmApi (api.rs): complete with its retries and          *)
(* stream_full, behind two semaphores, the API's and the provider's        *)
(* (rate_limit/mod.rs), with the provider's key from a portal that         *)
(* refreshes tokens (credential/portal_auth.rs).  A caller may drop a call *)
(* at any await.                                                           *)
(*                                                                         *)
(* tokio's semaphore serves in order: it is the sequence of those that     *)
(* asked, of which the first so many hold a permit.  The events of a       *)
(* stream, its text and the sleep between attempts carry no data here;     *)
(* stream_text takes the same steps as stream_full.                        *)
(***************************************************************************)

CONSTANTS
  LlmCallers,
  LlmPermits,         \* permits of LlmApi's limiter
  LlmProviderPermits, \* permits of the provider's limiter
  LlmAttempts,        \* max_attempts of the retry policy
  LlmMaxTokens,       \* bound: tokens the portal issues
  LlmMaxCalls         \* bound: calls

ASSUME LlmConstants ==
  /\ IsFiniteSet(LlmCallers)
  /\ {LlmPermits, LlmProviderPermits, LlmAttempts} \subseteq Nat \ {0}
  /\ {LlmMaxTokens, LlmMaxCalls} \subseteq Nat

VARIABLES
  llmCall,      \* llmCall[c]: its kind and step, the attempts that failed, the
                \*   key it got (0: the environment's), the token in hand, and as
                \*   history the tokens that were good at some time since it asked
  llmApi,       \* who asked the API's semaphore
  llmProvider,  \* who asked the provider's
  llmToken,     \* the cached token [n, refresh: it has a refresh token], n = 0: None
  llmGood,      \* tokens issued and not expired
  llmIssued,    \* tokens issued, which numbers them
  llmCancelled, \* the default cancel token
  llmCalls,     \* calls so far
  llmOpen,      \* event log: Created events less Completed, Failed and Cancelled
  llmSilent     \* history: completes refused or dropped after Created

llmKeys   == <<llmToken, llmGood, llmIssued>>
llmEvents == <<llmOpen, llmSilent>>
llmVars   == <<llmCall, llmApi, llmProvider, llmKeys, llmCancelled, llmCalls, llmEvents>>

LlmIdle == [kind |-> "none", at |-> "idle", failed |-> 0, key |-> 0,
            token |-> [n |-> 0, refresh |-> FALSE], seen |-> {}]

LlmInit ==
  /\ llmCall = [c \in LlmCallers |-> LlmIdle]
  /\ llmApi = << >> /\ llmProvider = << >>
  /\ llmToken = LlmIdle.token /\ llmGood = {} /\ llmIssued = 0
  /\ llmCancelled = FALSE /\ llmCalls = 0 /\ llmOpen = 0 /\ llmSilent = 0

LlmGo(c, at) == llmCall' = [llmCall EXCEPT ![c].at = at]

\* c asks for a key.
LlmAsk(c) == llmCall' = [llmCall EXCEPT ![c].at = "key", ![c].seen = llmGood]

\* Its key has served.
LlmServed(c, at, failed) ==
  llmCall' = [llmCall EXCEPT ![c] = [LlmIdle EXCEPT !.kind = llmCall[c].kind, !.at = at, !.failed = failed]]

\* c holds one of the permits.
LlmHolds(c, queue, permits) == \E i \in DOMAIN queue : i <= permits /\ queue[i] = c

-----------------------------------------------------------------------------
(* Entering the API *)

\* complete resolves the model, logs Created and looks at the cancel token; a
\* cancelled call is over at once, with its event.  Looking the model up
\* changes nothing but the log of a model that is not there.
LlmComplete(c) ==
  /\ llmCall[c].at = "idle" /\ llmCalls < LlmMaxCalls
  /\ llmCalls' = llmCalls + 1
  /\ IF llmCancelled
       THEN UNCHANGED <<llmCall, llmOpen>>
       ELSE /\ llmCall' = [llmCall EXCEPT ![c] = [LlmIdle EXCEPT !.kind = "complete", !.at = "request"]]
            /\ llmOpen' = llmOpen + 1
  /\ UNCHANGED <<llmApi, llmProvider, llmKeys, llmCancelled, llmSilent>>

\* stream_full logs nothing.
LlmStream(c) ==
  /\ llmCall[c].at = "idle" /\ llmCalls < LlmMaxCalls /\ ~llmCancelled
  /\ llmCalls' = llmCalls + 1
  /\ llmCall' = [llmCall EXCEPT ![c] = [LlmIdle EXCEPT !.kind = "stream", !.at = "request"]]
  /\ UNCHANGED <<llmApi, llmProvider, llmKeys, llmCancelled, llmEvents>>

\* A call ends; its permits and places in a queue go with it.  "told": with an
\* event, which only complete logs.
LlmEnd(c, told) ==
  /\ llmCall' = [llmCall EXCEPT ![c] = LlmIdle]
  /\ llmApi' = RemoveFirst(llmApi, c)
  /\ llmProvider' = RemoveFirst(llmProvider, c)
  /\ IF llmCall[c].kind # "complete" THEN UNCHANGED llmEvents
     ELSE IF told THEN llmOpen' = llmOpen - 1 /\ UNCHANGED llmSilent
     ELSE llmSilent' = llmSilent + 1 /\ UNCHANGED llmOpen
  /\ UNCHANGED <<llmKeys, llmCancelled, llmCalls>>

\* Mistake: the permit is dropped where it was taken ("let _ =").
LlmTakeAndDrop(c) ==
  /\ LlmHolds(c, llmApi, LlmPermits)
  /\ llmApi' = RemoveFirst(llmApi, c)

\* acquire_owned of the API's limiter.
LlmTake(c) ==
  /\ LlmHolds(c, llmApi, LlmPermits)
  /\ UNCHANGED llmApi

\* The middleware sees the request; it may refuse it, and no event tells.
\* complete then asks for its permit, a stream calls the model first.
LlmRequest(c) ==
  /\ llmCall[c].at = "request"
  /\ \/ LlmEnd(c, FALSE)
     \/ /\ IF llmCall[c].kind = "complete"
             THEN LlmGo(c, "permit") /\ llmApi' = Append(llmApi, c)
             ELSE LlmAsk(c) /\ UNCHANGED llmApi
        /\ UNCHANGED <<llmProvider, llmKeys, llmCancelled, llmCalls, llmEvents>>

\* The permit is there.
LlmPermit(c) ==
  /\ llmCall[c].at = "permit" /\ LlmTake(c)
  /\ IF llmCall[c].kind = "complete" THEN LlmAsk(c) ELSE LlmGo(c, "reading")
  /\ UNCHANGED <<llmProvider, llmKeys, llmCancelled, llmCalls, llmEvents>>

-----------------------------------------------------------------------------
(* get_api_key *)

\* Mistake: the expiry is not looked at.
LlmUnread(t) == t.n # 0

\* A cached token is used until it expires.
LlmUsable(t) == t.n # 0 /\ t.n \in llmGood

LlmKept == <<llmApi, llmCancelled, llmCalls, llmEvents>>

LlmAsking == {"key", "stale", "refresh", "clear", "env", "login", "store"}

\* With a key the call queues for the provider.
LlmGotKey(c, n) ==
  /\ llmCall' = [llmCall EXCEPT ![c].key = n, ![c].at = "slot", ![c].token = LlmIdle.token]
  /\ llmProvider' = Append(llmProvider, c)

\* The cached token, ...
LlmCached(c) ==
  /\ llmCall[c].at = "key"
  /\ IF LlmUsable(llmToken) THEN LlmGotKey(c, llmToken.n)
     ELSE LlmGo(c, "stale") /\ UNCHANGED llmProvider
  /\ UNCHANGED <<LlmKept, llmKeys>>

\* ... read again for its refresh token, ...
LlmStale(c) ==
  /\ llmCall[c].at = "stale"
  /\ LlmGo(c, IF llmToken.n # 0 /\ llmToken.refresh THEN "refresh" ELSE "env")
  /\ UNCHANGED <<LlmKept, llmProvider, llmKeys>>

\* The portal issues a token, with or without a refresh token.
LlmIssue(c, next) ==
  /\ llmIssued < LlmMaxTokens
  /\ llmIssued' = llmIssued + 1
  /\ llmGood' = llmGood \cup {llmIssued + 1}
  /\ \E r \in BOOLEAN :
       llmCall' = [x \in LlmCallers |->
         LET call == IF llmCall[x].at \notin LlmAsking THEN llmCall[x]
                     ELSE [llmCall[x] EXCEPT !.seen = @ \cup {llmIssued + 1}]
         IN  IF x = c THEN [call EXCEPT !.at = next, !.token = [n |-> llmIssued + 1, refresh |-> r]]
             ELSE call]

\* ... which is traded for a new token, or fails; ...
LlmRefresh(c) ==
  /\ llmCall[c].at = "refresh"
  /\ \/ LlmIssue(c, "store") /\ UNCHANGED llmToken
     \/ LlmGo(c, "clear") /\ UNCHANGED llmKeys
  /\ UNCHANGED <<LlmKept, llmProvider>>

\* ... then whatever is cached goes.
LlmClear(c) ==
  /\ llmCall[c].at = "clear"
  /\ llmToken' = LlmIdle.token
  /\ LlmGo(c, "env")
  /\ UNCHANGED <<LlmKept, llmProvider, llmGood, llmIssued>>

\* The environment may have a key; if not the portal is asked to authenticate.
LlmEnv(c) ==
  /\ llmCall[c].at = "env"
  /\ LlmGotKey(c, 0) \/ (LlmGo(c, "login") /\ UNCHANGED llmProvider)
  /\ UNCHANGED <<LlmKept, llmKeys>>

LlmStore(c) ==
  /\ llmCall[c].at = "store"
  /\ llmToken' = llmCall[c].token
  /\ LlmGotKey(c, llmCall[c].token.n)
  /\ UNCHANGED <<LlmKept, llmGood, llmIssued>>

\* The portal may refuse; some of its errors are retried (LlmRetryable).
LlmLogin(c) ==
  /\ llmCall[c].at = "login"
  /\ \/ LlmIssue(c, "store") /\ UNCHANGED <<LlmKept, llmProvider, llmToken>>
     \/ LlmEnd(c, TRUE)

LlmKey(c) ==
  LlmCached(c) \/ LlmStale(c) \/ LlmRefresh(c) \/ LlmClear(c) \/ LlmEnv(c) \/ LlmStore(c) \/ LlmLogin(c)

\* invalidate, and the passing of time.
LlmInvalidate ==
  /\ llmToken.n # 0
  /\ llmToken' = LlmIdle.token
  /\ UNCHANGED <<llmCall, llmApi, llmProvider, llmGood, llmIssued, llmCancelled, llmCalls, llmEvents>>

LlmExpire ==
  /\ \E n \in llmGood : llmGood' = llmGood \ {n}
  /\ UNCHANGED <<llmCall, llmApi, llmProvider, llmToken, llmIssued, llmCancelled, llmCalls, llmEvents>>

-----------------------------------------------------------------------------
(* The request *)

LlmSlot(c) ==
  /\ llmCall[c].at = "slot" /\ LlmHolds(c, llmProvider, LlmProviderPermits)
  /\ LlmGo(c, "send")
  /\ UNCHANGED <<LlmKept, llmProvider, llmKeys>>

\* Mistake: the provider's permit lasts as long as its stream.
LlmSlotHeld(c) == llmProvider

\* The provider's permit ends with stream_completion, before its stream.
LlmSlotFreed(c) == RemoveFirst(llmProvider, c)

\* Answered: complete collects the stream, a stream asks for the API's permit.
LlmAnswered(c) ==
  /\ llmCall[c].at = "send"
  /\ llmProvider' = LlmSlotFreed(c)
  /\ IF llmCall[c].kind = "complete"
       THEN LlmServed(c, "collect", llmCall[c].failed) /\ UNCHANGED llmApi
       ELSE LlmServed(c, "permit", 0) /\ llmApi' = Append(llmApi, c)
  /\ UNCHANGED <<llmKeys, llmCancelled, llmCalls, llmEvents>>

\* An error complete retries: it sleeps, also after its last attempt.
LlmRetryable(c) ==
  /\ llmCall[c].kind = "complete" /\ llmCall[c].at \in {"send", "login"}
  /\ llmProvider' = RemoveFirst(llmProvider, c)
  /\ LlmServed(c, "sleep", llmCall[c].failed + 1)
  /\ UNCHANGED <<LlmKept, llmKeys>>

LlmFail(c) == llmCall[c].at \in {"send", "collect"} /\ LlmEnd(c, TRUE)

LlmAgain(c) ==
  /\ llmCall[c].at = "sleep"
  /\ \/ llmCall[c].failed < LlmAttempts /\ LlmAsk(c) /\ UNCHANGED <<LlmKept, llmProvider, llmKeys>>
     \/ llmCall[c].failed = LlmAttempts /\ LlmEnd(c, TRUE)

\* Collected, or read to the end.
LlmDone(c) == llmCall[c].at \in {"collect", "reading"} /\ LlmEnd(c, TRUE)

LlmGoOn(c) ==
  LlmRequest(c) \/ LlmPermit(c) \/ LlmKey(c) \/ LlmSlot(c) \/ LlmAnswered(c)
    \/ LlmRetryable(c) \/ LlmFail(c) \/ LlmAgain(c) \/ LlmDone(c)

LlmDropped(c) == llmCall[c].at # "idle" /\ LlmEnd(c, FALSE)

LlmCancel ==
  /\ ~llmCancelled /\ llmCancelled' = TRUE
  /\ UNCHANGED <<llmCall, llmApi, llmProvider, llmKeys, llmCalls, llmEvents>>

LlmNext ==
  \/ \E c \in LlmCallers : LlmComplete(c) \/ LlmStream(c) \/ LlmGoOn(c) \/ LlmDropped(c)
  \/ LlmInvalidate \/ LlmExpire \/ LlmCancel

\* The runtime polls every call, the portal and the provider answer or fail,
\* and callers read the streams they were given.
LlmFairness == \A c \in LlmCallers : WF_llmVars(LlmGoOn(c))

LlmSpec == LlmInit /\ [][LlmNext]_llmVars /\ LlmFairness
-----------------------------------------------------------------------------
(* Properties *)

LlmInside(steps) == {c \in LlmCallers : llmCall[c].at \in steps}
LlmBusy  == {c \in LlmCallers : llmCall[c].kind = "complete" /\ llmCall[c].at \notin {"request", "permit"}}

\* The limits hold: no more calls than permits are between their permit and
\* their end, through every retry, and no more requests at the provider.
LlmBoundsHold ==
  /\ Cardinality(LlmBusy \cup LlmInside({"reading"})) <= LlmPermits
  /\ Cardinality(LlmInside({"send"})) <= LlmProviderPermits

\* The key a request goes out with was good while its caller was asking for
\* it: a refresh that fails, an invalidation or another caller's token in
\* between never brings an expired one back.
LlmKeysFresh ==
  \A c \in LlmInside({"slot", "send"}) : llmCall[c].key = 0 \/ llmCall[c].key \in llmCall[c].seen

\* The event log has exactly the completes open that are still running, and
\* those that were refused or dropped, which it does not tell.
LlmLogAccounts ==
  llmOpen = llmSilent + Cardinality({c \in LlmCallers : llmCall[c].kind = "complete"})

LlmCallsSafe == LlmBoundsHold /\ LlmKeysFresh /\ LlmLogAccounts

\* Every call ends: a complete that holds a permit of the API and waits for
\* the provider's never waits on a stream that holds one and waits for the
\* other, and what dropped calls held is free again.
LlmCallsReturn == \A c \in LlmCallers : []<>(llmCall[c].at = "idle")

-----------------------------------------------------------------------------
(***************************************************************************)
(* A provider's answer on its way to the caller: the body arrives in       *)
(* chunks cut anywhere, SseParser (ullm, stream/sse.rs) cuts it into       *)
(* frames, OpenAiSseMapper turns a frame into events, and the stream of    *)
(* openai_compatible.rs hands them to a reader or to                       *)
(* CompletionResponse::from_stream (response.rs).                          *)
(*                                                                         *)
(* A symbol of the wire is one line of a frame, [n, kind], or a character  *)
(* of the line ends, which are what chunks and frames turn on.  Kinds:     *)
(* "text", "tool", "usage" and "stop" are chunks with that content,        *)
(* "note" a comment or ping, "done" the [DONE] mark, "bad" a line that     *)
(* does not parse.  The meta event ahead of others is left out.            *)
(***************************************************************************)

CONSTANTS
  SseKinds,    \* kinds of lines the provider sends
  SseMaxLines  \* bound: lines

ASSUME SseConstants ==
  /\ SseKinds \subseteq {"text", "tool", "usage", "stop", "note", "done", "bad"}
  /\ SseMaxLines \in Nat

VARIABLES
  sseLines,  \* the lines the provider sends, a frame each; "none" before
  sseEnds,   \* the line ends that close a frame
  ssePos,    \* symbols that have arrived
  sseBuf,    \* the parser's buffer
  sseEvents, \* events yielded: [n, kind], with n = 0 for an Error
  sseOver    \* the body has ended, or broke

sseVars == <<sseLines, sseEnds, ssePos, sseBuf, sseEvents, sseOver>>

SseEndOf(c) == [n |-> 0, kind |-> c]
SseLf   == <<SseEndOf("lf"), SseEndOf("lf")>>
SseCrLf == <<SseEndOf("cr"), SseEndOf("lf"), SseEndOf("cr"), SseEndOf("lf")>>

SseInit ==
  /\ sseLines = << >> /\ sseEnds = << >> /\ ssePos = 0
  /\ sseBuf = << >> /\ sseEvents = << >> /\ sseOver = FALSE

\* The whole body: the provider ends all its frames in one way.
SseWire ==
  FlattenSeq([i \in DOMAIN sseLines |-> <<[n |-> i, kind |-> sseLines[i]]>> \o sseEnds])

-----------------------------------------------------------------------------
(* The parser *)

SseFound(buf, ends) ==
  {i \in 1 .. Len(buf) - Len(ends) + 1 : SubSeq(buf, i, i + Len(ends) - 1) = ends}

SseFirst(S) == CHOOSE i \in S : \A j \in S : i <= j

SseCut(buf, ends) ==
  LET at == SseFirst(SseFound(buf, ends))
  IN  [frame |-> SubSeq(buf, 1, at - 1), rest |-> SubSeq(buf, at + Len(ends), Len(buf))]

\* next_frame: up to the first "\n\n", or if there is none the first "\r\n\r\n".
SseHasFrame(buf) == SseFound(buf, SseLf) # {} \/ SseFound(buf, SseCrLf) # {}
SseFrame(buf) == SseCut(buf, IF SseFound(buf, SseLf) # {} THEN SseLf ELSE SseCrLf)

\* What is of these kinds, in its order.
SseOf(s, kinds) == FlattenSeq([i \in 1 .. Len(s) |-> IF s[i].kind \in kinds THEN <<s[i]>> ELSE << >>])

\* extract_data_lines and map_frame: lines of data are joined, and two JSON
\* values together do not parse.
SseData(frame) == SseOf(frame, SseKinds \ {"note"})
SseBad(frame)  == Len(SseData(frame)) > 1 \/ \E x \in ToSet(SseData(frame)) : x.kind = "bad"
SseMapped(frame) == SseOf(SseData(frame), SseKinds \ {"done"})

\* Mistake: one frame of a chunk is read, the others wait for the next chunk.
SseReadOne(buf) ==
  IF ~SseHasFrame(buf) THEN [events |-> << >>, bad |-> FALSE, rest |-> buf]
  ELSE LET cut == SseFrame(buf)
       IN  [events |-> SseMapped(cut.frame), bad |-> SseBad(cut.frame), rest |-> cut.rest]

\* push: frame after frame until one does not parse; then the events found so
\* far go with the error, and the rest stays in the buffer.
SseReadNext(was) ==
  LET cut == SseFrame(was.rest)
  IN  IF was.bad \/ ~SseHasFrame(was.rest) THEN was
      ELSE [events |-> was.events \o (IF SseBad(cut.frame) THEN << >> ELSE SseMapped(cut.frame)),
            bad |-> SseBad(cut.frame), rest |-> cut.rest]

SseRead(buf) ==
  LET after[k \in 0 .. Len(buf)] ==
        IF k = 0 THEN [events |-> << >>, bad |-> FALSE, rest |-> buf] ELSE SseReadNext(after[k - 1])
  IN  after[Len(buf)]

SseError == [n |-> 0, kind |-> "error"]

-----------------------------------------------------------------------------
(* The stream *)

SseSend ==
  /\ sseLines = << >>
  /\ \E m \in 1 .. SseMaxLines : sseLines' \in [1 .. m -> SseKinds]
  /\ sseEnds' \in {SseLf, SseCrLf}
  /\ UNCHANGED <<ssePos, sseBuf, sseEvents, sseOver>>

\* The next chunk is pushed; the reader gets its events, or one Error.
SseChunk ==
  /\ ~sseOver /\ ssePos < Len(SseWire)
  /\ \E to \in ssePos + 1 .. Len(SseWire) :
       LET got == SseRead(sseBuf \o SubSeq(SseWire, ssePos + 1, to))
       IN  /\ ssePos' = to
           /\ sseBuf' = got.rest
           /\ sseEvents' = sseEvents \o IF got.bad THEN <<SseError>> ELSE got.events
  /\ UNCHANGED <<sseLines, sseEnds, sseOver>>

\* The body ends, perhaps too early; what is in the buffer is not looked at.
SseEnd ==
  /\ sseLines # << >> /\ ~sseOver
  /\ sseOver' = TRUE
  /\ UNCHANGED <<sseLines, sseEnds, ssePos, sseBuf, sseEvents>>

\* The connection breaks: one Error more.
SseBreak ==
  /\ sseLines # << >> /\ ~sseOver
  /\ sseOver' = TRUE /\ sseEvents' = Append(sseEvents, SseError)
  /\ UNCHANGED <<sseLines, sseEnds, ssePos, sseBuf>>

SseNext == SseSend \/ SseChunk \/ SseEnd \/ SseBreak

SseSpec == SseInit /\ [][SseNext]_sseVars

\* from_stream: an Error fails the whole response; otherwise its text is the
\* text of all events, its tool calls all of theirs.
SseCollected ==
  IF SseError \in ToSet(sseEvents) THEN <<SseError>>
  ELSE SseOf(sseEvents, {"text", "tool"})

-----------------------------------------------------------------------------
(* Properties *)

\* The lines that have arrived with their whole line end, and the events they
\* stand for.
SseWhole == SubSeq([i \in DOMAIN sseLines |-> [n |-> i, kind |-> sseLines[i]]], 1,
                   IF sseLines = << >> THEN 0 ELSE ssePos \div (1 + Len(sseEnds)))
SseMeant == SseOf(SseWhole, SseKinds \ {"note", "done", "bad"})

SseGood == {e \in ToSet(sseEvents) : e.n # 0}

\* However the body is cut into chunks, a reader gets the events of the lines
\* that arrived, each once and in order; as long as they all parse none is
\* missing or late.  A response is made of a body only if no line of it that
\* was read was bad, and then holds the text of every one.
SseChunkingBlind ==
  LET broken == \E x \in ToSet(SseWhole) : x.kind = "bad"
  IN  /\ \A i, j \in DOMAIN sseEvents :
           i < j /\ {sseEvents[i], sseEvents[j]} \subseteq SseGood => sseEvents[i].n < sseEvents[j].n
      /\ SseGood \subseteq ToSet(SseMeant)
      /\ ~broken => SseOf(sseEvents, SseKinds) = SseMeant
      /\ SseCollected # <<SseError>> => ~broken /\ SseCollected = SseOf(SseMeant, {"text", "tool"})
=============================================================================
