------------------------------ MODULE AgentMemory ------------------------------
(***************************************************************************)
(* The memory of an agent (agent/memory.rs).  The working memory is a      *)
(* window of the latest entries, kept small.  The long-term memory keeps   *)
(* entries in a vector store and, for search, in an index in memory;       *)
(* store, forget and reflect change one after the other and await between. *)
(*                                                                         *)
(* An agent holds both in a MemorySystem behind a lock: an observation is  *)
(* added to both while the lock is held for writing, calls of the          *)
(* long-term memory alone hold it for reading.  Contents and embeddings    *)
(* are left out.  The vector store is external; a call to it succeeds or   *)
(* fails without effect.  recall and the contexts for a model only read.   *)
(***************************************************************************)
EXTENDS Naturals, Sequences, FiniteSets, SequencesExt

CONSTANTS
  LtCallers,
  LtEntries,    \* entries callers store: [id, type, importance, born]
  LtReflected,  \* the entries reflect makes of its summaries, by number
  LtCriteria,   \* criteria of forget: [age, importance, types], each {} or one
  LtMaxTime, LtMaxCalls, \* bounds: clock, calls of both memories
  WmMaxEntries, WmMaxTokens, \* max_entries, max_tokens
  WmTexts       \* the tokens of texts that are added

ASSUME WmConstants ==
  WmMaxEntries \in Nat \ {0} /\ WmMaxTokens \in Nat /\ WmTexts \subseteq Nat

VARIABLES
  ltVectors,    \* the vector store: entries by id
  ltIndex,      \* the index: entries by id
  ltCall,       \* ltCall[c]: a call's step and what it is about
  ltNow, ltCalls,
  ltReflections,\* reflections made
  ltContested,  \* history: ids two calls were about at a time, or a call was
                \*   dropped on
  memHolder,    \* the call that holds the MemorySystem for writing, if one does
  wmWindow,     \* the window: entries [n, importance, tokens], made one after the other
  wmTokens,     \* current_tokens
  wmAdds,       \* entries added, which numbers them
  wmCut         \* history: compressed or cleared since the last entry was added

wmVars == <<wmWindow, wmTokens, wmAdds, wmCut>>
ltVars == <<ltVectors, ltIndex, ltCall, ltNow, ltCalls, ltReflections, ltContested, memHolder, wmVars>>

LtIdle == [at |-> "idle"]

LtInit ==
  /\ ltVectors = << >> /\ ltIndex = << >> /\ ltNow = 0 /\ ltCalls = 0
  /\ ltReflections = 0 /\ ltContested = {}
  /\ ltCall = [c \in LtCallers |-> LtIdle] /\ memHolder = {}
  /\ wmWindow = << >> /\ wmTokens = 0 /\ wmAdds = 0 /\ wmCut = FALSE

\* The ids a call is about.
LtAbout(call) ==
  CASE call.at \in {"vector", "index"} -> {call.entry.id}
    [] call.at = "delete" -> call.todo
    [] call.at = "remove" -> call.todo \cup {call.id}
    [] OTHER -> {}

\* A call goes on to r; ids another call is about already are contested.
LtGoTo(c, r) ==
  /\ ltCall' = [ltCall EXCEPT ![c] = r]
  /\ ltContested' = ltContested \cup (LtAbout(r) \cap UNION {LtAbout(ltCall[d]) : d \in LtCallers \ {c}})
  /\ memHolder' = IF r = LtIdle THEN memHolder \ {c} ELSE memHolder

LtStart(c, r) ==
  /\ ltCall[c].at = "idle" /\ ltCalls < LtMaxCalls /\ memHolder = {}
  /\ ltCalls' = ltCalls + 1
  /\ LtGoTo(c, r)

-----------------------------------------------------------------------------
(* store *)

LtStore(c, e) ==
  /\ e.born <= ltNow
  /\ LtStart(c, [at |-> "vector", entry |-> e])
  /\ UNCHANGED <<ltVectors, ltIndex, ltNow, ltReflections, wmVars>>

\* Entries by id, with e in the place of what had its id.
LtPut(e, entries) ==
  [i \in DOMAIN entries \cup {e.id} |-> IF i = e.id THEN e ELSE entries[i]]

LtStored(c) ==
  LET e == ltCall[c].entry
  IN  /\ ltCall[c].at = "vector"
      /\ ltVectors' = LtPut(e, ltVectors)
      /\ LtGoTo(c, [at |-> "index", entry |-> e])
      /\ UNCHANGED <<ltIndex, ltNow, ltCalls, ltReflections, wmVars>>

LtIndexed(c) ==
  LET e == ltCall[c].entry
  IN  /\ ltCall[c].at = "index"
      /\ ltIndex' = LtPut(e, ltIndex)
      /\ LtGoTo(c, LtIdle)
      /\ UNCHANGED <<ltVectors, ltNow, ltCalls, ltReflections, wmVars>>

\* reflect summarizes the latest entries of the index and stores the summary
\* as an entry of its own.
LtReflect(c) ==
  /\ DOMAIN ltIndex # {}
  /\ LtStart(c, [at |-> "summarize"])
  /\ UNCHANGED <<ltVectors, ltIndex, ltNow, ltReflections, wmVars>>

LtSummarized(c) ==
  /\ ltCall[c].at = "summarize" /\ ltReflections < Len(LtReflected)
  /\ ltReflections' = ltReflections + 1
  /\ LtGoTo(c, [at |-> "vector", entry |-> [LtReflected[ltReflections + 1] EXCEPT !.born = ltNow]])
  /\ UNCHANGED <<ltVectors, ltIndex, ltNow, ltCalls, wmVars>>

-----------------------------------------------------------------------------
(* forget *)

\* Too old, or not important enough, or of a type the list does not name.
LtDue(e, crit) ==
  \/ \E a \in crit.age : ltNow - e.born > a
  \/ \E i \in crit.importance : e.importance < i
  \/ \E types \in crit.types : e.type \notin types

LtForget(c, crit) ==
  LET due == {i \in DOMAIN ltIndex : LtDue(ltIndex[i], crit)}
  IN  /\ due # {}
      /\ LtStart(c, [at |-> "delete", crit |-> crit, todo |-> due])
      /\ UNCHANGED <<ltVectors, ltIndex, ltNow, ltReflections, wmVars>>

LtAfter(me, todo) == IF todo = {} THEN LtIdle ELSE [at |-> "delete", crit |-> me.crit, todo |-> todo]

\* One entry after the other, in no order.
LtDelete(c) ==
  LET me == ltCall[c]
  IN  /\ me.at = "delete"
      /\ \E i \in me.todo :
           /\ ltVectors' = [j \in DOMAIN ltVectors \ {i} |-> ltVectors[j]]
           /\ LtGoTo(c, [at |-> "remove", crit |-> me.crit, todo |-> me.todo \ {i}, id |-> i])
      /\ UNCHANGED <<ltIndex, ltNow, ltCalls, ltReflections, wmVars>>

LtRemove(c) ==
  LET me == ltCall[c]
  IN  /\ me.at = "remove"
      /\ ltIndex' = [j \in DOMAIN ltIndex \ {me.id} |-> ltIndex[j]]
      /\ LtGoTo(c, LtAfter(me, me.todo))
      /\ UNCHANGED <<ltVectors, ltNow, ltCalls, ltReflections, wmVars>>

\* Mistake: an entry the vector store would not delete leaves the index.
LtFailsDropping(c) ==
  LET me == ltCall[c]
  IN  /\ me.at \in {"vector", "summarize", "delete"}
      /\ IF me.at # "delete" THEN LtGoTo(c, LtIdle) /\ UNCHANGED ltIndex
         ELSE \E i \in me.todo : /\ LtGoTo(c, LtAfter(me, me.todo \ {i}))
                                 /\ ltIndex' = [j \in DOMAIN ltIndex \ {i} |-> ltIndex[j]]
      /\ UNCHANGED <<ltVectors, ltNow, ltCalls, ltReflections, wmVars>>

\* The vector store or the summarizer fails: a store and a reflection end, a
\* forget passes the entry over.
LtFails(c) ==
  LET me == ltCall[c]
  IN  /\ me.at \in {"vector", "summarize", "delete"}
      /\ IF me.at # "delete" THEN LtGoTo(c, LtIdle)
         ELSE \E i \in me.todo : LtGoTo(c, LtAfter(me, me.todo \ {i}))
      /\ UNCHANGED <<ltVectors, ltIndex, ltNow, ltCalls, ltReflections, wmVars>>

\* The caller drops the call, perhaps between its two changes.
LtDrop(c) ==
  LET me == ltCall[c]
  IN  /\ me.at # "idle"
      /\ ltCall' = [ltCall EXCEPT ![c] = LtIdle]
      /\ ltContested' = ltContested \cup
           (CASE me.at = "index" -> {me.entry.id} [] me.at = "remove" -> {me.id} [] OTHER -> {})
      /\ memHolder' = memHolder \ {c}
      /\ UNCHANGED <<ltVectors, ltIndex, ltNow, ltCalls, ltReflections, wmVars>>

-----------------------------------------------------------------------------
(* The working memory *)

WmSum(entries) ==
  SumFunctionOnSet([i \in DOMAIN entries |-> entries[i].tokens], DOMAIN entries)

\* compress aims at seven tenths of the entries.
WmTarget == (7 * WmMaxEntries) \div 10

\* More important, or as important and later.
WmBefore(e, f) == e.importance > f.importance \/ (e.importance = f.importance /\ e.n > f.n)

\* The best WmTarget entries ...
WmBest(entries) ==
  LET all == ToSet(entries)
  IN  {e \in all : Cardinality({f \in all : WmBefore(f, e)}) < WmTarget}

WmOrdered(entries) ==
  \A i, j \in DOMAIN entries : i < j => entries[i].n < entries[j].n

\* ... sorted by the order they came in.
WmImportant(entries) ==
  LET best == WmBest(entries)
  IN  CHOOSE kept \in [1 .. Cardinality(best) -> best] : WmOrdered(kept)

\* Nothing counts accesses, so LRU keeps the entries that came in first.
WmCompressed(entries, strategy) ==
  LET left == IF Len(entries) < WmTarget THEN Len(entries) ELSE WmTarget
  IN  CASE strategy = "ImportanceBased" -> WmImportant(entries)
        [] strategy = "TimeBased" -> SubSeq(entries, Len(entries) - left + 1, Len(entries))
        [] strategy = "LRU" -> SubSeq(entries, 1, left)

\* Mistake: entries go, their tokens stay counted.
WmCountedStill(kept) == wmTokens

\* compress counts the tokens of what is left anew.
WmCounted(kept) == WmSum(kept)

WmFull(tokens) == Len(wmWindow) >= WmMaxEntries \/ wmTokens + tokens > WmMaxTokens

\* Mistake: the window is compressed once the entry is in it.
WmAddFirst(importance, tokens) ==
  LET e   == [n |-> wmAdds + 1, importance |-> importance, tokens |-> tokens]
      all == Append(wmWindow, e)
      to  == IF WmFull(tokens) THEN WmCompressed(all, "ImportanceBased") ELSE all
  IN  /\ wmWindow' = to /\ wmTokens' = WmSum(to)
      /\ wmAdds' = wmAdds + 1 /\ wmCut' = FALSE

\* add makes room first: when there are too many entries or tokens.
WmAdd(importance, tokens) ==
  LET e    == [n |-> wmAdds + 1, importance |-> importance, tokens |-> tokens]
      kept == WmCompressed(wmWindow, "ImportanceBased")
  IN  /\ IF WmFull(tokens)
           THEN wmWindow' = Append(kept, e) /\ wmTokens' = WmCounted(kept) + tokens
           ELSE wmWindow' = Append(wmWindow, e) /\ wmTokens' = wmTokens + tokens
      /\ wmAdds' = wmAdds + 1 /\ wmCut' = FALSE

\* A call that needs the MemorySystem for itself.
MemCall ==
  /\ ltCalls < LtMaxCalls /\ ltCalls' = ltCalls + 1
  /\ \A c \in LtCallers : ltCall[c].at = "idle"

\* add_observation: first the window, then a copy is stored for ever, with the
\* MemorySystem held all the while.
MemObserve(c, tokens) ==
  /\ MemCall
  /\ WmAdd(5, tokens)
  /\ ltCall' = [ltCall EXCEPT ![c] =
       [at |-> "vector", entry |-> [id |-> 10 + wmAdds, type |-> "Observation", importance |-> 5, born |-> ltNow]]]
  /\ memHolder' = {c}
  /\ UNCHANGED <<ltVectors, ltIndex, ltNow, ltReflections, ltContested>>

\* add_thought, which goes into the window only.
MemThought(tokens) ==
  /\ MemCall
  /\ WmAdd(6, tokens)
  /\ UNCHANGED <<ltVectors, ltIndex, ltCall, ltNow, ltReflections, ltContested, memHolder>>

WmCompress(strategy) ==
  LET kept == WmCompressed(wmWindow, strategy)
  IN  /\ MemCall /\ wmWindow # << >>
      /\ wmWindow' = kept /\ wmTokens' = WmCounted(kept) /\ wmCut' = TRUE
      /\ UNCHANGED <<ltVectors, ltIndex, ltCall, ltNow, ltReflections, ltContested, memHolder, wmAdds>>

\* cleanup empties the window, the long-term memory stays.
MemCleanup ==
  /\ MemCall /\ wmWindow # << >>
  /\ wmWindow' = << >> /\ wmTokens' = 0 /\ wmCut' = TRUE
  /\ UNCHANGED <<ltVectors, ltIndex, ltCall, ltNow, ltReflections, ltContested, memHolder, wmAdds>>

-----------------------------------------------------------------------------
LtTick ==
  /\ ltNow < LtMaxTime
  /\ ltNow' = ltNow + 1
  /\ UNCHANGED <<ltVectors, ltIndex, ltCall, ltCalls, ltReflections, ltContested, memHolder, wmVars>>

LtNext ==
  \/ \E c \in LtCallers :
       \/ \E e \in LtEntries : LtStore(c, e)
       \/ \E crit \in LtCriteria : LtForget(c, crit)
       \/ LtStored(c) \/ LtIndexed(c) \/ LtReflect(c) \/ LtSummarized(c)
       \/ LtDelete(c) \/ LtRemove(c) \/ LtFails(c) \/ LtDrop(c)
       \/ \E n \in WmTexts : MemObserve(c, n)
  \/ \E n \in WmTexts : MemThought(n)
  \/ \E strategy \in {"ImportanceBased", "TimeBased", "LRU"} : WmCompress(strategy)
  \/ MemCleanup
  \/ LtTick

LtSpec == LtInit /\ [][LtNext]_ltVars
-----------------------------------------------------------------------------
(* Properties *)

\* Whatever failed on the way, the index and the vector store hold the same
\* entries, except those a call is at work on and those that two calls were at
\* work on at a time or a call was dropped on between its two changes.
IndexAgrees ==
  \A i \in (DOMAIN ltIndex \cup DOMAIN ltVectors) \ (ltContested \cup UNION {LtAbout(ltCall[c]) : c \in LtCallers}) :
    /\ i \in DOMAIN ltIndex \cap DOMAIN ltVectors
    /\ ltIndex[i] = ltVectors[i]

\* The window never outgrows its size, its tokens are counted exactly, its entries
\* stay in the order they came in, and what was added last is in it until somebody
\* compresses or clears the memory: an agent always finds its latest step.
WindowKept ==
  /\ Len(wmWindow) <= WmMaxEntries
  /\ wmTokens = WmSum(wmWindow)
  /\ WmOrdered(wmWindow)
  /\ ~wmCut /\ wmAdds > 0 => \E i \in DOMAIN wmWindow : wmWindow[i].n = wmAdds

\* Both memories of an agent are what was put into them.
MemoriesAgree == IndexAgrees /\ WindowKept

\* A forget that is told types and nothing else forgets only entries of them.
ForgetsNamedTypes ==
  \A c \in LtCallers : ltCall[c].at = "delete" /\ ltCall[c].crit.age = {} /\ ltCall[c].crit.importance = {} =>
    \A i \in (ltCall[c].todo \cap DOMAIN ltIndex) \ ltContested : \E types \in ltCall[c].crit.types : ltIndex[i].type \in types
=============================================================================
