----------------------------- MODULE McpRegistries -----------------------------
(***************************************************************************)
(* What an MCP server keeps for its clients, besides their sessions        *)
(* (SessionManager).                                                       *)
(*                                                                         *)
(* Tools (mcp/registry/tool_registry.rs): a tool is an entry in a map of   *)
(* tools and a handler in another map; tasks on several threads register   *)
(* it, take it away and call it.  Names do not affect each other, so there *)
(* is one.  What register_tool is given is a number of its own.  An access *)
(* to a map is one step, and so is one to the metrics, whose lock is       *)
(* awaited.                                                                *)
(*                                                                         *)
(* Prompts (mcp/prompts/prompt_manager.rs): versions of a prompt in a      *)
(* store that never changes one, a cache of the versions used last, and a  *)
(* rollback that saves an old version under a new number.  Prompts only    *)
(* meet in the cache, so there is one.  A content is a number of its own   *)
(* for each save; every lock is awaited, so the accesses of a call to the  *)
(* store and to the cache are steps of their own.  Rendering and A/B       *)
(* tests, which only choose a version, are left out.                       *)
(***************************************************************************)
EXTENDS SessionManager, SequencesExt

CONSTANTS
  ToolCallers,   \* tasks that use the registry
  ToolMaxGiven,  \* bound: calls of register_tool
  ToolMaxCalls   \* bound: other calls

ASSUME ToolConstants == IsFiniteSet(ToolCallers) /\ {ToolMaxGiven, ToolMaxCalls} \subseteq Nat

ToolStatuses == {"active", "deprecated", "disabled"}
ToolNone == [given |-> 0, status |-> "active", calls |-> 0]

VARIABLES
  toolEntry,    \* tools: the entry, or ToolNone
  toolHandler,  \* handlers: what the handler was given with, or 0
  toolMetrics,  \* registrations, unregistrations, calls and errors
  toolTask,     \* toolTask[c]: where the call of c is and what it holds
  toolGiven,    \* calls of register_tool
  toolCalls,    \* other calls
  toolOverlap,  \* history: two calls changed the tool at the same time
  toolUncounted \* history: a call was dropped before it counted

toolVars == <<toolEntry, toolHandler, toolMetrics, toolTask, toolGiven, toolCalls, toolOverlap, toolUncounted>>
toolMaps == <<toolEntry, toolHandler>>
toolPast == <<toolGiven, toolCalls, toolOverlap, toolUncounted>>

ToolIdle == [at |-> "idle", given |-> 0, handler |-> 0, failed |-> FALSE]

ToolInit ==
  /\ toolEntry = ToolNone /\ toolHandler = 0
  /\ toolMetrics = [registered |-> 0, unregistered |-> 0, calls |-> 0, errors |-> 0]
  /\ toolTask = [c \in ToolCallers |-> ToolIdle]
  /\ toolGiven = 0 /\ toolCalls = 0 /\ toolOverlap = FALSE /\ toolUncounted = FALSE

ToolAt(c, at) == toolTask[c].at = at
ToolGo(c, task) == toolTask' = [toolTask EXCEPT ![c] = task]

\* Between the first and the last map it changes.
ToolChanging == \E c \in ToolCallers : toolTask[c].at \in {"checked", "inserted", "removed"}

-----------------------------------------------------------------------------
(* register_tool *)

\* Mistake: a tool that is there is replaced.
ToolCheckNothing(c) ==
  /\ ToolAt(c, "idle") /\ toolGiven < ToolMaxGiven
  /\ toolGiven' = toolGiven + 1
  /\ ToolGo(c, [ToolIdle EXCEPT !.at = "checked", !.given = toolGiven + 1])
  /\ toolOverlap' = (toolOverlap \/ ToolChanging)
  /\ UNCHANGED <<toolMaps, toolMetrics, toolCalls, toolUncounted>>

\* contains_key: a tool that is there is refused.
ToolCheck(c) ==
  /\ ToolAt(c, "idle") /\ toolGiven < ToolMaxGiven
  /\ toolGiven' = toolGiven + 1
  /\ IF toolEntry = ToolNone
       THEN /\ ToolGo(c, [ToolIdle EXCEPT !.at = "checked", !.given = toolGiven + 1])
            /\ toolOverlap' = (toolOverlap \/ ToolChanging)
       ELSE UNCHANGED <<toolTask, toolOverlap>>
  /\ UNCHANGED <<toolMaps, toolMetrics, toolCalls, toolUncounted>>

ToolInsert(c) ==
  /\ ToolAt(c, "checked")
  /\ toolEntry' = [ToolNone EXCEPT !.given = toolTask[c].given]
  /\ ToolGo(c, [toolTask[c] EXCEPT !.at = "inserted"])
  /\ UNCHANGED <<toolHandler, toolMetrics, toolPast>>

ToolInsertHandler(c) ==
  /\ ToolAt(c, "inserted")
  /\ toolHandler' = toolTask[c].given
  /\ ToolGo(c, [toolTask[c] EXCEPT !.at = "registered"])
  /\ UNCHANGED <<toolEntry, toolMetrics, toolPast>>

-----------------------------------------------------------------------------
(* unregister_tool *)

ToolBegins == toolCalls < ToolMaxCalls /\ toolCalls' = toolCalls + 1

ToolRemove(c) ==
  /\ ToolAt(c, "idle") /\ ToolBegins
  /\ toolEntry' = ToolNone
  /\ ToolGo(c, [ToolIdle EXCEPT !.at = "removed", !.given = toolEntry.given])
  /\ toolOverlap' = (toolOverlap \/ ToolChanging)
  /\ UNCHANGED <<toolHandler, toolMetrics, toolGiven, toolUncounted>>

\* Mistake: the handler stays.
ToolKeepHandler(c) ==
  /\ ToolAt(c, "removed")
  /\ ToolGo(c, IF toolTask[c].given # 0 THEN [toolTask[c] EXCEPT !.at = "unregistered"] ELSE ToolIdle)
  /\ UNCHANGED <<toolMaps, toolMetrics, toolPast>>

\* Not found unless both were there; what was there is gone all the same.
ToolRemoveHandler(c) ==
  /\ ToolAt(c, "removed")
  /\ toolHandler' = 0
  /\ ToolGo(c, IF toolTask[c].given # 0 /\ toolHandler # 0
                 THEN [toolTask[c] EXCEPT !.at = "unregistered"] ELSE ToolIdle)
  /\ UNCHANGED <<toolEntry, toolMetrics, toolPast>>

-----------------------------------------------------------------------------
(* call_tool *)

ToolFind(c) ==
  /\ ToolAt(c, "idle") /\ ToolBegins
  /\ IF toolEntry # ToolNone /\ toolEntry.status # "disabled"
       THEN ToolGo(c, [ToolIdle EXCEPT !.at = "found", !.given = toolEntry.given])
       ELSE UNCHANGED toolTask
  /\ UNCHANGED <<toolMaps, toolMetrics, toolGiven, toolOverlap, toolUncounted>>

\* The handler; without one, or if it does not accept the arguments, the call fails.
ToolTake(c) ==
  /\ ToolAt(c, "found")
  /\ \/ ToolGo(c, ToolIdle)
     \/ toolHandler # 0 /\ ToolGo(c, [toolTask[c] EXCEPT !.at = "handling", !.handler = toolHandler])
  /\ UNCHANGED <<toolMaps, toolMetrics, toolPast>>

ToolHandled(c) ==
  /\ ToolAt(c, "handling")
  /\ \E failed \in BOOLEAN : ToolGo(c, [toolTask[c] EXCEPT !.at = "handled", !.failed = failed])
  /\ UNCHANGED <<toolMaps, toolMetrics, toolPast>>

\* call_count of the entry there is now, which may be another one.
ToolBump(c) ==
  /\ ToolAt(c, "handled")
  /\ toolEntry' = IF toolEntry = ToolNone THEN ToolNone ELSE [toolEntry EXCEPT !.calls = @ + 1]
  /\ ToolGo(c, [toolTask[c] EXCEPT !.at = "called"])
  /\ UNCHANGED <<toolHandler, toolMetrics, toolPast>>

-----------------------------------------------------------------------------

\* The metrics, the last step of each call.
ToolCount(c) ==
  LET one(b) == IF b THEN 1 ELSE 0
  IN  /\ toolTask[c].at \in {"registered", "unregistered", "called"}
      /\ toolMetrics' = [registered   |-> toolMetrics.registered + one(ToolAt(c, "registered")),
                         unregistered |-> toolMetrics.unregistered + one(ToolAt(c, "unregistered")),
                         calls        |-> toolMetrics.calls + one(ToolAt(c, "called")),
                         errors       |-> toolMetrics.errors + one(toolTask[c].failed)]
      /\ ToolGo(c, ToolIdle)
      /\ UNCHANGED <<toolMaps, toolPast>>

\* The caller drops the call where it awaits: the handler, or the metrics.
ToolDropped(c) ==
  /\ toolTask[c].at \in {"registered", "unregistered", "called", "handling"}
  /\ ToolGo(c, ToolIdle)
  /\ toolUncounted' = TRUE
  /\ UNCHANGED <<toolMaps, toolMetrics, toolGiven, toolCalls, toolOverlap>>

\* set_tool_status
ToolSetStatus(c, status) ==
  /\ ToolAt(c, "idle") /\ ToolBegins
  /\ toolEntry # ToolNone
  /\ toolEntry' = [toolEntry EXCEPT !.status = status]
  /\ UNCHANGED <<toolHandler, toolMetrics, toolTask, toolGiven, toolOverlap, toolUncounted>>

ToolNext ==
  \E c \in ToolCallers :
    \/ ToolCheck(c) \/ ToolInsert(c) \/ ToolInsertHandler(c)
    \/ ToolRemove(c) \/ ToolRemoveHandler(c)
    \/ ToolFind(c) \/ ToolTake(c) \/ ToolHandled(c) \/ ToolBump(c)
    \/ ToolCount(c) \/ ToolDropped(c)
    \/ \E status \in ToolStatuses : ToolSetStatus(c, status)

ToolSpec == ToolInit /\ [][ToolNext]_toolVars

-----------------------------------------------------------------------------
(* Properties *)

\* As long as no two calls change a tool at the same time: between such calls the
\* tool and its handler were given together; what runs for a call was given with
\* the schema its arguments were checked against, or later; and the metrics count
\* the tools that are there.
ToolsPaired ==
  ~toolOverlap =>
    /\ ~ToolChanging => toolHandler = toolEntry.given
    /\ \A c \in ToolCallers : ToolAt(c, "handling") =>
         /\ toolTask[c].handler >= toolTask[c].given
         /\ toolEntry.given = toolTask[c].given => toolTask[c].handler = toolTask[c].given
    /\ (~ToolChanging /\ ~toolUncounted) =>
         toolMetrics.registered + Cardinality({c \in ToolCallers : ToolAt(c, "registered")})
           = toolMetrics.unregistered + Cardinality({c \in ToolCallers : ToolAt(c, "unregistered")})
             + (IF toolEntry = ToolNone THEN 0 ELSE 1)

-----------------------------------------------------------------------------
(* The prompts *)

CONSTANTS
  PrmCallers,    \* tasks that use the manager
  PrmTop,        \* the largest version number, u32::MAX
  PrmCapacity,   \* cache_size
  PrmMaxCalls    \* bound: calls

ASSUME PrmConstants == PrmTop \in Nat /\ PrmCapacity \in Nat \ {0} /\ PrmMaxCalls \in Nat

PrmVersions == 0 .. PrmTop

VARIABLES
  prmStore,   \* the content of each version saved
  prmCache,   \* cached versions with their contents, the one used last at the end
  prmTask,    \* prmTask[c]: where the call of c is and what it holds
  prmAnswers, \* history: answers <<kind, version, content, what was latest when the call began>>
  prmSaved,   \* calls so far, the contents handed out
  prmFull     \* history: a rollback found the largest number in use

prmVars == <<prmStore, prmCache, prmTask, prmAnswers, prmSaved, prmFull>>

PrmIdle == [at |-> "idle", version |-> 0, content |-> 0, floor |-> {}]

PrmInit ==
  /\ prmStore = << >> /\ prmCache = << >>
  /\ prmTask = [c \in PrmCallers |-> PrmIdle]
  /\ prmAnswers = {} /\ prmSaved = 0 /\ prmFull = FALSE

PrmAt(c, at) == prmTask[c].at = at
PrmGo(c, task) == prmTask' = [prmTask EXCEPT ![c] = task]
PrmBegins(c) == PrmAt(c, "idle") /\ prmSaved < PrmMaxCalls /\ prmSaved' = prmSaved + 1
PrmAnswer(c, kind, version, content) ==
  prmAnswers' = prmAnswers \cup {<<kind, version, content, prmTask[c].floor>>}

\* LruCache::put, with what it evicts.
PrmPut(version, content) ==
  LET others == RemoveFirstMatch(prmCache, LAMBDA e : e[1] = version)
      kept   == IF Len(others) < PrmCapacity THEN others ELSE Tail(others)
  IN  Append(kept, <<version, content>>)

-----------------------------------------------------------------------------
(* save *)

\* Mistake: a version that is there is replaced.
PrmSaveOver(c, version) ==
  /\ PrmBegins(c)
  /\ prmStore' = [v \in DOMAIN prmStore \cup {version} |-> IF v = version THEN prmSaved + 1 ELSE prmStore[v]]
  /\ PrmGo(c, [PrmIdle EXCEPT !.at = "filling", !.version = version, !.content = prmSaved + 1])
  /\ UNCHANGED <<prmCache, prmAnswers, prmFull>>

\* The store refuses a version that is there.
PrmSave(c, version) ==
  /\ PrmBegins(c)
  /\ version \notin DOMAIN prmStore
  /\ prmStore' = [v \in DOMAIN prmStore \cup {version} |-> IF v = version THEN prmSaved + 1 ELSE prmStore[v]]
  /\ PrmGo(c, [PrmIdle EXCEPT !.at = "filling", !.version = version, !.content = prmSaved + 1])
  /\ UNCHANGED <<prmCache, prmAnswers, prmFull>>

\* The cache gets what was saved or read.
PrmFill(c) ==
  /\ prmTask[c].at \in {"filling", "answering"}
  /\ prmCache' = PrmPut(prmTask[c].version, prmTask[c].content)
  /\ IF PrmAt(c, "answering") THEN PrmAnswer(c, "get", prmTask[c].version, prmTask[c].content)
                              ELSE UNCHANGED prmAnswers
  /\ PrmGo(c, PrmIdle)
  /\ UNCHANGED <<prmStore, prmSaved, prmFull>>

-----------------------------------------------------------------------------
(* get_version and get_latest *)

PrmGet(c, version) ==
  /\ PrmBegins(c)
  /\ PrmGo(c, [PrmIdle EXCEPT !.at = "looking", !.version = version])
  /\ UNCHANGED <<prmStore, prmCache, prmAnswers, prmFull>>

\* get_latest: the largest number there is, then get_version.
PrmLatest(c) ==
  /\ PrmBegins(c)
  /\ DOMAIN prmStore # {}
  /\ PrmGo(c, [PrmIdle EXCEPT !.at = "looking", !.version = Max(DOMAIN prmStore),
                              !.floor = DOMAIN prmStore])
  /\ UNCHANGED <<prmStore, prmCache, prmAnswers, prmFull>>

PrmLook(c) ==
  /\ PrmAt(c, "looking")
  /\ \/ \E i \in DOMAIN prmCache :
          /\ prmCache[i][1] = prmTask[c].version
          /\ prmCache' = PrmPut(prmCache[i][1], prmCache[i][2])
          /\ PrmAnswer(c, "get", prmCache[i][1], prmCache[i][2])
          /\ PrmGo(c, PrmIdle)
     \/ /\ \A i \in DOMAIN prmCache : prmCache[i][1] # prmTask[c].version
        /\ PrmGo(c, [prmTask[c] EXCEPT !.at = "reading"])
        /\ UNCHANGED <<prmCache, prmAnswers>>
  /\ UNCHANGED <<prmStore, prmSaved, prmFull>>

PrmRead(c) ==
  /\ PrmAt(c, "reading")
  /\ IF prmTask[c].version \in DOMAIN prmStore
       THEN PrmGo(c, [prmTask[c] EXCEPT !.at = "answering", !.content = prmStore[prmTask[c].version]])
       ELSE PrmGo(c, PrmIdle)
  /\ UNCHANGED <<prmStore, prmCache, prmAnswers, prmSaved, prmFull>>

-----------------------------------------------------------------------------
(* rollback *)

PrmRollback(c, version) ==
  /\ PrmBegins(c)
  /\ version \in DOMAIN prmStore
  /\ PrmGo(c, [at |-> "target", version |-> version, content |-> prmStore[version],
               floor |-> DOMAIN prmStore])
  /\ UNCHANGED <<prmStore, prmCache, prmAnswers, prmFull>>

\* Mistake: the number after that of the version restored.
PrmNumberNext(c) ==
  /\ PrmAt(c, "target")
  /\ PrmGo(c, [prmTask[c] EXCEPT !.at = "numbered", !.version = (@ + 1) % (PrmTop + 1)])
  /\ UNCHANGED <<prmStore, prmCache, prmAnswers, prmSaved, prmFull>>

\* The number after the largest there is.
PrmNumber(c) ==
  /\ PrmAt(c, "target")
  /\ PrmGo(c, [prmTask[c] EXCEPT !.at = "numbered", !.version = (Max(DOMAIN prmStore) + 1) % (PrmTop + 1)])
  /\ prmFull' = (prmFull \/ PrmTop \in DOMAIN prmStore)
  /\ UNCHANGED <<prmStore, prmCache, prmAnswers, prmSaved>>

\* Refused if another call has taken the number.
PrmRestore(c) ==
  LET task == prmTask[c]
  IN  /\ PrmAt(c, "numbered")
      /\ IF task.version \in DOMAIN prmStore
           THEN UNCHANGED <<prmStore, prmAnswers>>
           ELSE /\ prmStore' = [v \in DOMAIN prmStore \cup {task.version} |->
                                  IF v = task.version THEN task.content ELSE prmStore[v]]
                /\ PrmAnswer(c, "rollback", task.version, task.content)
      /\ PrmGo(c, PrmIdle)
      /\ UNCHANGED <<prmCache, prmSaved, prmFull>>

-----------------------------------------------------------------------------

\* clear_cache
PrmClear(c) ==
  /\ PrmBegins(c)
  /\ prmCache' = << >>
  /\ UNCHANGED <<prmStore, prmTask, prmAnswers, prmFull>>

\* The caller drops a call where it awaits.
PrmDropped(c) ==
  /\ ~PrmAt(c, "idle")
  /\ PrmGo(c, PrmIdle)
  /\ UNCHANGED <<prmStore, prmCache, prmAnswers, prmSaved, prmFull>>

PrmNext ==
  \E c \in PrmCallers :
    \/ \E v \in PrmVersions : PrmSave(c, v) \/ PrmGet(c, v) \/ PrmRollback(c, v)
    \/ PrmFill(c) \/ PrmLatest(c) \/ PrmLook(c) \/ PrmRead(c)
    \/ PrmNumber(c) \/ PrmRestore(c) \/ PrmClear(c) \/ PrmDropped(c)

PrmSpec == PrmInit /\ [][PrmNext]_prmVars

-----------------------------------------------------------------------------
(* Properties *)

\* A version has one content for ever: what the cache holds and what any call has
\* answered is still what the store has, whoever saved, rolled back or cleared in
\* between.  What get_latest or rollback made of the latest was not older than any
\* version there was when the call began, as long as numbers have not run out.
PromptsKept ==
  /\ \A i \in DOMAIN prmCache :
       prmCache[i][1] \in DOMAIN prmStore /\ prmStore[prmCache[i][1]] = prmCache[i][2]
  /\ Len(prmCache) <= PrmCapacity
  /\ \A a \in prmAnswers :
       /\ a[2] \in DOMAIN prmStore /\ prmStore[a[2]] = a[3]
       /\ a[1] = "get" => \A v \in a[4] : v <= a[2]
       /\ a[1] = "rollback" /\ ~prmFull => \A v \in a[4] : v < a[2]

-----------------------------------------------------------------------------

\* The MCP server: a session's window and its store, a tool and its handler, a
\* prompt's versions and their cache belong together.
McpSound == SessionsKept /\ ToolsPaired /\ PromptsKept
=============================================================================
