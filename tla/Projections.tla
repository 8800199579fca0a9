------------------------------ MODULE Projections ------------------------------
(***************************************************************************)
(* The read side of knowledge-core's CQRS (cqrs/projection.rs): a stream   *)
(* of stored events, the ProjectionRegistry that dispatches them, and its  *)
(* two projections, the document summaries and the node statistics.        *)
(*                                                                         *)
(* Document events are those the write side can store: each is a command   *)
(* performed on the current document (DocumentStore).  The events of nodes *)
(* and edges come from outside this code, where each is created before it  *)
(* is deleted.                                                             *)
(***************************************************************************)
EXTENDS Document, Integers, Sequences, FiniteSets

CONSTANTS
  Streams,         \* document aggregates
  Requests,        \* Requests[s]: commands sent to s
  GraphTypes,      \* values of a node's "entity_type" or an edge's "relation_type"
  NoView,          \* no summary of a document
  Untitled,        \* the title of a summary whose event has none: "(无标题)"
  MaxEvents,       \* bound: stored events
  MaxRedeliveries, \* bound: events dispatched a second time
  MaxRebuilds      \* bound: rebuilds

Views == [title : Values \cup {Untitled}, status : Statuses]

ASSUME ProjectionConstants ==
  /\ NoView \notin Views
  /\ \A s \in Streams : Requests[s] \subseteq Commands
  /\ {MaxRedeliveries, MaxRebuilds} \subseteq Nat

VARIABLES
  docs,        \* docs[s]: the document of stream s
  alive,       \* alive[x]: the types of the nodes or edges that exist, an entry each
  stored,      \* the stored events, oldest first
  dispatched,  \* how many of them the registry has dispatched
  views,       \* DocumentProjection: views[s], or NoView
  stats,       \* NodeStatsProjection: [total, byType] of nodes and of edges
  rebuild,     \* the events rebuild still has to handle: [next, last]
  redelivered, rebuilds

vars == <<docs, alive, stored, dispatched, views, stats, rebuild, redelivered, rebuilds>>

\* DocumentAggregate::event_type_for.
EventTypeFor(kind) ==
  CASE kind = "Created"                 -> "DocumentIngested"
    [] kind \in {"Updated", "Published"} -> "DocumentIndexed"
    [] kind = "Deleted"                 -> "DocumentDeleted"

DocumentEvents == [type : {"DocumentIngested", "DocumentIndexed", "DocumentDeleted"},
                   agg  : Streams, event : Events]
Things         == {"Node", "Edge"}
GraphEvents    == [type : {"Created", "Deleted"}, thing : Things, of : GraphTypes]
StoredEvents   == DocumentEvents \cup GraphEvents

EmptyViews == [s \in Streams |-> NoView]
EmptyStats == [x \in Things |-> [total |-> 0, byType |-> [t \in GraphTypes |-> 0]]]

Init ==
  /\ docs        = [s \in Streams |-> NewDocument]
  /\ alive       = [x \in Things |-> << >>]
  /\ stored      = << >>
  /\ dispatched  = 0
  /\ views       = EmptyViews
  /\ stats       = EmptyStats
  /\ rebuild     = [next |-> 1, last |-> 0]
  /\ redelivered = 0
  /\ rebuilds    = 0

-----------------------------------------------------------------------------
(* Producers *)

StoreDocumentEvent(s, cmd) ==
  LET event == EventOf(docs[s], cmd)
  IN
  /\ Len(stored) < MaxEvents
  /\ ~Refused(docs[s], cmd) /\ ~ChangesNothing(docs[s], cmd)
  /\ docs'   = [docs EXCEPT ![s] = Apply(@, Decoded(event))]
  /\ stored' = Append(stored, [type |-> EventTypeFor(event.kind), agg |-> s, event |-> event])
  /\ UNCHANGED <<alive, dispatched, views, stats, rebuild, redelivered, rebuilds>>

CreateThing(x, t) ==
  /\ Len(stored) < MaxEvents
  /\ alive'  = [alive EXCEPT ![x] = Append(@, t)]
  /\ stored' = Append(stored, [type |-> "Created", thing |-> x, of |-> t])
  /\ UNCHANGED <<docs, dispatched, views, stats, rebuild, redelivered, rebuilds>>

DeleteThing(x) ==
  /\ Len(stored) < MaxEvents
  /\ alive[x] # << >>
  /\ alive'  = [alive EXCEPT ![x] = Tail(@)]
  /\ stored' = Append(stored, [type |-> "Deleted", thing |-> x, of |-> Head(alive[x])])
  /\ UNCHANGED <<docs, dispatched, views, stats, rebuild, redelivered, rebuilds>>

-----------------------------------------------------------------------------
(* Projections *)

\* DocumentProjection::handle.  It looks for "title" and "status" at the top of
\* the event's JSON; a DocumentEvent is written with its variant's name at the
\* top and its fields below, so neither is ever found and the defaults apply.
SummaryOf(e) == [title |-> Untitled, status |-> "Pending"]

\* Mistake: a deletion is handled as any other change.
KeepsDeleted(e, v) ==
  IF e \in DocumentEvents THEN [v EXCEPT ![e.agg] = SummaryOf(e)] ELSE v

HandleDocument(e, v) ==
  CASE e.type \in {"DocumentIngested", "DocumentIndexed"} -> [v EXCEPT ![e.agg] = SummaryOf(e)]
    [] e.type = "DocumentDeleted"                         -> [v EXCEPT ![e.agg] = NoView]
    [] OTHER                                              -> v

\* NodeStatsProjection::handle.  The total saturates at 0; a deletion leaves
\* the count of the type alone.
HandleGraph(e, st) ==
  LET old == st[e.thing]
  IN  CASE e.type = "Created" ->
             [st EXCEPT ![e.thing] = [total |-> old.total + 1, byType |-> [old.byType EXCEPT ![e.of] = @ + 1]]]
        [] e.type = "Deleted" ->
             [st EXCEPT ![e.thing] = [old EXCEPT !.total = IF @ = 0 THEN 0 ELSE @ - 1]]
        [] OTHER -> st

Handle(e) ==
  /\ views' = HandleDocument(e, views)
  /\ stats' = HandleGraph(e, stats)

\* ProjectionRegistry::dispatch of the next stored event.
Dispatch ==
  /\ dispatched < Len(stored)
  /\ Handle(stored[dispatched + 1])
  /\ dispatched' = dispatched + 1
  /\ UNCHANGED <<docs, alive, stored, rebuild, redelivered, rebuilds>>

\* The caller dispatches its last event again: it was not told of the first time.
Redeliver ==
  /\ redelivered < MaxRedeliveries
  /\ dispatched > 0
  /\ Handle(stored[dispatched])
  /\ redelivered' = redelivered + 1
  /\ UNCHANGED <<docs, alive, stored, dispatched, rebuild, rebuilds>>

Rebuilding == rebuild.next <= rebuild.last

\* Projection::rebuild of both projections from the dispatched events.  It
\* awaits in handle, so new events are dispatched while it runs.
StartRebuild ==
  /\ ~Rebuilding
  /\ rebuilds < MaxRebuilds
  /\ rebuild'  = [next |-> 1, last |-> dispatched]
  /\ rebuilds' = rebuilds + 1
  /\ UNCHANGED <<docs, alive, stored, dispatched, views, stats, redelivered>>

RebuildNext ==
  /\ Rebuilding
  /\ Handle(stored[rebuild.next])
  /\ rebuild' = [rebuild EXCEPT !.next = @ + 1]
  /\ UNCHANGED <<docs, alive, stored, dispatched, redelivered, rebuilds>>

Next ==
  \/ \E s \in Streams : \E cmd \in Requests[s] : StoreDocumentEvent(s, cmd)
  \/ \E x \in Things : DeleteThing(x) \/ \E t \in GraphTypes : CreateThing(x, t)
  \/ Dispatch \/ Redeliver \/ StartRebuild \/ RebuildNext

Spec == Init /\ [][Next]_vars

-----------------------------------------------------------------------------
(* Properties *)

TypeOK ==
  /\ docs \in [Streams -> Documents]
  /\ alive \in [Things -> Seq(GraphTypes)]
  /\ stored \in Seq(StoredEvents)
  /\ dispatched \in 0 .. Len(stored)
  /\ views \in [Streams -> Views \cup {NoView}]
  /\ stats \in [Things -> [total : Nat, byType : [GraphTypes -> Nat]]]
  /\ rebuild \in [next : Nat \ {0}, last : 0 .. dispatched]
  /\ redelivered \in 0 .. MaxRedeliveries
  /\ rebuilds \in 0 .. MaxRebuilds

\* The positions of s's events among the first n.
EventsOf(s, n) == {k \in 1 .. n : stored[k] \in DocumentEvents /\ stored[k].agg = s}

\* The last of them, if there is one, left s with a summary.
ShownAfter(s, n) ==
  \E k \in EventsOf(s, n) :
    /\ \A j \in EventsOf(s, n) : j <= k
    /\ stored[k].type # "DocumentDeleted"

\* However often the last event is delivered again, a document has a summary
\* exactly when the last event about it is not its deletion; and dispatched once
\* each, the events of nodes and edges add up to those that existed then.
ViewsFollowEvents ==
  /\ TypeOK
  /\ rebuilds = 0 => \A s \in Streams : views[s] # NoView <=> ShownAfter(s, dispatched)
  /\ redelivered = 0 /\ rebuilds = 0 =>
       \A x \in Things :
         LET Of(type) == {k \in 1 .. dispatched : stored[k] \in GraphEvents /\
                                                  stored[k].thing = x /\ stored[k].type = type}
         IN  stats[x].total = Cardinality(Of("Created")) - Cardinality(Of("Deleted"))

\* The same once a rebuild is over, if no event was dispatched past it.
SummariesSurviveRebuild ==
  [][Rebuilding /\ ~Rebuilding' /\ rebuild.last = dispatched =>
       \A s \in Streams : views'[s] # NoView <=> ShownAfter(s, dispatched)]_vars

-----------------------------------------------------------------------------
(* What the documentation of the module promises and the code does not keep. *)

\* "Replayable": once a rebuild is over and all events are dispatched, a
\* document has a summary exactly when its last event is not its deletion.
RebuildRestoresSummaries ==
  ~Rebuilding /\ dispatched = Len(stored) =>
    \A s \in Streams : views[s] # NoView <=> ShownAfter(s, dispatched)
=============================================================================
