------------------------------ MODULE ReadsProofs ------------------------------
(***************************************************************************)
(* Theorems about what is kept to answer reads: the projections of         *)
(* Projections, for any number of documents, events and redeliveries, the  *)
(* two levels of TwoLevelCache, for any number of keys and callers, the    *)
(* gate before them, HttpGate, for any clients, users and limits, the      *)
(* permission checks of RoleManager, for any roles and assignments, the    *)
(* decisions of PolicyEngine, for any lists of policies, the vectors of    *)
(* EmbeddingQueue, for any callers, pools and batches, and the redaction   *)
(* of PiiRedact, for any patterns and matches.                             *)
(***************************************************************************)
EXTENDS Projections, TwoLevelCache, HttpGate, RoleManager, PolicyEngine, EmbeddingQueue,
        PiiRedact, CommonProofs, FiniteSetTheorems, WellFoundedInduction, TLAPS

-----------------------------------------------------------------------------
(* Projections *)

\* The events of one type about nodes, or about edges, among the first n.
CountedIn(seq, x, type, n) ==
  {k \in 1 .. n : seq[k] \in GraphEvents /\ seq[k].thing = x /\ seq[k].type = type}
CountedEvents(x, type, n) == CountedIn(stored, x, type, n)

\* The nodes and edges that exist are those created and not deleted, and at no
\* time were there more deletions than creations.
Balanced ==
  \A x \in Things :
    /\ Len(alive[x]) = Cardinality(CountedEvents(x, "Created", Len(stored)))
                         - Cardinality(CountedEvents(x, "Deleted", Len(stored)))
    /\ \A n \in 0 .. Len(stored) :
         Cardinality(CountedEvents(x, "Deleted", n)) <= Cardinality(CountedEvents(x, "Created", n))

StatsExact ==
  redelivered = 0 /\ rebuilds = 0 =>
    \A x \in Things : stats[x].total = Cardinality(CountedEvents(x, "Created", dispatched))
                                         - Cardinality(CountedEvents(x, "Deleted", dispatched))

\* The summary of s shows what its last dispatched event left.
Shown(s) == views[s] # NoView <=> ShownAfter(s, dispatched)

ViewsInv ==
  /\ rebuilds = 0 => ~Rebuilding /\ \A s \in Streams : Shown(s)
  /\ \A s \in Streams : EventsOf(s, dispatched) = {} => views[s] = NoView
  /\ Rebuilding /\ rebuild.last = dispatched =>
       \A s \in Streams : (\A k \in EventsOf(s, dispatched) : k < rebuild.next) => Shown(s)

ProjectionsInv == TypeOK /\ Balanced /\ StatsExact /\ ViewsInv

\* Event k is about s.
About(s, k) == stored[k] \in DocumentEvents /\ stored[k].agg = s

\* The inductive invariant gives what the runs check.
LEMMA ViewsInvFollow == ProjectionsInv => ViewsFollowEvents
  BY DEF ProjectionsInv, StatsExact, ViewsInv, Shown, ViewsFollowEvents, CountedEvents, CountedIn

-----------------------------------------------------------------------------
(* What a dispatched event does *)

\* An event is about a document, or about a node or an edge.
LEMMA StoredKinds ==
  ASSUME NEW e \in StoredEvents
  PROVE  \/ /\ e \in DocumentEvents /\ e \notin GraphEvents /\ e.agg \in Streams
            /\ e.type \in {"DocumentIngested", "DocumentIndexed", "DocumentDeleted"}
         \/ /\ e \in GraphEvents /\ e \notin DocumentEvents /\ e.type \in {"Created", "Deleted"}
            /\ e.thing \in Things /\ e.of \in GraphTypes
  BY DEF StoredEvents, DocumentEvents, GraphEvents

\* Handling an event sets or removes the summary of its document alone.
LEMMA HandleDocumentEffect ==
  ASSUME NEW e \in StoredEvents, NEW v \in [Streams -> Views \cup {NoView}]
  PROVE  /\ HandleDocument(e, v) \in [Streams -> Views \cup {NoView}]
         /\ \A s \in Streams :
              IF e \in DocumentEvents /\ e.agg = s
              THEN HandleDocument(e, v)[s] # NoView <=> e.type # "DocumentDeleted"
              ELSE HandleDocument(e, v)[s] = v[s]
  <1>1. SummaryOf(e) \in Views /\ SummaryOf(e) # NoView
    BY ProjectionConstants DEF SummaryOf, Views, Statuses
  <1>2. QED
    BY <1>1, StoredKinds DEF HandleDocument

Stats == [total : Nat, byType : [GraphTypes -> Nat]]

\* Handling an event changes the total of its kind of thing alone.
LEMMA HandleGraphEffect ==
  ASSUME NEW e \in StoredEvents, NEW st \in [Things -> Stats]
  PROVE  /\ HandleGraph(e, st) \in [Things -> Stats]
         /\ \A x \in Things :
              HandleGraph(e, st)[x].total =
                IF ~(e \in GraphEvents /\ e.thing = x) THEN st[x].total
                ELSE IF e.type = "Created" THEN st[x].total + 1
                ELSE IF st[x].total = 0 THEN 0 ELSE st[x].total - 1
  <1>1. CASE e \in GraphEvents /\ e.type = "Created" /\ e.thing \in Things /\ e.of \in GraphTypes
    <2>1. PICK row \in Stats : row = st[e.thing]
      BY <1>1
    <2>2. row.total \in Nat /\ row.byType \in [GraphTypes -> Nat]
      BY DEF Stats
    <2>3. [row.byType EXCEPT ![e.of] = @ + 1] \in [GraphTypes -> Nat]
      BY <1>1, <2>2
    <2>4. PICK new : new = [total |-> row.total + 1, byType |-> [row.byType EXCEPT ![e.of] = @ + 1]]
      OBVIOUS
    <2>5. new \in Stats /\ new.total = row.total + 1
      BY <2>2, <2>3, <2>4 DEF Stats
    <2>6. new = [total |-> st[e.thing].total + 1, byType |-> [st[e.thing].byType EXCEPT ![e.of] = @ + 1]]
      BY <2>1, <2>4
    <2>7. HandleGraph(e, st) = [st EXCEPT ![e.thing] =
            [total |-> st[e.thing].total + 1, byType |-> [st[e.thing].byType EXCEPT ![e.of] = @ + 1]]]
      BY <1>1 DEF HandleGraph
    <2>8. HandleGraph(e, st) = [st EXCEPT ![e.thing] = new]
      BY <2>6, <2>7
    <2>9. QED
      BY <1>1, <2>1, <2>5, <2>8
  <1>2. CASE e \in GraphEvents /\ e.type = "Deleted" /\ e.thing \in Things
    <2>1. PICK row \in Stats : row = st[e.thing]
      BY <1>2
    <2>2. row.total \in Nat /\ row.byType \in [GraphTypes -> Nat]
      BY DEF Stats
    <2>3. PICK less \in Nat : less = IF row.total = 0 THEN 0 ELSE row.total - 1
      BY <2>2
    <2>4. PICK new : new = [row EXCEPT !.total = less]
      OBVIOUS
    <2>5. new \in Stats /\ new.total = less
      BY <2>2, <2>4 DEF Stats
    <2>6. new = [st[e.thing] EXCEPT !.total = IF st[e.thing].total = 0 THEN 0 ELSE st[e.thing].total - 1]
      BY <2>1, <2>3, <2>4
    <2>7. HandleGraph(e, st) = [st EXCEPT ![e.thing] = new]
      BY <1>2, <2>6 DEF HandleGraph
    <2>8. QED
      BY <1>2, <2>1, <2>3, <2>5, <2>7
  <1>3. CASE e \in DocumentEvents /\ e \notin GraphEvents /\ e.type \notin {"Created", "Deleted"}
    BY <1>3 DEF HandleGraph
  <1>4. QED
    BY <1>1, <1>2, <1>3, StoredKinds

-----------------------------------------------------------------------------
(* Prefixes of the stored events *)

\* The first n + 1 events are the first n and one more.
LEMMA PrefixFacts ==
  ASSUME TypeOK, NEW n \in Nat, n + 1 <= Len(stored)
  PROVE  /\ \A s \in Streams : EventsOf(s, n + 1) = EventsOf(s, n) \cup {k \in {n + 1} : About(s, k)}
         /\ \A s \in Streams : About(s, n + 1) => (ShownAfter(s, n + 1) <=> stored[n + 1].type # "DocumentDeleted")
         /\ \A s \in Streams : ~About(s, n + 1) => (ShownAfter(s, n + 1) <=> ShownAfter(s, n))
  <1>1. \A k : k \in 1 .. n + 1 <=> k \in 1 .. n \/ k = n + 1
    OBVIOUS
  <1>2. ASSUME NEW s \in Streams
        PROVE  EventsOf(s, n + 1) = EventsOf(s, n) \cup {k \in {n + 1} : About(s, k)}
    BY <1>1 DEF EventsOf, About
  <1>3. ASSUME NEW s \in Streams, About(s, n + 1)
        PROVE  ShownAfter(s, n + 1) <=> stored[n + 1].type # "DocumentDeleted"
    <2>1. n + 1 \in EventsOf(s, n + 1) /\ \A j \in EventsOf(s, n + 1) : j \in Nat /\ j <= n + 1
      BY <1>3 DEF EventsOf, About
    <2>2. \A k \in EventsOf(s, n + 1) : (\A j \in EventsOf(s, n + 1) : j <= k) => k = n + 1
      BY <2>1
    <2>3. QED
      BY <2>1, <2>2 DEF ShownAfter
  <1>4. ASSUME NEW s \in Streams, ~About(s, n + 1)
        PROVE  ShownAfter(s, n + 1) <=> ShownAfter(s, n)
    BY <1>2, <1>4 DEF ShownAfter
  <1>5. QED
    BY <1>2, <1>3, <1>4

\* Counting one event more.
LEMMA CountFacts ==
  ASSUME NEW seq, NEW x, NEW type, NEW n \in Nat
  PROVE  /\ IsFiniteSet(CountedIn(seq, x, type, n)) /\ Cardinality(CountedIn(seq, x, type, n)) \in Nat
         /\ Cardinality(CountedIn(seq, x, type, n + 1)) =
              Cardinality(CountedIn(seq, x, type, n))
                + (IF seq[n + 1] \in GraphEvents /\ seq[n + 1].thing = x /\ seq[n + 1].type = type THEN 1 ELSE 0)
  <1>1. IsFiniteSet(CountedIn(seq, x, type, n)) /\ Cardinality(CountedIn(seq, x, type, n)) \in Nat
    <2>1. IsFiniteSet(1 .. n)
      BY FS_Interval
    <2>2. CountedIn(seq, x, type, n) \subseteq 1 .. n
      BY DEF CountedIn
    <2>3. QED
      BY <2>1, <2>2, FS_Subset, FS_CardinalityType
  <1>2. \A k : k \in 1 .. n + 1 <=> k \in 1 .. n \/ k = n + 1
    OBVIOUS
  <1>3. CASE seq[n + 1] \in GraphEvents /\ seq[n + 1].thing = x /\ seq[n + 1].type = type
    <2>1. CountedIn(seq, x, type, n + 1) = CountedIn(seq, x, type, n) \cup {n + 1}
      BY <1>2, <1>3 DEF CountedIn
    <2>2. n + 1 \notin CountedIn(seq, x, type, n)
      BY DEF CountedIn
    <2>3. QED
      BY <1>1, <1>3, <2>1, <2>2, FS_AddElement
  <1>4. CASE ~(seq[n + 1] \in GraphEvents /\ seq[n + 1].thing = x /\ seq[n + 1].type = type)
    <2>1. CountedIn(seq, x, type, n + 1) = CountedIn(seq, x, type, n)
      BY <1>2, <1>4 DEF CountedIn
    <2>2. QED
      BY <1>1, <1>4, <2>1
  <1>5. QED
    BY <1>1, <1>3, <1>4

\* No event, none counted.
LEMMA NothingCounted ==
  ASSUME NEW x, NEW type
  PROVE  Cardinality(CountedEvents(x, type, 0)) = 0
  <1>1. CountedEvents(x, type, 0) = {}
    BY DEF CountedEvents, CountedIn
  <1>2. QED
    BY <1>1, FS_EmptySet

\* Nothing is stored, handled or shown at first.
LEMMA ProjectionsStart == Init => ProjectionsInv
  <1> SUFFICES ASSUME Init PROVE ProjectionsInv
    OBVIOUS
  <1>1. Len(stored) = 0 /\ dispatched = 0 /\ ~Rebuilding /\ \A s \in Streams : views[s] = NoView
    BY DEF Init, EmptyViews, Rebuilding
  <1>2. TypeOK
    <2>1. docs \in [Streams -> Documents]
      BY NewDocumentType DEF Init
    <2>2. alive \in [Things -> Seq(GraphTypes)] /\ stored \in Seq(StoredEvents)
      BY DEF Init
    <2>3. views \in [Streams -> Views \cup {NoView}]
      BY DEF Init, EmptyViews
    <2>4. stats \in [Things -> [total : Nat, byType : [GraphTypes -> Nat]]]
      BY DEF Init, EmptyStats
    <2>5. rebuild \in [next : Nat \ {0}, last : 0 .. dispatched]
      BY <1>1 DEF Init
    <2>6. redelivered \in 0 .. MaxRedeliveries /\ rebuilds \in 0 .. MaxRebuilds
      BY ProjectionConstants DEF Init
    <2>7. QED
      BY <1>1, <2>1, <2>2, <2>3, <2>4, <2>5, <2>6 DEF TypeOK
  <1>3. Balanced
    BY <1>1, NothingCounted DEF Balanced, Init
  <1>4. StatsExact
    BY <1>1, NothingCounted DEF StatsExact, Init, EmptyStats
  <1>5. ViewsInv
    BY <1>1 DEF ViewsInv, Shown, ShownAfter, EventsOf
  <1>6. QED
    BY <1>2, <1>3, <1>4, <1>5 DEF ProjectionsInv

-----------------------------------------------------------------------------
(* An event is stored *)

Consumers == <<dispatched, views, stats, rebuild, redelivered, rebuilds>>

\* What is known of the events already stored stays as it was.
LEMMA StoringKeeps ==
  ASSUME TypeOK, TypeOK', NEW e \in StoredEvents, stored' = Append(stored, e), UNCHANGED Consumers,
         StatsExact, ViewsInv
  PROVE  /\ StatsExact' /\ ViewsInv'
         /\ Len(stored') = Len(stored) + 1 /\ stored'[Len(stored) + 1] = e
         /\ \A n \in 0 .. Len(stored) : \A x, type : CountedIn(stored', x, type, n) = CountedEvents(x, type, n)
  <1>1. /\ Len(stored') = Len(stored) + 1 /\ stored'[Len(stored) + 1] = e
        /\ \A k \in 1 .. Len(stored) : stored'[k] = stored[k]
    BY DEF TypeOK
  <1>2. ASSUME NEW n \in 0 .. Len(stored)
        PROVE  \A x, type : CountedIn(stored', x, type, n) = CountedEvents(x, type, n)
    <2>1. \A k \in 1 .. n : stored'[k] = stored[k]
      BY <1>1 DEF TypeOK
    <2>2. QED
      BY <2>1 DEF CountedEvents, CountedIn
  <1>3. \A s \in Streams : EventsOf(s, dispatched)' = EventsOf(s, dispatched)
    BY <1>1 DEF EventsOf, TypeOK, Consumers
  <1>4. \A s \in Streams : ShownAfter(s, dispatched)' <=> ShownAfter(s, dispatched)
    <2>1. \A s \in Streams : \A k \in EventsOf(s, dispatched) : stored'[k] = stored[k]
      BY <1>1 DEF EventsOf, TypeOK
    <2>2. QED
      BY <1>3, <2>1 DEF ShownAfter
  <1>5. ViewsInv'
    BY <1>3, <1>4 DEF ViewsInv, Shown, Rebuilding, Consumers
  <1>6. StatsExact'
    BY <1>2 DEF StatsExact, TypeOK, Consumers, CountedEvents
  <1>7. QED
    BY <1>1, <1>2, <1>5, <1>6

\* The balance after one more event, when the nodes and edges follow it.
LEMMA BalanceKept ==
  ASSUME Balanced, NEW m \in Nat, m = Len(stored), Len(stored') = m + 1, NEW e, stored'[m + 1] = e,
         \A n \in 0 .. m : \A x, type : CountedIn(stored', x, type, n) = CountedEvents(x, type, n),
         \A x \in Things :
           /\ Len(alive[x]) \in Nat /\ Len(alive'[x]) \in Nat
           /\ IF ~(e \in GraphEvents /\ e.thing = x) THEN Len(alive'[x]) = Len(alive[x])
              ELSE \/ e.type = "Created" /\ Len(alive'[x]) = Len(alive[x]) + 1
                   \/ e.type = "Deleted" /\ Len(alive'[x]) = Len(alive[x]) - 1
  PROVE  Balanced'
  <1>1. ASSUME NEW x \in Things
        PROVE  /\ Len(alive'[x]) = Cardinality(CountedIn(stored', x, "Created", m + 1))
                                     - Cardinality(CountedIn(stored', x, "Deleted", m + 1))
               /\ \A n \in 0 .. m + 1 : Cardinality(CountedIn(stored', x, "Deleted", n))
                                          <= Cardinality(CountedIn(stored', x, "Created", n))
    <2>1. /\ Len(alive[x]) = Cardinality(CountedIn(stored', x, "Created", m))
                               - Cardinality(CountedIn(stored', x, "Deleted", m))
          /\ \A n \in 0 .. m : Cardinality(CountedIn(stored', x, "Deleted", n))
                                 <= Cardinality(CountedIn(stored', x, "Created", n))
      BY DEF Balanced
    <2>2. ASSUME NEW type
          PROVE  /\ Cardinality(CountedIn(stored', x, type, m)) \in Nat
                 /\ Cardinality(CountedIn(stored', x, type, m + 1)) =
                      Cardinality(CountedIn(stored', x, type, m))
                        + (IF e \in GraphEvents /\ e.thing = x /\ e.type = type THEN 1 ELSE 0)
      <3>1. PICK later : later = stored'
        OBVIOUS
      <3>2. /\ Cardinality(CountedIn(later, x, type, m)) \in Nat
            /\ Cardinality(CountedIn(later, x, type, m + 1)) =
                 Cardinality(CountedIn(later, x, type, m))
                   + (IF later[m + 1] \in GraphEvents /\ later[m + 1].thing = x /\ later[m + 1].type = type THEN 1 ELSE 0)
        <4>1. m \in Nat
          OBVIOUS
        <4>2. QED
          BY ONLY <4>1, CountFacts
      <3>3. later[m + 1] = e
        BY <3>1
      <3>4. QED
        BY <3>1, <3>2, <3>3
    <2>3. PICK created \in Nat, deleted \in Nat :
            /\ created = Cardinality(CountedIn(stored', x, "Created", m))
            /\ deleted = Cardinality(CountedIn(stored', x, "Deleted", m))
      BY <2>2
    <2>4. PICK created2 \in Nat, deleted2 \in Nat :
            /\ created2 = Cardinality(CountedIn(stored', x, "Created", m + 1))
            /\ deleted2 = Cardinality(CountedIn(stored', x, "Deleted", m + 1))
            /\ created2 = created + (IF e \in GraphEvents /\ e.thing = x /\ e.type = "Created" THEN 1 ELSE 0)
            /\ deleted2 = deleted + (IF e \in GraphEvents /\ e.thing = x /\ e.type = "Deleted" THEN 1 ELSE 0)
      BY <2>2, <2>3
    <2>5. PICK before \in Nat, after \in Nat : before = Len(alive[x]) /\ after = Len(alive'[x])
      OBVIOUS
    <2>6. before = created - deleted
      BY <2>1, <2>3, <2>5
    <2>7. IF ~(e \in GraphEvents /\ e.thing = x) THEN after = before
           ELSE \/ e.type = "Created" /\ after = before + 1
                \/ e.type = "Deleted" /\ after = before - 1
      BY <2>5
    <2>8. after = created2 - deleted2
      <3>1. \/ created2 = created /\ deleted2 = deleted /\ after = before
            \/ created2 = created + 1 /\ deleted2 = deleted /\ after = before + 1
            \/ created2 = created /\ deleted2 = deleted + 1 /\ after = before - 1
        <4>1. CASE ~(e \in GraphEvents /\ e.thing = x)
          BY <2>4, <2>7, <4>1
        <4>2. CASE e \in GraphEvents /\ e.thing = x
          BY <2>4, <2>7, <4>2
        <4>3. QED
          BY <4>1, <4>2
      <3>2. QED
        BY ONLY <3>1, <2>6, created \in Nat, deleted \in Nat, before \in Nat
    <2>9. \A n \in 0 .. m + 1 : n \in 0 .. m \/ n = m + 1
      OBVIOUS
    <2>10. deleted2 <= created2
      BY <2>8
    <2>11. QED
      BY <2>1, <2>4, <2>5, <2>8, <2>9, <2>10
  <1>2. QED
    BY <1>1 DEF Balanced, CountedEvents

\* Of a document: nothing about nodes and edges changes.
LEMMA StoreDocumentStep ==
  ASSUME ProjectionsInv, NEW s \in Streams, NEW cmd \in Requests[s], StoreDocumentEvent(s, cmd)
  PROVE  ProjectionsInv'
  <1>1. PICK event : event = EventOf(docs[s], cmd)
    OBVIOUS
  <1>2. cmd \in Commands /\ docs[s] \in Documents /\ event \in Events
    BY <1>1, ProjectionConstants, EventOfType DEF ProjectionsInv, TypeOK
  <1>3. PICK e : e = [type |-> EventTypeFor(event.kind), agg |-> s, event |-> event]
    OBVIOUS
  <1>4. e \in DocumentEvents /\ e \in StoredEvents /\ e \notin GraphEvents
    <2>1. EventTypeFor(event.kind) \in {"DocumentIngested", "DocumentIndexed", "DocumentDeleted"}
      BY <1>2 DEF Events, Kinds, EventTypeFor
    <2>2. QED
      BY <1>2, <1>3, <2>1, StoredKinds DEF DocumentEvents, StoredEvents
  <1>5. /\ docs' = [docs EXCEPT ![s] = Apply(docs[s], Decoded(event))] /\ alive' = alive
        /\ stored' = Append(stored, e) /\ UNCHANGED Consumers
    BY <1>1, <1>3 DEF StoreDocumentEvent, Consumers
  <1>6. TypeOK'
    <2>1. Apply(docs[s], Decoded(event)) \in Documents
      BY <1>2, DecodedType, ApplyType
    <2>2. docs' \in [Streams -> Documents]
      BY <1>5, <2>1 DEF ProjectionsInv, TypeOK
    <2>3. QED
      BY <1>4, <1>5, <2>2 DEF ProjectionsInv, TypeOK, Consumers
  <1>7. /\ StatsExact' /\ ViewsInv' /\ Len(stored') = Len(stored) + 1 /\ stored'[Len(stored) + 1] = e
        /\ \A n \in 0 .. Len(stored) : \A x, type : CountedIn(stored', x, type, n) = CountedEvents(x, type, n)
    BY <1>4, <1>5, <1>6, StoringKeeps DEF ProjectionsInv
  <1>8. PICK m \in Nat : m = Len(stored)
    <2>1. stored \in Seq(StoredEvents)
      BY DEF ProjectionsInv, TypeOK
    <2>2. Len(stored) \in Nat
      BY <2>1
    <2>3. QED
      BY <2>2
  <1>9. \A x \in Things : Len(alive[x]) \in Nat /\ alive'[x] = alive[x]
    BY <1>5 DEF ProjectionsInv, TypeOK
  <1>10. Balanced'
    BY <1>4, <1>7, <1>8, <1>9, BalanceKept DEF ProjectionsInv
  <1>11. QED
    BY <1>6, <1>7, <1>10 DEF ProjectionsInv

\* Of a node or an edge.
LEMMA StoreThingStep ==
  ASSUME ProjectionsInv, NEW x \in Things, NEW type \in {"Created", "Deleted"}, NEW t \in GraphTypes,
         stored' = Append(stored, [type |-> type, thing |-> x, of |-> t]),
         NEW list \in Seq(GraphTypes), alive' = [alive EXCEPT ![x] = list],
         Len(list) = IF type = "Created" THEN Len(alive[x]) + 1 ELSE Len(alive[x]) - 1,
         UNCHANGED docs, UNCHANGED Consumers
  PROVE  ProjectionsInv'
  <1>1. PICK e : e = [type |-> type, thing |-> x, of |-> t]
    OBVIOUS
  <1>2. e \in GraphEvents /\ e \in StoredEvents /\ e.type = type /\ e.thing = x
    BY <1>1 DEF GraphEvents, StoredEvents
  <1>3. stored' = Append(stored, e)
    BY <1>1
  <1>4. TypeOK'
    <2>1. alive' \in [Things -> Seq(GraphTypes)]
      BY DEF ProjectionsInv, TypeOK
    <2>2. stored' \in Seq(StoredEvents) /\ Len(stored') = Len(stored) + 1
      BY <1>2, <1>3 DEF ProjectionsInv, TypeOK
    <2>3. dispatched' \in 0 .. Len(stored')
      BY <2>2 DEF ProjectionsInv, TypeOK, Consumers
    <2>4. QED
      BY <2>1, <2>2, <2>3 DEF ProjectionsInv, TypeOK, Consumers
  <1>5. /\ StatsExact' /\ ViewsInv' /\ Len(stored') = Len(stored) + 1 /\ stored'[Len(stored) + 1] = e
        /\ \A n \in 0 .. Len(stored) : \A y, kind : CountedIn(stored', y, kind, n) = CountedEvents(y, kind, n)
    BY <1>2, <1>3, <1>4, StoringKeeps DEF ProjectionsInv
  <1>6. PICK m \in Nat : m = Len(stored)
    <2>1. stored \in Seq(StoredEvents)
      BY DEF ProjectionsInv, TypeOK
    <2>2. Len(stored) \in Nat
      BY <2>1
    <2>3. QED
      BY <2>2
  <1>7. \A y \in Things : Len(alive[y]) \in Nat /\ Len(alive'[y]) \in Nat /\ (y # x => alive'[y] = alive[y])
    <2>1. \A y \in Things : alive[y] \in Seq(GraphTypes)
      BY DEF ProjectionsInv, TypeOK
    <2>2. \A y \in Things : alive'[y] \in Seq(GraphTypes)
      BY <1>4 DEF TypeOK
    <2>3. \A y \in Things : y # x => alive'[y] = alive[y]
      BY DEF ProjectionsInv, TypeOK
    <2>4. QED
      BY <2>1, <2>2, <2>3
  <1>8. alive'[x] = list
    BY DEF ProjectionsInv, TypeOK
  <1>9. \A y \in Things :
           IF ~(e \in GraphEvents /\ e.thing = y) THEN Len(alive'[y]) = Len(alive[y])
           ELSE \/ e.type = "Created" /\ Len(alive'[y]) = Len(alive[y]) + 1
                \/ e.type = "Deleted" /\ Len(alive'[y]) = Len(alive[y]) - 1
    BY <1>2, <1>7, <1>8
  <1>10. Balanced'
    <2>1. Len(stored') = m + 1 /\ stored'[m + 1] = e
      BY <1>5, <1>6
    <2>2. \A n \in 0 .. m : \A y, kind : CountedIn(stored', y, kind, n) = CountedEvents(y, kind, n)
      BY <1>5, <1>6
    <2>3. Balanced
      BY DEF ProjectionsInv
    <2>4. \A y \in Things :
            /\ Len(alive[y]) \in Nat /\ Len(alive'[y]) \in Nat
            /\ IF ~(e \in GraphEvents /\ e.thing = y) THEN Len(alive'[y]) = Len(alive[y])
               ELSE \/ e.type = "Created" /\ Len(alive'[y]) = Len(alive[y]) + 1
                    \/ e.type = "Deleted" /\ Len(alive'[y]) = Len(alive[y]) - 1
      BY <1>7, <1>9
    <2>5. QED
      BY <1>6, <2>1, <2>2, <2>3, <2>4, BalanceKept
  <1>11. QED
    BY <1>4, <1>5, <1>10 DEF ProjectionsInv

\* A node or an edge is created or deleted.
LEMMA ThingsStep ==
  ASSUME ProjectionsInv, NEW x \in Things, DeleteThing(x) \/ \E t \in GraphTypes : CreateThing(x, t)
  PROVE  ProjectionsInv'
  <1>1. alive[x] \in Seq(GraphTypes)
    BY DEF ProjectionsInv, TypeOK
  <1>2. ASSUME NEW t \in GraphTypes, CreateThing(x, t) PROVE ProjectionsInv'
    <2>1. Append(alive[x], t) \in Seq(GraphTypes) /\ Len(Append(alive[x], t)) = Len(alive[x]) + 1
      BY <1>1
    <2>2. QED
      BY <1>2, <2>1, StoreThingStep DEF CreateThing, Consumers
  <1>3. CASE DeleteThing(x)
    <2>1. /\ Tail(alive[x]) \in Seq(GraphTypes) /\ Len(Tail(alive[x])) = Len(alive[x]) - 1
          /\ Head(alive[x]) \in GraphTypes
      BY <1>1, <1>3 DEF DeleteThing
    <2>2. QED
      BY <1>3, <2>1, StoreThingStep DEF DeleteThing, Consumers
  <1>4. QED
    BY <1>2, <1>3

-----------------------------------------------------------------------------
(* An event is handled *)

Producers == <<docs, alive, stored>>

\* What handling event n does to the summaries and to the totals.
LEMMA HandleEffect ==
  ASSUME TypeOK, NEW n \in 1 .. Len(stored), Handle(stored[n])
  PROVE  /\ views' \in [Streams -> Views \cup {NoView}]
         /\ stats' \in [Things -> [total : Nat, byType : [GraphTypes -> Nat]]]
         /\ \A s \in Streams : About(s, n) => (views'[s] # NoView <=> stored[n].type # "DocumentDeleted")
         /\ \A s \in Streams : ~About(s, n) => views'[s] = views[s]
         /\ \A x \in Things :
              stats'[x].total =
                IF ~(stored[n] \in GraphEvents /\ stored[n].thing = x) THEN stats[x].total
                ELSE IF stored[n].type = "Created" THEN stats[x].total + 1
                ELSE IF stats[x].total = 0 THEN 0 ELSE stats[x].total - 1
  <1>1. PICK e \in StoredEvents : e = stored[n]
    BY DEF TypeOK
  <1>2. /\ views \in [Streams -> Views \cup {NoView}] /\ stats \in [Things -> Stats]
        /\ views' = HandleDocument(e, views) /\ stats' = HandleGraph(e, stats)
    BY <1>1 DEF Handle, TypeOK, Stats
  <1>3. /\ HandleDocument(e, views) \in [Streams -> Views \cup {NoView}]
        /\ \A s \in Streams :
             IF e \in DocumentEvents /\ e.agg = s
             THEN HandleDocument(e, views)[s] # NoView <=> e.type # "DocumentDeleted"
             ELSE HandleDocument(e, views)[s] = views[s]
    BY <1>2, HandleDocumentEffect
  <1>4. /\ HandleGraph(e, stats) \in [Things -> Stats]
        /\ \A x \in Things :
             HandleGraph(e, stats)[x].total =
               IF ~(e \in GraphEvents /\ e.thing = x) THEN stats[x].total
               ELSE IF e.type = "Created" THEN stats[x].total + 1
               ELSE IF stats[x].total = 0 THEN 0 ELSE stats[x].total - 1
    BY <1>2, HandleGraphEffect
  <1>5. /\ views' \in [Streams -> Views \cup {NoView}]
        /\ \A s \in Streams : About(s, n) => (views'[s] # NoView <=> stored[n].type # "DocumentDeleted")
        /\ \A s \in Streams : ~About(s, n) => views'[s] = views[s]
    BY <1>1, <1>2, <1>3 DEF About
  <1>6. stats' \in [Things -> [total : Nat, byType : [GraphTypes -> Nat]]]
    BY <1>2, <1>4 DEF Stats
  <1>7. QED
    BY <1>1, <1>2, <1>4, <1>5, <1>6

\* Counts of events are of the stored ones only.
LEMMA BalanceStays ==
  ASSUME Balanced, UNCHANGED Producers
  PROVE  Balanced'
  BY DEF Balanced, CountedEvents, CountedIn, Producers

\* Dispatched once each, the events add up; the total never has to stop at 0.
LEMMA DispatchCounts ==
  ASSUME ProjectionsInv, Dispatch
  PROVE  StatsExact'
  <1> SUFFICES ASSUME redelivered = 0, rebuilds = 0, NEW x \in Things
               PROVE  stats'[x].total = Cardinality(CountedEvents(x, "Created", dispatched + 1))
                                          - Cardinality(CountedEvents(x, "Deleted", dispatched + 1))
    BY DEF Dispatch, StatsExact, CountedEvents, CountedIn
  <1>1. PICK n \in Nat : n = dispatched /\ n + 1 \in 1 .. Len(stored)
    BY DEF Dispatch, ProjectionsInv, TypeOK
  <1>2. /\ Handle(stored[n + 1]) /\ TypeOK /\ stored[n + 1] \in StoredEvents
    BY <1>1 DEF Dispatch, ProjectionsInv, TypeOK
  <1>3. stats'[x].total =
          IF ~(stored[n + 1] \in GraphEvents /\ stored[n + 1].thing = x) THEN stats[x].total
          ELSE IF stored[n + 1].type = "Created" THEN stats[x].total + 1
          ELSE IF stats[x].total = 0 THEN 0 ELSE stats[x].total - 1
    BY <1>1, <1>2, HandleEffect
  <1>4. PICK total \in Nat : total = stats[x].total
    BY <1>2 DEF TypeOK
  <1>5. \A type : /\ Cardinality(CountedIn(stored, x, type, n)) \in Nat
                  /\ Cardinality(CountedIn(stored, x, type, n + 1)) =
                       Cardinality(CountedIn(stored, x, type, n))
                         + (IF stored[n + 1] \in GraphEvents /\ stored[n + 1].thing = x /\ stored[n + 1].type = type
                            THEN 1 ELSE 0)
    <2>1. n \in Nat
      OBVIOUS
    <2>2. QED
      BY ONLY <2>1, CountFacts
  <1>6. PICK created \in Nat, deleted \in Nat, created2 \in Nat, deleted2 \in Nat :
          /\ created = Cardinality(CountedIn(stored, x, "Created", n))
          /\ deleted = Cardinality(CountedIn(stored, x, "Deleted", n))
          /\ created2 = Cardinality(CountedIn(stored, x, "Created", n + 1))
          /\ deleted2 = Cardinality(CountedIn(stored, x, "Deleted", n + 1))
          /\ created2 = created + (IF stored[n + 1] \in GraphEvents /\ stored[n + 1].thing = x
                                      /\ stored[n + 1].type = "Created" THEN 1 ELSE 0)
          /\ deleted2 = deleted + (IF stored[n + 1] \in GraphEvents /\ stored[n + 1].thing = x
                                      /\ stored[n + 1].type = "Deleted" THEN 1 ELSE 0)
    BY <1>5
  <1>7. total = created - deleted
    BY <1>1, <1>4, <1>6 DEF ProjectionsInv, StatsExact, CountedEvents
  <1>8. deleted2 <= created2
    BY <1>1, <1>6 DEF ProjectionsInv, Balanced, CountedEvents
  <1>9. stored[n + 1] \in GraphEvents => stored[n + 1].type \in {"Created", "Deleted"}
    BY DEF GraphEvents
  <1>10. stats'[x].total = created2 - deleted2
    BY <1>3, <1>4, <1>6, <1>7, <1>8, <1>9
  <1>11. QED
    BY <1>1, <1>6, <1>10 DEF CountedEvents

\* The next event is dispatched.
LEMMA DispatchStep ==
  ASSUME ProjectionsInv, Dispatch
  PROVE  ProjectionsInv'
  <1>1. PICK n \in Nat : n = dispatched /\ n + 1 \in 1 .. Len(stored)
    BY DEF Dispatch, ProjectionsInv, TypeOK
  <1>2. /\ Handle(stored[n + 1]) /\ TypeOK /\ dispatched' = n + 1 /\ ViewsInv
        /\ UNCHANGED <<docs, alive, stored, rebuild, redelivered, rebuilds>>
    BY <1>1 DEF Dispatch, ProjectionsInv
  <1>3. /\ views' \in [Streams -> Views \cup {NoView}]
        /\ stats' \in [Things -> [total : Nat, byType : [GraphTypes -> Nat]]]
        /\ \A s \in Streams : About(s, n + 1) => (views'[s] # NoView <=> stored[n + 1].type # "DocumentDeleted")
        /\ \A s \in Streams : ~About(s, n + 1) => views'[s] = views[s]
    BY <1>1, <1>2, HandleEffect
  <1>4. TypeOK'
    <2>1. rebuild.last \in 0 .. n /\ rebuild \in [next : Nat \ {0}, last : 0 .. n]
      BY <1>1, <1>2 DEF TypeOK
    <2>2. rebuild \in [next : Nat \ {0}, last : 0 .. n + 1]
      BY <2>1
    <2>3. QED
      BY <1>1, <1>2, <1>3, <2>2 DEF TypeOK
  <1>5. /\ \A s \in Streams : EventsOf(s, n + 1) = EventsOf(s, n) \cup {k \in {n + 1} : About(s, k)}
        /\ \A s \in Streams : About(s, n + 1) => (ShownAfter(s, n + 1) <=> stored[n + 1].type # "DocumentDeleted")
        /\ \A s \in Streams : ~About(s, n + 1) => (ShownAfter(s, n + 1) <=> ShownAfter(s, n))
    BY <1>1, <1>2, PrefixFacts
  <1>6. \A s \in Streams : ShownAfter(s, dispatched)' <=> ShownAfter(s, n + 1)
    BY <1>2 DEF ShownAfter, EventsOf
  <1>7. \A s \in Streams : EventsOf(s, dispatched)' = EventsOf(s, n + 1)
    BY <1>2 DEF EventsOf
  <1>8. ViewsInv'
    <2>1. ASSUME rebuilds = 0, NEW s \in Streams PROVE Shown(s)'
      BY <1>1, <1>2, <1>3, <1>5, <1>6, <2>1 DEF ViewsInv, Shown
    <2>2. ASSUME NEW s \in Streams, EventsOf(s, n + 1) = {} PROVE views'[s] = NoView
      BY <1>1, <1>2, <1>3, <1>5, <2>2 DEF ViewsInv
    <2>3. rebuild.last <= n
      BY <1>1, <1>2 DEF TypeOK
    <2>4. QED
      BY <1>2, <1>7, <2>1, <2>2, <2>3 DEF ViewsInv, Rebuilding
  <1>9. StatsExact'
    BY DispatchCounts
  <1>10. Balanced'
    BY <1>2, BalanceStays DEF ProjectionsInv, Producers
  <1>11. QED
    BY <1>4, <1>8, <1>9, <1>10 DEF ProjectionsInv

\* The last dispatched event is handled once more.
LEMMA RedeliverStep ==
  ASSUME ProjectionsInv, Redeliver
  PROVE  ProjectionsInv'
  <1>1. PICK n \in Nat : n + 1 = dispatched /\ n + 1 \in 1 .. Len(stored)
    <2>1. dispatched \in Nat /\ dispatched > 0 /\ dispatched <= Len(stored)
      BY DEF Redeliver, ProjectionsInv, TypeOK
    <2>2. dispatched - 1 \in Nat /\ (dispatched - 1) + 1 = dispatched
      BY <2>1
    <2>3. QED
      BY <2>1, <2>2
  <1>2. /\ Handle(stored[n + 1]) /\ TypeOK /\ ViewsInv /\ redelivered' = redelivered + 1
        /\ redelivered < MaxRedeliveries
        /\ UNCHANGED <<docs, alive, stored, dispatched, rebuild, rebuilds>>
    BY <1>1 DEF Redeliver, ProjectionsInv
  <1>3. /\ views' \in [Streams -> Views \cup {NoView}]
        /\ stats' \in [Things -> [total : Nat, byType : [GraphTypes -> Nat]]]
        /\ \A s \in Streams : About(s, n + 1) => (views'[s] # NoView <=> stored[n + 1].type # "DocumentDeleted")
        /\ \A s \in Streams : ~About(s, n + 1) => views'[s] = views[s]
    BY <1>1, <1>2, HandleEffect
  <1>4. redelivered' \in 0 .. MaxRedeliveries /\ redelivered' # 0
    BY <1>2, ProjectionConstants DEF TypeOK
  <1>5. TypeOK'
    BY <1>2, <1>3, <1>4 DEF TypeOK
  <1>6. \A s \in Streams : About(s, n + 1) =>
          (ShownAfter(s, dispatched) <=> stored[n + 1].type # "DocumentDeleted") /\ n + 1 \in EventsOf(s, dispatched)
    <2>1. n + 1 <= Len(stored)
      BY <1>1, <1>2 DEF TypeOK
    <2>2. /\ \A s \in Streams : EventsOf(s, n + 1) = EventsOf(s, n) \cup {k \in {n + 1} : About(s, k)}
          /\ \A s \in Streams : About(s, n + 1) => (ShownAfter(s, n + 1) <=> stored[n + 1].type # "DocumentDeleted")
      BY <1>2, <2>1, PrefixFacts
    <2>3. QED
      BY ONLY <1>1, <2>2
  <1>7. /\ \A s \in Streams : ShownAfter(s, dispatched)' <=> ShownAfter(s, dispatched)
        /\ \A s \in Streams : EventsOf(s, dispatched)' = EventsOf(s, dispatched)
    BY <1>2 DEF ShownAfter, EventsOf
  <1>8. ViewsInv'
    <2>1. ASSUME NEW s \in Streams, Shown(s) PROVE Shown(s)'
      BY <1>3, <1>6, <1>7, <2>1 DEF Shown
    <2>2. ASSUME NEW s \in Streams, About(s, n + 1) PROVE Shown(s)'
      BY <1>3, <1>6, <1>7, <2>2 DEF Shown
    <2>3. \A s \in Streams : ~About(s, n + 1) => (Shown(s)' <=> Shown(s))
      BY <1>3, <1>7 DEF Shown
    <2>4. QED
      BY <1>2, <1>3, <1>6, <1>7, <2>1, <2>2, <2>3 DEF ViewsInv, Rebuilding
  <1>9. StatsExact'
    BY <1>4 DEF StatsExact
  <1>10. Balanced'
    BY <1>2, BalanceStays DEF ProjectionsInv, Producers
  <1>11. QED
    BY <1>5, <1>8, <1>9, <1>10 DEF ProjectionsInv

\* A rebuild starts over from the first event.
LEMMA StartRebuildStep ==
  ASSUME ProjectionsInv, StartRebuild
  PROVE  ProjectionsInv'
  <1>1. /\ TypeOK /\ ViewsInv /\ rebuild' = [next |-> 1, last |-> dispatched] /\ rebuilds' = rebuilds + 1
        /\ rebuilds < MaxRebuilds
        /\ UNCHANGED <<docs, alive, stored, dispatched, views, stats, redelivered>>
    BY DEF StartRebuild, ProjectionsInv
  <1>2. rebuilds' \in 0 .. MaxRebuilds /\ rebuilds' # 0
    BY <1>1, ProjectionConstants DEF TypeOK
  <1>3. rebuild' \in [next : Nat \ {0}, last : 0 .. dispatched'] /\ rebuild'.next = 1
    BY <1>1 DEF TypeOK
  <1>4. TypeOK'
    BY <1>1, <1>2, <1>3 DEF TypeOK
  <1>5. ViewsInv'
    <2>1. \A s \in Streams : (\A k \in EventsOf(s, dispatched) : k < 1) => EventsOf(s, dispatched) = {}
      BY DEF EventsOf
    <2>2. \A s \in Streams : EventsOf(s, dispatched) = {} => ~ShownAfter(s, dispatched)
      BY DEF ShownAfter
    <2>3. \A s \in Streams : EventsOf(s, dispatched) = {} => Shown(s)
      BY <1>1, <2>2 DEF ViewsInv, Shown
    <2>4. /\ \A s \in Streams : Shown(s)' <=> Shown(s)
          /\ \A s \in Streams : EventsOf(s, dispatched)' = EventsOf(s, dispatched)
      BY <1>1 DEF Shown, ShownAfter, EventsOf
    <2>5. QED
      BY <1>1, <1>2, <1>3, <2>1, <2>3, <2>4 DEF ViewsInv
  <1>6. StatsExact'
    BY <1>2 DEF StatsExact
  <1>7. Balanced'
    BY <1>1, BalanceStays DEF ProjectionsInv, Producers
  <1>8. QED
    BY <1>4, <1>5, <1>6, <1>7 DEF ProjectionsInv

\* A rebuild's step leaves a document without later events with the right
\* summary, if nothing was dispatched past the rebuild.
LEMMA RebuildShows ==
  ASSUME ProjectionsInv, RebuildNext
  PROVE  /\ rebuild.next \in 1 .. dispatched /\ rebuilds # 0
         /\ views' \in [Streams -> Views \cup {NoView}]
         /\ stats' \in [Things -> [total : Nat, byType : [GraphTypes -> Nat]]]
         /\ \A s \in Streams : EventsOf(s, dispatched) = {} => views'[s] = NoView
         /\ rebuild.last = dispatched =>
              \A s \in Streams : (\A k \in EventsOf(s, dispatched) : k <= rebuild.next) => Shown(s)'
  <1>1. /\ TypeOK /\ ViewsInv /\ Rebuilding /\ Handle(stored[rebuild.next])
        /\ UNCHANGED <<docs, alive, stored, dispatched, redelivered, rebuilds>>
    BY DEF RebuildNext, ProjectionsInv
  <1>2. PICK n \in Nat : n = rebuild.next /\ n \in 1 .. dispatched /\ n \in 1 .. Len(stored)
    BY <1>1 DEF TypeOK, Rebuilding
  <1>3. /\ views' \in [Streams -> Views \cup {NoView}]
        /\ stats' \in [Things -> [total : Nat, byType : [GraphTypes -> Nat]]]
        /\ \A s \in Streams : About(s, n) => (views'[s] # NoView <=> stored[n].type # "DocumentDeleted")
        /\ \A s \in Streams : ~About(s, n) => views'[s] = views[s]
    BY <1>1, <1>2, HandleEffect
  <1>4. \A s \in Streams : About(s, n) <=> n \in EventsOf(s, dispatched)
    BY <1>2 DEF EventsOf, About
  <1>5. /\ \A s \in Streams : ShownAfter(s, dispatched)' <=> ShownAfter(s, dispatched)
        /\ \A s \in Streams : EventsOf(s, dispatched)' = EventsOf(s, dispatched)
    BY <1>1 DEF ShownAfter, EventsOf
  <1>6. \A s \in Streams : EventsOf(s, dispatched) = {} => views'[s] = NoView
    BY <1>1, <1>3, <1>4 DEF ViewsInv
  <1>7. ASSUME rebuild.last = dispatched, NEW s \in Streams, \A k \in EventsOf(s, dispatched) : k <= n
        PROVE  Shown(s)'
    <2>1. \A k \in EventsOf(s, dispatched) : k \in Nat
      BY <1>1 DEF EventsOf
    <2>2. CASE About(s, n)
      <3>1. \A k \in EventsOf(s, dispatched) : (\A j \in EventsOf(s, dispatched) : j <= k) => k = n
        BY <1>4, <1>7, <2>1, <2>2
      <3>2. ShownAfter(s, dispatched) <=> stored[n].type # "DocumentDeleted"
        BY <1>4, <1>7, <2>2, <3>1 DEF ShownAfter
      <3>3. QED
        BY <1>3, <1>5, <2>2, <3>2 DEF Shown
    <2>3. CASE ~About(s, n)
      <3>1. \A k \in EventsOf(s, dispatched) : k < n
        BY <1>4, <1>7, <2>1, <2>3
      <3>2. Shown(s)
        BY <1>1, <1>2, <1>7, <3>1 DEF ViewsInv
      <3>3. QED
        BY <1>3, <1>5, <2>3, <3>2 DEF Shown
    <2>4. QED
      BY <2>2, <2>3
  <1>8. QED
    BY <1>1, <1>2, <1>3, <1>6, <1>7 DEF ViewsInv

\* A rebuild handles its next event.
LEMMA RebuildNextStep ==
  ASSUME ProjectionsInv, RebuildNext
  PROVE  ProjectionsInv'
  <1>1. /\ TypeOK /\ ViewsInv /\ rebuild' = [rebuild EXCEPT !.next = @ + 1]
        /\ UNCHANGED <<docs, alive, stored, dispatched, redelivered, rebuilds>>
    BY DEF RebuildNext, ProjectionsInv
  <1>2. rebuild' \in [next : Nat \ {0}, last : 0 .. dispatched'] /\ rebuild'.next = rebuild.next + 1
        /\ rebuild'.last = rebuild.last
    BY <1>1 DEF TypeOK
  <1>3. TypeOK'
    BY <1>1, <1>2, RebuildShows DEF TypeOK
  <1>4. ViewsInv'
    <2>1. \A s \in Streams : EventsOf(s, dispatched)' = EventsOf(s, dispatched)
      BY <1>1 DEF EventsOf
    <2>2. \A s \in Streams : \A k \in EventsOf(s, dispatched) : k < rebuild.next + 1 => k <= rebuild.next
      BY <1>1 DEF EventsOf, TypeOK
    <2>3. QED
      BY <1>1, <1>2, <2>1, <2>2, RebuildShows DEF ViewsInv
  <1>5. StatsExact'
    BY <1>1, RebuildShows DEF StatsExact
  <1>6. Balanced'
    BY <1>1, BalanceStays DEF ProjectionsInv, Producers
  <1>7. QED
    BY <1>3, <1>4, <1>5, <1>6 DEF ProjectionsInv

\* Every step keeps the inductive invariant.
LEMMA ProjectionsStep == ProjectionsInv /\ [Next]_vars => ProjectionsInv'
  <1> SUFFICES ASSUME ProjectionsInv, [Next]_vars PROVE ProjectionsInv'
    OBVIOUS
  <1>1. ASSUME NEW s \in Streams, NEW cmd \in Requests[s], StoreDocumentEvent(s, cmd) PROVE ProjectionsInv'
    BY <1>1, StoreDocumentStep
  <1>2. ASSUME NEW x \in Things, DeleteThing(x) \/ \E t \in GraphTypes : CreateThing(x, t) PROVE ProjectionsInv'
    BY <1>2, ThingsStep
  <1>3. CASE UNCHANGED vars
    <2>1. TypeOK'
      BY <1>3 DEF vars, ProjectionsInv, TypeOK
    <2>2. Balanced'
      BY <1>3, BalanceStays DEF vars, ProjectionsInv, Producers
    <2>3. StatsExact'
      BY <1>3 DEF vars, ProjectionsInv, StatsExact, CountedEvents, CountedIn
    <2>4. ViewsInv'
      BY <1>3 DEF vars, ProjectionsInv, ViewsInv, Shown, ShownAfter, EventsOf, Rebuilding
    <2>5. QED
      BY <2>1, <2>2, <2>3, <2>4 DEF ProjectionsInv
  <1>4. QED
    BY <1>1, <1>2, <1>3, DispatchStep, RedeliverStep, StartRebuildStep, RebuildNextStep DEF Next

\* Summaries and totals follow the dispatched events, for any number of streams,
\* events and redeliveries.
THEOREM ViewsFollow == Spec => []ViewsFollowEvents
  <1>1. Init => ProjectionsInv
    BY ProjectionsStart
  <1>2. ProjectionsInv /\ [Next]_vars => ProjectionsInv'
    BY ProjectionsStep
  <1>3. ProjectionsInv => ViewsFollowEvents
    BY ViewsInvFollow
  <1>4. QED
    BY <1>1, <1>2, <1>3, PTL DEF Spec

\* A rebuild past which nothing was dispatched leaves the summaries right.
THEOREM RebuildsKeepSummaries == Spec => SummariesSurviveRebuild
  <1> DEFINE Survives ==
        Rebuilding /\ ~Rebuilding' /\ rebuild.last = dispatched =>
          \A s \in Streams : views'[s] # NoView <=> ShownAfter(s, dispatched)
  <1>1. Init => ProjectionsInv
    BY ProjectionsStart
  <1>2. ProjectionsInv /\ [Next]_vars => ProjectionsInv'
    BY ProjectionsStep
  <1>3. ProjectionsInv /\ [Next]_vars => [Survives]_vars
    <2> SUFFICES ASSUME ProjectionsInv, Next, Rebuilding, ~Rebuilding', rebuild.last = dispatched, NEW s \in Streams
                 PROVE  views'[s] # NoView <=> ShownAfter(s, dispatched)
      BY DEF vars
    <2>1. RebuildNext
      <3>1. rebuild' # rebuild
        BY DEF Rebuilding
      <3>2. ~StartRebuild
        BY DEF StartRebuild
      <3>3. QED
        BY <3>1, <3>2 DEF Next, StoreDocumentEvent, DeleteThing, CreateThing, Dispatch, Redeliver
    <2>2. rebuild.next + 1 > rebuild.last /\ rebuild.next \in Nat /\ rebuild.last \in Nat
      BY <2>1 DEF RebuildNext, Rebuilding, ProjectionsInv, TypeOK
    <2>3. \A k \in EventsOf(s, dispatched) : k <= rebuild.next
      BY <2>2 DEF EventsOf
    <2>4. Shown(s)'
      BY <2>1, <2>3, RebuildShows
    <2>5. ShownAfter(s, dispatched)' <=> ShownAfter(s, dispatched)
      BY <2>1 DEF RebuildNext, ShownAfter, EventsOf
    <2>6. QED
      BY <2>4, <2>5 DEF Shown
  <1>4. QED
    BY <1>1, <1>2, <1>3, PTL DEF Spec, SummariesSurviveRebuild

-----------------------------------------------------------------------------
(* The two cache levels *)

CacheSteps == {"idle"} \cup CacheReads \cup CacheWrites
CacheCalls == [at : CacheSteps, keys : SUBSET CacheKeys, val : Nat]
CacheThrough == cachePolicy = "WriteThrough"

\* What a call is about.
CacheCallTyped(call) ==
  /\ call \in CacheCalls
  /\ call.at = "idle" => call.keys = {}
  /\ call.at \in CacheReads => \E k \in CacheKeys : call.keys = {k}
  /\ call.at \in {"remove2", "remove1", "flush"} => call.val = 0

CacheTyped ==
  /\ cacheL1 \in [CacheKeys -> Nat] /\ cacheL2 \in [CacheKeys -> Nat] /\ cacheLast \in [CacheKeys -> Nat]
  /\ cacheCall = [c \in CacheCallers |-> cacheCall[c]] /\ cacheSets \in Nat
  /\ \A c \in CacheCallers : CacheCallTyped(cacheCall[c])
  /\ cachePolicy = "none" => \A c \in CacheCallers : cacheCall[c].at = "idle"

\* Where values come from: L2 holds what Redis took, and under write-through so
\* does L1, and what calls are about to put there.
CacheSource ==
  /\ \A k \in CacheKeys : cacheL2[k] # 0 => cacheL2[k] \in cacheWritten
  /\ cachePolicy \in {"none", "WriteThrough"} =>
       /\ \A k \in CacheKeys : cacheL1[k] # 0 => cacheL1[k] \in cacheWritten
       /\ \A c \in CacheCallers : cacheCall[c].at \in {"fill", "set1"} => cacheCall[c].val \in cacheWritten

\* How far the call of c has brought the levels of k.
CacheProgress(c, k) ==
  LET at  == cacheCall[c].at
      old == {0, cacheLast[k]}
      new == {0, cacheCall[c].val}
  IN  /\ at = "fill" => cacheCall[c].val = cacheLast[k]
      /\ at = (IF CacheThrough THEN "set2" ELSE "set1") => cacheL1[k] \in old /\ cacheL2[k] \in old
      /\ at = (IF CacheThrough THEN "set1" ELSE "set2") =>
           IF CacheThrough THEN cacheL1[k] \in old /\ cacheL2[k] \in new
                           ELSE cacheL1[k] \in new /\ cacheL2[k] \in old
      /\ at = "remove2" => cacheL1[k] \in old /\ cacheL2[k] \in old
      /\ at = "remove1" => cacheL1[k] \in old /\ cacheL2[k] = 0
      /\ at = "flush"   => cacheL1[k] = 0 /\ cacheL2[k] \in old

\* A key nothing disturbed has either reads, or one write and no other call.
CacheKeyInv(k) ==
  k \notin cacheDisturbed =>
    /\ \A c, d \in CacheCallers :
         c # d /\ k \in cacheCall[c].keys /\ k \in cacheCall[d].keys =>
           cacheCall[c].at \notin CacheWrites /\ cacheCall[d].at \notin CacheWrites
    /\ \A c \in CacheCallers : k \in cacheCall[c].keys => CacheProgress(c, k)
    /\ (\A c \in CacheCallers : k \in cacheCall[c].keys => cacheCall[c].at \notin CacheWrites) =>
         cacheL1[k] \in {0, cacheLast[k]} /\ cacheL2[k] \in {0, cacheLast[k]}

CacheInv == CacheTyped /\ CacheSource /\ \A k \in CacheKeys : CacheKeyInv(k)

\* Keys at which some call is.
LEMMA CacheBusyFacts ==
  ASSUME NEW steps, NEW k
  PROVE  k \in CacheBusy(steps) <=> \E c \in CacheCallers : cacheCall[c].at \in steps /\ k \in cacheCall[c].keys
  BY DEF CacheBusy

\* The inductive invariant gives what the runs check.
LEMMA CacheInvCoherent == CacheInv => CacheCoherent
  <1> SUFFICES ASSUME CacheInv, NEW k \in CacheKeys
               PROVE  /\ cachePolicy = "WriteThrough" /\ cacheL1[k] # 0 => cacheL1[k] \in cacheWritten
                      /\ k \notin cacheDisturbed \cup CacheBusy(CacheWrites) =>
                           {cacheL1[k], cacheL2[k]} \subseteq {0, cacheLast[k]}
    BY DEF CacheCoherent
  <1>1. cachePolicy = "WriteThrough" /\ cacheL1[k] # 0 => cacheL1[k] \in cacheWritten
    BY DEF CacheInv, CacheSource
  <1>2. ASSUME k \notin cacheDisturbed \cup CacheBusy(CacheWrites)
        PROVE  {cacheL1[k], cacheL2[k]} \subseteq {0, cacheLast[k]}
    <2>1. \A c \in CacheCallers : k \in cacheCall[c].keys => cacheCall[c].at \notin CacheWrites
      BY <1>2, CacheBusyFacts
    <2>2. QED
      BY <1>2, <2>1 DEF CacheInv, CacheKeyInv
  <1>3. QED
    BY <1>1, <1>2

\* Both levels are empty at first and no call runs.
LEMMA CacheStarts == CacheInit => CacheInv
  <1> SUFFICES ASSUME CacheInit PROVE CacheInv
    OBVIOUS
  <1>1. CacheCallTyped(CacheIdle) /\ CacheIdle.at = "idle" /\ CacheIdle.keys = {}
    BY DEF CacheCallTyped, CacheIdle, CacheCalls, CacheSteps, CacheReads, CacheWrites
  <1>2. \A c \in CacheCallers : cacheCall[c] = CacheIdle
    BY DEF CacheInit
  <1>3. CacheTyped
    BY <1>1, <1>2 DEF CacheInit, CacheTyped
  <1>4. CacheSource
    BY <1>1, <1>2 DEF CacheInit, CacheSource
  <1>5. \A k \in CacheKeys : CacheKeyInv(k)
    BY <1>1, <1>2 DEF CacheInit, CacheKeyInv
  <1>6. QED
    BY <1>3, <1>4, <1>5 DEF CacheInv

-----------------------------------------------------------------------------
\* A step of one caller: what its call becomes.
CacheBecomes(c, call) ==
  /\ cacheCall' = [cacheCall EXCEPT ![c] = call] /\ CacheCallTyped(call)
  /\ cachePolicy' = cachePolicy /\ cachePolicy # "none"
  /\ cacheDisturbed \subseteq cacheDisturbed' /\ cacheWritten \subseteq cacheWritten' /\ cacheSets' \in Nat
  /\ cacheL1' \in [CacheKeys -> Nat] /\ cacheL2' \in [CacheKeys -> Nat] /\ cacheLast' \in [CacheKeys -> Nat]

\* What the step leaves alone of a key.
CacheSame(k) == cacheL1'[k] = cacheL1[k] /\ cacheL2'[k] = cacheL2[k] /\ cacheLast'[k] = cacheLast[k]

\* Such a step changes the caller's own call only.
LEMMA CacheBecomesTyped ==
  ASSUME CacheTyped, NEW c \in CacheCallers, NEW call, CacheBecomes(c, call)
  PROVE  /\ CacheTyped' /\ cacheCall'[c] = call
         /\ \A d \in CacheCallers \ {c} : cacheCall'[d] = cacheCall[d]
  <1>1. /\ cacheCall'[c] = call /\ \A d \in CacheCallers \ {c} : cacheCall'[d] = cacheCall[d]
        /\ cacheCall' = [d \in CacheCallers |-> cacheCall'[d]]
    BY DEF CacheTyped, CacheBecomes
  <1>2. \A d \in CacheCallers : CacheCallTyped(cacheCall'[d])
    BY <1>1 DEF CacheTyped, CacheBecomes
  <1>3. QED
    BY <1>1, <1>2 DEF CacheTyped, CacheBecomes, CacheCallTyped

\* A key the call is not about.
LEMMA CacheOther ==
  ASSUME CacheTyped, NEW k \in CacheKeys, CacheKeyInv(k), NEW c \in CacheCallers, NEW call, CacheBecomes(c, call),
         CacheSame(k), k \notin cacheCall[c].keys, k \notin call.keys
  PROVE  CacheKeyInv(k)'
  <1>1. /\ cacheCall'[c] = call /\ \A d \in CacheCallers \ {c} : cacheCall'[d] = cacheCall[d]
    BY CacheBecomesTyped
  <1>2. \A d \in CacheCallers : k \in cacheCall'[d].keys => d # c /\ k \in cacheCall[d].keys /\ cacheCall'[d] = cacheCall[d]
    BY <1>1
  <1>3. \A d \in CacheCallers : k \in cacheCall[d].keys => k \in cacheCall'[d].keys /\ cacheCall'[d] = cacheCall[d]
    BY <1>1
  <1>4. CASE k \in cacheDisturbed
    BY <1>4 DEF CacheKeyInv, CacheBecomes
  <1>5. CASE k \notin cacheDisturbed
    <2>1. \A d \in CacheCallers : k \in cacheCall[d].keys => CacheProgress(d, k)
      BY <1>5 DEF CacheKeyInv
    <2>2. \A d \in CacheCallers : k \in cacheCall'[d].keys => CacheProgress(d, k)'
      BY <1>2, <2>1 DEF CacheProgress, CacheSame, CacheBecomes, CacheThrough
    <2>3. QED
      BY <1>2, <1>3, <1>5, <2>2 DEF CacheKeyInv, CacheSame
  <1>6. QED
    BY <1>4, <1>5

\* A key the call is about, when the call writes.
LEMMA CacheMine ==
  ASSUME CacheTyped, NEW k \in CacheKeys, CacheKeyInv(k), NEW c \in CacheCallers, NEW call, CacheBecomes(c, call),
         k \notin cacheDisturbed => k \in cacheCall[c].keys /\ cacheCall[c].at \in CacheWrites,
         k \notin cacheDisturbed' /\ k \in call.keys => CacheProgress(c, k)' /\ call.at \in CacheWrites,
         k \notin cacheDisturbed' /\ k \notin call.keys =>
           cacheL1'[k] \in {0, cacheLast'[k]} /\ cacheL2'[k] \in {0, cacheLast'[k]}
  PROVE  CacheKeyInv(k)'
  <1> SUFFICES ASSUME k \notin cacheDisturbed' PROVE CacheKeyInv(k)'
    BY DEF CacheKeyInv
  <1>1. k \notin cacheDisturbed
    BY DEF CacheBecomes
  <1>2. /\ cacheCall'[c] = call /\ \A d \in CacheCallers \ {c} : cacheCall'[d] = cacheCall[d]
    BY CacheBecomesTyped
  <1>3. \A d \in CacheCallers \ {c} : k \notin cacheCall[d].keys
    BY <1>1 DEF CacheKeyInv
  <1>4. \A d \in CacheCallers : k \in cacheCall'[d].keys => d = c
    BY <1>2, <1>3
  <1>5. QED
    BY <1>2, <1>4 DEF CacheKeyInv

-----------------------------------------------------------------------------
\* A call starts; it leaves L2 and the last values alone, and L1 or empties it.
LEMMA CacheStartStep ==
  ASSUME CacheInv, NEW c \in CacheCallers, NEW at \in CacheSteps \ {"idle", "fill"}, NEW keys \in SUBSET CacheKeys,
         NEW val \in Nat, CacheStart(c, at, keys, val), CacheCallTyped([at |-> at, keys |-> keys, val |-> val]),
         at \in {"set1", "set2"} => (at = "set2" <=> CacheThrough), at # "remove1",
         cacheL1' = cacheL1 \/ (cacheL1' = [k \in CacheKeys |-> 0] /\ keys = CacheKeys),
         at = "flush" => cacheL1' = [k \in CacheKeys |-> 0],
         cacheL2' = cacheL2, cacheLast' = cacheLast, cacheSets' \in Nat
  PROVE  CacheInv'
  <1>1. PICK call : call = [at |-> at, keys |-> keys, val |-> val]
    OBVIOUS
  <1>2. /\ cachePolicy # "none" /\ cacheCall[c].at = "idle" /\ cacheCall' = [cacheCall EXCEPT ![c] = call]
        /\ cacheDisturbed' = cacheDisturbed \cup
             (keys \cap CacheBusy(IF at \in CacheReads THEN CacheWrites ELSE CacheReads \cup CacheWrites))
        /\ cachePolicy' = cachePolicy /\ cacheWritten' = cacheWritten
    BY <1>1 DEF CacheStart
  <1>3. CacheTyped /\ CacheSource /\ cacheCall[c].keys = {}
    BY <1>2 DEF CacheInv, CacheTyped, CacheCallTyped
  <1>4. cacheL1' \in [CacheKeys -> Nat]
    BY <1>3 DEF CacheTyped
  <1>5. CacheBecomes(c, call)
    BY <1>1, <1>2, <1>3, <1>4 DEF CacheBecomes, CacheTyped
  <1>6. /\ CacheTyped' /\ cacheCall'[c] = call
        /\ \A d \in CacheCallers \ {c} : cacheCall'[d] = cacheCall[d]
    BY <1>3, <1>5, CacheBecomesTyped
  <1>7. CacheSource'
    <2>1. \A k \in CacheKeys : cacheL1'[k] = cacheL1[k] \/ cacheL1'[k] = 0
      OBVIOUS
    <2>2. at = "set1" => ~CacheThrough
      OBVIOUS
    <2>3. QED
      BY <1>1, <1>2, <1>3, <1>6, <2>1, <2>2 DEF CacheSource, CacheThrough
  <1>8. ASSUME NEW k \in CacheKeys PROVE CacheKeyInv(k)'
    <2>1. CASE k \notin keys
      <3>1. CacheSame(k)
        BY <2>1 DEF CacheSame
      <3>2. QED
        BY <1>1, <1>3, <1>5, <2>1, <3>1, CacheOther DEF CacheInv
    <2>2. CASE k \in keys /\ k \notin cacheDisturbed'
      <3>1. k \notin cacheDisturbed /\ CacheKeyInv(k)
        BY <1>2, <2>2 DEF CacheInv
      <3>2. \A d \in CacheCallers : k \in cacheCall[d].keys => cacheCall[d].at \notin CacheWrites
        BY <1>2, <2>2, CacheBusyFacts
      <3>3. cacheL1[k] \in {0, cacheLast[k]} /\ cacheL2[k] \in {0, cacheLast[k]}
        BY <3>1, <3>2 DEF CacheKeyInv
      <3>4. cacheL1'[k] \in {0, cacheLast'[k]} /\ cacheL2'[k] \in {0, cacheLast'[k]}
        BY <3>3
      <3>5. CASE at \in CacheReads
        <4>2. CacheProgress(c, k)'
          BY <1>1, <1>6, <3>5 DEF CacheProgress, CacheReads
        <4>3. \A d \in CacheCallers \ {c} : k \in cacheCall[d].keys => CacheProgress(d, k)'
          <5>1. TAKE d \in CacheCallers \ {c}
          <5>2. HAVE k \in cacheCall[d].keys
          <5>3. cacheCall[d].at \in {"idle", "get", "fill"} /\ CacheProgress(d, k)
            BY <1>3, <3>1, <3>2, <5>2 DEF CacheKeyInv, CacheTyped, CacheCallTyped, CacheCalls, CacheSteps, CacheReads
          <5>4. QED
            BY <1>6, <5>3 DEF CacheProgress
        <4>4. QED
          BY <1>1, <1>6, <3>2, <3>4, <3>5, <4>2, <4>3 DEF CacheKeyInv, CacheReads, CacheWrites
      <3>6. CASE at \notin CacheReads
        <4>1. \A d \in CacheCallers : k \notin cacheCall[d].keys
          <5>1. TAKE d \in CacheCallers
          <5>2. cacheCall[d].at \notin CacheReads \cup CacheWrites => cacheCall[d].keys = {}
            BY <1>3 DEF CacheTyped, CacheCallTyped, CacheCalls, CacheSteps
          <5>3. k \notin CacheBusy(CacheReads \cup CacheWrites)
            BY <1>2, <2>2, <3>6
          <5>4. QED
            BY <5>2, <5>3, CacheBusyFacts
        <4>2. CacheProgress(c, k)'
          BY <1>1, <1>2, <1>6, <3>4, <3>6 DEF CacheProgress, CacheThrough, CacheReads
        <4>3. at \in CacheWrites
          BY <3>6 DEF CacheSteps
        <4>4. \A d \in CacheCallers : k \in cacheCall'[d].keys => d = c
          BY <1>6, <4>1
        <4>5. QED
          BY <1>1, <1>6, <2>2, <4>2, <4>3, <4>4 DEF CacheKeyInv
      <3>7. QED
        BY <3>5, <3>6
    <2>3. QED
      BY <2>1, <2>2 DEF CacheKeyInv
  <1>9. QED
    BY <1>6, <1>7, <1>8 DEF CacheInv

\* The four ways a call starts.
LEMMA CacheStartsStep ==
  ASSUME CacheInv, NEW c \in CacheCallers,
         (\E k \in CacheKeys : CacheGet(c, k) \/ CacheSet(c, k))
           \/ (\E keys \in (SUBSET CacheKeys) \ {{}} : CacheInvalidate(c, keys)) \/ CacheClear(c)
  PROVE  CacheInv'
  <1>0. cacheSets \in Nat /\ cacheSets + 1 \in Nat
    BY DEF CacheInv, CacheTyped
  <1>1. ASSUME NEW k \in CacheKeys, CacheGet(c, k) PROVE CacheInv'
    <2>1. CacheCallTyped([at |-> "get", keys |-> {k}, val |-> 0])
      BY DEF CacheCallTyped, CacheCalls, CacheSteps, CacheReads
    <2>2. QED
      BY <1>0, <1>1, <2>1, CacheStartStep DEF CacheGet, CacheSteps, CacheReads
  <1>2. ASSUME NEW k \in CacheKeys, CacheSet(c, k) PROVE CacheInv'
    <2>1. PICK at \in {"set1", "set2"} : at = IF CacheThrough THEN "set2" ELSE "set1"
      OBVIOUS
    <2>2. CacheStart(c, at, {k}, cacheSets + 1)
      BY <1>2, <2>1 DEF CacheSet, CacheThrough
    <2>3. CacheCallTyped([at |-> at, keys |-> {k}, val |-> cacheSets + 1])
      BY <1>0 DEF CacheCallTyped, CacheCalls, CacheSteps, CacheReads, CacheWrites
    <2>4. at \in CacheSteps \ {"idle", "fill"} /\ (at = "set2" <=> CacheThrough)
      BY <2>1 DEF CacheSteps, CacheWrites
    <2>5. QED
      BY <1>0, <1>2, <2>2, <2>3, <2>4, CacheStartStep DEF CacheSet
  <1>3. ASSUME NEW keys \in SUBSET CacheKeys, CacheInvalidate(c, keys) PROVE CacheInv'
    <2>1. CacheCallTyped([at |-> "remove2", keys |-> keys, val |-> 0])
      BY DEF CacheCallTyped, CacheCalls, CacheSteps, CacheReads, CacheWrites
    <2>2. QED
      BY <1>0, <1>3, <2>1, CacheStartStep DEF CacheInvalidate, CacheSteps, CacheWrites
  <1>4. CASE CacheClear(c)
    <2>1. CacheCallTyped([at |-> "flush", keys |-> CacheKeys, val |-> 0])
      BY DEF CacheCallTyped, CacheCalls, CacheSteps, CacheReads, CacheWrites
    <2>2. QED
      BY <1>0, <1>4, <2>1, CacheStartStep DEF CacheClear, CacheSteps, CacheWrites
  <1>5. QED
    BY <1>1, <1>2, <1>3, <1>4

-----------------------------------------------------------------------------
\* No call.
LEMMA CacheIdleTyped == CacheCallTyped(CacheIdle) /\ CacheIdle.at = "idle" /\ CacheIdle.keys = {} /\ CacheIdle.val = 0
  BY DEF CacheCallTyped, CacheIdle, CacheCalls, CacheSteps, CacheReads, CacheWrites

\* A call that runs, and what the policy is then.
LEMMA CacheRunning ==
  ASSUME CacheInv, NEW c \in CacheCallers, cacheCall[c].at # "idle"
  PROVE  /\ cachePolicy # "none" /\ cacheCall[c] \in CacheCalls /\ cacheCall[c].keys \subseteq CacheKeys
         /\ cacheCall[c].val \in Nat /\ CacheCallTyped(cacheCall[c])
  BY DEF CacheInv, CacheTyped, CacheCallTyped, CacheCalls

\* L2 is asked: it misses, or its value goes to L1.
LEMMA CacheLookupStep ==
  ASSUME CacheInv, NEW c \in CacheCallers, CacheLookup(c)
  PROVE  CacheInv'
  <1>0. /\ cacheCall[c].at = "get" /\ CacheTyped /\ CacheSource
        /\ UNCHANGED <<CacheKept, cacheL1, cacheL2, cacheFailures, cacheLast, cacheDisturbed, cacheWritten>>
    BY DEF CacheLookup, CacheInv
  <1>1. PICK k0 \in CacheKeys : cacheCall[c].keys = {k0}
    BY <1>0, CacheRunning DEF CacheCallTyped, CacheReads
  <1>2. PICK call : /\ cacheCall' = [cacheCall EXCEPT ![c] = call]
                    /\ call = IF cacheL2[k0] = 0 THEN CacheIdle ELSE [at |-> "fill", keys |-> {k0}, val |-> cacheL2[k0]]
    BY <1>1 DEF CacheLookup
  <1>3. /\ cacheL2[k0] \in Nat /\ CacheCallTyped(call)
        /\ \/ call.at = "idle" /\ call.keys = {}
           \/ call.at = "fill" /\ call.keys = {k0} /\ call.val = cacheL2[k0] /\ cacheL2[k0] # 0
    BY <1>0, <1>2, CacheIdleTyped DEF CacheTyped, CacheCallTyped, CacheCalls, CacheSteps, CacheReads
  <1>4. CacheBecomes(c, call)
    BY <1>0, <1>2, <1>3, CacheRunning DEF CacheBecomes, CacheTyped, CacheKept
  <1>5. CacheTyped' /\ cacheCall'[c] = call /\ \A d \in CacheCallers \ {c} : cacheCall'[d] = cacheCall[d]
    BY <1>0, <1>4, CacheBecomesTyped
  <1>6. CacheSource'
    BY <1>0, <1>3, <1>5 DEF CacheSource, CacheKept
  <1>7. ASSUME NEW k \in CacheKeys PROVE CacheKeyInv(k)'
    <2>0. CacheKeyInv(k) /\ CacheSame(k)
      BY <1>0 DEF CacheInv, CacheSame
    <2>1. CASE k # k0
      BY <1>0, <1>1, <1>3, <1>4, <2>0, <2>1, CacheOther
    <2>2. CASE k = k0 /\ k \notin cacheDisturbed
      <3>1. \A d \in CacheCallers : k \in cacheCall[d].keys => cacheCall[d].at \notin CacheWrites
        BY <1>0, <1>1, <2>0, <2>2 DEF CacheKeyInv, CacheWrites
      <3>2. cacheL1[k] \in {0, cacheLast[k]} /\ cacheL2[k] \in {0, cacheLast[k]}
        BY <2>0, <2>2, <3>1 DEF CacheKeyInv
      <3>3. \A d \in CacheCallers : k \in cacheCall'[d].keys => k \in cacheCall[d].keys /\ cacheCall'[d].at \notin CacheWrites
        BY <1>1, <1>3, <1>5, <2>2, <3>1 DEF CacheWrites
      <3>4. k \in call.keys => CacheProgress(c, k)'
        BY <1>0, <1>3, <1>5, <2>2, <3>2 DEF CacheProgress
      <3>5. \A d \in CacheCallers \ {c} : k \in cacheCall[d].keys => CacheProgress(d, k)'
        BY <1>0, <1>5, <2>0, <2>2 DEF CacheKeyInv, CacheProgress, CacheThrough, CacheKept
      <3>6. QED
        BY <1>0, <1>5, <3>2, <3>3, <3>4, <3>5 DEF CacheKeyInv
    <2>3. QED
      BY <1>0, <2>1, <2>2 DEF CacheKeyInv
  <1>8. QED
    BY <1>5, <1>6, <1>7 DEF CacheInv

\* The value found goes into L1.
LEMMA CacheFillStep ==
  ASSUME CacheInv, NEW c \in CacheCallers, CacheFill(c)
  PROVE  CacheInv'
  <1>0. /\ cacheCall[c].at = "fill" /\ CacheTyped /\ CacheSource /\ cacheCall' = [cacheCall EXCEPT ![c] = CacheIdle]
        /\ UNCHANGED <<CacheKept, cacheL2, cacheFailures, cacheLast, cacheDisturbed, cacheWritten>>
        /\ cacheL1' = [k \in CacheKeys |-> IF k \in cacheCall[c].keys THEN cacheCall[c].val ELSE cacheL1[k]]
    BY DEF CacheFill, CacheInv, CacheGoTo
  <1>1. PICK k0 \in CacheKeys : cacheCall[c].keys = {k0}
    BY <1>0, CacheRunning DEF CacheCallTyped, CacheReads
  <1>2. /\ cacheL1' \in [CacheKeys -> Nat] /\ cacheL1'[k0] = cacheCall[c].val
        /\ \A k \in CacheKeys \ {k0} : cacheL1'[k] = cacheL1[k]
    BY <1>0, <1>1, CacheRunning DEF CacheTyped
  <1>3. CacheBecomes(c, CacheIdle)
    BY <1>0, <1>2, CacheRunning, CacheIdleTyped DEF CacheBecomes, CacheTyped, CacheKept
  <1>4. CacheTyped' /\ cacheCall'[c] = CacheIdle /\ \A d \in CacheCallers \ {c} : cacheCall'[d] = cacheCall[d]
    BY <1>0, <1>3, CacheBecomesTyped
  <1>5. CacheSource'
    BY <1>0, <1>2, <1>4, CacheIdleTyped DEF CacheSource, CacheKept
  <1>6. ASSUME NEW k \in CacheKeys PROVE CacheKeyInv(k)'
    <2>0. CacheKeyInv(k)
      BY DEF CacheInv
    <2>1. CASE k # k0
      <3>1. CacheSame(k)
        BY <1>0, <1>2, <2>1 DEF CacheSame
      <3>2. QED
        BY <1>0, <1>1, <1>3, <2>0, <2>1, <3>1, CacheOther, CacheIdleTyped
    <2>2. CASE k = k0 /\ k \notin cacheDisturbed
      <3>1. \A d \in CacheCallers : k \in cacheCall[d].keys => cacheCall[d].at \notin CacheWrites
        BY <1>0, <1>1, <2>0, <2>2 DEF CacheKeyInv, CacheWrites
      <3>2. cacheL1[k] \in {0, cacheLast[k]} /\ cacheL2[k] \in {0, cacheLast[k]} /\ cacheCall[c].val = cacheLast[k]
        BY <1>0, <1>1, <2>0, <2>2, <3>1 DEF CacheKeyInv, CacheProgress
      <3>3. \A d \in CacheCallers : k \in cacheCall'[d].keys =>
              d # c /\ k \in cacheCall[d].keys /\ cacheCall'[d] = cacheCall[d]
        BY <1>4, CacheIdleTyped
      <3>4. ASSUME NEW d \in CacheCallers, k \in cacheCall'[d].keys PROVE CacheProgress(d, k)'
        <4>1. cacheCall[d].at \in {"idle", "get", "fill"} /\ CacheProgress(d, k)
          BY <1>0, <2>0, <2>2, <3>1, <3>3, <3>4
          DEF CacheKeyInv, CacheTyped, CacheCallTyped, CacheCalls, CacheSteps, CacheReads
        <4>2. QED
          BY <1>0, <3>3, <3>4, <4>1 DEF CacheProgress
      <3>5. QED
        BY <1>0, <1>2, <2>2, <3>1, <3>2, <3>3, <3>4 DEF CacheKeyInv
    <2>3. QED
      BY <1>0, <2>1, <2>2 DEF CacheKeyInv
  <1>7. QED
    BY <1>4, <1>5, <1>6 DEF CacheInv

-----------------------------------------------------------------------------
\* A writing call that runs goes on to its next step or ends, and either its
\* keys have come to where that step expects them or they are disturbed.
LEMMA CacheWriteStep ==
  ASSUME CacheInv, NEW c \in CacheCallers, cacheCall[c].at \in CacheWrites, NEW call, CacheBecomes(c, call),
         (call.keys = cacheCall[c].keys /\ call.at \in CacheWrites) \/ call = CacheIdle, CacheSource',
         \A k \in CacheKeys : k \notin cacheCall[c].keys => CacheSame(k),
         \A k \in CacheKeys : k \in cacheCall[c].keys /\ k \notin cacheDisturbed' /\ CacheProgress(c, k) =>
           IF call = CacheIdle THEN cacheL1'[k] \in {0, cacheLast'[k]} /\ cacheL2'[k] \in {0, cacheLast'[k]}
                               ELSE CacheProgress(c, k)'
  PROVE  CacheInv'
  <1>1. CacheTyped /\ CacheTyped' /\ cacheCall'[c] = call /\ \A d \in CacheCallers \ {c} : cacheCall'[d] = cacheCall[d]
    BY CacheBecomesTyped DEF CacheInv
  <1>2. ASSUME NEW k \in CacheKeys PROVE CacheKeyInv(k)'
    <2>0. CacheKeyInv(k)
      BY DEF CacheInv
    <2>1. CASE k \notin cacheCall[c].keys
      BY <1>1, <2>0, <2>1, CacheOther, CacheIdleTyped
    <2>2. CASE k \in cacheCall[c].keys
      <3>1. k \notin cacheDisturbed' => k \notin cacheDisturbed /\ CacheProgress(c, k)
        BY <2>0, <2>2 DEF CacheKeyInv, CacheBecomes
      <3>2. QED
        BY <1>1, <2>0, <2>2, <3>1, CacheMine, CacheIdleTyped
    <2>3. QED
      BY <2>1, <2>2
  <1>3. QED
    BY <1>1, <1>2 DEF CacheInv

\* A set writes L1: last when writing through, else first.
LEMMA CacheSet1Step ==
  ASSUME CacheInv, NEW c \in CacheCallers, CacheSet1(c)
  PROVE  CacheInv'
  <1>0. /\ cacheCall[c].at = "set1" /\ CacheTyped /\ CacheSource
        /\ cacheL1' = [k \in CacheKeys |-> IF k \in cacheCall[c].keys THEN cacheCall[c].val ELSE cacheL1[k]]
        /\ UNCHANGED <<CacheKept, cacheL2, cacheFailures, cacheDisturbed, cacheWritten>>
    BY DEF CacheSet1, CacheInv
  <1>1. PICK mine \in CacheCalls : mine = cacheCall[c] /\ mine.at = "set1" /\ CacheCallTyped(mine)
    BY <1>0, CacheRunning
  <1>2. cacheL1' \in [CacheKeys -> Nat]
    BY <1>0, CacheRunning DEF CacheTyped
  <1>3. CASE CacheThrough
    <2>1. /\ cacheCall' = [cacheCall EXCEPT ![c] = CacheIdle]
          /\ cacheLast' = [k \in CacheKeys |-> IF k \in cacheCall[c].keys THEN cacheCall[c].val ELSE cacheLast[k]]
      BY <1>3 DEF CacheSet1, CacheAfterSet, CacheGoTo, CacheThrough
    <2>2. cacheLast' \in [CacheKeys -> Nat]
      BY <1>0, <2>1, CacheRunning DEF CacheTyped
    <2>3. CacheBecomes(c, CacheIdle)
      BY <1>0, <1>2, <2>1, <2>2, CacheRunning, CacheIdleTyped DEF CacheBecomes, CacheTyped, CacheKept
    <2>4. CacheSource'
      <3>1. cacheCall'[c] = CacheIdle /\ \A d \in CacheCallers \ {c} : cacheCall'[d] = cacheCall[d]
        BY <1>0, <2>3, CacheBecomesTyped
      <3>2. cacheCall[c].val \in cacheWritten
        BY <1>0, <1>3 DEF CacheSource, CacheThrough
      <3>3. QED
        BY <1>0, <3>1, <3>2, CacheIdleTyped DEF CacheSource, CacheKept
    <2>5. \A k \in CacheKeys : k \notin cacheCall[c].keys => CacheSame(k)
      BY <1>0, <2>1 DEF CacheSame, CacheTyped
    <2>6. \A k \in CacheKeys : k \in cacheCall[c].keys /\ CacheProgress(c, k) =>
            cacheL1'[k] \in {0, cacheLast'[k]} /\ cacheL2'[k] \in {0, cacheLast'[k]}
      BY <1>0, <1>3, <2>1 DEF CacheProgress
    <2>7. QED
      BY <1>0, <2>3, <2>4, <2>5, <2>6, CacheWriteStep DEF CacheWrites
  <1>4. CASE ~CacheThrough
    <2>1. cacheCall' = [cacheCall EXCEPT ![c] = [mine EXCEPT !.at = "set2"]] /\ cacheLast' = cacheLast
      BY <1>1, <1>4 DEF CacheSet1, CacheAfterSet, CacheGoTo, CacheThrough
    <2>2. PICK call : call = [mine EXCEPT !.at = "set2"]
      OBVIOUS
    <2>3. CacheCallTyped(call) /\ call.at = "set2" /\ call.keys = mine.keys /\ call.val = mine.val
      BY <1>1, <2>2 DEF CacheCallTyped, CacheCalls, CacheSteps, CacheReads, CacheWrites
    <2>4. CacheBecomes(c, call)
      BY <1>0, <1>2, <2>1, <2>2, <2>3, CacheRunning DEF CacheBecomes, CacheTyped, CacheKept
    <2>5. cacheCall'[c] = call /\ \A d \in CacheCallers \ {c} : cacheCall'[d] = cacheCall[d]
      BY <1>0, <2>4, CacheBecomesTyped
    <2>6. CacheSource'
      <3>1. cachePolicy \notin {"none", "WriteThrough"}
        BY <1>0, <1>4, CacheRunning DEF CacheThrough
      <3>2. QED
        BY <1>0, <3>1 DEF CacheSource, CacheKept
    <2>7. \A k \in CacheKeys : k \notin cacheCall[c].keys => CacheSame(k)
      BY <1>0, <2>1 DEF CacheSame
    <2>8. \A k \in CacheKeys : k \in cacheCall[c].keys /\ CacheProgress(c, k) => CacheProgress(c, k)'
      BY <1>0, <1>1, <1>4, <2>1, <2>3, <2>5 DEF CacheProgress, CacheThrough, CacheKept
    <2>9. QED
      BY <1>0, <1>1, <2>3, <2>4, <2>6, <2>7, <2>8, CacheWriteStep, CacheIdleTyped DEF CacheWrites
  <1>5. QED
    BY <1>3, <1>4

\* A step that brings a level nothing Redis did not take.
LEMMA CacheSourced ==
  ASSUME CacheInv, NEW c \in CacheCallers, cacheCall[c].at # "idle", NEW call, CacheCallTyped(call),
         cacheCall' = [cacheCall EXCEPT ![c] = call], UNCHANGED CacheKept,
         cacheDisturbed \subseteq cacheDisturbed', cacheWritten \subseteq cacheWritten',
         cacheL1' \in [CacheKeys -> Nat], cacheL2' \in [CacheKeys -> Nat], cacheLast' \in [CacheKeys -> Nat],
         \A k \in CacheKeys : cacheL1'[k] = cacheL1[k] \/ cacheL1'[k] = 0,
         \A k \in CacheKeys : cacheL2'[k] = cacheL2[k] \/ cacheL2'[k] = 0 \/ cacheL2'[k] \in cacheWritten',
         call.at \in {"fill", "set1"} => call.val \in cacheWritten'
  PROVE  CacheBecomes(c, call) /\ CacheSource'
  <1>0. CacheTyped /\ CacheSource
    BY DEF CacheInv
  <1>1. CacheBecomes(c, call)
    BY <1>0, CacheRunning DEF CacheBecomes, CacheTyped, CacheKept
  <1>2. cacheCall'[c] = call /\ \A d \in CacheCallers \ {c} : cacheCall'[d] = cacheCall[d]
    BY <1>0, <1>1, CacheBecomesTyped
  <1>3. QED
    BY <1>0, <1>1, <1>2 DEF CacheSource, CacheKept

\* The write to L2 of a set succeeds.
LEMMA CacheStored ==
  ASSUME CacheInv, NEW c \in CacheCallers, cacheCall[c].at = "set2", CacheStored2(c)
  PROVE  /\ cacheL2' \in [CacheKeys -> Nat] /\ cacheWritten \subseteq cacheWritten'
         /\ cacheCall[c].val \in cacheWritten'
         /\ \A k \in CacheKeys : cacheL2'[k] = IF k \in cacheCall[c].keys THEN cacheCall[c].val ELSE cacheL2[k]
  BY CacheRunning DEF CacheStored2, CacheInv, CacheTyped

\* The write to L2 of a set fails, done or not.
LEMMA CacheSet2Fails ==
  ASSUME CacheInv, NEW c \in CacheCallers, cacheCall[c].at = "set2", UNCHANGED <<CacheKept, cacheL1>>,
         CacheFails(cacheCall[c].keys), CacheStored2(c) \/ UNCHANGED <<cacheL2, cacheWritten>>,
         CacheGoTo(c, CacheAfterFailure), UNCHANGED cacheLast
  PROVE  CacheInv'
  <1>0. CacheTyped
    BY DEF CacheInv
  <1>1. /\ cacheCall' = [cacheCall EXCEPT ![c] = CacheIdle]
        /\ cacheDisturbed' = cacheDisturbed \cup cacheCall[c].keys
    BY DEF CacheFails, CacheGoTo, CacheAfterFailure
  <1>2. /\ cacheL2' \in [CacheKeys -> Nat] /\ cacheWritten \subseteq cacheWritten'
        /\ \A k \in CacheKeys : k \notin cacheCall[c].keys => cacheL2'[k] = cacheL2[k]
        /\ \A k \in CacheKeys : cacheL2'[k] = cacheL2[k] \/ cacheL2'[k] \in cacheWritten'
    <2>1. CASE CacheStored2(c)
      BY <2>1, CacheStored
    <2>2. CASE UNCHANGED <<cacheL2, cacheWritten>>
      BY <1>0, <2>2 DEF CacheTyped
    <2>3. QED
      BY <2>1, <2>2
  <1>3. CacheBecomes(c, CacheIdle) /\ CacheSource'
    BY <1>0, <1>1, <1>2, CacheIdleTyped, CacheSourced DEF CacheTyped
  <1>4. \A k \in CacheKeys : k \notin cacheCall[c].keys => CacheSame(k)
    BY <1>2 DEF CacheSame
  <1>5. QED
    BY <1>1, <1>3, <1>4, CacheWriteStep DEF CacheWrites

\* The write to L2 of a set succeeds and the call goes on or ends.
LEMMA CacheSet2Stores ==
  ASSUME CacheInv, NEW c \in CacheCallers, cacheCall[c].at = "set2", UNCHANGED <<CacheKept, cacheL1>>,
         CacheStored2(c), CacheAfterSet(c, IF CacheThrough THEN "set1" ELSE "idle"),
         UNCHANGED <<cacheFailures, cacheDisturbed>>
  PROVE  CacheInv'
  <1>0. CacheTyped
    BY DEF CacheInv
  <1>1. PICK mine \in CacheCalls : mine = cacheCall[c] /\ mine.at = "set2" /\ CacheCallTyped(mine) /\ mine.val \in Nat
    BY CacheRunning
  <1>2. /\ cacheL2' \in [CacheKeys -> Nat] /\ cacheWritten \subseteq cacheWritten' /\ mine.val \in cacheWritten'
        /\ \A k \in CacheKeys : cacheL2'[k] = IF k \in mine.keys THEN mine.val ELSE cacheL2[k]
    BY <1>1, CacheStored
  <1>3. CASE CacheThrough
    <2>1. cacheCall' = [cacheCall EXCEPT ![c] = [mine EXCEPT !.at = "set1"]] /\ cacheLast' = cacheLast
      BY <1>1, <1>3 DEF CacheAfterSet, CacheGoTo
    <2>2. PICK call : call = [mine EXCEPT !.at = "set1"]
      OBVIOUS
    <2>3. CacheCallTyped(call) /\ call.at = "set1" /\ call.keys = mine.keys /\ call.val = mine.val
      BY <1>1, <2>2 DEF CacheCallTyped, CacheCalls, CacheSteps, CacheReads, CacheWrites
    <2>4. cacheCall' = [cacheCall EXCEPT ![c] = call]
      BY <2>1, <2>2
    <2>5. CacheBecomes(c, call) /\ CacheSource'
      BY <1>0, <1>2, <2>1, <2>3, <2>4, CacheSourced DEF CacheTyped
    <2>6. cacheCall'[c] = call
      BY <1>0, <2>5, CacheBecomesTyped
    <2>7. \A k \in CacheKeys : k \notin cacheCall[c].keys => CacheSame(k)
      BY <1>1, <1>2, <2>1 DEF CacheSame
    <2>8. \A k \in CacheKeys : k \in cacheCall[c].keys /\ CacheProgress(c, k) => CacheProgress(c, k)'
      BY <1>1, <1>2, <1>3, <2>1, <2>3, <2>6 DEF CacheProgress, CacheThrough, CacheKept
    <2>9. QED
      BY <1>1, <2>3, <2>5, <2>7, <2>8, CacheWriteStep, CacheIdleTyped DEF CacheWrites
  <1>4. CASE ~CacheThrough
    <2>1. /\ cacheCall' = [cacheCall EXCEPT ![c] = CacheIdle]
          /\ cacheLast' = [k \in CacheKeys |-> IF k \in mine.keys THEN mine.val ELSE cacheLast[k]]
      BY <1>1, <1>4 DEF CacheAfterSet, CacheGoTo
    <2>2. cacheLast' \in [CacheKeys -> Nat]
      BY <1>0, <1>1, <2>1 DEF CacheTyped
    <2>3. CacheBecomes(c, CacheIdle) /\ CacheSource'
      BY <1>0, <1>2, <2>1, <2>2, CacheIdleTyped, CacheSourced DEF CacheTyped
    <2>4. \A k \in CacheKeys : k \notin cacheCall[c].keys => CacheSame(k)
      BY <1>1, <1>2, <2>1 DEF CacheSame
    <2>5. \A k \in CacheKeys : k \in cacheCall[c].keys /\ CacheProgress(c, k) =>
            cacheL1'[k] \in {0, cacheLast'[k]} /\ cacheL2'[k] \in {0, cacheLast'[k]}
      BY <1>1, <1>2, <1>4, <2>1 DEF CacheProgress
    <2>6. QED
      BY <2>3, <2>4, <2>5, CacheWriteStep DEF CacheWrites
  <1>5. QED
    BY <1>3, <1>4

\* A set writes L2.
LEMMA CacheSet2Step ==
  ASSUME CacheInv, NEW c \in CacheCallers, CacheSet2(c)
  PROVE  CacheInv'
  <1>1. cacheCall[c].at = "set2" /\ UNCHANGED <<CacheKept, cacheL1>>
    BY DEF CacheSet2
  <1>2. \/ /\ CacheStored2(c) /\ CacheAfterSet(c, IF CacheThrough THEN "set1" ELSE "idle")
           /\ UNCHANGED <<cacheFailures, cacheDisturbed>>
        \/ /\ CacheFails(cacheCall[c].keys) /\ (CacheStored2(c) \/ UNCHANGED <<cacheL2, cacheWritten>>)
           /\ CacheGoTo(c, CacheAfterFailure) /\ UNCHANGED cacheLast
    BY DEF CacheSet2, CacheThrough
  <1>3. QED
    BY <1>1, <1>2, CacheSet2Stores, CacheSet2Fails

-----------------------------------------------------------------------------
\* L2 is emptied of the keys, or the command fails; then comes L1, or the end.
LEMMA CacheRemove2Step ==
  ASSUME CacheInv, NEW c \in CacheCallers, CacheRemove2(c)
  PROVE  CacheInv'
  <1>0. /\ cacheCall[c].at \in {"remove2", "flush"} /\ CacheTyped /\ UNCHANGED <<CacheKept, cacheL1, cacheWritten>>
        /\ CacheAfterSet(c, IF cacheCall[c].at = "flush" THEN "idle" ELSE "remove1")
        /\ cacheDisturbed \subseteq cacheDisturbed'
        /\ \/ cacheL2' = CacheRemoved(c, cacheL2)
           \/ cacheL2' = cacheL2 /\ cacheDisturbed' = cacheDisturbed \cup cacheCall[c].keys
    BY DEF CacheRemove2, CacheInv, CacheFails
  <1>1. PICK mine \in CacheCalls : /\ mine = cacheCall[c] /\ mine.at \in {"remove2", "flush"}
                                   /\ CacheCallTyped(mine) /\ mine.val = 0
    BY <1>0, CacheRunning DEF CacheCallTyped
  <1>2. /\ cacheL2' \in [CacheKeys -> Nat]
        /\ \A k \in CacheKeys : cacheL2'[k] = cacheL2[k] \/ cacheL2'[k] = 0
        /\ \A k \in CacheKeys : k \notin mine.keys => cacheL2'[k] = cacheL2[k]
        /\ \A k \in CacheKeys : k \in mine.keys /\ k \notin cacheDisturbed' => cacheL2'[k] = 0
    BY <1>0, <1>1 DEF CacheRemoved, CacheTyped
  <1>3. CASE mine.at = "flush"
    <2>1. /\ cacheCall' = [cacheCall EXCEPT ![c] = CacheIdle]
          /\ cacheLast' = [k \in CacheKeys |-> IF k \in mine.keys THEN mine.val ELSE cacheLast[k]]
      BY <1>0, <1>1, <1>3 DEF CacheAfterSet, CacheGoTo
    <2>2. cacheLast' \in [CacheKeys -> Nat]
      BY <1>0, <1>1, <2>1 DEF CacheTyped
    <2>3. CacheBecomes(c, CacheIdle) /\ CacheSource'
      BY <1>0, <1>1, <1>2, <2>1, <2>2, CacheIdleTyped, CacheSourced DEF CacheTyped
    <2>4. \A k \in CacheKeys : k \notin cacheCall[c].keys => CacheSame(k)
      BY <1>0, <1>1, <1>2, <2>1 DEF CacheSame
    <2>5. \A k \in CacheKeys : k \in cacheCall[c].keys /\ k \notin cacheDisturbed' /\ CacheProgress(c, k) =>
            cacheL1'[k] \in {0, cacheLast'[k]} /\ cacheL2'[k] \in {0, cacheLast'[k]}
      BY <1>0, <1>1, <1>2, <1>3, <2>1 DEF CacheProgress
    <2>6. QED
      BY <1>1, <1>3, <2>3, <2>4, <2>5, CacheWriteStep DEF CacheWrites
  <1>4. CASE mine.at = "remove2"
    <2>1. cacheCall' = [cacheCall EXCEPT ![c] = [mine EXCEPT !.at = "remove1"]] /\ cacheLast' = cacheLast
      BY <1>0, <1>1, <1>4 DEF CacheAfterSet, CacheGoTo
    <2>2. PICK call : call = [mine EXCEPT !.at = "remove1"]
      OBVIOUS
    <2>3. CacheCallTyped(call) /\ call.at = "remove1" /\ call.keys = mine.keys /\ call.val = 0
      BY <1>1, <2>2 DEF CacheCallTyped, CacheCalls, CacheSteps, CacheReads, CacheWrites
    <2>4. cacheCall' = [cacheCall EXCEPT ![c] = call]
      BY <2>1, <2>2
    <2>5. CacheBecomes(c, call) /\ CacheSource'
      BY <1>0, <1>1, <1>2, <2>1, <2>3, <2>4, CacheSourced DEF CacheTyped
    <2>6. cacheCall'[c] = call
      BY <1>0, <2>5, CacheBecomesTyped
    <2>7. \A k \in CacheKeys : k \notin cacheCall[c].keys => CacheSame(k)
      BY <1>0, <1>1, <1>2, <2>1 DEF CacheSame
    <2>8. \A k \in CacheKeys : k \in cacheCall[c].keys /\ k \notin cacheDisturbed' /\ CacheProgress(c, k) =>
            CacheProgress(c, k)'
      BY <1>0, <1>1, <1>2, <1>4, <2>1, <2>3, <2>6 DEF CacheProgress
    <2>9. QED
      BY <1>1, <1>4, <2>3, <2>5, <2>7, <2>8, CacheWriteStep, CacheIdleTyped DEF CacheWrites
  <1>5. QED
    BY <1>1, <1>3, <1>4

\* L1 is emptied of the keys, and the call ends.
LEMMA CacheRemove1Step ==
  ASSUME CacheInv, NEW c \in CacheCallers, CacheRemove1(c)
  PROVE  CacheInv'
  <1>0. /\ cacheCall[c].at = "remove1" /\ CacheTyped /\ cacheL1' = CacheRemoved(c, cacheL1)
        /\ UNCHANGED <<CacheKept, cacheL2, cacheFailures, cacheDisturbed, cacheWritten>>
        /\ cacheCall' = [cacheCall EXCEPT ![c] = CacheIdle]
        /\ cacheLast' = [k \in CacheKeys |-> IF k \in cacheCall[c].keys THEN cacheCall[c].val ELSE cacheLast[k]]
    BY DEF CacheRemove1, CacheInv, CacheAfterSet, CacheGoTo
  <1>1. cacheCall[c].val = 0
    BY <1>0, CacheRunning DEF CacheCallTyped
  <1>2. /\ cacheL1' \in [CacheKeys -> Nat] /\ cacheLast' \in [CacheKeys -> Nat]
        /\ \A k \in CacheKeys : cacheL1'[k] = IF k \in cacheCall[c].keys THEN 0 ELSE cacheL1[k]
        /\ \A k \in CacheKeys : cacheLast'[k] = IF k \in cacheCall[c].keys THEN 0 ELSE cacheLast[k]
    BY <1>0, <1>1 DEF CacheRemoved, CacheTyped
  <1>3. CacheBecomes(c, CacheIdle) /\ CacheSource'
    BY <1>0, <1>2, CacheIdleTyped, CacheSourced DEF CacheTyped
  <1>4. \A k \in CacheKeys : k \notin cacheCall[c].keys => CacheSame(k)
    BY <1>0, <1>2 DEF CacheSame
  <1>5. \A k \in CacheKeys : k \in cacheCall[c].keys /\ CacheProgress(c, k) =>
          cacheL1'[k] \in {0, cacheLast'[k]} /\ cacheL2'[k] \in {0, cacheLast'[k]}
    BY <1>0, <1>2 DEF CacheProgress
  <1>6. QED
    BY <1>0, <1>3, <1>4, <1>5, CacheWriteStep DEF CacheWrites

-----------------------------------------------------------------------------
\* An entry goes: every level still holds what it held or nothing.
LEMMA CacheExpireStep ==
  ASSUME CacheInv, NEW e \in CacheKeys, CacheExpire(e)
  PROVE  CacheInv'
  <1>0. /\ CacheTyped /\ CacheSource
        /\ UNCHANGED <<CacheKept, cacheCall, cacheFailures, cacheLast, cacheDisturbed, cacheWritten>>
        /\ cacheL1' \in [CacheKeys -> Nat] /\ cacheL2' \in [CacheKeys -> Nat]
        /\ \A k \in CacheKeys : cacheL1'[k] = cacheL1[k] \/ cacheL1'[k] = 0
        /\ \A k \in CacheKeys : cacheL2'[k] = cacheL2[k] \/ cacheL2'[k] = 0
    BY DEF CacheExpire, CacheInv, CacheTyped
  <1>1. CacheTyped'
    BY <1>0 DEF CacheTyped, CacheKept
  <1>2. CacheSource'
    BY <1>0 DEF CacheSource, CacheKept
  <1>3. ASSUME NEW k \in CacheKeys, NEW c \in CacheCallers, CacheProgress(c, k) PROVE CacheProgress(c, k)'
    BY <1>0, <1>3 DEF CacheProgress, CacheThrough, CacheKept
  <1>4. ASSUME NEW k \in CacheKeys PROVE CacheKeyInv(k)'
    BY <1>0, <1>3 DEF CacheInv, CacheKeyInv
  <1>5. QED
    BY <1>1, <1>2, <1>4 DEF CacheInv

\* The manager is built, with its write policy.
LEMMA CacheBuildStep ==
  ASSUME CacheInv, NEW p \in {"WriteThrough", "WriteBehind", "WriteAround"}, CacheBuild(p)
  PROVE  CacheInv'
  <1>0. /\ CacheTyped /\ CacheSource /\ cachePolicy = "none" /\ cachePolicy' = p
        /\ UNCHANGED <<cacheL1, cacheL2, cacheCall, cacheSets, cacheLast, cacheDisturbed, cacheWritten>>
    BY DEF CacheBuild, CacheInv
  <1>1. \A c \in CacheCallers : cacheCall[c].at = "idle" /\ cacheCall[c].keys = {}
    BY <1>0 DEF CacheTyped, CacheCallTyped
  <1>2. CacheTyped'
    BY <1>0 DEF CacheTyped
  <1>3. CacheSource'
    BY <1>0 DEF CacheSource
  <1>4. ASSUME NEW k \in CacheKeys PROVE CacheKeyInv(k)'
    BY <1>0, <1>1 DEF CacheInv, CacheKeyInv
  <1>5. QED
    BY <1>2, <1>3, <1>4 DEF CacheInv

\* Every step keeps the inductive invariant.
LEMMA CacheStep == CacheInv /\ [CacheNext]_cacheVars => CacheInv'
  <1> SUFFICES ASSUME CacheInv, [CacheNext]_cacheVars PROVE CacheInv'
    OBVIOUS
  <1>1. ASSUME NEW p \in {"WriteThrough", "WriteBehind", "WriteAround"}, CacheBuild(p) PROVE CacheInv'
    BY <1>1, CacheBuildStep
  <1>2. ASSUME NEW c \in CacheCallers,
               (\E k \in CacheKeys : CacheGet(c, k) \/ CacheSet(c, k))
                 \/ (\E keys \in (SUBSET CacheKeys) \ {{}} : CacheInvalidate(c, keys)) \/ CacheClear(c)
        PROVE  CacheInv'
    BY <1>2, CacheStartsStep
  <1>3. ASSUME NEW c \in CacheCallers,
               CacheLookup(c) \/ CacheFill(c) \/ CacheSet1(c) \/ CacheSet2(c) \/ CacheRemove2(c) \/ CacheRemove1(c)
        PROVE  CacheInv'
    BY <1>3, CacheLookupStep, CacheFillStep, CacheSet1Step, CacheSet2Step, CacheRemove2Step, CacheRemove1Step
  <1>4. ASSUME NEW k \in CacheKeys, CacheExpire(k) PROVE CacheInv'
    BY <1>4, CacheExpireStep
  <1>5. CASE UNCHANGED cacheVars
    BY <1>5 DEF cacheVars, CacheInv, CacheTyped, CacheSource, CacheKeyInv, CacheProgress, CacheThrough
  <1>6. QED
    BY <1>1, <1>2, <1>3, <1>4, <1>5 DEF CacheNext

\* Under write-through L1 holds only what Redis took, and a key whose writes
\* met neither another call nor a failure is never served stale.
THEOREM UndisturbedKeysAreFresh == CacheSpec => []CacheCoherent
  <1>1. CacheInit => CacheInv
    BY CacheStarts
  <1>2. CacheInv /\ [CacheNext]_cacheVars => CacheInv'
    BY CacheStep
  <1>3. CacheInv => CacheCoherent
    BY CacheInvCoherent
  <1>4. QED
    BY <1>1, <1>2, <1>3, PTL DEF CacheSpec

(***************************************************************************)
(* The gate                                                                *)
(***************************************************************************)

GateRecord == [count : Nat, first : Nat, until : Nat]
GateToken  == [user : DOMAIN GateUsers, exp : Nat, revoked : {"no", "yes", "was"}]

\* The attempts the limiter let pass come in the order of the clock, ...
GateOrdered(passed, now) ==
  \A i \in 1 .. Len(passed) :
    passed[i] <= now /\ \A j \in i .. Len(passed) : passed[i] <= passed[j]

\* ... are never too many in one window, ...
GateBounded(passed) ==
  \A i, j \in 1 .. Len(passed) :
    (i <= j /\ passed[j] - passed[i] <= GateWindow) => j - i + 1 <= 2 * GateMax - 2

\* ... and the last of them are those of the record: it counts from its first
\* and locks at the last of its attempts; what lies before its first within a
\* window is two less than a count.
GateCounted(passed, record) ==
  /\ record.count \in 1 .. GateMax /\ record.count <= Len(passed)
  /\ record.first = passed[Len(passed) - record.count + 1]
  /\ record.until = IF record.count = GateMax THEN passed[Len(passed)] + GateLockout ELSE 0
  /\ \A i \in 1 .. Len(passed) - record.count :
       record.first - passed[i] <= GateWindow => Len(passed) - record.count + 1 - i <= GateMax - 2

GateLimited(passed, records, now) ==
  /\ passed \in Seq(Nat) /\ GateOrdered(passed, now) /\ GateBounded(passed)
  /\ \/ records = {} /\ passed = << >>
     \/ \E record \in GateRecord : records = {record} /\ GateCounted(passed, record)

\* A request inside the gate has no token that was revoked and is in force; one
\* that was served had a token of somebody who may.
GateWays(tokens) ==
  {GateAtRest} \cup
    [at : {"inside", "over"}, token : 0 .. tokens, route : GateRoutes, status : {200, 401, 403},
     revoked : BOOLEAN, live : BOOLEAN]

GateServed(way, tokens) ==
  /\ way.at = "inside" => ~(way.revoked /\ way.live)
  /\ (way.at = "over" /\ way.status = 200) =>
       /\ way.token # 0 /\ ~(way.revoked /\ way.live)
       /\ GateHasPermission(GateUsers[tokens[way.token].user], GateCategory(way.route.method))

GateTyped ==
  /\ gateNow \in Nat
  /\ DOMAIN gateAttempts = DOMAIN GateUsers /\ DOMAIN gatePassed = DOMAIN GateUsers
  /\ gateLogin \in [GateClients -> DOMAIN GateUsers \cup {GateNobody}]
  /\ gateTokens \in Seq(GateToken)
  /\ DOMAIN gateWay = GateClients
  /\ \A c \in GateClients : gateWay[c] \in GateWays(Len(gateTokens))

GateLimits == \A u \in DOMAIN GateUsers : GateLimited(gatePassed[u], gateAttempts[u], gateNow)

\* What was cleaned up has expired.
GateCleaned == \A t \in 1 .. Len(gateTokens) : gateTokens[t].revoked = "was" => gateTokens[t].exp <= gateNow

GateEntitled == \A c \in GateClients : GateServed(gateWay[c], gateTokens)

GateInv == GateTyped /\ GateLimits /\ GateCleaned /\ GateEntitled

-----------------------------------------------------------------------------
(* The limiter *)

\* One more attempt.
LEMMA GateAppends ==
  ASSUME NEW passed \in Seq(Nat), NEW now \in Nat
  PROVE  /\ Append(passed, now) \in Seq(Nat)
         /\ Len(passed) \in Nat /\ Len(Append(passed, now)) = Len(passed) + 1
         /\ \A i \in 1 .. Len(passed) : Append(passed, now)[i] = passed[i] /\ passed[i] \in Nat
         /\ Append(passed, now)[Len(passed) + 1] = now
  OBVIOUS

\* It keeps the order, ...
LEMMA GateOrderKept ==
  ASSUME NEW passed \in Seq(Nat), NEW now \in Nat, GateOrdered(passed, now)
  PROVE  GateOrdered(Append(passed, now), now)
<1>1. PICK q : q = Append(passed, now)
  OBVIOUS
<1>2. PICK n \in Nat : n = Len(passed)
  BY GateAppends
<1>3. /\ Len(q) = n + 1 /\ q[n + 1] = now
      /\ \A i \in 1 .. n : q[i] = passed[i] /\ passed[i] \in Nat
  BY <1>1, <1>2, GateAppends
<1>4. SUFFICES ASSUME NEW i \in 1 .. n + 1, NEW j \in i .. n + 1
               PROVE  q[i] <= now /\ q[i] <= q[j]
  BY <1>1, <1>3 DEF GateOrdered
<1>5. CASE i = n + 1
  <2>1. j = n + 1
    BY <1>5, <1>2
  <2>. QED  BY <2>1, <1>5, <1>3
<1>6. CASE i # n + 1
  <2>1. i \in 1 .. n
    BY <1>6, <1>2
  <2>2. q[i] = passed[i] /\ passed[i] <= now
    BY <2>1, <1>2, <1>3 DEF GateOrdered
  <2>3. CASE j = n + 1
    BY <2>2, <2>3, <1>3
  <2>4. CASE j # n + 1
    <3>1. j \in i .. n /\ j \in 1 .. n
      BY <2>1, <2>4, <1>2
    <3>2. passed[i] <= passed[j]
      BY <2>1, <3>1, <1>2 DEF GateOrdered
    <3>. QED  BY <2>2, <3>1, <3>2, <1>3
  <2>. QED  BY <2>3, <2>4
<1>. QED  BY <1>5, <1>6

\* ... and the bound, if as many as the bound allows lie within a window of it.
LEMMA GateBoundKept ==
  ASSUME NEW passed \in Seq(Nat), NEW now \in Nat, GateBounded(passed),
         \A i \in 1 .. Len(passed) :
           now - passed[i] <= GateWindow => Len(passed) + 2 - i <= 2 * GateMax - 2
  PROVE  GateBounded(Append(passed, now))
<1>1. PICK q : q = Append(passed, now)
  OBVIOUS
<1>2. PICK n \in Nat : n = Len(passed)
  BY GateAppends
<1>3. /\ Len(q) = n + 1 /\ q[n + 1] = now
      /\ \A i \in 1 .. n : q[i] = passed[i] /\ passed[i] \in Nat
  BY <1>1, <1>2, GateAppends
<1>4. SUFFICES ASSUME NEW i \in 1 .. n + 1, NEW j \in 1 .. n + 1, i <= j, q[j] - q[i] <= GateWindow
               PROVE  j - i + 1 <= 2 * GateMax - 2
  BY <1>1, <1>3 DEF GateBounded
<1>5. CASE j = n + 1 /\ i = n + 1
  BY <1>5, <1>2, GateConstants
<1>6. CASE j = n + 1 /\ i # n + 1
  <2>1. i \in 1 .. n
    BY <1>6, <1>2
  <2>2. n + 2 - i <= 2 * GateMax - 2
    BY <2>1, <1>2, <1>3, <1>4, <1>6
  <2>3. j - i + 1 = n + 2 - i
    BY ONLY <1>6, i \in 1 .. n + 1, n \in Nat
  <2>. QED  BY <2>2, <2>3
<1>7. CASE j # n + 1
  <2>1. j \in 1 .. n /\ i \in 1 .. n
    BY <1>4, <1>7, <1>2
  <2>2. q[j] = passed[j] /\ q[i] = passed[i]
    BY <2>1, <1>3
  <2>3. passed[j] - passed[i] <= GateWindow
    BY <2>2, <1>4
  <2>. QED  BY <2>1, <2>3, <1>2, <1>4 DEF GateBounded
<1>. QED  BY <1>5, <1>6, <1>7

\* The first attempt of a count, after a lock or a window that is over: what lies
\* before it within a window is what followed the first of the last count.
LEMMA GateCountBegins ==
  ASSUME NEW passed, NEW records, NEW now \in Nat, GateLimited(passed, records, now),
         \A a \in records : \/ a.until # 0 /\ now >= a.until
                            \/ a.until = 0 /\ now - a.first > GateWindow
  PROVE  GateLimited(Append(passed, now), {[count |-> 1, first |-> now, until |-> 0]}, now)
<1>0. /\ passed \in Seq(Nat) /\ GateOrdered(passed, now) /\ GateBounded(passed)
      /\ GateMax \in Nat /\ GateMax > 1 /\ GateWindow \in Nat /\ GateLockout \in Nat
      /\ GateWindow < GateLockout
  BY GateConstants DEF GateLimited
<1>1. PICK q : q = Append(passed, now)
  OBVIOUS
<1>2. PICK n \in Nat : n = Len(passed)
  BY <1>0, GateAppends
<1>3. /\ Len(q) = n + 1 /\ q[n + 1] = now /\ q \in Seq(Nat)
      /\ \A i \in 1 .. n : q[i] = passed[i] /\ passed[i] \in Nat
  BY <1>0, <1>1, <1>2, GateAppends
<1>4. ASSUME NEW i \in 1 .. n, now - passed[i] <= GateWindow
      PROVE  n + 1 - i <= GateMax - 2
  <2>1. passed # << >>
    BY <1>2
  <2>2. PICK record \in GateRecord : records = {record} /\ GateCounted(passed, record)
    BY <2>1 DEF GateLimited
  <2>3. PICK c \in Nat : c = record.count
    BY <2>2 DEF GateRecord
  <2>4. c >= 1 /\ c <= GateMax /\ c <= n
    BY <2>2, <2>3, <1>2, <1>0 DEF GateCounted
  <2>5. PICK p \in Nat : p = passed[i]
    BY <1>3
  <2>6. CASE c = GateMax
    <3>1. n \in 1 .. n /\ n \in i .. n
      BY <1>2, <2>4
    <3>2. PICK last \in Nat : last = passed[n]
      BY <3>1, <1>3
    <3>3. p <= last
      BY <3>1, <3>2, <2>5, <1>0, <1>2 DEF GateOrdered
    <3>4. record.until = last + GateLockout
      BY <2>2, <2>3, <2>6, <3>2, <1>2 DEF GateCounted
    <3>5. now >= last + GateLockout
      <4>1. record.until # 0
        BY ONLY <3>4, <1>0, last \in Nat
      <4>. QED  BY <4>1, <3>4, <2>2
    <3>6. now - p <= GateWindow
      BY <2>5, <1>4
    <3>. QED  BY ONLY <3>3, <3>5, <3>6, <1>0, p \in Nat, last \in Nat, now \in Nat
  <2>7. CASE c # GateMax
    <3>1. PICK f \in Nat : f = n - c + 1
      BY ONLY <2>4, c \in Nat, n \in Nat
    <3>2. f \in 1 .. n
      BY <3>1, <2>4
    <3>3. PICK start \in Nat : start = passed[f]
      BY <3>2, <1>3
    <3>4. record.first = start /\ record.until = 0
      BY <2>2, <2>3, <2>7, <3>1, <3>3, <1>2 DEF GateCounted
    <3>5. now - start > GateWindow
      BY <3>4, <2>2
    <3>6. i > f
      <4>1. SUFFICES ASSUME ~(i > f) PROVE FALSE
        OBVIOUS
      <4>2. f \in i .. n
        BY <4>1, <3>2
      <4>3. p <= start
        BY <4>2, <3>3, <2>5, <1>0, <1>2 DEF GateOrdered
      <4>4. now - p <= GateWindow
        BY <2>5, <1>4
      <4>. QED  BY ONLY <4>3, <4>4, <3>5, <1>0, p \in Nat, start \in Nat, now \in Nat
    <3>. QED  BY ONLY <3>1, <3>6, <2>4, <2>7, <1>0, i \in 1 .. n, c \in Nat, n \in Nat, f \in Nat
  <2>. QED  BY <2>6, <2>7
<1>5. GateBounded(q)
  <2>1. SUFFICES ASSUME NEW i \in 1 .. n, now - passed[i] <= GateWindow
                 PROVE  n + 2 - i <= 2 * GateMax - 2
    BY <1>0, <1>1, <1>2, GateBoundKept
  <2>2. n + 1 - i <= GateMax - 2
    BY <2>1, <1>4
  <2>. QED  BY ONLY <2>2, <1>0, i \in 1 .. n, n \in Nat
<1>6. GateOrdered(q, now)
  BY <1>0, <1>1, GateOrderKept
<1>7. PICK record : record = [count |-> 1, first |-> now, until |-> 0]
  OBVIOUS
<1>8. record \in GateRecord /\ record.count = 1 /\ record.first = now /\ record.until = 0
  BY <1>7 DEF GateRecord
<1>9. GateCounted(q, record)
  <2>1. record.count \in 1 .. GateMax /\ record.count <= Len(q) /\ record.count # GateMax
    BY <1>0, <1>2, <1>3, <1>8
  <2>2. Len(q) - record.count + 1 = n + 1 /\ Len(q) - record.count = n
    BY <1>2, <1>3, <1>8
  <2>3. \A i \in 1 .. n : record.first - q[i] <= GateWindow => n + 1 - i <= GateMax - 2
    BY <1>3, <1>4, <1>8
  <2>. QED  BY <2>1, <2>2, <2>3, <1>3, <1>8 DEF GateCounted
<1>. QED  BY <1>1, <1>3, <1>5, <1>6, <1>7, <1>8, <1>9 DEF GateLimited

\* A further attempt of a count that is open.
LEMMA GateCountGoesOn ==
  ASSUME NEW passed, NEW record \in GateRecord, NEW now \in Nat, GateLimited(passed, {record}, now),
         record.until = 0, now - record.first <= GateWindow
  PROVE  GateLimited(Append(passed, now),
                     {[count |-> record.count + 1, first |-> record.first,
                       until |-> IF record.count + 1 >= GateMax THEN now + GateLockout ELSE 0]}, now)
<1>0. /\ passed \in Seq(Nat) /\ GateOrdered(passed, now) /\ GateBounded(passed)
      /\ GateMax \in Nat /\ GateMax > 1 /\ GateWindow \in Nat
      /\ GateLockout \in Nat /\ GateLockout > 0
  BY GateConstants DEF GateLimited
<1>1. PICK q : q = Append(passed, now)
  OBVIOUS
<1>2. PICK n \in Nat : n = Len(passed)
  BY <1>0, GateAppends
<1>3. /\ Len(q) = n + 1 /\ q[n + 1] = now /\ q \in Seq(Nat)
      /\ \A i \in 1 .. n : q[i] = passed[i] /\ passed[i] \in Nat
  BY <1>0, <1>1, <1>2, GateAppends
<1>4. GateCounted(passed, record)
  BY DEF GateLimited
<1>5. PICK c \in Nat : c = record.count
  BY DEF GateRecord
<1>6. c >= 1 /\ c <= GateMax /\ c <= n
  BY <1>0, <1>2, <1>4, <1>5 DEF GateCounted
<1>7. c # GateMax
  <2>1. SUFFICES ASSUME c = GateMax PROVE FALSE
    OBVIOUS
  <2>2. n \in 1 .. n
    BY <1>2, <1>6
  <2>3. PICK last \in Nat : last = passed[n]
    BY <2>2, <1>3
  <2>4. record.until = last + GateLockout
    BY <2>1, <2>3, <1>2, <1>4, <1>5 DEF GateCounted
  <2>5. last + GateLockout # 0
    BY ONLY <1>0, last \in Nat
  <2>. QED  BY <2>4, <2>5
<1>8. PICK f \in Nat : f = n - c + 1
  BY <1>2, <1>6
<1>9. f \in 1 .. n
  BY <1>6, <1>8
<1>10. PICK start \in Nat : start = passed[f]
  BY <1>3, <1>9
<1>11. record.first = start
  BY <1>2, <1>4, <1>5, <1>8, <1>10 DEF GateCounted
<1>12. \A i \in 1 .. n - c : start - passed[i] <= GateWindow => f - i <= GateMax - 2
  BY <1>2, <1>4, <1>5, <1>8, <1>11 DEF GateCounted
<1>13. GateBounded(q)
  <2>1. SUFFICES ASSUME NEW i \in 1 .. n, now - passed[i] <= GateWindow
                 PROVE  n + 2 - i <= 2 * GateMax - 2
    BY <1>0, <1>1, <1>2, GateBoundKept
  <2>2. CASE i >= f
    BY ONLY <2>2, <1>0, <1>6, <1>7, <1>8, i \in 1 .. n, n \in Nat, c \in Nat, f \in Nat
  <2>3. CASE i < f
    <3>1. i \in 1 .. n - c /\ f \in i .. n
      BY <2>3, <1>6, <1>8, <1>9
    <3>2. PICK p \in Nat : p = passed[i]
      BY <1>3
    <3>3. start <= now
      BY <1>0, <1>2, <1>9, <1>10 DEF GateOrdered
    <3>4. start - p <= GateWindow
      BY ONLY <3>2, <3>3, <2>1, <1>0, p \in Nat, start \in Nat, now \in Nat
    <3>5. f - i <= GateMax - 2
      BY <3>1, <3>2, <3>4, <1>12
    <3>. QED  BY ONLY <3>5, <1>0, <1>6, <1>7, <1>8, i \in 1 .. n, n \in Nat, c \in Nat, f \in Nat
  <2>. QED  BY <2>2, <2>3, <1>8
<1>14. GateOrdered(q, now)
  BY <1>0, <1>1, GateOrderKept
<1>15. PICK until \in Nat : until = IF c + 1 >= GateMax THEN now + GateLockout ELSE 0
  BY <1>0
<1>16. PICK new : new = [count |-> c + 1, first |-> start, until |-> until]
  OBVIOUS
<1>17. new \in GateRecord /\ new.count = c + 1 /\ new.first = start /\ new.until = until
  BY <1>16 DEF GateRecord
<1>18. GateCounted(q, new)
  <2>1. new.count \in 1 .. GateMax /\ new.count <= Len(q)
    BY <1>0, <1>2, <1>3, <1>6, <1>7, <1>17
  <2>2. Len(q) - new.count + 1 = f /\ Len(q) - new.count = n - c
    BY <1>2, <1>3, <1>8, <1>17
  <2>3. new.first = q[f]
    BY <1>3, <1>9, <1>10, <1>17
  <2>4. new.until = IF new.count = GateMax THEN q[Len(q)] + GateLockout ELSE 0
    <3>1. new.count = GateMax <=> c + 1 >= GateMax
      BY <1>0, <1>6, <1>7, <1>17
    <3>. QED  BY <3>1, <1>3, <1>15, <1>17
  <2>5. \A i \in 1 .. n - c : new.first - q[i] <= GateWindow => f - i <= GateMax - 2
    <3>1. \A i \in 1 .. n - c : i \in 1 .. n
      BY <1>2, <1>6
    <3>. QED  BY <3>1, <1>3, <1>12, <1>17
  <2>6. /\ new.first = q[Len(q) - new.count + 1]
        /\ \A i \in 1 .. Len(q) - new.count :
             new.first - q[i] <= GateWindow => Len(q) - new.count + 1 - i <= GateMax - 2
    BY <2>2, <2>3, <2>5
  <2>. QED  BY ONLY <2>1, <2>4, <2>6 DEF GateCounted
<1>. QED  BY <1>1, <1>3, <1>5, <1>11, <1>13, <1>14, <1>15, <1>16, <1>17, <1>18 DEF GateLimited

\* Time passes.
LEMMA GateLater ==
  ASSUME NEW passed, NEW records, NEW now \in Nat, GateLimited(passed, records, now)
  PROVE  GateLimited(passed, records, now + 1)
<1>1. passed \in Seq(Nat) /\ GateOrdered(passed, now)
  BY DEF GateLimited
<1>2. \A i \in 1 .. Len(passed) : passed[i] \in Nat
  BY <1>1
<1>3. GateOrdered(passed, now + 1)
  BY <1>1, <1>2 DEF GateOrdered
<1>. QED  BY <1>3 DEF GateLimited

\* Nobody tried yet.
LEMMA GateForgotten ==
  ASSUME NEW now PROVE GateLimited(<< >>, {}, now)
  BY DEF GateLimited, GateOrdered, GateBounded

\* An attempt of a user.
LEMMA GateAttemptLimited ==
  ASSUME GateInv, NEW c \in GateClients, NEW u \in DOMAIN GateUsers, GateAttempt(c, u)
  PROVE  GateLimits'
<1>0. /\ GateLimited(gatePassed[u], gateAttempts[u], gateNow) /\ gateNow \in Nat /\ gateNow' = gateNow
      /\ DOMAIN gateAttempts = DOMAIN GateUsers /\ DOMAIN gatePassed = DOMAIN GateUsers
  BY DEF GateInv, GateLimits, GateTyped, GateAttempt
<1>1. PICK now : now = GateCurrent(u)
  OBVIOUS
<1>2. PICK counted : counted = [now EXCEPT !.count = @ + 1,
                        !.until = IF now.count + 1 >= GateMax THEN gateNow + GateLockout ELSE @]
  OBVIOUS
<1>3. /\ gateAttempts' = [gateAttempts EXCEPT ![u] = {counted}]
      /\ gatePassed' = [gatePassed EXCEPT ![u] = Append(gatePassed[u], gateNow)]
      /\ ~GateLockedOut(u)
  BY <1>1, <1>2 DEF GateAttempt
<1>4. GateLimited(Append(gatePassed[u], gateNow), {counted}, gateNow)
  <2>1. CASE {a \in gateAttempts[u] : a.until = 0 /\ gateNow - a.first <= GateWindow} = {}
    <3>1. now = [count |-> 0, first |-> gateNow, until |-> 0]
      BY <1>1, <2>1 DEF GateCurrent
    <3>2. ~(0 + 1 >= GateMax)
      BY GateConstants
    <3>a. now.count = 0 /\ now.until = 0 /\ 0 + 1 = 1
      BY <3>1
    <3>b. counted = [now EXCEPT !.count = 1, !.until = 0]
      BY <3>2, <3>a, <1>2
    <3>3. counted = [count |-> 1, first |-> gateNow, until |-> 0]
      BY <3>1, <3>b
    <3>4. ASSUME NEW a \in gateAttempts[u]
          PROVE  \/ a.until # 0 /\ gateNow >= a.until
                 \/ a.until = 0 /\ gateNow - a.first > GateWindow
      <4>1. a \in GateRecord
        BY <1>0, <3>4 DEF GateLimited
      <4>2. a.until \in Nat /\ a.first \in Nat
        BY <4>1 DEF GateRecord
      <4>3. CASE a.until = 0
        <5>1. ~(gateNow - a.first <= GateWindow)
          BY <2>1, <4>3
        <5>. QED  BY <5>1, <4>2, <4>3, <1>0, GateConstants
      <4>4. CASE a.until # 0
        <5>1. ~(gateNow < a.until)
          BY <1>3, <4>4 DEF GateLockedOut
        <5>. QED  BY <5>1, <4>2, <4>4, <1>0
      <4>. QED  BY <4>3, <4>4
    <3>. QED  BY <1>0, <3>3, <3>4, GateCountBegins
  <2>2. CASE {a \in gateAttempts[u] : a.until = 0 /\ gateNow - a.first <= GateWindow} # {}
    <3>1. PICK record \in GateRecord : gateAttempts[u] = {record}
      BY <1>0, <2>2 DEF GateLimited
    <3>2. record.until = 0 /\ gateNow - record.first <= GateWindow
      BY <2>2, <3>1
    <3>3. now = record
      BY <1>1, <2>2, <3>1, <3>2 DEF GateCurrent
    <3>4. counted = [count |-> record.count + 1, first |-> record.first,
                     until |-> IF record.count + 1 >= GateMax THEN gateNow + GateLockout ELSE 0]
      BY <1>2, <3>2, <3>3 DEF GateRecord
    <3>. QED  BY <1>0, <3>1, <3>2, <3>4, GateCountGoesOn
  <2>. QED  BY <2>1, <2>2
<1>5. ASSUME NEW v \in DOMAIN GateUsers
      PROVE  GateLimited(gatePassed'[v], gateAttempts'[v], gateNow')
  <2>1. CASE v = u
    BY <2>1, <1>0, <1>3, <1>4
  <2>2. CASE v # u
    BY <2>2, <1>0, <1>3 DEF GateInv, GateLimits
  <2>. QED  BY <2>1, <2>2
<1>. QED  BY <1>5 DEF GateLimits

-----------------------------------------------------------------------------
(* Tokens and requests *)

\* The tokens stay whose they are, and expire when they were to, while more are
\* issued and some are revoked or cleaned up.
GateTokensKept ==
  /\ Len(gateTokens') >= Len(gateTokens)
  /\ \A t \in 1 .. Len(gateTokens) :
       /\ gateTokens'[t].user = gateTokens[t].user /\ gateTokens'[t].exp = gateTokens[t].exp

\* A request that does not move keeps what is said of it.
LEMMA GateWayKept ==
  ASSUME GateTyped, GateEntitled, GateTokensKept, gateTokens' \in Seq(GateToken),
         NEW c \in GateClients, gateWay'[c] = gateWay[c]
  PROVE  gateWay'[c] \in GateWays(Len(gateTokens')) /\ GateServed(gateWay'[c], gateTokens')
<1>0. gateWay[c] \in GateWays(Len(gateTokens)) /\ GateServed(gateWay[c], gateTokens)
      /\ Len(gateTokens) \in Nat /\ Len(gateTokens') \in Nat
  BY DEF GateTyped, GateEntitled
<1>1. CASE gateWay[c] = GateAtRest
  <2>1. gateWay'[c] = [at |-> "rest"]
    BY <1>1 DEF GateAtRest
  <2>. QED  BY <2>1 DEF GateServed, GateWays, GateAtRest
<1>2. CASE gateWay[c] # GateAtRest
  <2>1. PICK way : way = gateWay[c]
    OBVIOUS
  <2>2. way \in [at : {"inside", "over"}, token : 0 .. Len(gateTokens), route : GateRoutes,
                 status : {200, 401, 403}, revoked : BOOLEAN, live : BOOLEAN]
    BY <1>0, <1>2, <2>1 DEF GateWays
  <2>3. 0 .. Len(gateTokens) \subseteq 0 .. Len(gateTokens')
    BY <1>0 DEF GateTokensKept
  <2>4. way \in [at : {"inside", "over"}, token : 0 .. Len(gateTokens'), route : GateRoutes,
                 status : {200, 401, 403}, revoked : BOOLEAN, live : BOOLEAN]
    BY <2>2, <2>3
  <2>5. way.token # 0 => gateTokens'[way.token].user = gateTokens[way.token].user
    <3>1. way.token \in 0 .. Len(gateTokens)
      BY <2>2
    <3>. QED  BY <3>1, <1>0 DEF GateTokensKept
  <2>6. GateServed(way, gateTokens)
    BY <1>0, <2>1
  <2>7. GateServed(way, gateTokens')
    BY <2>5, <2>6 DEF GateServed
  <2>. QED  BY <2>1, <2>4, <2>7 DEF GateWays
<1>. QED  BY <1>1, <1>2

\* So a step that moves no request keeps what is said of all.
LEMMA GateWaysKept ==
  ASSUME GateTyped, GateEntitled, GateTokensKept, gateTokens' \in Seq(GateToken), UNCHANGED gateWay
  PROVE  /\ DOMAIN gateWay' = GateClients
         /\ \A c \in GateClients : gateWay'[c] \in GateWays(Len(gateTokens'))
         /\ GateEntitled'
<1>1. ASSUME NEW c \in GateClients
      PROVE  gateWay'[c] \in GateWays(Len(gateTokens')) /\ GateServed(gateWay'[c], gateTokens')
  BY GateWayKept
<1>2. DOMAIN gateWay' = GateClients
  BY DEF GateTyped
<1>. QED  BY <1>1, <1>2 DEF GateEntitled

\* Where no token changes they stay.
LEMMA GateTokensSame ==
  ASSUME GateTyped, UNCHANGED gateTokens
  PROVE  GateTokensKept /\ gateTokens' \in Seq(GateToken)
<1>1. gateTokens \in Seq(GateToken) /\ Len(gateTokens) \in Nat
  BY DEF GateTyped
<1>. QED  BY <1>1 DEF GateTokensKept

\* A token is what it is.
LEMMA GateTokenIn ==
  ASSUME GateTyped, NEW t \in 1 .. Len(gateTokens)
  PROVE  /\ gateTokens[t] \in GateToken
         /\ gateTokens[t].user \in DOMAIN GateUsers /\ gateTokens[t].exp \in Nat
         /\ gateTokens[t].revoked \in {"no", "yes", "was"}
<1>1. gateTokens[t] \in GateToken
  BY DEF GateTyped
<1>. QED  BY <1>1 DEF GateToken

\* Everybody may read, and a request that is served may do what it does.
LEMMA GateServes ==
  ASSUME GateTyped, NEW t \in 0 .. Len(gateTokens), NEW route \in GateRoutes
  PROVE  /\ GateStatus(t, route) \in {200, 401, 403}
         /\ GateStatus(t, route) = 200 =>
              t # 0 /\ GateHasPermission(GateUsers[gateTokens[t].user], GateCategory(route.method))
<1>1. CASE t = 0
  BY <1>1 DEF GateStatus
<1>2. CASE t # 0
  <2>0. t \in 1 .. Len(gateTokens)
    BY <1>2 DEF GateTyped
  <2>1. GateUsers[gateTokens[t].user] \in {"admin", "editor", "viewer"}
    BY <2>0, GateTokenIn, GateConstants
  <2>2. ~route.permission => GateCategory(route.method) = "read"
    BY DEF GateRoutes, GateCategory
  <2>3. CASE ~GateAllows(gateTokens[t].user, route)
    BY <1>2, <2>3 DEF GateStatus
  <2>4. CASE GateAllows(gateTokens[t].user, route)
    <3>1. CASE route.permission
               /\ ~GateHasPermission(GateUsers[gateTokens[t].user], GateCategory(route.method))
      BY <1>2, <2>4, <3>1 DEF GateStatus
    <3>2. CASE ~(route.permission
                  /\ ~GateHasPermission(GateUsers[gateTokens[t].user], GateCategory(route.method)))
      <4>1. GateStatus(t, route) = 200
        BY <1>2, <2>4, <3>2 DEF GateStatus
      <4>2. GateHasPermission(GateUsers[gateTokens[t].user], GateCategory(route.method))
        BY <2>1, <2>2, <3>2 DEF GateHasPermission
      <4>. QED  BY <1>2, <4>1, <4>2
    <3>. QED  BY <3>1, <3>2
  <2>. QED  BY <2>3, <2>4
<1>. QED  BY <1>1, <1>2

-----------------------------------------------------------------------------
(* The steps *)

\* The initial state.
LEMMA GateStarts == GateInit => GateInv
<1>. SUFFICES ASSUME GateInit PROVE GateInv
  OBVIOUS
<1>1. GateLimits
  BY GateForgotten DEF GateInit, GateLimits
<1>2. GateTyped
  BY DEF GateInit, GateTyped, GateWays
<1>3. GateCleaned
  BY DEF GateInit, GateCleaned
<1>4. GateEntitled
  BY DEF GateInit, GateEntitled, GateServed, GateAtRest
<1>. QED  BY <1>1, <1>2, <1>3, <1>4 DEF GateInv

\* An attempt.
LEMMA GateAttemptKeeps ==
  ASSUME GateInv, NEW c \in GateClients, NEW u \in DOMAIN GateUsers, GateAttempt(c, u)
  PROVE  GateInv'
<1>0. /\ GateTyped /\ GateCleaned /\ GateEntitled
      /\ UNCHANGED <<gateNow, gateTokens, gateWay>>
      /\ gateLogin' = [gateLogin EXCEPT ![c] = u]
      /\ DOMAIN gateAttempts' = DOMAIN gateAttempts /\ DOMAIN gatePassed' = DOMAIN gatePassed
  BY DEF GateInv, GateAttempt
<1>1. GateLimits'
  BY GateAttemptLimited
<1>2. GateTokensKept /\ gateTokens' \in Seq(GateToken)
  BY <1>0, GateTokensSame
<1>3. /\ DOMAIN gateWay' = GateClients /\ GateEntitled'
      /\ \A x \in GateClients : gateWay'[x] \in GateWays(Len(gateTokens'))
  BY <1>0, <1>2, GateWaysKept
<1>4. GateTyped'
  BY <1>0, <1>2, <1>3 DEF GateTyped
<1>5. GateCleaned'
  BY <1>0 DEF GateCleaned
<1>. QED  BY <1>1, <1>3, <1>4, <1>5 DEF GateInv

\* A wrong password, or a tick of the clock.
LEMMA GateWaits ==
  ASSUME GateInv, (\E c \in GateClients : GateWrongPassword(c)) \/ GateTick \/ UNCHANGED gateVars
  PROVE  GateInv'
<1>0. /\ GateTyped /\ GateLimits /\ GateCleaned /\ GateEntitled /\ gateNow \in Nat
      /\ UNCHANGED <<gateTokens, gateWay, gateAttempts, gatePassed>>
      /\ gateNow' = gateNow \/ gateNow' = gateNow + 1
  BY DEF GateInv, GateTyped, GateWrongPassword, GateTick, gateVars
<1>1. gateLogin' \in [GateClients -> DOMAIN GateUsers \cup {GateNobody}]
  BY DEF GateInv, GateTyped, GateWrongPassword, GateTick, gateVars
<1>2. GateTokensKept /\ gateTokens' \in Seq(GateToken)
  BY <1>0, GateTokensSame
<1>3. /\ DOMAIN gateWay' = GateClients /\ GateEntitled'
      /\ \A x \in GateClients : gateWay'[x] \in GateWays(Len(gateTokens'))
  BY <1>0, <1>2, GateWaysKept
<1>4. GateTyped'
  BY <1>0, <1>1, <1>2, <1>3 DEF GateTyped
<1>5. GateCleaned'
  <2>1. \A t \in 1 .. Len(gateTokens) : gateTokens[t].exp \in Nat
    BY <1>0, GateTokenIn
  <2>. QED  BY <1>0, <2>1 DEF GateCleaned
<1>6. GateLimits'
  BY <1>0, GateLater DEF GateLimits
<1>. QED  BY <1>3, <1>4, <1>5, <1>6 DEF GateInv

\* A login that succeeds.
LEMMA GateLogsInKeeps ==
  ASSUME GateInv, NEW c \in GateClients, GateLogsIn(c)
  PROVE  GateInv'
<1>0. /\ GateTyped /\ GateLimits /\ GateCleaned /\ GateEntitled
      /\ gateTokens \in Seq(GateToken) /\ gateNow \in Nat /\ Len(gateTokens) \in Nat
      /\ gateLogin \in [GateClients -> DOMAIN GateUsers \cup {GateNobody}]
  BY DEF GateInv, GateTyped
<1>1. PICK u \in DOMAIN GateUsers : u = gateLogin[c]
  BY <1>0 DEF GateLogsIn
<1>2. PICK token : token = [user |-> u, exp |-> gateNow + GateExpiry, revoked |-> "no"]
  OBVIOUS
<1>3. /\ gateAttempts' = [gateAttempts EXCEPT ![u] = {}]
      /\ gatePassed' = [gatePassed EXCEPT ![u] = << >>]
      /\ gateTokens' = Append(gateTokens, token)
      /\ gateLogin' = [gateLogin EXCEPT ![c] = GateNobody]
      /\ UNCHANGED <<gateNow, gateWay>>
  BY <1>1, <1>2 DEF GateLogsIn
<1>4. token \in GateToken /\ token.revoked = "no"
  BY <1>0, <1>1, <1>2, GateConstants DEF GateToken
<1>5. /\ gateTokens' \in Seq(GateToken) /\ Len(gateTokens') = Len(gateTokens) + 1
      /\ \A t \in 1 .. Len(gateTokens) : gateTokens'[t] = gateTokens[t]
      /\ gateTokens'[Len(gateTokens) + 1] = token
  BY <1>0, <1>3, <1>4
<1>6. GateTokensKept
  BY <1>0, <1>5 DEF GateTokensKept
<1>7. /\ DOMAIN gateWay' = GateClients /\ GateEntitled'
      /\ \A x \in GateClients : gateWay'[x] \in GateWays(Len(gateTokens'))
  BY <1>0, <1>3, <1>5, <1>6, GateWaysKept
<1>8. GateTyped'
  BY <1>0, <1>3, <1>5, <1>7 DEF GateTyped
<1>9. GateCleaned'
  <2>1. \A t \in 1 .. Len(gateTokens') : t \in 1 .. Len(gateTokens) \/ t = Len(gateTokens) + 1
    BY <1>0, <1>5
  <2>. QED  BY <2>1, <1>0, <1>3, <1>4, <1>5 DEF GateCleaned
<1>10. GateLimits'
  <2>1. ASSUME NEW v \in DOMAIN GateUsers
        PROVE  GateLimited(gatePassed'[v], gateAttempts'[v], gateNow')
    <3>1. CASE v = u
      BY <3>1, <1>0, <1>3, GateForgotten DEF GateTyped
    <3>2. CASE v # u
      BY <3>2, <1>0, <1>3 DEF GateTyped, GateLimits
    <3>. QED  BY <3>1, <3>2
  <2>. QED  BY <2>1 DEF GateLimits
<1>. QED  BY <1>7, <1>8, <1>9, <1>10 DEF GateInv

\* A step that only marks tokens, and those that are cleaned up have expired.
LEMMA GateMarks ==
  ASSUME GateInv, UNCHANGED <<gateNow, gateAttempts, gateLogin, gateWay, gatePassed>>,
         DOMAIN gateTokens' = DOMAIN gateTokens, gateTokens' \in [DOMAIN gateTokens -> GateToken],
         \A t \in DOMAIN gateTokens :
           /\ gateTokens'[t].user = gateTokens[t].user /\ gateTokens'[t].exp = gateTokens[t].exp
           /\ gateTokens'[t].revoked = "was" =>
                gateTokens[t].revoked = "was" \/ gateTokens[t].exp <= gateNow
  PROVE  GateInv'
<1>0. /\ GateTyped /\ GateLimits /\ GateCleaned /\ GateEntitled
      /\ gateTokens \in Seq(GateToken) /\ Len(gateTokens) \in Nat
      /\ DOMAIN gateTokens = 1 .. Len(gateTokens)
  BY DEF GateInv, GateTyped
<1>1. gateTokens' \in Seq(GateToken) /\ Len(gateTokens') = Len(gateTokens)
  BY <1>0
<1>2. GateTokensKept
  BY <1>0, <1>1 DEF GateTokensKept
<1>3. /\ DOMAIN gateWay' = GateClients /\ GateEntitled'
      /\ \A x \in GateClients : gateWay'[x] \in GateWays(Len(gateTokens'))
  BY <1>0, <1>1, <1>2, GateWaysKept
<1>4. GateTyped'
  BY <1>0, <1>1, <1>3 DEF GateTyped
<1>5. GateCleaned'
  BY <1>0, <1>1 DEF GateCleaned
<1>6. GateLimits'
  BY <1>0 DEF GateLimits
<1>. QED  BY <1>3, <1>4, <1>5, <1>6 DEF GateInv

\* A token is revoked.
LEMMA GateRevokeKeeps ==
  ASSUME GateInv, NEW t \in DOMAIN gateTokens, GateRevoke(t)
  PROVE  GateInv'
<1>0. /\ GateTyped /\ gateTokens \in Seq(GateToken)
      /\ gateTokens' = [gateTokens EXCEPT ![t].revoked = "yes"]
      /\ DOMAIN gateTokens = 1 .. Len(gateTokens)
      /\ UNCHANGED <<gateNow, gateAttempts, gateLogin, gateWay, gatePassed>>
  BY DEF GateInv, GateTyped, GateRevoke
<1>1. ASSUME NEW s \in DOMAIN gateTokens
      PROVE  /\ gateTokens'[s] \in GateToken
             /\ gateTokens'[s].user = gateTokens[s].user /\ gateTokens'[s].exp = gateTokens[s].exp
             /\ gateTokens'[s].revoked = "was" => gateTokens[s].revoked = "was"
  <2>1. PICK token \in GateToken : token = gateTokens[s]
    BY <1>0, GateTokenIn
  <2>2. CASE s = t
    <3>1. gateTokens'[s] = [token EXCEPT !.revoked = "yes"]
      BY <2>1, <2>2, <1>0
    <3>. QED  BY <3>1, <2>1 DEF GateToken
  <2>3. CASE s # t
    BY <2>1, <2>3, <1>0
  <2>. QED  BY <2>2, <2>3
<1>2. DOMAIN gateTokens' = DOMAIN gateTokens /\ gateTokens' \in [DOMAIN gateTokens -> GateToken]
  BY <1>0, <1>1
<1>. QED  BY <1>0, <1>1, <1>2, GateMarks

\* The blacklist is cleaned up.
LEMMA GateCleanKeeps ==
  ASSUME GateInv, GateClean
  PROVE  GateInv'
<1>0. /\ GateTyped /\ gateTokens \in Seq(GateToken)
      /\ gateTokens' = [t \in DOMAIN gateTokens |->
           IF gateTokens[t].revoked = "yes" /\ gateTokens[t].exp <= gateNow
           THEN [gateTokens[t] EXCEPT !.revoked = "was"] ELSE gateTokens[t]]
      /\ DOMAIN gateTokens = 1 .. Len(gateTokens)
      /\ UNCHANGED <<gateNow, gateAttempts, gateLogin, gateWay, gatePassed>>
  BY DEF GateInv, GateTyped, GateClean
<1>1. ASSUME NEW s \in DOMAIN gateTokens
      PROVE  /\ gateTokens'[s] \in GateToken
             /\ gateTokens'[s].user = gateTokens[s].user /\ gateTokens'[s].exp = gateTokens[s].exp
             /\ gateTokens'[s].revoked = "was" =>
                  gateTokens[s].revoked = "was" \/ gateTokens[s].exp <= gateNow
  <2>1. PICK token \in GateToken : token = gateTokens[s]
    BY <1>0, GateTokenIn
  <2>2. CASE token.revoked = "yes" /\ token.exp <= gateNow
    <3>1. gateTokens'[s] = [token EXCEPT !.revoked = "was"]
      BY <2>1, <2>2, <1>0
    <3>. QED  BY <3>1, <2>1, <2>2 DEF GateToken
  <2>3. CASE ~(token.revoked = "yes" /\ token.exp <= gateNow)
    BY <2>1, <2>3, <1>0
  <2>. QED  BY <2>2, <2>3
<1>2. DOMAIN gateTokens' = DOMAIN gateTokens /\ gateTokens' \in [DOMAIN gateTokens -> GateToken]
  BY <1>0, <1>1
<1>. QED  BY <1>0, <1>1, <1>2, GateMarks

\* A step of one request.
LEMMA GateMoves ==
  ASSUME GateInv, UNCHANGED <<gateNow, gateAttempts, gateLogin, gateTokens, gatePassed>>,
         NEW c \in GateClients, NEW way, gateWay' = [gateWay EXCEPT ![c] = way],
         way \in GateWays(Len(gateTokens)), GateServed(way, gateTokens)
  PROVE  GateInv'
<1>0. /\ GateTyped /\ GateLimits /\ GateCleaned /\ GateEntitled /\ DOMAIN gateWay = GateClients
  BY DEF GateInv, GateTyped
<1>1. GateTokensKept /\ gateTokens' \in Seq(GateToken)
  BY <1>0, GateTokensSame
<1>2. ASSUME NEW x \in GateClients
      PROVE  gateWay'[x] \in GateWays(Len(gateTokens')) /\ GateServed(gateWay'[x], gateTokens')
  <2>1. CASE x = c
    BY <2>1, <1>0
  <2>2. CASE x # c
    BY <2>2, <1>0, <1>1, GateWayKept
  <2>. QED  BY <2>1, <2>2
<1>3. GateTyped'
  BY <1>0, <1>1, <1>2 DEF GateTyped
<1>4. GateEntitled' /\ GateCleaned' /\ GateLimits'
  BY <1>0, <1>2 DEF GateEntitled, GateCleaned, GateLimits
<1>. QED  BY <1>3, <1>4 DEF GateInv

\* A request comes: with a token that was revoked and is in force it ends here.
LEMMA GateEnterKeeps ==
  ASSUME GateInv, NEW c \in GateClients, NEW t \in 0 .. Len(gateTokens), NEW route \in GateRoutes,
         GateEnter(c, t, route)
  PROVE  GateInv'
<1>0. /\ GateTyped /\ GateCleaned /\ gateNow \in Nat
      /\ UNCHANGED <<gateNow, gateAttempts, gateLogin, gateTokens, gatePassed>>
  BY DEF GateInv, GateTyped, GateEnter
<1>1. PICK at \in {"inside", "over"} : at = IF t # 0 /\ ~GateValid(t) THEN "over" ELSE "inside"
  OBVIOUS
<1>2. PICK revoked \in BOOLEAN : revoked = (t # 0 /\ gateTokens[t].revoked # "no")
  OBVIOUS
<1>3. PICK live \in BOOLEAN : live = (t # 0 /\ gateNow < gateTokens[t].exp)
  OBVIOUS
<1>4. PICK way : way = [at |-> at, token |-> t, route |-> route, status |-> 401, revoked |-> revoked,
                        live |-> live]
  OBVIOUS
<1>5. gateWay' = [gateWay EXCEPT ![c] = way]
  BY <1>1, <1>2, <1>3, <1>4 DEF GateEnter
<1>6. way \in GateWays(Len(gateTokens))
  BY <1>4 DEF GateWays
<1>7. at = "inside" => ~(revoked /\ live)
  <2>1. SUFFICES ASSUME at = "inside", revoked, live PROVE FALSE
    OBVIOUS
  <2>2. t # 0 /\ gateTokens[t].revoked # "no" /\ gateNow < gateTokens[t].exp /\ GateValid(t)
    BY <2>1, <1>1, <1>2, <1>3
  <2>3. t \in 1 .. Len(gateTokens)
    BY <2>2, <1>0 DEF GateTyped
  <2>4. gateTokens[t].exp \in Nat /\ gateTokens[t].revoked \in {"no", "yes", "was"}
    BY <2>3, <1>0, GateTokenIn
  <2>5. CASE gateTokens[t].revoked = "yes"
    BY <2>2, <2>4, <2>5, <1>0 DEF GateValid
  <2>6. CASE gateTokens[t].revoked = "was"
    BY <2>2, <2>3, <2>4, <2>6, <1>0 DEF GateCleaned
  <2>. QED  BY <2>2, <2>4, <2>5, <2>6
<1>8. GateServed(way, gateTokens)
  <2>1. way.at = at /\ way.status = 401 /\ way.revoked = revoked /\ way.live = live
    BY <1>4
  <2>. QED  BY <2>1, <1>7 DEF GateServed
<1>. QED  BY <1>0, <1>5, <1>6, <1>8, GateMoves

\* The layers decide.
LEMMA GateDecidesKeeps ==
  ASSUME GateInv, NEW c \in GateClients, GateDecides(c)
  PROVE  GateInv'
<1>0. /\ GateTyped /\ GateEntitled /\ gateWay[c].at = "inside"
      /\ UNCHANGED <<gateNow, gateAttempts, gateLogin, gateTokens, gatePassed>>
  BY DEF GateInv, GateDecides
<1>1. PICK old : old = gateWay[c]
  OBVIOUS
<1>2. old \in GateWays(Len(gateTokens)) /\ GateServed(old, gateTokens) /\ old.at = "inside"
  BY <1>0, <1>1 DEF GateTyped, GateEntitled
<1>3. old # GateAtRest
  BY <1>2 DEF GateAtRest
<1>4. old \in [at : {"inside", "over"}, token : 0 .. Len(gateTokens), route : GateRoutes,
               status : {200, 401, 403}, revoked : BOOLEAN, live : BOOLEAN]
  BY <1>2, <1>3 DEF GateWays
<1>5. PICK status : status = GateStatus(old.token, old.route)
  OBVIOUS
<1>6. PICK way : way = [old EXCEPT !.at = "over", !.status = status]
  OBVIOUS
<1>7. gateWay' = [gateWay EXCEPT ![c] = way]
  BY <1>1, <1>5, <1>6 DEF GateDecides
<1>8. /\ status \in {200, 401, 403}
      /\ status = 200 =>
           old.token # 0
             /\ GateHasPermission(GateUsers[gateTokens[old.token].user], GateCategory(old.route.method))
  <2>1. old.token \in 0 .. Len(gateTokens) /\ old.route \in GateRoutes
    BY <1>4
  <2>. QED  BY <2>1, <1>0, <1>5, GateServes
<1>9. way \in GateWays(Len(gateTokens))
  <2>1. way = [at |-> "over", token |-> old.token, route |-> old.route, status |-> status,
               revoked |-> old.revoked, live |-> old.live]
    BY <1>4, <1>6
  <2>2. /\ old.token \in 0 .. Len(gateTokens) /\ old.route \in GateRoutes
        /\ old.revoked \in BOOLEAN /\ old.live \in BOOLEAN
    BY <1>4
  <2>. QED  BY <2>1, <2>2, <1>8 DEF GateWays
<1>10. /\ way.at = "over" /\ way.status = status /\ way.token = old.token /\ way.route = old.route
       /\ way.revoked = old.revoked /\ way.live = old.live
  BY <1>4, <1>6
<1>11. ~(old.revoked /\ old.live)
  BY <1>2 DEF GateServed
<1>12. GateServed(way, gateTokens)
  BY <1>8, <1>10, <1>11 DEF GateServed
<1>. QED  BY <1>0, <1>7, <1>9, <1>12, GateMoves

\* Every step.
LEMMA GateKeeps ==
  ASSUME GateInv, [GateNext]_gateVars
  PROVE  GateInv'
<1>1. CASE \E c \in GateClients : \E u \in DOMAIN GateUsers : GateAttempt(c, u)
  BY <1>1, GateAttemptKeeps
<1>2. CASE \E c \in GateClients : \E t \in 0 .. Len(gateTokens), route \in GateRoutes : GateEnter(c, t, route)
  BY <1>2, GateEnterKeeps
<1>3. CASE \E c \in GateClients : GateLogsIn(c)
  BY <1>3, GateLogsInKeeps
<1>4. CASE \E c \in GateClients : GateDecides(c)
  BY <1>4, GateDecidesKeeps
<1>5. CASE \E t \in DOMAIN gateTokens : GateRevoke(t)
  BY <1>5, GateRevokeKeeps
<1>6. CASE GateClean
  BY <1>6, GateCleanKeeps
<1>7. CASE (\E c \in GateClients : GateWrongPassword(c)) \/ GateTick \/ UNCHANGED gateVars
  BY <1>7, GateWaits
<1>. QED  BY <1>1, <1>2, <1>3, <1>4, <1>5, <1>6, <1>7 DEF GateNext

\* The gate holds, for any clients, users, limits and lifetimes: between two
\* successes of a user no stretch as long as the limiter's window sees more
\* attempts than two counts less two, and only a request with a token that is not
\* revoked and in force, of somebody whose role may do it, gets to a handler.
THEOREM GateHolds == GateSpec => []GateSound
<1>1. GateInit => GateInv
  BY GateStarts
<1>2. GateInv /\ [GateNext]_gateVars => GateInv'
  BY GateKeeps
<1>3. GateInv => GateSound
  <2>. SUFFICES ASSUME GateInv PROVE GateSound
    OBVIOUS
  <2>1. LoginsBounded
    <3>1. SUFFICES ASSUME NEW u \in DOMAIN GateUsers
                   PROVE  \A i, j \in DOMAIN gatePassed[u] :
                            (i <= j /\ gatePassed[u][j] - gatePassed[u][i] <= GateWindow)
                               => j - i + 1 <= 2 * GateMax - 2
      BY DEF LoginsBounded
    <3>2. gatePassed[u] \in Seq(Nat) /\ GateBounded(gatePassed[u])
      BY DEF GateInv, GateLimits, GateLimited
    <3>3. DOMAIN gatePassed[u] = 1 .. Len(gatePassed[u])
      BY <3>2
    <3>. QED  BY <3>2, <3>3 DEF GateBounded
  <2>2. OnlyEntitledServed
    BY DEF GateInv, GateEntitled, GateServed, OnlyEntitledServed
  <2>. QED  BY <2>1, <2>2 DEF GateSound
<1>. QED  BY <1>1, <1>2, <1>3, PTL DEF GateSpec

(***************************************************************************)
(* Roles                                                                   *)
(***************************************************************************)

\* The roles in the store inherit from one another: custom ones from roles that
\* were there before them, so that no role is above itself.
RbOrdered(roles) ==
  /\ roles \subseteq DOMAIN RbTemplates
  /\ \A r \in roles \ RbSystem : RbTemplates[r].parents \subseteq roles
  /\ \A S \in SUBSET roles : S # {} => \E r \in S : RbTemplates[r].parents \cap S = {}

RbKnown(list, roles) == \A a \in list : a.role \in roles

\* The lists a call begun now may answer from, by user.
RbCurrent == [u \in RbUsers |-> {rbAssigned[u]} \cup RbChanging(u)]

\* The records a check and the cache use.
RbLooks(me) == me = [at |-> me.at, user |-> me.user, type |-> me.type, action |-> me.action, seen |-> me.seen]
RbFills(me) == me = [at |-> "fill", user |-> me.user, type |-> me.type, action |-> me.action,
                     seen |-> me.seen, list |-> me.list]

\* A role on its way has its parents; an assignment its role; a check has seen
\* every list there was since it began, and answers by one of them or by a
\* stale entry.
RbCallInv(me, roles, current) ==
  /\ me.at = "create" =>
       /\ me.role \in DOMAIN RbTemplates
       /\ me.role \notin RbSystem => RbTemplates[me.role].parents \subseteq roles \ {me.role}
  /\ me.at = "write" => me.user \in RbUsers /\ (me.op = "assign" => me.entry.role \in roles)
  /\ me.at = "forget" => me.user \in RbUsers
  /\ me.at \in {"peek", "load"} => RbLooks(me)
  /\ me.at = "fill" => RbFills(me) /\ me.list \in me.seen /\ RbKnown(me.list, roles)
  /\ me.at \in {"peek", "load", "fill"} => me.user \in RbUsers /\ current[me.user] \subseteq me.seen
  /\ me.at = "done" => me.stale \/ me.ok \in me.allowed

\* A cached list is stale by name, or one a call begun now may answer from.
RbEntryInv(e, roles, lists) ==
  /\ e = [list |-> e.list, at |-> e.at, stale |-> e.stale]
  /\ RbKnown(e.list, roles)
  /\ e.stale \/ e.list \in lists

RbInv ==
  /\ RbOrdered(rbRoles)
  /\ DOMAIN rbAssigned = RbUsers /\ DOMAIN rbCache = RbUsers /\ DOMAIN rbCall = RbCallers
  /\ \A u \in RbUsers : RbKnown(rbAssigned[u], rbRoles)
  /\ \A u \in RbUsers : \A e \in rbCache[u] : RbEntryInv(e, rbRoles, RbCurrent[u])
  /\ \A c \in RbCallers : RbCallInv(rbCall[c], rbRoles, RbCurrent)

-----------------------------------------------------------------------------
(* What roles grant *)

RbParents(s) == RbTemplates[s].parents

\* The walk over parents, and the roles it should visit.
RbStep(f) ==
  [s \in DOMAIN RbTemplates |->
    IF s \in rbRoles THEN {s} \cup UNION {f[p] : p \in RbTemplates[s].parents} ELSE {}]
RbUp == CHOOSE f : f = RbStep(f)

RbClosed(S) == \A s \in S : RbTemplates[s].parents \cap rbRoles \subseteq S
RbAbove(r) == {s \in rbRoles : \A S \in SUBSET rbRoles : (r \in S /\ RbClosed(S)) => s \in S}
RbAll == [s \in DOMAIN RbTemplates |-> IF s \in rbRoles THEN RbAbove(s) ELSE {}]

\* The parents of a role in the store are roles.
LEMMA RbParentsKnown ==
  ASSUME RbOrdered(rbRoles), NEW s \in rbRoles
  PROVE  RbTemplates[s].parents \subseteq DOMAIN RbTemplates
  BY RbConstants DEF RbOrdered

\* The roles above a role are closed under parents.
LEMMA RbAboveClosed ==
  ASSUME NEW r \in rbRoles
  PROVE  r \in RbAbove(r) /\ RbAbove(r) \subseteq rbRoles /\ RbClosed(RbAbove(r))
  BY DEF RbAbove, RbClosed

\* They are the role and what is above its parents.
LEMMA RbAboveStep ==
  ASSUME RbOrdered(rbRoles), NEW s \in rbRoles
  PROVE  RbAbove(s) = {s} \cup UNION {RbAll[p] : p \in RbTemplates[s].parents}
<1>1. PICK U : U = {s} \cup UNION {RbAll[p] : p \in RbTemplates[s].parents}
  OBVIOUS
<1>2. ASSUME NEW p \in RbTemplates[s].parents
      PROVE  RbAll[p] = IF p \in rbRoles THEN RbAbove(p) ELSE {}
  BY <1>2, RbParentsKnown DEF RbAll
<1>3. U \subseteq RbAbove(s)
  <2>1. SUFFICES ASSUME NEW r \in U PROVE r \in RbAbove(s)
    OBVIOUS
  <2>2. CASE r = s
    BY <2>2, RbAboveClosed
  <2>3. CASE r # s
    <3>1. PICK p \in RbTemplates[s].parents : r \in RbAll[p]
      BY <1>1, <2>1, <2>3
    <3>2. p \in rbRoles /\ r \in RbAbove(p)
      BY <1>2, <3>1
    <3>3. ASSUME NEW S \in SUBSET rbRoles, s \in S, RbClosed(S)
          PROVE  r \in S
      <4>1. p \in S
        BY <3>2, <3>3 DEF RbClosed
      <4>. QED  BY <4>1, <3>2, <3>3 DEF RbAbove
    <3>. QED  BY <3>2, <3>3 DEF RbAbove
  <2>. QED  BY <2>2, <2>3
<1>4. U \in SUBSET rbRoles
  BY <1>3 DEF RbAbove
<1>5. RbClosed(U)
  <2>1. SUFFICES ASSUME NEW x \in U, NEW q \in RbTemplates[x].parents \cap rbRoles
                 PROVE  q \in U
    BY DEF RbClosed
  <2>2. CASE x = s
    <3>1. q \in RbAll[q] /\ q \in RbTemplates[s].parents
      BY <2>1, <2>2, <1>2, RbAboveClosed
    <3>. QED  BY <3>1, <1>1
  <2>3. CASE x # s
    <3>1. PICK p \in RbTemplates[s].parents : x \in RbAll[p]
      BY <1>1, <2>1, <2>3
    <3>2. p \in rbRoles /\ x \in RbAbove(p)
      BY <1>2, <3>1
    <3>3. q \in RbAbove(p)
      BY <2>1, <3>2, RbAboveClosed DEF RbClosed
    <3>. QED  BY <1>1, <1>2, <3>1, <3>2, <3>3
  <2>. QED  BY <2>2, <2>3
<1>6. RbAbove(s) \subseteq U
  BY <1>1, <1>4, <1>5 DEF RbAbove
<1>. QED  BY <1>1, <1>3, <1>6

\* So the walk is defined, ...
LEMMA RbUpDefined ==
  ASSUME RbOrdered(rbRoles)
  PROVE  RbUp = RbStep(RbUp)
<1>1. RbAll = RbStep(RbAll)
  <2>1. ASSUME NEW s \in DOMAIN RbTemplates
        PROVE  RbAll[s] = RbStep(RbAll)[s]
    <3>1. CASE s \in rbRoles
      BY <3>1, RbAboveStep DEF RbAll, RbStep
    <3>2. CASE s \notin rbRoles
      BY <3>2 DEF RbAll, RbStep
    <3>. QED  BY <3>1, <3>2
  <2>. QED  BY <2>1 DEF RbAll, RbStep
<1>. QED  BY <1>1 DEF RbUp

\* ... and visits exactly the roles above: a first difference would be one of a
\* role whose parents agree.
LEMMA RbVisits ==
  ASSUME RbOrdered(rbRoles), NEW r \in rbRoles
  PROVE  RbVisited(r) = RbAbove(r)
<1>1. RbVisited(r) = RbUp[r]
  BY DEF RbVisited, RbUp, RbStep
<1>2. PICK up : up = RbUp
  OBVIOUS
<1>3. up = RbStep(up)
  BY <1>2, RbUpDefined
<1>4. rbRoles \subseteq DOMAIN RbTemplates
  BY DEF RbOrdered
<1>5. \A s \in DOMAIN RbTemplates :
        up[s] = IF s \in rbRoles THEN {s} \cup UNION {up[p] : p \in RbTemplates[s].parents} ELSE {}
  BY <1>3 DEF RbStep
<1>6. \A s \in rbRoles : up[s] = RbAll[s]
  <2>1. SUFFICES ASSUME {s \in rbRoles : up[s] # RbAll[s]} # {} PROVE FALSE
    OBVIOUS
  <2>2. PICK s \in rbRoles : /\ up[s] # RbAll[s]
                             /\ \A p \in RbTemplates[s].parents : p \in rbRoles => up[p] = RbAll[p]
    <3>1. PICK Bad : Bad = {x \in rbRoles : up[x] # RbAll[x]}
      OBVIOUS
    <3>2. Bad \in SUBSET rbRoles /\ Bad # {}
      BY <3>1, <2>1
    <3>3. PICK s \in Bad : RbTemplates[s].parents \cap Bad = {}
      BY <3>2 DEF RbOrdered
    <3>. QED  BY <3>1, <3>3
  <2>3. ASSUME NEW p \in RbTemplates[s].parents
        PROVE  up[p] = RbAll[p]
    <3>1. p \in DOMAIN RbTemplates
      BY <2>3, RbParentsKnown
    <3>2. CASE p \in rbRoles
      BY <3>2, <2>2
    <3>3. CASE p \notin rbRoles
      BY <3>1, <3>3, <1>5 DEF RbAll
    <3>. QED  BY <3>2, <3>3
  <2>4. {up[p] : p \in RbTemplates[s].parents} = {RbAll[p] : p \in RbTemplates[s].parents}
    BY <2>3
  <2>5. up[s] = {s} \cup UNION {RbAll[p] : p \in RbTemplates[s].parents}
    BY <1>4, <1>5, <2>4
  <2>6. RbAll[s] = RbAbove(s)
    BY <1>4 DEF RbAll
  <2>. QED  BY <2>2, <2>5, <2>6, RbAboveStep
<1>. QED  BY <1>1, <1>2, <1>4, <1>6 DEF RbAll

\* A list of known roles grants what it should.
LEMMA RbGrantsRight ==
  ASSUME RbOrdered(rbRoles), NEW list, RbKnown(list, rbRoles), NEW type, NEW action
  PROVE  RbGrants(list, type, action) = RbHolds(list, type, action)
<1>1. ASSUME RbGrants(list, type, action)
      PROVE  RbHolds(list, type, action)
  <2>1. PICK a \in RbActive(list) : \E r \in RbVisited(a.role) : \E p \in RbEffective(r) :
                                      p.type = type /\ action \in p.actions
    BY <1>1 DEF RbGrants
  <2>2. a \in list /\ a.until > rbNow /\ a.role \in rbRoles
    BY <2>1 DEF RbActive, RbKnown
  <2>3. PICK r \in RbAbove(a.role) : \E p \in RbEffective(r) : p.type = type /\ action \in p.actions
    BY <2>1, <2>2, RbVisits
  <2>4. r \in rbRoles
    BY <2>2, <2>3, RbAboveClosed
  <2>5. PICK p \in RbEffective(r) : p.type = type /\ action \in p.actions
    BY <2>3
  <2>6. PICK s \in RbAbove(r) : p \in RbTemplates[s].grants
    <3>1. CASE p \in RbTemplates[r].grants
      BY <3>1, <2>4, RbAboveClosed
    <3>2. CASE p \notin RbTemplates[r].grants
      <4>1. p \in UNION {RbTemplates[s].grants : s \in RbVisited(r) \ {r}}
        BY <2>5, <3>2 DEF RbEffective
      <4>2. PICK s \in RbVisited(r) : p \in RbTemplates[s].grants
        BY <4>1
      <4>. QED  BY <4>2, <2>4, RbVisits
    <3>. QED  BY <3>1, <3>2
  <2>7. s \in rbRoles
    BY <2>4, <2>6, RbAboveClosed
  <2>8. ASSUME NEW S \in SUBSET rbRoles,
               a.role \in S /\ \A x \in S : RbTemplates[x].parents \cap rbRoles \subseteq S
        PROVE  s \in S
    <3>1. RbClosed(S)
      BY <2>8 DEF RbClosed
    <3>2. r \in S
      BY <3>1, <2>3, <2>8 DEF RbAbove
    <3>. QED  BY <3>1, <3>2, <2>6 DEF RbAbove
  <2>9. p \in UNION {RbTemplates[x].grants : x \in rbRoles}
    BY <2>6, <2>7
  <2>. QED  BY <2>2, <2>5, <2>6, <2>7, <2>8, <2>9 DEF RbHolds
<1>2. ASSUME RbHolds(list, type, action)
      PROVE  RbGrants(list, type, action)
  <2>1. PICK a \in list, r \in rbRoles, p \in UNION {RbTemplates[s].grants : s \in rbRoles} :
          /\ a.until > rbNow /\ p \in RbTemplates[r].grants /\ p.type = type /\ action \in p.actions
          /\ \A S \in SUBSET rbRoles :
               (a.role \in S /\ \A s \in S : RbTemplates[s].parents \cap rbRoles \subseteq S) => r \in S
    BY <1>2 DEF RbHolds
  <2>2. a \in RbActive(list) /\ a.role \in rbRoles
    BY <2>1 DEF RbActive, RbKnown
  <2>3. r \in RbAbove(a.role)
    BY <2>1 DEF RbAbove, RbClosed
  <2>4. r \in RbVisited(a.role)
    BY <2>2, <2>3, RbVisits
  <2>5. p \in RbEffective(r)
    BY <2>1 DEF RbEffective
  <2>. QED  BY <2>1, <2>2, <2>4, <2>5 DEF RbGrants
<1>3. RbGrants(list, type, action) \in BOOLEAN /\ RbHolds(list, type, action) \in BOOLEAN
  BY DEF RbGrants, RbHolds
<1>. QED  BY <1>1, <1>2, <1>3

-----------------------------------------------------------------------------
(* The store of roles *)

\* A role is added that has its parents and is nobody's parent yet, or is a
\* built-in one.
LEMMA RbOrderedMore ==
  ASSUME NEW roles, RbOrdered(roles), NEW r \in DOMAIN RbTemplates,
         r \notin RbSystem => RbTemplates[r].parents \subseteq roles \ {r}
  PROVE  RbOrdered(roles \cup {r})
<1>1. roles \cup {r} \subseteq DOMAIN RbTemplates
  BY DEF RbOrdered
<1>2. \A s \in (roles \cup {r}) \ RbSystem : RbTemplates[s].parents \subseteq roles \cup {r}
  BY DEF RbOrdered
<1>3. ASSUME NEW S \in SUBSET (roles \cup {r}), S # {}
      PROVE  \E s \in S : RbTemplates[s].parents \cap S = {}
  <2>1. CASE S \in SUBSET roles
    BY <2>1, <1>3 DEF RbOrdered
  <2>2. CASE S \notin SUBSET roles /\ r \in RbSystem
    <3>1. S \cap RbSystem # {} /\ S \cap RbSystem \in SUBSET RbSystem
      BY <2>2, <1>3
    <3>2. PICK s \in S \cap RbSystem : RbTemplates[s].parents \cap (S \cap RbSystem) = {}
      BY <3>1, RbConstants
    <3>3. RbTemplates[s].parents \subseteq RbSystem
      BY <3>2, RbConstants
    <3>. QED  BY <3>2, <3>3
  <2>3. CASE S \notin SUBSET roles /\ r \notin RbSystem
    <3>1. r \in S /\ r \notin roles /\ RbTemplates[r].parents \subseteq roles \ {r}
      BY <2>3, <1>3
    <3>2. CASE S = {r}
      BY <3>1, <3>2
    <3>3. CASE S # {r}
      <4>1. S \ {r} \in SUBSET roles /\ S \ {r} # {}
        BY <3>1, <3>3, <1>3
      <4>2. PICK s \in S \ {r} : RbTemplates[s].parents \cap (S \ {r}) = {}
        BY <4>1 DEF RbOrdered
      <4>3. r \notin RbTemplates[s].parents
        <5>1. s \in roles
          BY <4>1, <4>2
        <5>2. CASE s \in RbSystem
          BY <5>2, <2>3, RbConstants
        <5>3. CASE s \notin RbSystem
          BY <5>1, <5>3, <3>1 DEF RbOrdered
        <5>. QED  BY <5>2, <5>3
      <4>. QED  BY <4>2, <4>3
    <3>. QED  BY <3>2, <3>3
  <2>. QED  BY <2>1, <2>2, <2>3
<1>. QED  BY <1>1, <1>2, <1>3 DEF RbOrdered

\* What is said of a call stays true with more roles and fewer lists to answer
\* from.
LEMMA RbCallKept ==
  ASSUME NEW me, NEW roles, NEW more, roles \subseteq more, NEW current, NEW fewer,
         RbCallInv(me, roles, current),
         me.at \in {"peek", "load", "fill"} => fewer[me.user] \subseteq current[me.user]
  PROVE  RbCallInv(me, more, fewer)
  BY DEF RbCallInv, RbKnown

\* What is said of an entry stays true with more roles and more lists.
LEMMA RbEntryKept ==
  ASSUME NEW e, NEW roles, NEW more, roles \subseteq more, NEW lists, NEW longer, lists \subseteq longer,
         RbEntryInv(e, roles, lists)
  PROVE  RbEntryInv(e, more, longer)
  BY DEF RbEntryInv, RbKnown

\* A call that is not changing anything before and after a step leaves the lists
\* to answer from.
LEMMA RbCurrentSame ==
  ASSUME RbInv, NEW c \in RbCallers, NEW r, rbCall' = [rbCall EXCEPT ![c] = r],
         rbCall[c].at # "forget", r.at # "forget", UNCHANGED rbAssigned
  PROVE  RbCurrent' = RbCurrent
<1>1. ASSUME NEW u
      PROVE  RbChanging(u)' = RbChanging(u)
  <2>1. \A d \in RbCallers : d # c => rbCall'[d] = rbCall[d]
    BY DEF RbInv
  <2>2. rbCall'[c] = r
    BY DEF RbInv
  <2>3. RbChanging(u)' = {rbCall'[x].before : x \in {d \in RbCallers : rbCall'[d].at = "forget" /\ rbCall'[d].user = u}}
    BY DEF RbChanging
  <2>4. {d \in RbCallers : rbCall'[d].at = "forget" /\ rbCall'[d].user = u} =
          {d \in RbCallers : rbCall[d].at = "forget" /\ rbCall[d].user = u}
    BY <2>1, <2>2
  <2>5. \A x \in {d \in RbCallers : rbCall[d].at = "forget" /\ rbCall[d].user = u} : rbCall'[x] = rbCall[x]
    BY <2>1
  <2>. QED  BY <2>3, <2>4, <2>5 DEF RbChanging
<1>. QED  BY <1>1 DEF RbCurrent

-----------------------------------------------------------------------------
(* The steps *)

\* The initial state.
LEMMA RbStarts == RbInit => RbInv
<1>. SUFFICES ASSUME RbInit PROVE RbInv
  OBVIOUS
<1>1. RbOrdered(rbRoles)
  BY DEF RbInit, RbOrdered
<1>2. ASSUME NEW c \in RbCallers
      PROVE  RbCallInv(rbCall[c], rbRoles, RbCurrent)
  <2>1. rbCall[c] = [at |-> "idle"]
    BY DEF RbInit, RbIdle
  <2>2. rbCall[c].at = "idle"
    BY <2>1
  <2>. QED  BY <2>2 DEF RbCallInv
<1>. QED  BY <1>1, <1>2 DEF RbInit, RbInv, RbKnown

\* A step of one call that changes neither roles nor assignments nor the cache,
\* and is not the end of a change.
LEMMA RbGoes ==
  ASSUME RbInv, NEW c \in RbCallers, NEW r, RbGoTo(c, r), rbCall[c].at # "forget", r.at # "forget",
         UNCHANGED <<rbRoles, rbAssigned, rbCache>>, RbCallInv(r, rbRoles, RbCurrent)
  PROVE  RbInv'
<1>1. rbCall' = [rbCall EXCEPT ![c] = r]
  BY DEF RbGoTo
<1>2. RbCurrent' = RbCurrent
  BY <1>1, RbCurrentSame
<1>3. ASSUME NEW d \in RbCallers
      PROVE  RbCallInv(rbCall'[d], rbRoles, RbCurrent)
  <2>1. CASE d = c
    BY <2>1, <1>1 DEF RbInv
  <2>2. CASE d # c
    BY <2>2, <1>1 DEF RbInv
  <2>. QED  BY <2>1, <2>2
<1>4. DOMAIN rbCall' = RbCallers
  BY <1>1 DEF RbInv
<1>. QED  BY <1>2, <1>3, <1>4 DEF RbInv

\* A call begins.
LEMMA RbStartKeeps ==
  ASSUME RbInv, NEW c \in RbCallers, NEW r, RbStart(c, r), r.at # "forget",
         RbCallInv(r, rbRoles, RbCurrent)
  PROVE  RbInv'
<1>1. /\ rbCall[c].at # "forget" /\ RbGoTo(c, r)
      /\ UNCHANGED <<rbRoles, rbAssigned, rbCache>>
  BY DEF RbStart
<1>. QED  BY <1>1, RbGoes

\* A call to create a role, ...
LEMMA RbCreateKeeps ==
  ASSUME RbInv, NEW c \in RbCallers, NEW role \in DOMAIN RbTemplates, RbCreate(c, role)
  PROVE  RbInv'
<1>1. PICK r : r = [at |-> "create", role |-> role]
  OBVIOUS
<1>2. r.at = "create" /\ r.role = role
  BY <1>1
<1>3. RbStart(c, r) /\ (role \notin RbSystem => RbTemplates[role].parents \subseteq rbRoles \ {role})
  BY <1>1 DEF RbCreate
<1>4. RbCallInv(r, rbRoles, RbCurrent)
  BY <1>2, <1>3 DEF RbCallInv
<1>. QED  BY <1>2, <1>3, <1>4, RbStartKeeps

\* ... to change an assignment, ...
LEMMA RbAssignKeeps ==
  ASSUME RbInv, NEW c \in RbCallers, NEW u \in RbUsers, NEW role \in DOMAIN RbTemplates, NEW t,
         RbAssign(c, u, role, t) \/ RbRevoke(c, u, role)
  PROVE  RbInv'
<1>1. PICK r : /\ RbStart(c, r) /\ r.at = "write" /\ r.user = u
               /\ r.op = "assign" => r.entry.role \in rbRoles
  <2>1. CASE RbAssign(c, u, role, t)
    <3>1. PICK entry : entry = [role |-> role, until |-> t]
      OBVIOUS
    <3>2. PICK r : r = [at |-> "write", op |-> "assign", user |-> u, entry |-> entry]
      OBVIOUS
    <3>3. entry.role = role /\ r.at = "write" /\ r.user = u /\ r.entry = entry
      BY <3>1, <3>2
    <3>4. RbStart(c, r) /\ role \in rbRoles
      BY <2>1, <3>1, <3>2 DEF RbAssign
    <3>. QED  BY <3>3, <3>4
  <2>2. CASE RbRevoke(c, u, role)
    <3>1. PICK entry : entry = [role |-> role, until |-> RbNever]
      OBVIOUS
    <3>2. PICK r : r = [at |-> "write", op |-> "revoke", user |-> u, entry |-> entry]
      OBVIOUS
    <3>3. r.at = "write" /\ r.user = u /\ r.op = "revoke"
      BY <3>2
    <3>4. RbStart(c, r)
      BY <2>2, <3>1, <3>2 DEF RbRevoke
    <3>. QED  BY <3>3, <3>4
  <2>. QED  BY <2>1, <2>2
<1>2. RbCallInv(r, rbRoles, RbCurrent)
  BY <1>1 DEF RbCallInv
<1>. QED  BY <1>1, <1>2, RbStartKeeps

\* ... or to check: it starts with the lists there are.
LEMMA RbCheckKeeps ==
  ASSUME RbInv, NEW c \in RbCallers, NEW u \in RbUsers, NEW type, NEW action, RbCheck(c, u, type, action)
  PROVE  RbInv'
<1>1. PICK seen : seen = {rbAssigned[u]} \cup RbChanging(u)
  OBVIOUS
<1>2. PICK r : r = [at |-> "peek", user |-> u, type |-> type, action |-> action, seen |-> seen]
  OBVIOUS
<1>3. RbStart(c, r)
  BY <1>1, <1>2 DEF RbCheck
<1>4. /\ r.at = "peek" /\ r.user = u /\ r.seen = seen /\ r.type = type /\ r.action = action
  BY <1>2
<1>5. RbLooks(r)
  BY <1>2, <1>4 DEF RbLooks
<1>6. RbCurrent[u] = seen
  BY <1>1 DEF RbCurrent
<1>7. RbCallInv(r, rbRoles, RbCurrent)
  BY <1>4, <1>5, <1>6 DEF RbCallInv
<1>. QED  BY <1>3, <1>4, <1>7, RbStartKeeps

\* A role enters the store.
LEMMA RbCreatedKeeps ==
  ASSUME RbInv, NEW c \in RbCallers, RbCreated(c)
  PROVE  RbInv'
<1>1. PICK role : role = rbCall[c].role
  OBVIOUS
<1>2. /\ rbCall[c].at = "create" /\ rbRoles' = rbRoles \cup {role}
      /\ rbCall' = [rbCall EXCEPT ![c] = RbIdle]
      /\ UNCHANGED <<rbAssigned, rbCache>>
  BY <1>1 DEF RbCreated, RbGoTo
<1>3. /\ role \in DOMAIN RbTemplates
      /\ role \notin RbSystem => RbTemplates[role].parents \subseteq rbRoles \ {role}
  BY <1>1, <1>2 DEF RbInv, RbCallInv
<1>4. RbOrdered(rbRoles')
  BY <1>2, <1>3, RbOrderedMore DEF RbInv
<1>5. RbIdle.at = "idle"
  BY DEF RbIdle
<1>6. RbCurrent' = RbCurrent
  BY <1>2, <1>5, RbCurrentSame
<1>7. ASSUME NEW d \in RbCallers
      PROVE  RbCallInv(rbCall'[d], rbRoles', RbCurrent)
  <2>1. CASE d = c
    <3>1. rbCall'[d] = RbIdle
      BY <2>1, <1>2 DEF RbInv
    <3>. QED  BY <3>1, <1>5 DEF RbCallInv
  <2>2. CASE d # c
    <3>1. rbCall'[d] = rbCall[d] /\ RbCallInv(rbCall[d], rbRoles, RbCurrent)
      BY <2>2, <1>2 DEF RbInv
    <3>2. rbRoles \subseteq rbRoles'
      BY <1>2
    <3>3. RbCallInv(rbCall[d], rbRoles', RbCurrent)
      BY <3>1, <3>2, RbCallKept
    <3>. QED  BY <3>1, <3>3
  <2>. QED  BY <2>1, <2>2
<1>8. ASSUME NEW u \in RbUsers, NEW e \in rbCache[u]
      PROVE  RbEntryInv(e, rbRoles', RbCurrent[u])
  <2>1. RbEntryInv(e, rbRoles, RbCurrent[u]) /\ rbRoles \subseteq rbRoles'
    BY <1>2 DEF RbInv
  <2>. QED  BY <2>1, RbEntryKept
<1>9. \A u \in RbUsers : RbKnown(rbAssigned[u], rbRoles')
  BY <1>2 DEF RbInv, RbKnown
<1>10. DOMAIN rbCall' = RbCallers
  BY <1>2 DEF RbInv
<1>. QED  BY <1>2, <1>4, <1>6, <1>7, <1>8, <1>9, <1>10 DEF RbInv

\* The lists to answer from when a change has been written: the one there is
\* now joins them, as the one before joins the changing ones.
LEMMA RbCurrentMore ==
  ASSUME RbInv, NEW c \in RbCallers, RbWrite(c)
  PROVE  /\ \A u \in RbUsers : RbCurrent[u] \subseteq RbCurrent'[u]
         /\ \A u \in RbUsers : u # rbCall[c].user => RbCurrent'[u] = RbCurrent[u]
         /\ RbCurrent'[rbCall[c].user] \subseteq
              RbCurrent[rbCall[c].user] \cup {rbAssigned'[rbCall[c].user]}
<1>1. PICK user, before : user = rbCall[c].user /\ before = rbAssigned[user]
  OBVIOUS
<1>2. rbCall[c].at = "write" /\ user \in RbUsers
  BY <1>1 DEF RbWrite, RbInv, RbCallInv
<1>3. PICK r : r = [at |-> "forget", user |-> user, before |-> before]
  OBVIOUS
<1>4. r.at = "forget" /\ r.user = user /\ r.before = before
  BY <1>3
<1>5. rbCall'[c] = r
  BY <1>1, <1>3 DEF RbWrite
<1>6. \A u \in RbUsers : u # user => rbAssigned'[u] = rbAssigned[u]
  BY <1>1 DEF RbWrite, RbInv
<1>7. ASSUME NEW d \in RbCallers, d # c
      PROVE  /\ (rbCall'[d].at = "forget") = (rbCall[d].at = "forget")
             /\ rbCall[d].at = "forget" => rbCall'[d] = rbCall[d]
  <2>1. CASE rbCall[d].at \in {"peek", "load", "fill"} /\ rbCall[d].user = user
    <3>1. PICK now : rbCall'[d] = [rbCall[d] EXCEPT !.seen = @ \cup {now}]
      BY <1>1, <1>7, <2>1 DEF RbWrite
    <3>2. RbLooks(rbCall[d]) \/ RbFills(rbCall[d])
      BY <2>1 DEF RbInv, RbCallInv
    <3>3. rbCall'[d].at = rbCall[d].at
      BY <3>1, <3>2 DEF RbLooks, RbFills
    <3>. QED  BY <2>1, <3>3
  <2>2. CASE ~ (rbCall[d].at \in {"peek", "load", "fill"} /\ rbCall[d].user = user)
    BY <1>1, <1>7, <2>2 DEF RbWrite
  <2>. QED  BY <2>1, <2>2
<1>8. ASSUME NEW u \in RbUsers
      PROVE  RbChanging(u)' = RbChanging(u) \cup (IF u = user THEN {before} ELSE {})
  <2>1. PICK F : F = {d \in RbCallers : rbCall[d].at = "forget" /\ rbCall[d].user = u}
    OBVIOUS
  <2>2. {d \in RbCallers : rbCall'[d].at = "forget" /\ rbCall'[d].user = u} =
          F \cup (IF u = user THEN {c} ELSE {})
    BY <1>2, <1>4, <1>5, <1>7, <2>1
  <2>3. c \notin F /\ \A d \in F : rbCall'[d] = rbCall[d]
    BY <1>2, <1>7, <2>1
  <2>4. RbChanging(u)' = {rbCall'[d].before : d \in F \cup (IF u = user THEN {c} ELSE {})}
    BY <2>2 DEF RbChanging
  <2>5. RbChanging(u) = {rbCall[d].before : d \in F}
    BY <2>1 DEF RbChanging
  <2>. QED  BY <1>4, <1>5, <2>3, <2>4, <2>5
<1>9. ASSUME NEW u \in RbUsers
      PROVE  RbCurrent'[u] = {rbAssigned'[u]} \cup RbChanging(u) \cup (IF u = user THEN {before} ELSE {})
  BY <1>8 DEF RbCurrent
<1>10. ASSUME NEW u \in RbUsers
       PROVE  RbCurrent[u] = {rbAssigned[u]} \cup RbChanging(u)
  BY DEF RbCurrent
<1>11. \A u \in RbUsers : u # user => RbCurrent'[u] = RbCurrent[u]
  BY <1>6, <1>9, <1>10
<1>12. RbCurrent'[user] = RbCurrent[user] \cup {rbAssigned'[user]}
  BY <1>1, <1>2, <1>9, <1>10
<1>13. \A u \in RbUsers : RbCurrent[u] \subseteq RbCurrent'[u]
  BY <1>11, <1>12
<1>. QED  BY ONLY <1>1, <1>2, <1>11, <1>12, <1>13

\* A change is written: the checks on their way have seen the new list too.
LEMMA RbWriteKeeps ==
  ASSUME RbInv, NEW c \in RbCallers, RbWrite(c)
  PROVE  RbInv'
<1>1. PICK user, now : user = rbCall[c].user /\ now = rbAssigned'[user]
  OBVIOUS
<1>2. rbCall[c].at = "write" /\ user \in RbUsers /\ UNCHANGED <<rbRoles, rbCache>>
  BY <1>1 DEF RbWrite, RbInv, RbCallInv
<1>3. now = IF rbCall[c].op = "assign" THEN rbAssigned[user] \cup {rbCall[c].entry}
            ELSE {a \in rbAssigned[user] : a.role # rbCall[c].entry.role}
  BY <1>1, <1>2 DEF RbWrite, RbInv
<1>4. RbKnown(now, rbRoles)
  <2>1. RbKnown(rbAssigned[user], rbRoles)
    BY <1>2 DEF RbInv
  <2>2. rbCall[c].op = "assign" => rbCall[c].entry.role \in rbRoles
    BY <1>2 DEF RbInv, RbCallInv
  <2>. QED  BY <1>3, <2>1, <2>2 DEF RbKnown
<1>5. \A u \in RbUsers : RbKnown(rbAssigned'[u], rbRoles)
  BY <1>1, <1>4 DEF RbWrite, RbInv
<1>6. ASSUME NEW d \in RbCallers
      PROVE  RbCallInv(rbCall'[d], rbRoles, RbCurrent')
  <2>1. CASE d = c
    <3>1. PICK r : r = [at |-> "forget", user |-> user, before |-> rbAssigned[user]]
      OBVIOUS
    <3>2. rbCall'[d] = r /\ r.at = "forget" /\ r.user = user
      BY <1>1, <2>1, <3>1 DEF RbWrite
    <3>. QED  BY <3>2, <1>2 DEF RbCallInv
  <2>2. CASE d # c /\ rbCall[d].at \in {"peek", "load", "fill"} /\ rbCall[d].user = user
    <3>1. PICK me, r : me = rbCall[d] /\ r = rbCall'[d]
      OBVIOUS
    <3>2. r = [me EXCEPT !.seen = @ \cup {now}]
      BY <1>1, <1>3, <2>2, <3>1 DEF RbWrite
    <3>3. RbCallInv(me, rbRoles, RbCurrent)
      BY <3>1 DEF RbInv
    <3>4. RbCurrent'[user] \subseteq me.seen \cup {now}
      BY <1>1, <2>2, <3>1, <3>3, RbCurrentMore DEF RbCallInv
    <3>5. CASE me.at \in {"peek", "load"}
      <4>1. RbLooks(me)
        BY <3>3, <3>5 DEF RbCallInv
      <4>2. r = [at |-> me.at, user |-> me.user, type |-> me.type, action |-> me.action, seen |-> me.seen \cup {now}]
        BY <3>2, <4>1 DEF RbLooks
      <4>3. /\ r.at = me.at /\ r.user = me.user /\ r.type = me.type /\ r.action = me.action
            /\ r.seen = me.seen \cup {now}
        BY <4>2
      <4>4. RbLooks(r)
        BY <4>2, <4>3 DEF RbLooks
      <4>. QED  BY <1>2, <2>2, <3>1, <3>4, <3>5, <4>3, <4>4 DEF RbCallInv
    <3>6. CASE me.at = "fill"
      <4>1. RbFills(me) /\ me.list \in me.seen /\ RbKnown(me.list, rbRoles)
        BY <3>3, <3>6 DEF RbCallInv
      <4>2. r = [at |-> "fill", user |-> me.user, type |-> me.type, action |-> me.action,
                 seen |-> me.seen \cup {now}, list |-> me.list]
        BY <3>2, <4>1 DEF RbFills
      <4>3. /\ r.at = "fill" /\ r.user = me.user /\ r.type = me.type /\ r.action = me.action
            /\ r.seen = me.seen \cup {now} /\ r.list = me.list
        BY <4>2
      <4>4. RbFills(r)
        BY <4>2, <4>3 DEF RbFills
      <4>. QED  BY <1>2, <2>2, <3>1, <3>4, <4>1, <4>3, <4>4 DEF RbCallInv
    <3>. QED  BY <2>2, <3>1, <3>5, <3>6
  <2>3. CASE d # c /\ ~ (rbCall[d].at \in {"peek", "load", "fill"} /\ rbCall[d].user = user)
    <3>1. rbCall'[d] = rbCall[d]
      BY <1>1, <2>3 DEF RbWrite
    <3>2. RbCallInv(rbCall[d], rbRoles, RbCurrent)
      BY DEF RbInv
    <3>3. rbCall[d].at \in {"peek", "load", "fill"} => rbCall[d].user \in RbUsers /\ rbCall[d].user # user
      BY <2>3, <3>2 DEF RbCallInv
    <3>4. rbCall[d].at \in {"peek", "load", "fill"} =>
            RbCurrent'[rbCall[d].user] \subseteq RbCurrent[rbCall[d].user]
      BY <1>1, <3>3, RbCurrentMore
    <3>. QED  BY ONLY <3>1, <3>2, <3>4, RbCallKept
  <2>. QED  BY <2>1, <2>2, <2>3
<1>7. ASSUME NEW u \in RbUsers, NEW e \in rbCache[u]
      PROVE  RbEntryInv(e, rbRoles, RbCurrent'[u])
  <2>1. RbEntryInv(e, rbRoles, RbCurrent[u]) /\ RbCurrent[u] \subseteq RbCurrent'[u]
    BY RbCurrentMore DEF RbInv
  <2>. QED  BY <2>1, RbEntryKept
<1>8. DOMAIN rbAssigned' = RbUsers /\ DOMAIN rbCall' = RbCallers
  BY DEF RbWrite, RbInv
<1>. QED  BY <1>2, <1>5, <1>6, <1>7, <1>8 DEF RbInv

\* A change is over: there are fewer lists to answer from for its user.
LEMMA RbCurrentFewer ==
  ASSUME RbInv, NEW c \in RbCallers, rbCall[c].at = "forget", RbGoTo(c, RbIdle), UNCHANGED rbAssigned,
         NEW u \in RbUsers
  PROVE  /\ RbCurrent'[u] \subseteq RbCurrent[u]
         /\ u # rbCall[c].user => RbCurrent'[u] = RbCurrent[u]
<1>1. rbCall'[c].at = "idle" /\ \A d \in RbCallers : d # c => rbCall'[d] = rbCall[d]
  BY DEF RbInv, RbGoTo, RbIdle
<1>2. PICK F, G : /\ F = {d \in RbCallers : rbCall[d].at = "forget" /\ rbCall[d].user = u}
                  /\ G = {d \in RbCallers : rbCall'[d].at = "forget" /\ rbCall'[d].user = u}
  OBVIOUS
<1>3. G \subseteq F /\ (u # rbCall[c].user => G = F) /\ c \notin G
  BY <1>1, <1>2
<1>4. \A d \in G : rbCall'[d] = rbCall[d]
  BY <1>1, <1>2, <1>3
<1>5. RbChanging(u)' = {rbCall'[d].before : d \in G} /\ RbChanging(u) = {rbCall[d].before : d \in F}
  BY <1>2 DEF RbChanging
<1>6. RbChanging(u)' \subseteq RbChanging(u) /\ (u # rbCall[c].user => RbChanging(u)' = RbChanging(u))
  BY <1>3, <1>4, <1>5
<1>. QED  BY <1>6 DEF RbCurrent

\* The end of a change keeps the invariant if what the cache holds for its user
\* is known and stale.
LEMMA RbChangeEnds ==
  ASSUME RbInv, NEW c \in RbCallers, rbCall[c].at = "forget", RbGoTo(c, RbIdle),
         UNCHANGED <<rbRoles, rbAssigned>>, DOMAIN rbCache' = RbUsers,
         \A u \in RbUsers : u # rbCall[c].user => rbCache'[u] = rbCache[u],
         \A e \in rbCache'[rbCall[c].user] : RbEntryInv(e, rbRoles, {})
  PROVE  RbInv'
<1>1. rbCall' = [rbCall EXCEPT ![c] = RbIdle] /\ RbIdle.at = "idle"
  BY DEF RbGoTo, RbIdle
<1>2. ASSUME NEW d \in RbCallers
      PROVE  RbCallInv(rbCall'[d], rbRoles, RbCurrent')
  <2>1. CASE d = c
    <3>1. rbCall'[d].at = "idle"
      BY <2>1, <1>1 DEF RbInv
    <3>. QED  BY <3>1 DEF RbCallInv
  <2>2. CASE d # c
    <3>1. rbCall'[d] = rbCall[d] /\ RbCallInv(rbCall[d], rbRoles, RbCurrent)
      BY <2>2, <1>1 DEF RbInv
    <3>2. rbCall[d].at \in {"peek", "load", "fill"} =>
            RbCurrent'[rbCall[d].user] \subseteq RbCurrent[rbCall[d].user]
      BY <3>1, RbCurrentFewer DEF RbCallInv
    <3>. QED  BY ONLY <3>1, <3>2, RbCallKept
  <2>. QED  BY <2>1, <2>2
<1>3. ASSUME NEW u \in RbUsers, NEW e \in rbCache'[u]
      PROVE  RbEntryInv(e, rbRoles, RbCurrent'[u])
  <2>1. CASE u = rbCall[c].user
    <3>1. RbEntryInv(e, rbRoles, {})
      BY <2>1, <1>3
    <3>. QED  BY <3>1, RbEntryKept
  <2>2. CASE u # rbCall[c].user
    <3>1. e \in rbCache[u]
      BY <2>2, <1>3
    <3>2. RbEntryInv(e, rbRoles, RbCurrent[u])
      BY <3>1 DEF RbInv
    <3>3. RbCurrent'[u] = RbCurrent[u]
      BY <2>2, RbCurrentFewer
    <3>. QED  BY <3>2, <3>3
  <2>. QED  BY <2>1, <2>2
<1>4. DOMAIN rbCall' = RbCallers
  BY <1>1 DEF RbInv
<1>. QED  BY <1>2, <1>3, <1>4 DEF RbInv

\* A change takes the cached list of its user away, ...
LEMMA RbForgets ==
  ASSUME RbInv, NEW c \in RbCallers, RbForget(c)
  PROVE  RbInv'
<1>1. /\ rbCall[c].at = "forget" /\ RbGoTo(c, RbIdle) /\ UNCHANGED <<rbRoles, rbAssigned>>
      /\ rbCache' = [rbCache EXCEPT ![rbCall[c].user] = {}]
  BY DEF RbForget
<1>2. rbCall[c].user \in RbUsers /\ DOMAIN rbCache = RbUsers
  BY <1>1 DEF RbInv, RbCallInv
<1>. QED  BY <1>1, <1>2, RbChangeEnds

\* ... or breaks off and leaves it, which makes it stale, as any call may.
LEMMA RbBreaks ==
  ASSUME RbInv, NEW c \in RbCallers, RbBreak(c)
  PROVE  RbInv'
<1>1. RbGoTo(c, RbIdle) /\ UNCHANGED <<rbRoles, rbAssigned>> /\ RbIdle.at = "idle"
  BY DEF RbBreak, RbIdle
<1>2. CASE rbCall[c].at # "forget"
  <2>1. UNCHANGED rbCache
    BY <1>2 DEF RbBreak
  <2>2. RbCallInv(RbIdle, rbRoles, RbCurrent)
    BY <1>1 DEF RbCallInv
  <2>. QED  BY <1>1, <1>2, <2>1, <2>2, RbGoes
<1>3. CASE rbCall[c].at = "forget"
  <2>1. PICK user : user = rbCall[c].user
    OBVIOUS
  <2>2. user \in RbUsers /\ DOMAIN rbCache = RbUsers
    BY <1>3, <2>1 DEF RbInv, RbCallInv
  <2>3. rbCache' = [rbCache EXCEPT ![user] = {[e EXCEPT !.stale = TRUE] : e \in rbCache[user]}]
    BY <1>3, <2>1 DEF RbBreak
  <2>4. ASSUME NEW x \in rbCache'[user]
        PROVE  RbEntryInv(x, rbRoles, {})
    <3>1. PICK e \in rbCache[user] : x = [e EXCEPT !.stale = TRUE]
      BY <2>2, <2>3, <2>4
    <3>2. e = [list |-> e.list, at |-> e.at, stale |-> e.stale] /\ RbKnown(e.list, rbRoles)
      BY <2>2 DEF RbInv, RbEntryInv
    <3>3. x = [list |-> e.list, at |-> e.at, stale |-> TRUE]
      BY <3>1, <3>2
    <3>4. x.list = e.list /\ x.at = e.at /\ x.stale = TRUE
      BY <3>3
    <3>. QED  BY <3>2, <3>3, <3>4 DEF RbEntryInv
  <2>5. DOMAIN rbCache' = RbUsers /\ \A u \in RbUsers : u # user => rbCache'[u] = rbCache[u]
    BY <2>2, <2>3
  <2>. QED  BY <1>1, <1>3, <2>1, <2>4, <2>5, RbChangeEnds
<1>. QED  BY <1>2, <1>3

-----------------------------------------------------------------------------
(* Answers *)

\* An answer by a stale entry, or by a list the check has seen, is one of those
\* allowed.
LEMMA RbAnswers ==
  ASSUME RbOrdered(rbRoles), NEW me, NEW list, RbKnown(list, rbRoles), NEW stale,
         stale \/ list \in me.seen
  PROVE  /\ RbAnswer(me, list, stale).at = "done"
         /\ RbCallInv(RbAnswer(me, list, stale), rbRoles, RbCurrent)
<1>1. PICK ok, allowed : /\ ok = RbGrants(list, me.type, me.action)
                         /\ allowed = {RbHolds(s, me.type, me.action) : s \in me.seen}
  OBVIOUS
<1>2. ok = RbHolds(list, me.type, me.action)
  BY <1>1, RbGrantsRight
<1>3. stale \/ ok \in allowed
  BY <1>1, <1>2
<1>4. PICK r : r = [at |-> "done", ok |-> ok, stale |-> stale, allowed |-> allowed]
  OBVIOUS
<1>5. r.at = "done" /\ r.ok = ok /\ r.stale = stale /\ r.allowed = allowed
  BY <1>4
<1>6. RbAnswer(me, list, stale) = r
  BY <1>1, <1>4 DEF RbAnswer
<1>. QED  BY <1>3, <1>5, <1>6 DEF RbCallInv

\* The cache answers, or the check goes to the store.
LEMMA RbPeekKeeps ==
  ASSUME RbInv, NEW c \in RbCallers, RbPeek(c)
  PROVE  RbInv'
<1>1. PICK me : me = rbCall[c]
  OBVIOUS
<1>2. me.at = "peek" /\ UNCHANGED <<rbRoles, rbAssigned, rbCache>>
  BY <1>1 DEF RbPeek
<1>3. RbLooks(me) /\ me.user \in RbUsers /\ RbCurrent[me.user] \subseteq me.seen
  BY <1>1, <1>2 DEF RbInv, RbCallInv
<1>4. CASE \E e \in rbCache[me.user] : RbGoTo(c, RbAnswer(me, e.list, e.stale))
  <2>1. PICK e \in rbCache[me.user] : RbGoTo(c, RbAnswer(me, e.list, e.stale))
    BY <1>4
  <2>2. RbEntryInv(e, rbRoles, RbCurrent[me.user])
    BY <1>3 DEF RbInv
  <2>3. RbKnown(e.list, rbRoles) /\ (e.stale \/ e.list \in me.seen)
    BY <1>3, <2>2 DEF RbEntryInv
  <2>4. PICK r : r = RbAnswer(me, e.list, e.stale)
    OBVIOUS
  <2>5. r.at = "done" /\ RbCallInv(r, rbRoles, RbCurrent)
    BY <2>3, <2>4, RbAnswers DEF RbInv
  <2>. QED  BY <1>1, <1>2, <2>1, <2>4, <2>5, RbGoes
<1>5. CASE RbGoTo(c, [me EXCEPT !.at = "load"])
  <2>1. PICK r : r = [me EXCEPT !.at = "load"]
    OBVIOUS
  <2>2. r = [at |-> "load", user |-> me.user, type |-> me.type, action |-> me.action, seen |-> me.seen]
    BY <1>3, <2>1 DEF RbLooks
  <2>3. r.at = "load" /\ r.user = me.user /\ r.type = me.type /\ r.action = me.action /\ r.seen = me.seen
    BY <2>2
  <2>4. RbCallInv(r, rbRoles, RbCurrent)
    BY <1>3, <2>2, <2>3 DEF RbCallInv, RbLooks
  <2>. QED  BY <1>1, <1>2, <1>5, <2>1, <2>3, <2>4, RbGoes
<1>. QED  BY <1>1, <1>4, <1>5 DEF RbPeek

\* The store answers with the list there is.
LEMMA RbLoadKeeps ==
  ASSUME RbInv, NEW c \in RbCallers, RbLoad(c)
  PROVE  RbInv'
<1>1. PICK me : me = rbCall[c]
  OBVIOUS
<1>2. me.at = "load" /\ UNCHANGED <<rbRoles, rbAssigned, rbCache>>
  BY <1>1 DEF RbLoad
<1>3. me.user \in RbUsers /\ RbCurrent[me.user] \subseteq me.seen
  BY <1>1, <1>2 DEF RbInv, RbCallInv
<1>4. PICK list : list = rbAssigned[me.user]
  OBVIOUS
<1>5. list \in me.seen /\ RbKnown(list, rbRoles)
  BY <1>3, <1>4 DEF RbInv, RbCurrent
<1>6. PICK r : r = [at |-> "fill", user |-> me.user, type |-> me.type, action |-> me.action,
                    seen |-> me.seen, list |-> list]
  OBVIOUS
<1>7. /\ r.at = "fill" /\ r.user = me.user /\ r.type = me.type /\ r.action = me.action
      /\ r.seen = me.seen /\ r.list = list
  BY <1>6
<1>8. RbFills(r)
  BY <1>6, <1>7 DEF RbFills
<1>9. RbCallInv(r, rbRoles, RbCurrent)
  BY <1>3, <1>5, <1>7, <1>8 DEF RbCallInv
<1>10. RbGoTo(c, r)
  BY <1>1, <1>4, <1>6 DEF RbLoad
<1>. QED  BY <1>1, <1>2, <1>7, <1>9, <1>10, RbGoes

\* The check fills the cache and answers.
LEMMA RbFillKeeps ==
  ASSUME RbInv, NEW c \in RbCallers, RbFill(c)
  PROVE  RbInv'
<1>1. PICK me, r : me = rbCall[c] /\ r = RbAnswer(me, me.list, FALSE)
  OBVIOUS
<1>2. me.at = "fill" /\ UNCHANGED <<rbRoles, rbAssigned>> /\ rbCall' = [rbCall EXCEPT ![c] = r]
  BY <1>1 DEF RbFill, RbGoTo
<1>3. me.user \in RbUsers /\ me.list \in me.seen /\ RbKnown(me.list, rbRoles)
  BY <1>1, <1>2 DEF RbInv, RbCallInv
<1>4. r.at = "done" /\ RbCallInv(r, rbRoles, RbCurrent)
  BY <1>1, <1>3, RbAnswers DEF RbInv
<1>5. RbCurrent' = RbCurrent
  BY <1>1, <1>2, <1>4, RbCurrentSame
<1>6. \A d \in RbCallers : RbCallInv(rbCall'[d], rbRoles, RbCurrent)
  BY <1>2, <1>4 DEF RbInv
<1>7. PICK stale : stale = (me.list \notin {rbAssigned[me.user]} \cup RbChanging(me.user))
  OBVIOUS
<1>8. PICK x : x = [list |-> me.list, at |-> rbNow, stale |-> stale]
  OBVIOUS
<1>9. rbCache' = [rbCache EXCEPT ![me.user] = {x}]
  BY <1>1, <1>7, <1>8 DEF RbFill
<1>10. x.list = me.list /\ x.at = rbNow /\ x.stale = stale
  BY <1>8
<1>11. stale \/ me.list \in RbCurrent[me.user]
  BY <1>3, <1>7 DEF RbCurrent
<1>12. RbEntryInv(x, rbRoles, RbCurrent[me.user])
  BY <1>3, <1>8, <1>10, <1>11 DEF RbEntryInv
<1>13. DOMAIN rbCache' = RbUsers /\ DOMAIN rbCall' = RbCallers
  BY <1>2, <1>9 DEF RbInv
<1>14. \A u \in RbUsers : \A e \in rbCache'[u] : RbEntryInv(e, rbRoles, RbCurrent[u])
  BY <1>3, <1>9, <1>12 DEF RbInv
<1>. QED  BY <1>2, <1>5, <1>6, <1>13, <1>14 DEF RbInv

\* An entry is pushed out, or time passes.
LEMMA RbEvictKeeps ==
  ASSUME RbInv, NEW u \in RbUsers, RbEvict(u)
  PROVE  RbInv'
<1>1. UNCHANGED <<rbRoles, rbAssigned, rbCall>> /\ rbCache' = [rbCache EXCEPT ![u] = {}]
  BY DEF RbEvict
<1>2. RbCurrent' = RbCurrent
  BY <1>1 DEF RbCurrent, RbChanging
<1>3. DOMAIN rbCache' = RbUsers
  BY <1>1 DEF RbInv
<1>4. \A w \in RbUsers : \A e \in rbCache'[w] : RbEntryInv(e, rbRoles, RbCurrent[w])
  BY <1>1 DEF RbInv
<1>. QED  BY <1>1, <1>2, <1>3, <1>4 DEF RbInv

LEMMA RbTickKeeps ==
  ASSUME RbInv, UNCHANGED <<rbRoles, rbAssigned, rbCache, rbCall>>
  PROVE  RbInv'
<1>1. RbCurrent' = RbCurrent
  BY DEF RbCurrent, RbChanging
<1>. QED  BY <1>1 DEF RbInv

\* Every step keeps it.
LEMMA RbKeeps == RbInv /\ [RbNext]_rbVars => RbInv'
<1>. SUFFICES ASSUME RbInv, [RbNext]_rbVars PROVE RbInv'
  OBVIOUS
<1>1. ASSUME NEW c \in RbCallers, NEW r \in DOMAIN RbTemplates, RbCreate(c, r) PROVE RbInv'
  BY <1>1, RbCreateKeeps
<1>2. ASSUME NEW c \in RbCallers, NEW u \in RbUsers, NEW r \in DOMAIN RbTemplates,
             RbRevoke(c, u, r) \/ \E t \in RbUntil : RbAssign(c, u, r, t)
      PROVE  RbInv'
  BY <1>2, RbAssignKeeps
<1>3. ASSUME NEW c \in RbCallers, NEW u \in RbUsers, NEW p \in RbPermissions, NEW a \in p.actions,
             RbCheck(c, u, p.type, a)
      PROVE  RbInv'
  BY <1>3, RbCheckKeeps
<1>4. ASSUME NEW c \in RbCallers, RbCreated(c) \/ RbWrite(c) \/ RbForget(c) \/ RbBreak(c) PROVE RbInv'
  BY <1>4, RbCreatedKeeps, RbWriteKeeps, RbForgets, RbBreaks
<1>5. ASSUME NEW c \in RbCallers, RbPeek(c) \/ RbLoad(c) \/ RbFill(c) PROVE RbInv'
  BY <1>5, RbPeekKeeps, RbLoadKeeps, RbFillKeeps
<1>6. ASSUME NEW u \in RbUsers, RbEvict(u) PROVE RbInv'
  BY <1>6, RbEvictKeeps
<1>7. CASE RbTick \/ UNCHANGED rbVars
  <2>1. UNCHANGED <<rbRoles, rbAssigned, rbCache, rbCall>>
    BY <1>7 DEF RbTick, rbVars
  <2>. QED  BY <2>1, RbTickKeeps
<1>. QED  BY <1>1, <1>2, <1>3, <1>4, <1>5, <1>6, <1>7 DEF RbNext

\* For every set of callers, users, roles and assignments a permission check
\* answers what some list of assignments the user had while it ran says, the
\* walk over parents granting what is reachable and no more, unless it answers
\* from an entry a change left behind.
THEOREM RoleChecksAreCurrent == RbSpec => []RoleChecksCurrent
<1>1. RbInv => RoleChecksCurrent
  BY DEF RbInv, RbCallInv, RoleChecksCurrent
<1>. QED  BY <1>1, RbStarts, RbKeeps, PTL DEF RbSpec

-----------------------------------------------------------------------------
(* Decisions of the policy engine *)

-----------------------------------------------------------------------------
\* A decision's allowed is the verdict of the policies it was made of, and it
\* names only such policies.
PolDecisions == [allowed : BOOLEAN, by : SUBSET {p.id : p \in PolPolicies}]

LEMMA EvaluateIsVerdict ==
  ASSUME NEW r, NEW ps \in Seq(PolPolicies)
  PROVE  Evaluate(r, ps) \in PolDecisions /\ Evaluate(r, ps).allowed = Verdict(r, ToSet(ps))
<1>1. PICK denies : denies = Indices(r, ps, "Deny", {"true", "error"})
  OBVIOUS
<1>2. PICK allows : allows = Indices(r, ps, "Allow", {"true"})
  OBVIOUS
<1>3. \A i \in DOMAIN ps : ps[i].id \in {p.id : p \in PolPolicies}
  OBVIOUS
<1>4. denies \subseteq DOMAIN ps /\ allows \subseteq DOMAIN ps
  BY <1>1, <1>2 DEF Indices
<1> DEFINE first(S) == CHOOSE i \in S : \A j \in S : i <= j
<1>5. \A S \in SUBSET DOMAIN ps : S # {} => first(S) \in S
  <2>1. SUFFICES ASSUME NEW S \in SUBSET DOMAIN ps, S # {} PROVE \E i \in S : \A j \in S : i <= j
    OBVIOUS
  <2>2. S \subseteq Nat
    OBVIOUS
  <2>3. PICK i \in S : \A j \in S : ~ (<<j, i>> \in OpToRel(<, Nat))
    BY <2>1, <2>2, NatLessThanWellFounded, WFMin
  <2>4. \A j \in S : ~ (j < i)
    BY <2>2, <2>3 DEF OpToRel
  <2>. QED  BY <2>2, <2>4
<1>6. Evaluate(r, ps) = CASE denies # {} -> [allowed |-> FALSE, by |-> {ps[first(denies)].id}]
                          [] denies = {} /\ allows # {} -> [allowed |-> TRUE, by |-> {ps[first(allows)].id}]
                          [] OTHER -> [allowed |-> FALSE, by |-> {}]
  BY <1>1, <1>2 DEF Evaluate
<1>. HIDE DEF first
<1>7. denies # {} <=> \E p \in ToSet(ps) : p.effect = "Deny" /\ Matches(r, p) \in {"true", "error"}
  BY <1>1 DEF Indices, ToSet
<1>8. allows # {} <=> \E p \in ToSet(ps) : p.effect = "Allow" /\ Matches(r, p) = "true"
  BY <1>2 DEF Indices, ToSet
<1>9. Verdict(r, ToSet(ps)) = (denies = {} /\ allows # {})
  BY <1>7, <1>8 DEF Verdict
<1>10. CASE denies # {}
  <2>1. Evaluate(r, ps) = [allowed |-> FALSE, by |-> {ps[first(denies)].id}]
    BY <1>6, <1>10
  <2>2. Verdict(r, ToSet(ps)) = FALSE
    BY <1>9, <1>10
  <2>3. ps[first(denies)].id \in {p.id : p \in PolPolicies}
    BY <1>3, <1>4, <1>5, <1>10
  <2>4. Evaluate(r, ps) \in PolDecisions /\ Evaluate(r, ps).allowed = FALSE
    BY <2>1, <2>3 DEF PolDecisions
  <2>. QED  BY <2>2, <2>4
<1>11. CASE denies = {} /\ allows # {}
  <2>1. Evaluate(r, ps) = [allowed |-> TRUE, by |-> {ps[first(allows)].id}]
    BY <1>6, <1>11
  <2>2. Verdict(r, ToSet(ps)) = TRUE
    BY <1>9, <1>11
  <2>3. ps[first(allows)].id \in {p.id : p \in PolPolicies}
    BY <1>3, <1>4, <1>5, <1>11
  <2>4. Evaluate(r, ps) \in PolDecisions /\ Evaluate(r, ps).allowed = TRUE
    BY <2>1, <2>3 DEF PolDecisions
  <2>. QED  BY <2>2, <2>4
<1>12. CASE denies = {} /\ allows = {}
  <2>1. Evaluate(r, ps) = [allowed |-> FALSE, by |-> {}]
    BY <1>6, <1>12
  <2>2. Verdict(r, ToSet(ps)) = FALSE
    BY <1>9, <1>12
  <2>3. Evaluate(r, ps) \in PolDecisions /\ Evaluate(r, ps).allowed = FALSE
    BY <2>1 DEF PolDecisions
  <2>. QED  BY <2>2, <2>3
<1>. QED  BY <1>10, <1>11, <1>12

\* What several lists together say of a request, one of them says.
LEMMA OneListSays ==
  ASSUME NEW r, NEW Ls, Ls # {}
  PROVE  \E L \in Ls : Verdict(r, UNION Ls) = Verdict(r, L)
<1>1. CASE Verdict(r, UNION Ls)
  <2>1. PICK L \in Ls : \E p \in L : p.effect = "Allow" /\ Matches(r, p) = "true"
    BY <1>1 DEF Verdict
  <2>2. Verdict(r, L)
    BY <1>1, <2>1 DEF Verdict
  <2>. QED  BY <1>1, <2>2
<1>2. CASE ~ Verdict(r, UNION Ls)
  <2>1. \E L \in Ls : ~ Verdict(r, L)
    <3>1. CASE \E p \in UNION Ls : p.effect = "Deny" /\ Matches(r, p) \in {"true", "error"}
      BY <3>1 DEF Verdict
    <3>2. CASE ~ \E p \in UNION Ls : p.effect = "Allow" /\ Matches(r, p) = "true"
      BY <3>2 DEF Verdict
    <3>. QED  BY <1>2, <3>1, <3>2 DEF Verdict
  <2>2. PICK L \in Ls : ~ Verdict(r, L)
    BY <2>1
  <2>3. Verdict(r, UNION Ls) = FALSE /\ Verdict(r, L) = FALSE
    BY <1>2, <2>2 DEF Verdict
  <2>. QED  BY <2>2, <2>3
<1>. QED  BY <1>1, <1>2

PolVersions == DOMAIN PolLists
PolList(v)  == ToSet(PolLists[v])

LEMMA PolListTyped ==
  ASSUME NEW v \in PolVersions
  PROVE  PolLists[v] \in Seq(PolPolicies)
BY PolConstants DEF PolVersions

\* Those of the second list that are not in the first, each a list of its own.
LEMMA JoinedPieces ==
  ASSUME NEW known, NEW list \in Seq(PolPolicies)
  PROVE  [i \in DOMAIN list |-> IF list[i].id \in known THEN << >> ELSE <<list[i]>>] \in Seq(Seq(PolPolicies))
<1>1. PICK n \in Nat : n = Len(list) /\ DOMAIN list = 1 .. n
  OBVIOUS
<1>2. \A i \in 1 .. n : (IF list[i].id \in known THEN << >> ELSE <<list[i]>>) \in Seq(PolPolicies)
  BY <1>1
<1>3. PICK f : f = [i \in 1 .. n |-> IF list[i].id \in known THEN << >> ELSE <<list[i]>>]
  OBVIOUS
<1>4. f \in [1 .. n -> Seq(PolPolicies)]
  BY <1>2, <1>3
<1>. QED  BY <1>1, <1>3, <1>4

LEMMA PolVersionsTyped == Len(PolLists) \in Nat /\ PolVersions = 1 .. Len(PolLists)
BY PolConstants DEF PolVersions

\* The joined list holds what the lists read hold, unless a policy was edited
\* between two of them.
LEMMA JoinedHolds ==
  ASSUME NEW vs \in Seq(PolVersions), NEW batch \in BOOLEAN, ~ batch => Len(vs) = 2,
         ~ \E v, w \in ToSet(vs) : PolEdited(v, w)
  PROVE  ToSet(PolJoined(vs, batch)) = UNION {PolList(v) : v \in ToSet(vs)}
<1> DEFINE lists  == [i \in DOMAIN vs |-> PolLists[vs[i]]]
           known  == {p.id : p \in ToSet(lists[1])}
           joined == [i \in DOMAIN lists[2] |-> IF lists[2][i].id \in known THEN << >> ELSE <<lists[2][i]>>]
<1>1. PolJoined(vs, batch) = IF batch THEN FlattenSeq(lists) ELSE lists[1] \o FlattenSeq(joined)
  BY DEF PolJoined
<1>. HIDE DEF known, joined
<1>2. lists \in Seq(Seq(PolPolicies)) /\ DOMAIN lists = DOMAIN vs /\ Len(lists) = Len(vs)
  BY PolListTyped
<1>3. \A i \in DOMAIN vs : lists[i] = PolLists[vs[i]] /\ ToSet(lists[i]) = PolList(vs[i])
  BY DEF PolList
<1>. HIDE DEF lists
<1>4. UNION {ToSet(lists[i]) : i \in DOMAIN lists} = UNION {PolList(v) : v \in ToSet(vs)}
  <2>1. {ToSet(lists[i]) : i \in DOMAIN lists} = {PolList(v) : v \in ToSet(vs)}
    <3>1. DOMAIN lists = DOMAIN vs
      BY <1>2
    <3>2. ToSet(vs) = {vs[i] : i \in DOMAIN vs}
      BY DEF ToSet
    <3>. QED  BY ONLY <1>3, <3>1, <3>2
  <2>. QED  BY <2>1
<1>5. CASE batch
  <2>1. PolJoined(vs, batch) = FlattenSeq(lists)
    BY <1>1, <1>5
  <2>. QED  BY <1>2, <1>4, <2>1, FlattenedSet
<1>6. CASE ~ batch
  <2>1. known = {p.id : p \in ToSet(lists[1])}
    BY DEF known
  <2>2. joined = [i \in DOMAIN lists[2] |-> IF lists[2][i].id \in known THEN << >> ELSE <<lists[2][i]>>]
    BY DEF joined
  <2>3. PolJoined(vs, batch) = lists[1] \o FlattenSeq(joined)
    BY <1>1, <1>6
  <2>4. 1 \in DOMAIN vs /\ 2 \in DOMAIN vs /\ DOMAIN vs = {1, 2}
    BY <1>6
  <2>5. lists[1] \in Seq(PolPolicies) /\ lists[2] \in Seq(PolPolicies)
    <3>1. 1 \in DOMAIN lists /\ 2 \in DOMAIN lists
      BY <1>2, <2>4
    <3>. QED  BY <1>2, <3>1
  <2>6. joined \in Seq(Seq(PolPolicies)) /\ DOMAIN joined = DOMAIN lists[2]
    BY <2>2, <2>5, JoinedPieces
  <2>7. /\ FlattenSeq(joined) \in Seq(PolPolicies)
        /\ ToSet(FlattenSeq(joined)) = UNION {ToSet(joined[i]) : i \in DOMAIN joined}
    BY <2>6, FlattenedSet
  <2>8. ToSet(PolJoined(vs, batch)) = ToSet(lists[1]) \cup ToSet(FlattenSeq(joined))
    BY <2>3, <2>5, <2>7, ToSetConcat
  <2>9. vs[1] \in ToSet(vs) /\ vs[2] \in ToSet(vs)
    BY <2>4 DEF ToSet
  <2>10. \A p \in ToSet(lists[1]), q \in ToSet(lists[2]) : p.id = q.id => p = q
    BY <1>3, <2>4, <2>9 DEF PolEdited, PolList
  <2>11. \A i \in DOMAIN lists[2] :
           \/ ToSet(joined[i]) = {lists[2][i]}
           \/ ToSet(joined[i]) = {} /\ lists[2][i] \in ToSet(lists[1])
    <3>1. SUFFICES ASSUME NEW i \in DOMAIN lists[2]
                   PROVE  \/ ToSet(joined[i]) = {lists[2][i]}
                          \/ ToSet(joined[i]) = {} /\ lists[2][i] \in ToSet(lists[1])
      OBVIOUS
    <3>2. PICK q : q = lists[2][i] /\ q \in ToSet(lists[2])
      BY <3>1 DEF ToSet
    <3>3. CASE q.id \in known
      <4>1. joined[i] = << >>
        BY <2>2, <3>2, <3>3
      <4>2. q \in ToSet(lists[1])
        BY <2>1, <2>10, <3>2, <3>3
      <4>. QED  BY <3>2, <4>1, <4>2 DEF ToSet
    <3>4. CASE q.id \notin known
      <4>1. joined[i] = <<q>>
        BY <2>2, <3>2, <3>4
      <4>. QED  BY <3>2, <4>1 DEF ToSet
    <3>. QED  BY <3>3, <3>4
  <2>12. ToSet(lists[2]) = {lists[2][i] : i \in DOMAIN lists[2]}
    BY DEF ToSet
  <2>13. ToSet(PolJoined(vs, batch)) = ToSet(lists[1]) \cup ToSet(lists[2])
    <3>1. ToSet(FlattenSeq(joined)) = UNION {ToSet(joined[i]) : i \in DOMAIN lists[2]}
      BY <2>6, <2>7
    <3>2. ToSet(FlattenSeq(joined)) \subseteq ToSet(lists[2])
      <4>1. \A i \in DOMAIN lists[2] : ToSet(joined[i]) \subseteq ToSet(lists[2])
        BY ONLY <2>11, <2>12
      <4>. QED  BY ONLY <3>1, <4>1
    <3>3. ToSet(lists[2]) \subseteq ToSet(lists[1]) \cup ToSet(FlattenSeq(joined))
      <4>1. SUFFICES ASSUME NEW i \in DOMAIN lists[2], lists[2][i] \notin ToSet(lists[1])
                     PROVE  lists[2][i] \in ToSet(FlattenSeq(joined))
        BY <2>12
      <4>2. lists[2][i] \in ToSet(joined[i])
        BY ONLY <2>11, <4>1
      <4>. QED  BY ONLY <3>1, <4>1, <4>2
    <3>. QED  BY ONLY <2>8, <3>2, <3>3
  <2>. QED  BY <1>2, <1>4, <2>4, <2>13
<1>. QED  BY <1>5, <1>6

LEMMA JoinedTyped ==
  ASSUME NEW vs \in Seq(PolVersions), NEW batch \in BOOLEAN, ~ batch => Len(vs) = 2
  PROVE  PolJoined(vs, batch) \in Seq(PolPolicies)
<1> DEFINE lists  == [i \in DOMAIN vs |-> PolLists[vs[i]]]
           known  == {p.id : p \in ToSet(lists[1])}
           joined == [i \in DOMAIN lists[2] |-> IF lists[2][i].id \in known THEN << >> ELSE <<lists[2][i]>>]
<1>1. PolJoined(vs, batch) = IF batch THEN FlattenSeq(lists) ELSE lists[1] \o FlattenSeq(joined)
  BY DEF PolJoined
<1>. HIDE DEF known, joined
<1>2. lists \in Seq(Seq(PolPolicies)) /\ DOMAIN lists = DOMAIN vs
  BY PolListTyped
<1>. HIDE DEF lists
<1>3. CASE batch
  BY <1>1, <1>2, <1>3, FlattenedSet
<1>4. CASE ~ batch
  <2>1. known = {p.id : p \in ToSet(lists[1])}
    BY DEF known
  <2>2. joined = [i \in DOMAIN lists[2] |-> IF lists[2][i].id \in known THEN << >> ELSE <<lists[2][i]>>]
    BY DEF joined
  <2>3. PolJoined(vs, batch) = lists[1] \o FlattenSeq(joined)
    BY <1>1, <1>4
  <2>4. lists[1] \in Seq(PolPolicies) /\ lists[2] \in Seq(PolPolicies)
    <3>1. 1 \in DOMAIN lists /\ 2 \in DOMAIN lists
      BY <1>2, <1>4
    <3>. QED  BY <1>2, <3>1
  <2>5. joined \in Seq(Seq(PolPolicies))
    BY <2>2, <2>4, JoinedPieces
  <2>. QED  BY <2>3, <2>4, <2>5, FlattenedSet
<1>. QED  BY <1>3, <1>4

-----------------------------------------------------------------------------
(* The inductive invariant *)

\* A decision with the versions it was made of is the verdict of one of them,
\* or a policy was edited between two of them.
PolEntries ==
  {e \in [request : PolRequests, decision : PolDecisions, at : Nat, versions : Seq(PolVersions)] :
     \/ \E v \in ToSet(e.versions) : e.decision.allowed = Verdict(e.request, PolList(v))
     \/ \E v, w \in ToSet(e.versions) : PolEdited(v, w)}

\* No entry was made of a list older than v.
PolNoOlder(es, v) == \A e \in ToSet(es) : \A w \in ToSet(e.versions) : w >= v

PolCallRecords ==
  [at : {"idle", "lookup", "load", "decide", "done"}, batch : BOOLEAN,
   todo : Seq(PolRequests), missed : Seq(PolRequests), loads : Seq(PolPrincipals),
   got : [PolPrincipals -> Seq(PolVersions)], answers : Seq(PolEntries), since : Nat]

\* A call that loads or decides has read, or will read, what it decides on: two
\* lists of a single request, some of a batch.
PolReading(me) ==
  /\ me.at = "lookup" => /\ \A p \in PolPrincipals : me.got[p] = << >>
                         /\ ~ me.batch => Len(me.todo) = 1 /\ me.missed = << >>
  /\ me.at = "load" =>
       /\ me.loads # << >> /\ me.missed # << >>
       /\ \A r \in ToSet(me.missed) : me.got[r.principal.id] # << >> \/ r.principal.id \in ToSet(me.loads)
       /\ ~ me.batch => \A r \in ToSet(me.missed) :
            /\ Len(me.got[r.principal.id]) + Len(me.loads) = 2
            /\ \A p \in ToSet(me.loads) : p = r.principal.id
  /\ me.at = "decide" =>
       /\ me.missed # << >>
       /\ \A r \in ToSet(me.missed) :
            /\ me.got[r.principal.id] # << >>
            /\ ~ me.batch => Len(me.got[r.principal.id]) = 2

PolCallInv(me, cleared, raced) ==
  /\ me \in PolCallRecords
  /\ PolReading(me)
  /\ me.since <= cleared
  /\ ~ raced => PolNoOlder(me.answers, me.since)

PolInv ==
  /\ polVersion \in PolVersions /\ polCleared \in 1 .. polVersion
  /\ polRaced \in BOOLEAN /\ polNow \in Nat
  /\ polCache \in Seq(PolEntries)
  /\ ~ polRaced => PolNoOlder(polCache, polCleared)
  /\ DOMAIN polCall = PolCallers
  /\ \A c \in PolCallers : PolCallInv(polCall[c], polCleared, polRaced)

\* The inductive invariant gives what the runs check.
LEMMA PolInvFollows == PolInv => PolDecisionsCurrent
<1>. SUFFICES ASSUME PolInv, NEW c \in PolCallers, NEW i \in DOMAIN polCall[c].answers
              PROVE  LET a  == polCall[c].answers[i]
                         vs == {a.versions[k] : k \in DOMAIN a.versions}
                     IN  /\ \/ \E v \in vs : a.decision.allowed = Verdict(a.request, ToSet(PolLists[v]))
                            \/ \E v, w \in vs : PolEdited(v, w)
                         /\ ~polRaced => \A v \in vs : v >= polCall[c].since
  BY DEF PolDecisionsCurrent
<1>1. PICK a : a = polCall[c].answers[i]
  OBVIOUS
<1>2. polCall[c].answers \in Seq(PolEntries) /\ (~ polRaced => PolNoOlder(polCall[c].answers, polCall[c].since))
  BY DEF PolInv, PolCallInv, PolCallRecords
<1>3. a \in PolEntries /\ a \in ToSet(polCall[c].answers)
  BY <1>1, <1>2 DEF ToSet
<1>4. ToSet(a.versions) = {a.versions[k] : k \in DOMAIN a.versions}
  BY DEF ToSet
<1>5. /\ \/ \E v \in ToSet(a.versions) : a.decision.allowed = Verdict(a.request, ToSet(PolLists[v]))
         \/ \E v, w \in ToSet(a.versions) : PolEdited(v, w)
      /\ ~polRaced => \A v \in ToSet(a.versions) : v >= polCall[c].since
  BY <1>2, <1>3 DEF PolEntries, PolList, PolNoOlder
<1>. QED  BY <1>1, <1>4, <1>5

\* An idle call.
LEMMA PolIdleFits ==
  ASSUME polCleared \in Nat, polCleared >= 1
  PROVE  /\ PolIdle \in PolCallRecords
         /\ PolCallInv(PolIdle, polCleared, polRaced)
<1>1. PICK g : g = [p \in PolPrincipals |-> << >>]
  OBVIOUS
<1>2. g \in [PolPrincipals -> Seq(PolVersions)]
  BY <1>1
<1>3. PolIdle = [at |-> "idle", batch |-> FALSE, todo |-> << >>, missed |-> << >>, loads |-> << >>,
                 got |-> g, answers |-> << >>, since |-> 1]
  BY <1>1 DEF PolIdle
<1>4. PolIdle \in PolCallRecords
  BY <1>2, <1>3 DEF PolCallRecords
<1>5. PolIdle.at = "idle" /\ PolIdle.answers = << >> /\ PolIdle.since = 1
  BY <1>3
<1>6. PolReading(PolIdle)
  BY <1>5 DEF PolReading
<1>7. PolNoOlder(PolIdle.answers, PolIdle.since)
  BY <1>5 DEF PolNoOlder, ToSet
<1>. QED  BY <1>4, <1>5, <1>6, <1>7 DEF PolCallInv

LEMMA PolStarts == PolInit => PolInv
<1>. SUFFICES ASSUME PolInit PROVE PolInv
  OBVIOUS
<1>1. 1 \in PolVersions
  BY PolConstants DEF PolVersions
<1>2. polVersion = 1 /\ polCleared = 1 /\ polRaced = FALSE /\ polNow = 0 /\ polCache = << >>
  BY DEF PolInit
<1>3. PolNoOlder(<< >>, 1)
  BY DEF PolNoOlder, ToSet
<1>4. PolCallInv(PolIdle, polCleared, polRaced)
  BY <1>2, PolIdleFits
<1>5. DOMAIN polCall = PolCallers /\ \A c \in PolCallers : polCall[c] = PolIdle
  BY DEF PolInit
<1>6. polCleared \in 1 .. polVersion /\ polRaced \in BOOLEAN /\ polNow \in Nat
  <2>1. polRaced \in BOOLEAN
    BY ONLY <1>2
  <2>2. polCleared \in 1 .. polVersion /\ polNow \in Nat
    BY ONLY <1>2
  <2>. QED  BY <2>1, <2>2
<1>7. polCache \in Seq(PolEntries)
  BY ONLY <1>2
<1>. QED  BY <1>1, <1>2, <1>3, <1>4, <1>5, <1>6, <1>7 DEF PolInv

-----------------------------------------------------------------------------
(* What the steps do *)

\* A step of one call leaves the rest as it was.
LEMMA PolOnlyCall ==
  ASSUME PolInv, NEW c \in PolCallers, NEW me, PolCallInv(me, polCleared, polRaced),
         polCall' = [polCall EXCEPT ![c] = me],
         UNCHANGED <<polVersion, polCache, polNow, polCleared, polRaced>>
  PROVE  PolInv'
<1>1. DOMAIN polCall' = PolCallers /\ \A d \in PolCallers : polCall'[d] = IF d = c THEN me ELSE polCall[d]
  BY DEF PolInv
<1>2. \A d \in PolCallers : PolCallInv(polCall[d], polCleared, polRaced)
  BY DEF PolInv
<1>3. \A d \in PolCallers : PolCallInv(polCall'[d], polCleared', polRaced')
  BY <1>1, <1>2
<1>. QED  BY <1>1, <1>3 DEF PolInv

LEMMA PolAskKeeps ==
  ASSUME PolInv, NEW c \in PolCallers, NEW rs \in Seq(PolRequests), NEW batch \in BOOLEAN,
         PolAsk(c, rs, batch)
  PROVE  PolInv'
<1>1. polCleared \in Nat /\ polCleared >= 1
  BY DEF PolInv, PolVersions
<1>2. PolIdle \in PolCallRecords
  BY <1>1, PolIdleFits
<1>3. PICK me : me = [PolIdle EXCEPT !.at = "lookup", !.batch = batch, !.todo = rs, !.since = polCleared]
  OBVIOUS
<1>4. me \in PolCallRecords
  BY <1>1, <1>2, <1>3 DEF PolCallRecords
<1>5. /\ me.at = "lookup" /\ me.batch = batch /\ me.todo = rs /\ me.since = polCleared
      /\ me.missed = PolIdle.missed /\ me.got = PolIdle.got /\ me.answers = PolIdle.answers
  BY <1>2, <1>3 DEF PolCallRecords
<1>6. PolIdle.missed = << >> /\ PolIdle.answers = << >> /\ \A p \in PolPrincipals : PolIdle.got[p] = << >>
  BY DEF PolIdle
<1>7. ~ batch => Len(rs) = 1
  BY DEF PolAsk
<1>8. PolReading(me)
  BY <1>5, <1>6, <1>7 DEF PolReading
<1>9. PolNoOlder(me.answers, me.since)
  BY <1>5, <1>6 DEF PolNoOlder, ToSet
<1>10. PolCallInv(me, polCleared, polRaced)
  BY <1>1, <1>4, <1>5, <1>8, <1>9 DEF PolCallInv
<1>11. polCall' = [polCall EXCEPT ![c] = me] /\ UNCHANGED <<polVersion, polCache, polNow, polCleared, polRaced>>
  BY <1>3 DEF PolAsk, PolGoTo
<1>. QED  BY <1>10, <1>11, PolOnlyCall

LEMMA PolBreakKeeps ==
  ASSUME PolInv, NEW c \in PolCallers, PolBreak(c)
  PROVE  PolInv'
<1>1. PolCallInv(PolIdle, polCleared, polRaced)
  <2>1. polCleared \in Nat /\ polCleared >= 1
    BY DEF PolInv, PolVersions
  <2>. QED  BY <2>1, PolIdleFits
<1>. QED  BY <1>1, PolOnlyCall DEF PolBreak, PolGoTo

LEMMA PolSwapKeeps ==
  ASSUME PolInv, PolSwap
  PROVE  PolInv'
<1>1. polVersion' \in PolVersions /\ polCleared' \in 1 .. polVersion'
  BY PolConstants DEF PolInv, PolSwap, PolVersions
<1>2. UNCHANGED <<polCache, polCall, polNow, polCleared, polRaced>>
  BY DEF PolSwap
<1>. QED  BY <1>1, <1>2 DEF PolInv

LEMMA PolReloads ==
  ASSUME PolInv, PolReload
  PROVE  PolInv'
<1>1. UNCHANGED <<polVersion, polCall, polNow, polRaced>> /\ polCache' = << >> /\ polCleared' = polVersion
  BY DEF PolReload
<1>2. polVersion \in Nat /\ polCleared \in Nat /\ 1 <= polCleared /\ polCleared <= polVersion
  BY DEF PolInv, PolVersions
<1>3. ASSUME NEW x, PolCallInv(x, polCleared, polRaced) PROVE PolCallInv(x, polCleared', polRaced')
  <2>1. x.since \in Nat /\ x.since <= polCleared
    BY <1>3 DEF PolCallInv, PolCallRecords
  <2>2. x.since <= polCleared'
    BY <1>1, <1>2, <2>1
  <2>. QED  BY <1>1, <1>3, <2>2 DEF PolCallInv
<1>4. polCleared' \in 1 .. polVersion'
  BY <1>1, <1>2
<1>5. polCache' \in Seq(PolEntries) /\ PolNoOlder(polCache', polCleared')
  <2>1. ToSet(polCache') = {}
    BY <1>1 DEF ToSet
  <2>2. polCache' \in Seq(PolEntries)
    BY ONLY <1>1
  <2>. QED  BY <2>1, <2>2 DEF PolNoOlder
<1>6. \A c \in PolCallers : PolCallInv(polCall[c], polCleared', polRaced')
  BY <1>3 DEF PolInv
<1>. QED  BY <1>1, <1>4, <1>5, <1>6 DEF PolInv

LEMMA PolTickKeeps ==
  ASSUME PolInv, UNCHANGED <<polVersion, polCache, polCall, polCleared, polRaced>>, polNow' \in Nat
  PROVE  PolInv'
BY DEF PolInv

\* The loads of a call name the principals of what was missed, that of a single
\* request twice.
LEMMA LoadsFit ==
  ASSUME NEW rs \in Seq(PolRequests)
  PROVE  /\ PolLoadsFor(rs) \in Seq(PolPrincipals)
         /\ \A r \in ToSet(rs) : r.principal.id \in ToSet(PolLoadsFor(rs))
         /\ Len(rs) = 1 => PolLoadsFor(rs) = [j \in 1 .. 2 |-> rs[1].principal.id]
<1> DEFINE id(i)   == rs[i].principal.id
           mine(p) == {i \in DOMAIN rs : rs[i].principal.id = p}
           isFirst(i) == \A j \in mine(rs[i].principal.id) : i <= j
           piece(i) == IF isFirst(i) THEN [j \in 1 .. Cardinality(mine(id(i))) + 1 |-> id(i)] ELSE << >>
           pieces == [i \in DOMAIN rs |-> piece(i)]
<1>1. PolLoadsFor(rs) = FlattenSeq(pieces)
  BY DEF PolLoadsFor
<1>2. \A i \in DOMAIN rs : id(i) \in PolPrincipals
  BY DEF PolPrincipals
<1>3. ASSUME NEW p PROVE mine(p) \in SUBSET (1 .. Len(rs)) /\ Cardinality(mine(p)) \in Nat
  <2>1. mine(p) \subseteq 1 .. Len(rs)
    OBVIOUS
  <2>2. IsFiniteSet(1 .. Len(rs))
    BY FS_Interval
  <2>. QED  BY <2>1, <2>2, FS_Subset, FS_CardinalityType
<1>. HIDE DEF mine, isFirst
<1>4. ASSUME NEW i \in DOMAIN rs
      PROVE  /\ piece(i) \in Seq(PolPrincipals)
             /\ isFirst(i) => id(i) \in ToSet(piece(i))
  <2>1. PICK n \in Nat : n = Cardinality(mine(id(i))) + 1 /\ n >= 1
    BY <1>3
  <2>2. PICK s : s = [j \in 1 .. n |-> id(i)]
    OBVIOUS
  <2>3. s \in Seq(PolPrincipals)
    BY <1>2, <2>1, <2>2
  <2>4. 1 \in DOMAIN s /\ s[1] = id(i)
    BY <2>1, <2>2
  <2>5. id(i) \in ToSet(s)
    BY <2>4 DEF ToSet
  <2>6. piece(i) = IF isFirst(i) THEN s ELSE << >>
    BY <2>1, <2>2
  <2>. HIDE DEF piece
  <2>. QED  BY <2>3, <2>5, <2>6
<1>. HIDE DEF piece
<1>5. pieces \in Seq(Seq(PolPrincipals)) /\ DOMAIN pieces = DOMAIN rs /\ \A i \in DOMAIN rs : pieces[i] = piece(i)
  BY <1>4
<1>. HIDE DEF pieces
<1>6. /\ FlattenSeq(pieces) \in Seq(PolPrincipals)
      /\ ToSet(FlattenSeq(pieces)) = UNION {ToSet(pieces[i]) : i \in DOMAIN pieces}
  BY <1>5, FlattenedSet
<1>7. ASSUME NEW r \in ToSet(rs) PROVE r.principal.id \in ToSet(PolLoadsFor(rs))
  <2>1. PICK k \in DOMAIN rs : r = rs[k]
    BY DEF ToSet
  <2>2. PICK p : p = id(k)
    OBVIOUS
  <2>3. k \in mine(p)
    BY <2>2 DEF mine
  <2>4. PICK i \in mine(p) : \A j \in mine(p) : i <= j
    <3>1. mine(p) \subseteq Nat
      BY <1>3
    <3>2. PICK i \in mine(p) : \A j \in mine(p) : ~ (<<j, i>> \in OpToRel(<, Nat))
      BY <2>3, <3>1, NatLessThanWellFounded, WFMin
    <3>3. \A j \in mine(p) : ~ (j < i)
      BY <3>1, <3>2 DEF OpToRel
    <3>4. ASSUME NEW j \in mine(p) PROVE i <= j
      <4>1. i \in Nat /\ j \in Nat /\ ~ (j < i)
        BY <3>1, <3>2, <3>3
      <4>. QED  BY ONLY <4>1
    <3>. QED  BY <3>4
  <2>5. i \in DOMAIN rs /\ id(i) = p
    BY <2>4 DEF mine
  <2>6. isFirst(i)
    BY <2>4, <2>5 DEF isFirst
  <2>. QED  BY <1>1, <1>4, <1>5, <1>6, <2>1, <2>2, <2>5, <2>6
<1>8. ASSUME Len(rs) = 1 PROVE PolLoadsFor(rs) = [j \in 1 .. 2 |-> rs[1].principal.id]
  <2>1. DOMAIN rs = {1} /\ mine(id(1)) = {1}
    BY <1>8 DEF mine
  <2>2. isFirst(1) /\ Cardinality(mine(id(1))) = 1
    <3>1. \A j \in {1} : 1 <= j
      OBVIOUS
    <3>2. isFirst(1)
      BY <2>1, <3>1 DEF isFirst
    <3>3. Cardinality({1}) = 1
      BY FS_Singleton
    <3>. QED  BY <2>1, <3>2, <3>3
  <2>3. piece(1) = [j \in 1 .. 2 |-> id(1)]
    BY <2>2 DEF piece
  <2>4. pieces = <<piece(1)>>
    BY <1>5, <1>8
  <2>. QED  BY <1>1, <2>3, <2>4, FlattenOne
<1>. QED  BY <1>1, <1>6, <1>7, <1>8

\* A call looks a request up.
LEMMA PolLookupKeeps ==
  ASSUME PolInv, NEW c \in PolCallers, PolLookup(c)
  PROVE  PolInv'
<1> DEFINE me    == polCall[c]
           r     == Head(me.todo)
           hits  == {i \in DOMAIN polCache : polCache[i].request = r /\ PolFresh(polCache[i])}
           next  == [me EXCEPT !.todo = Tail(@)]
           asked == IF hits = {} THEN [next EXCEPT !.missed = Append(@, r)]
                    ELSE [next EXCEPT !.answers = Append(@, polCache[CHOOSE i \in hits : TRUE])]
           last  == IF asked.todo # << >> THEN asked
                    ELSE IF asked.missed = << >> THEN [asked EXCEPT !.at = "done"]
                    ELSE [asked EXCEPT !.at = "load", !.loads = PolLoadsFor(asked.missed)]
<1>1. /\ me.at = "lookup" /\ me.todo # << >>
      /\ polCall' = [polCall EXCEPT ![c] = last]
      /\ UNCHANGED <<polVersion, polCache, polNow, polCleared, polRaced>>
  BY DEF PolLookup, PolGoTo
<1>. HIDE DEF last
<1>9. last = IF asked.todo # << >> THEN asked
             ELSE IF asked.missed = << >> THEN [asked EXCEPT !.at = "done"]
             ELSE [asked EXCEPT !.at = "load", !.loads = PolLoadsFor(asked.missed)]
  BY DEF last
<1>. HIDE DEF asked
<1>8. asked = IF hits = {} THEN [next EXCEPT !.missed = Append(@, r)]
              ELSE [next EXCEPT !.answers = Append(@, polCache[CHOOSE i \in hits : TRUE])]
  BY DEF asked
<1>6. next = [me EXCEPT !.todo = Tail(@)]
  OBVIOUS
<1>. HIDE DEF next
<1>2. PolCallInv(me, polCleared, polRaced) /\ me \in PolCallRecords /\ PolReading(me)
  BY DEF PolInv, PolCallInv
<1>. HIDE DEF me
<1>4. r \in PolRequests /\ Tail(me.todo) \in Seq(PolRequests) /\ Len(Tail(me.todo)) = Len(me.todo) - 1
  BY <1>1, <1>2 DEF PolCallRecords
<1>5. hits \subseteq DOMAIN polCache
  OBVIOUS
<1>. HIDE DEF r, hits
<1>7. /\ next \in PolCallRecords /\ next.todo = Tail(me.todo) /\ next.at = "lookup" /\ next.batch = me.batch
      /\ next.missed = me.missed /\ next.loads = me.loads /\ next.got = me.got
      /\ next.answers = me.answers /\ next.since = me.since
  BY <1>1, <1>2, <1>4, <1>6 DEF PolCallRecords
<1>11. \* what was missed, and what the cache gave
       /\ asked \in PolCallRecords /\ asked.todo = Tail(me.todo) /\ asked.at = "lookup"
       /\ asked.batch = me.batch /\ asked.loads = me.loads /\ asked.got = me.got /\ asked.since = me.since
       /\ asked.missed \in Seq(PolRequests) /\ Len(asked.missed) <= Len(me.missed) + 1
       /\ ~ polRaced => PolNoOlder(asked.answers, asked.since)
  <2>1. CASE hits = {}
    <3>1. asked = [next EXCEPT !.missed = Append(@, r)]
      BY <1>8, <2>1
    <3>2. Append(me.missed, r) \in Seq(PolRequests) /\ Len(Append(me.missed, r)) = Len(me.missed) + 1
      BY <1>2, <1>4 DEF PolCallRecords
    <3>3. /\ asked \in PolCallRecords /\ asked.todo = next.todo /\ asked.at = next.at /\ asked.batch = next.batch
          /\ asked.loads = next.loads /\ asked.got = next.got /\ asked.since = next.since
          /\ asked.answers = next.answers /\ asked.missed = Append(me.missed, r)
      BY <1>7, <3>1, <3>2 DEF PolCallRecords
    <3>4. Len(asked.missed) <= Len(me.missed) + 1
      <4>1. Len(me.missed) \in Nat
        BY <1>2 DEF PolCallRecords
      <4>. QED  BY <3>2, <3>3, <4>1
    <3>. QED  BY <1>2, <1>7, <3>2, <3>3, <3>4 DEF PolCallInv
  <2>2. CASE hits # {}
    <3>1. PICK i \in hits : i = CHOOSE j \in hits : TRUE
      BY <2>2
    <3>2. PICK e : e = polCache[i]
      OBVIOUS
    <3>3. i \in DOMAIN polCache /\ polCache \in Seq(PolEntries)
      BY <1>5, <3>1 DEF PolInv
    <3>4. e \in PolEntries /\ e \in ToSet(polCache)
      BY <3>2, <3>3 DEF ToSet
    <3>5. asked = [next EXCEPT !.answers = Append(@, e)]
      BY <1>8, <2>2, <3>1, <3>2
    <3>6. me.answers \in Seq(PolEntries) /\ Append(me.answers, e) \in Seq(PolEntries)
      BY <1>2, <3>4 DEF PolCallRecords
    <3>7. /\ asked \in PolCallRecords /\ asked.todo = next.todo /\ asked.at = next.at /\ asked.batch = next.batch
          /\ asked.loads = next.loads /\ asked.got = next.got /\ asked.since = next.since
          /\ asked.answers = Append(me.answers, e) /\ asked.missed = me.missed
      BY <1>7, <3>5, <3>6 DEF PolCallRecords
    <3>8. ~ polRaced => PolNoOlder(asked.answers, asked.since)
      <4>1. SUFFICES ASSUME ~ polRaced PROVE PolNoOlder(asked.answers, asked.since)
        OBVIOUS
      <4>2. \A w \in ToSet(e.versions) : w >= polCleared
        BY <3>4, <4>1 DEF PolInv, PolNoOlder
      <4>3. \A w \in ToSet(e.versions) : w \in Nat
        <5>1. e.versions \in Seq(PolVersions)
          BY <3>4 DEF PolEntries
        <5>. QED  BY <5>1, PolVersionsTyped DEF ToSet
      <4>4. me.since \in Nat /\ me.since <= polCleared /\ polCleared \in Nat
        BY <1>2 DEF PolCallInv, PolCallRecords, PolInv, PolVersions
      <4>5. \A w \in ToSet(e.versions) : w >= me.since
        BY <4>2, <4>3, <4>4
      <4>6. ToSet(asked.answers) = ToSet(me.answers) \cup {e}
        BY <3>6, <3>7, ToSetAppend
      <4>7. PolNoOlder(me.answers, me.since)
        BY <1>2, <4>1 DEF PolCallInv
      <4>. QED  BY <1>7, <3>7, <4>5, <4>6, <4>7 DEF PolNoOlder
    <3>9. me.missed \in Seq(PolRequests) /\ Len(me.missed) <= Len(me.missed) + 1
      BY <1>2 DEF PolCallRecords
    <3>. QED  BY <1>7, <3>7, <3>8, <3>9
  <2>. QED  BY <2>1, <2>2
<1>12. ~ me.batch => Tail(me.todo) = << >> /\ Len(asked.missed) <= 1
  <2>1. SUFFICES ASSUME ~ me.batch PROVE Tail(me.todo) = << >> /\ Len(asked.missed) <= 1
    OBVIOUS
  <2>2. Len(me.todo) = 1 /\ me.missed = << >>
    BY <1>1, <1>2, <2>1 DEF PolReading
  <2>3. Len(Tail(me.todo)) = 0 /\ Len(me.missed) = 0
    BY <1>4, <2>2
  <2>4. Tail(me.todo) = << >>
    <3>1. PICK t \in Seq(PolRequests) : t = Tail(me.todo) /\ Len(t) = 0
      BY <1>4, <2>3
    <3>2. t = << >>
      BY ONLY t \in Seq(PolRequests), <3>1
    <3>. QED  BY <3>1, <3>2
  <2>5. Len(asked.missed) <= 1
    BY <1>11, <2>3
  <2>. QED  BY <2>4, <2>5
<1>13. \A p \in PolPrincipals : me.got[p] = << >>
  BY <1>1, <1>2 DEF PolReading
<1>14. me.since <= polCleared
  BY <1>2 DEF PolCallInv
<1>15. PolCallInv(last, polCleared, polRaced)
  <2>1. CASE asked.todo # << >>
    <3>1. last = asked
      BY <1>9, <2>1
    <3>2. PolReading(asked)
      BY <1>11, <1>12, <1>13, <2>1 DEF PolReading
    <3>. QED  BY <1>11, <1>14, <3>1, <3>2 DEF PolCallInv
  <2>2. CASE asked.todo = << >> /\ asked.missed = << >>
    <3>1. last = [asked EXCEPT !.at = "done"]
      BY <1>9, <2>2
    <3>2. last \in PolCallRecords /\ last.at = "done" /\ last.answers = asked.answers /\ last.since = asked.since
      BY <1>11, <3>1 DEF PolCallRecords
    <3>3. PolReading(last)
      BY <3>2 DEF PolReading
    <3>. QED  BY <1>11, <1>14, <3>2, <3>3 DEF PolCallInv
  <2>3. CASE asked.todo = << >> /\ asked.missed # << >>
    <3>1. PICK loads : loads = PolLoadsFor(asked.missed)
      OBVIOUS
    <3>2. /\ loads \in Seq(PolPrincipals)
          /\ \A x \in ToSet(asked.missed) : x.principal.id \in ToSet(loads)
          /\ Len(asked.missed) = 1 => loads = [j \in 1 .. 2 |-> asked.missed[1].principal.id]
      BY <1>11, <3>1, LoadsFit
    <3>3. last = [asked EXCEPT !.at = "load", !.loads = loads]
      BY <1>9, <2>3, <3>1
    <3>4. /\ last \in PolCallRecords /\ last.at = "load" /\ last.loads = loads /\ last.answers = asked.answers
          /\ last.since = asked.since /\ last.missed = asked.missed /\ last.got = asked.got /\ last.batch = asked.batch
      BY <1>11, <3>2, <3>3 DEF PolCallRecords
    <3>5. PICK x : x = asked.missed[1] /\ x \in ToSet(asked.missed) /\ x \in PolRequests
      <4>1. 1 \in DOMAIN asked.missed
        BY <1>11, <2>3
      <4>. QED  BY <1>11, <4>1 DEF ToSet
    <3>6. loads # << >>
      <4>1. x.principal.id \in ToSet(loads)
        BY <3>2, <3>5
      <4>2. ToSet(<< >>) = {}
        BY DEF ToSet
      <4>. QED  BY <4>1, <4>2
    <3>7. ~ me.batch => \A y \in ToSet(asked.missed) :
                          /\ Len(me.got[y.principal.id]) + Len(loads) = 2
                          /\ \A p \in ToSet(loads) : p = y.principal.id
      <4>1. SUFFICES ASSUME ~ me.batch, NEW y \in ToSet(asked.missed)
                     PROVE  /\ Len(me.got[y.principal.id]) + Len(loads) = 2
                            /\ \A p \in ToSet(loads) : p = y.principal.id
        OBVIOUS
      <4>2. Len(asked.missed) = 1
        <5>1. Len(asked.missed) <= 1 /\ asked.missed \in Seq(PolRequests) /\ asked.missed # << >>
          BY <1>11, <1>12, <2>3, <4>1
        <5>2. PICK n \in Nat : n = Len(asked.missed) /\ n # 0
          BY ONLY <5>1
        <5>3. n <= 1
          BY ONLY <5>1, <5>2
        <5>4. n = 1
          <6>1. n # 0
            BY ONLY <5>2
          <6>2. \A k \in Nat : k <= 1 /\ k # 0 => k = 1
            OBVIOUS
          <6>. QED  BY ONLY n \in Nat, <5>3, <6>1, <6>2
        <5>. QED  BY <5>2, <5>4
      <4>3. y = x /\ y \in PolRequests
        BY <1>11, <3>5, <4>2 DEF ToSet
      <4>4. loads = [j \in 1 .. 2 |-> y.principal.id]
        BY <3>2, <3>5, <4>2, <4>3
      <4>5. me.got[y.principal.id] = << >>
        BY <1>13, <4>3 DEF PolPrincipals
      <4>6. Len(loads) = 2
        BY <4>4
      <4>. QED  BY <4>4, <4>5, <4>6 DEF ToSet
    <3>8. PolReading(last)
      BY <1>11, <2>3, <3>2, <3>4, <3>6, <3>7 DEF PolReading
    <3>. QED  BY <1>11, <1>14, <3>4, <3>8 DEF PolCallInv
  <2>. QED  BY <2>1, <2>2, <2>3
<1>. QED  BY <1>1, <1>15, PolOnlyCall

\* A call reads the store for the next of its loads.
LEMMA PolLoadKeeps ==
  ASSUME PolInv, NEW c \in PolCallers, PolLoad(c)
  PROVE  PolInv'
<1> DEFINE me   == polCall[c]
           next == [me EXCEPT !.loads = Tail(@), !.got[Head(me.loads)] = Append(@, polVersion)]
           last == IF next.loads = << >> THEN [next EXCEPT !.at = "decide"] ELSE next
<1>1. /\ me.at = "load" /\ polCall' = [polCall EXCEPT ![c] = last]
      /\ UNCHANGED <<polVersion, polCache, polNow, polCleared, polRaced>>
  BY DEF PolLoad, PolGoTo
<1>2. PolCallInv(me, polCleared, polRaced) /\ me \in PolCallRecords /\ PolReading(me)
  BY DEF PolInv, PolCallInv
<1>3. next = [me EXCEPT !.loads = Tail(@), !.got[Head(me.loads)] = Append(@, polVersion)]
  OBVIOUS
<1>4. last = IF next.loads = << >> THEN [next EXCEPT !.at = "decide"] ELSE next
  OBVIOUS
<1>. HIDE DEF me, next, last
<1>5. PICK p : p = Head(me.loads)
  OBVIOUS
<1>6. PICK rest : rest = Tail(me.loads)
  OBVIOUS
<1>7. /\ me.loads \in Seq(PolPrincipals) /\ me.loads # << >> /\ me.got \in [PolPrincipals -> Seq(PolVersions)]
      /\ p \in PolPrincipals /\ rest \in Seq(PolPrincipals) /\ Len(rest) = Len(me.loads) - 1
      /\ ToSet(me.loads) = {p} \cup ToSet(rest)
  <2>1. me.loads \in Seq(PolPrincipals) /\ me.loads # << >> /\ me.got \in [PolPrincipals -> Seq(PolVersions)]
    BY <1>1, <1>2 DEF PolCallRecords, PolReading
  <2>2. p \in PolPrincipals /\ rest \in Seq(PolPrincipals) /\ Len(rest) = Len(me.loads) - 1
    BY <1>5, <1>6, <2>1
  <2>. QED  BY <1>5, <1>6, <2>1, <2>2, ToSetHeadTail
<1>8. PICK got : got = [me.got EXCEPT ![p] = Append(@, polVersion)]
  OBVIOUS
<1>9. /\ got \in [PolPrincipals -> Seq(PolVersions)] /\ got[p] # << >> /\ Len(got[p]) = Len(me.got[p]) + 1
      /\ \A q \in PolPrincipals \ {p} : got[q] = me.got[q]
  <2>1. me.got[p] \in Seq(PolVersions) /\ polVersion \in PolVersions
    BY <1>7 DEF PolInv
  <2>2. PICK s : s = Append(me.got[p], polVersion)
    OBVIOUS
  <2>3. s \in Seq(PolVersions) /\ s # << >> /\ Len(s) = Len(me.got[p]) + 1
    BY <2>1, <2>2
  <2>. QED  BY <1>7, <1>8, <2>2, <2>3
<1>10. /\ next \in PolCallRecords /\ next.loads = rest /\ next.got = got /\ next.at = "load" /\ next.batch = me.batch
       /\ next.missed = me.missed /\ next.answers = me.answers /\ next.since = me.since
  <2>1. next = [me EXCEPT !.loads = rest, !.got = got]
    BY <1>2, <1>3, <1>5, <1>6, <1>8 DEF PolCallRecords
  <2>. QED  BY <1>1, <1>2, <1>7, <1>9, <2>1 DEF PolCallRecords
<1>11. /\ me.missed # << >> /\ me.missed \in Seq(PolRequests)
       /\ \A r \in ToSet(me.missed) : r.principal.id \in PolPrincipals
  <2>1. me.missed # << >> /\ me.missed \in Seq(PolRequests)
    BY <1>1, <1>2 DEF PolCallRecords, PolReading
  <2>2. \A r \in ToSet(me.missed) : r \in PolRequests
    BY <2>1 DEF ToSet
  <2>. QED  BY <2>1, <2>2 DEF PolPrincipals
<1>12. \A r \in ToSet(me.missed) : got[r.principal.id] # << >> \/ r.principal.id \in ToSet(rest)
  <2>1. \A r \in ToSet(me.missed) : me.got[r.principal.id] # << >> \/ r.principal.id \in ToSet(me.loads)
    BY <1>1, <1>2 DEF PolReading
  <2>. QED  BY <1>7, <1>9, <1>11, <2>1
<1>13. ~ me.batch => \A r \in ToSet(me.missed) : /\ Len(got[r.principal.id]) + Len(rest) = 2
                                                 /\ \A q \in ToSet(rest) : q = r.principal.id
  <2>1. SUFFICES ASSUME ~ me.batch, NEW r \in ToSet(me.missed)
                 PROVE  Len(got[r.principal.id]) + Len(rest) = 2 /\ \A q \in ToSet(rest) : q = r.principal.id
    OBVIOUS
  <2>2. Len(me.got[r.principal.id]) + Len(me.loads) = 2 /\ \A q \in ToSet(me.loads) : q = r.principal.id
    BY <1>1, <1>2, <2>1 DEF PolReading
  <2>3. r.principal.id = p
    BY <1>7, <2>2
  <2>4. Len(me.got[p]) \in Nat /\ Len(me.loads) \in Nat
    BY <1>7
  <2>5. PICK m \in Nat, n \in Nat : m = Len(me.got[p]) /\ n = Len(me.loads)
    BY <2>4
  <2>6. m + n = 2 /\ Len(got[p]) = m + 1 /\ Len(rest) = n - 1
    BY <1>7, <1>9, <2>2, <2>3, <2>5
  <2>7. Len(got[p]) + Len(rest) = 2
    BY ONLY m \in Nat, n \in Nat, <2>6
  <2>. QED  BY <1>7, <2>2, <2>3, <2>7
<1>14. PolCallInv(last, polCleared, polRaced)
  <2>1. CASE rest # << >>
    <3>1. last = next
      BY <1>4, <1>10, <2>1
    <3>2. PolReading(next)
      BY <1>10, <1>11, <1>12, <1>13, <2>1 DEF PolReading
    <3>. QED  BY <1>2, <1>10, <3>1, <3>2 DEF PolCallInv
  <2>2. CASE rest = << >>
    <3>1. last = [next EXCEPT !.at = "decide"]
      BY <1>4, <1>10, <2>2
    <3>2. /\ last \in PolCallRecords /\ last.at = "decide" /\ last.batch = me.batch /\ last.missed = me.missed
          /\ last.got = got /\ last.answers = me.answers /\ last.since = me.since
      BY <1>10, <3>1 DEF PolCallRecords
    <3>3. ToSet(rest) = {} /\ Len(rest) = 0
      BY <2>2 DEF ToSet
    <3>4. ASSUME NEW r \in ToSet(me.missed)
          PROVE  got[r.principal.id] # << >> /\ (~ me.batch => Len(got[r.principal.id]) = 2)
      <4>1. Len(got[r.principal.id]) \in Nat
        BY <1>9, <1>11
      <4>. QED  BY <1>12, <1>13, <3>3, <4>1
    <3>5. PolReading(last)
      BY <1>11, <3>2, <3>4 DEF PolReading
    <3>. QED  BY <1>2, <3>2, <3>5 DEF PolCallInv
  <2>. QED  BY <2>1, <2>2
<1>. QED  BY <1>1, <1>14, PolOnlyCall

-----------------------------------------------------------------------------
\* What is put into the cache, and what stays there.
LEMMA PutKeeps ==
  ASSUME NEW e \in PolEntries, polCache \in Seq(PolEntries)
  PROVE  PolPut(e) \in Seq(PolEntries) /\ ToSet(PolPut(e)) \subseteq ToSet(polCache) \cup {e}
<1> DEFINE Test(x) == x.request = e.request
           kept == RemoveFirstMatch(polCache, LAMBDA x : x.request = e.request)
           all  == Append(kept, e)
<1>1. PolPut(e) = IF Len(all) > PolCapacity THEN Tail(all) ELSE all
  BY DEF PolPut
<1>2. kept = polCache \/ \E i \in 1 .. Len(polCache) : kept = SubSeq(polCache, 1, i - 1) \o SubSeq(polCache, i + 1, Len(polCache))
  <2>1. CASE \E i \in 1 .. Len(polCache) : polCache[i].request = e.request
    <3> DEFINE I == {i \in 1 .. Len(polCache) : polCache[i].request = e.request}
               k == SelectInSeq(polCache, LAMBDA x : x.request = e.request)
    <3>1. kept = RemoveAt(polCache, k)
      BY <2>1 DEF RemoveFirstMatch
    <3>2. k \in 1 .. Len(polCache)
      <4>1. k = Min(I)
        BY <2>1 DEF SelectInSeq
      <4>2. I # {} /\ I \subseteq Nat
        BY <2>1
      <4>. HIDE DEF I, k, kept
      <4>3. Min(I) \in I
        <5>1. PICK i \in I : \A j \in I : ~ (<<j, i>> \in OpToRel(<, Nat))
          BY <4>2, NatLessThanWellFounded, WFMin
        <5>2. ASSUME NEW j \in I PROVE i <= j
          <6>1. i \in Nat /\ j \in Nat /\ ~ (j < i)
            BY <4>2, <5>1 DEF OpToRel
          <6>. QED  BY ONLY <6>1
        <5>. QED  BY <5>2 DEF Min
      <4>. QED  BY <4>1, <4>3 DEF I
    <3>. QED  BY <3>1, <3>2 DEF RemoveAt
  <2>2. CASE ~ \E i \in 1 .. Len(polCache) : polCache[i].request = e.request
    BY <2>2 DEF RemoveFirstMatch
  <2>. QED  BY <2>1, <2>2
<1>. HIDE DEF kept
<1>3. kept \in Seq(PolEntries) /\ ToSet(kept) \subseteq ToSet(polCache)
  <2>1. CASE kept = polCache
    BY <2>1
  <2>2. ASSUME NEW i \in 1 .. Len(polCache),
               kept = SubSeq(polCache, 1, i - 1) \o SubSeq(polCache, i + 1, Len(polCache))
        PROVE  kept \in Seq(PolEntries) /\ ToSet(kept) \subseteq ToSet(polCache)
    <3>1. PICK a : a = SubSeq(polCache, 1, i - 1)
      OBVIOUS
    <3>2. PICK b : b = SubSeq(polCache, i + 1, Len(polCache))
      OBVIOUS
    <3>3. a \in Seq(PolEntries) /\ b \in Seq(PolEntries)
      BY <3>1, <3>2
    <3>4. ToSet(a) \subseteq ToSet(polCache)
      BY <3>1 DEF ToSet
    <3>5. ToSet(b) \subseteq ToSet(polCache)
      BY <3>2 DEF ToSet
    <3>6. kept = a \o b
      BY <2>2, <3>1, <3>2
    <3>. QED  BY <3>3, <3>4, <3>5, <3>6, ToSetConcat
  <2>. QED  BY <1>2, <2>1, <2>2
<1>4. all \in Seq(PolEntries) /\ all # << >> /\ ToSet(all) = ToSet(kept) \cup {e}
  BY <1>3, ToSetAppend
<1>. HIDE DEF all
<1>5. Tail(all) \in Seq(PolEntries) /\ ToSet(Tail(all)) \subseteq ToSet(all)
  BY <1>4, ToSetHeadTail
<1>. QED  BY <1>1, <1>3, <1>4, <1>5

\* What is decided on what was read.
LEMMA DecidedEntry ==
  ASSUME NEW r \in PolRequests, NEW vs \in Seq(PolVersions), vs # << >>, NEW batch \in BOOLEAN,
         ~ batch => Len(vs) = 2, polNow \in Nat
  PROVE  [request |-> r, decision |-> Evaluate(r, PolJoined(vs, batch)), at |-> polNow, versions |-> vs]
           \in PolEntries
<1>1. PICK ps \in Seq(PolPolicies) : ps = PolJoined(vs, batch)
  BY JoinedTyped
<1>2. PICK d \in PolDecisions : d = Evaluate(r, ps) /\ d.allowed = Verdict(r, ToSet(ps))
  BY EvaluateIsVerdict
<1>3. PICK e : e = [request |-> r, decision |-> d, at |-> polNow, versions |-> vs]
  OBVIOUS
<1>4. /\ e \in [request : PolRequests, decision : PolDecisions, at : Nat, versions : Seq(PolVersions)]
      /\ e.request = r /\ e.decision = d /\ e.versions = vs
  BY <1>3
<1>5. \/ \E v \in ToSet(vs) : d.allowed = Verdict(r, PolList(v))
      \/ \E v, w \in ToSet(vs) : PolEdited(v, w)
  <2>1. SUFFICES ASSUME ~ \E v, w \in ToSet(vs) : PolEdited(v, w)
                 PROVE  \E v \in ToSet(vs) : d.allowed = Verdict(r, PolList(v))
    OBVIOUS
  <2>2. ToSet(ps) = UNION {PolList(v) : v \in ToSet(vs)}
    BY <1>1, <2>1, JoinedHolds
  <2>3. PICK Ls : Ls = {PolList(v) : v \in ToSet(vs)}
    OBVIOUS
  <2>4. Ls # {}
    <3>1. 1 \in DOMAIN vs
      OBVIOUS
    <3>. QED  BY <2>3, <3>1 DEF ToSet
  <2>5. PICK L \in Ls : Verdict(r, UNION Ls) = Verdict(r, L)
    BY <2>4, OneListSays
  <2>. QED  BY <1>2, <2>2, <2>3, <2>5
<1>6. e \in PolEntries
  BY <1>4, <1>5 DEF PolEntries
<1>. QED  BY <1>1, <1>2, <1>3, <1>6

\* A call decides on a request and caches the decision.
LEMMA PolDecideKeeps ==
  ASSUME PolInv, NEW c \in PolCallers, PolDecide(c)
  PROVE  PolInv'
<1> DEFINE me   == polCall[c]
           r    == Head(me.missed)
           vs   == me.got[r.principal.id]
           e    == [request |-> r, decision |-> Evaluate(r, PolJoined(vs, me.batch)), at |-> polNow, versions |-> vs]
           next == [me EXCEPT !.missed = Tail(@), !.answers = Append(@, e)]
           last == IF next.missed = << >> THEN [next EXCEPT !.at = "done", !.got = PolIdle.got] ELSE next
<1>1. /\ me.at = "decide" /\ polCall' = [polCall EXCEPT ![c] = last] /\ polCache' = PolPut(e)
      /\ UNCHANGED <<polVersion, polNow, polCleared>>
  BY DEF PolDecide, PolGoTo
<1>2. polRaced' = (polRaced \/ \E i \in DOMAIN vs : vs[i] < polCleared)
  BY DEF PolDecide
<1>3. PolCallInv(me, polCleared, polRaced) /\ me \in PolCallRecords /\ PolReading(me)
  BY DEF PolInv, PolCallInv
<1>4. last = IF next.missed = << >> THEN [next EXCEPT !.at = "done", !.got = PolIdle.got] ELSE next
  OBVIOUS
<1>. HIDE DEF last
<1>5. next = [me EXCEPT !.missed = Tail(@), !.answers = Append(@, e)]
  OBVIOUS
<1>. HIDE DEF next, me
<1>6. /\ me.missed \in Seq(PolRequests) /\ me.missed # << >> /\ r \in PolRequests /\ Tail(me.missed) \in Seq(PolRequests)
      /\ ToSet(me.missed) = {r} \cup ToSet(Tail(me.missed))
  <2>1. me.missed \in Seq(PolRequests) /\ me.missed # << >>
    BY <1>1, <1>3 DEF PolCallRecords, PolReading
  <2>. QED  BY <2>1, ToSetHeadTail
<1>7. vs \in Seq(PolVersions) /\ vs # << >> /\ (~ me.batch => Len(vs) = 2) /\ me.batch \in BOOLEAN
  <2>1. r \in ToSet(me.missed) /\ r.principal.id \in PolPrincipals
    BY <1>6 DEF PolPrincipals
  <2>2. me.got \in [PolPrincipals -> Seq(PolVersions)] /\ me.batch \in BOOLEAN
    BY <1>3 DEF PolCallRecords
  <2>. QED  BY <1>1, <1>3, <2>1, <2>2 DEF PolReading
<1>8. polNow \in Nat /\ polCache \in Seq(PolEntries) /\ polRaced \in BOOLEAN /\ polCleared \in Nat
  BY DEF PolInv, PolVersions
<1>. HIDE DEF r, vs
<1>9. e \in PolEntries
  BY <1>6, <1>7, <1>8, DecidedEntry
<1>10. e.versions = vs
  OBVIOUS
<1>. HIDE DEF e
<1>11. polCache' \in Seq(PolEntries) /\ ToSet(polCache') \subseteq ToSet(polCache) \cup {e}
  BY <1>1, <1>8, <1>9, PutKeeps
<1>12. polRaced' \in BOOLEAN /\ (~ polRaced' => ~ polRaced)
  BY <1>2, <1>8
<1>13. ~ polRaced' => \A w \in ToSet(e.versions) : w \in Nat /\ w >= polCleared
  <2>1. \A w \in ToSet(vs) : w \in Nat
    BY <1>7, PolVersionsTyped DEF ToSet
  <2>2. ~ polRaced' => ~ \E i \in DOMAIN vs : vs[i] < polCleared
    BY <1>2
  <2>3. ~ polRaced' => \A w \in ToSet(vs) : ~ (w < polCleared)
    BY <2>2 DEF ToSet
  <2>. QED  BY <1>8, <1>10, <2>1, <2>3
<1>14. ~ polRaced' => PolNoOlder(polCache', polCleared)
  BY <1>11, <1>12, <1>13 DEF PolInv, PolNoOlder
<1>15. /\ next \in PolCallRecords /\ next.at = "decide" /\ next.missed = Tail(me.missed) /\ next.got = me.got
       /\ next.batch = me.batch /\ next.since = me.since /\ next.answers = Append(me.answers, e)
       /\ me.answers \in Seq(PolEntries)
  <2>1. me.answers \in Seq(PolEntries) /\ Append(me.answers, e) \in Seq(PolEntries)
    BY <1>3, <1>9 DEF PolCallRecords
  <2>. QED  BY <1>1, <1>3, <1>5, <1>6, <2>1 DEF PolCallRecords
<1>16. me.since \in Nat /\ me.since <= polCleared
  BY <1>3 DEF PolCallInv, PolCallRecords
<1>17. ~ polRaced' => PolNoOlder(next.answers, next.since)
  <2>1. SUFFICES ASSUME ~ polRaced' PROVE PolNoOlder(next.answers, next.since)
    OBVIOUS
  <2>2. \A w \in ToSet(e.versions) : w >= me.since
    <3>1. \A w, v, u \in Nat : w >= v /\ u <= v => w >= u
      OBVIOUS
    <3>. QED  BY <1>8, <1>13, <1>16, <2>1, <3>1
  <2>3. ToSet(next.answers) = ToSet(me.answers) \cup {e}
    BY <1>9, <1>15, ToSetAppend
  <2>4. PolNoOlder(me.answers, me.since)
    BY <1>3, <1>12, <2>1 DEF PolCallInv
  <2>. QED  BY <1>15, <2>2, <2>3, <2>4 DEF PolNoOlder
<1>18. PolCallInv(last, polCleared, polRaced')
  <2>1. CASE next.missed # << >>
    <3>1. last = next
      BY <1>4, <2>1
    <3>2. PolReading(next)
      BY <1>1, <1>3, <1>6, <1>15, <2>1 DEF PolReading
    <3>. QED  BY <1>15, <1>16, <1>17, <3>1, <3>2 DEF PolCallInv
  <2>2. CASE next.missed = << >>
    <3>1. last = [next EXCEPT !.at = "done", !.got = PolIdle.got]
      BY <1>4, <2>2
    <3>2. PolIdle.got \in [PolPrincipals -> Seq(PolVersions)]
      BY DEF PolIdle
    <3>3. last \in PolCallRecords /\ last.at = "done" /\ last.answers = next.answers /\ last.since = next.since
      BY <1>15, <3>1, <3>2 DEF PolCallRecords
    <3>4. PolReading(last)
      BY <3>3 DEF PolReading
    <3>. QED  BY <1>15, <1>16, <1>17, <3>3, <3>4 DEF PolCallInv
  <2>. QED  BY <2>1, <2>2
<1>19. \A d \in PolCallers : PolCallInv(polCall[d], polCleared, polRaced')
  BY <1>12 DEF PolInv, PolCallInv
<1>20. DOMAIN polCall' = PolCallers /\ \A d \in PolCallers : polCall'[d] = IF d = c THEN last ELSE polCall[d]
  BY <1>1 DEF PolInv
<1>21. \A d \in PolCallers : PolCallInv(polCall'[d], polCleared', polRaced')
  BY <1>1, <1>18, <1>19, <1>20
<1>22. polVersion' \in PolVersions /\ polCleared' \in 1 .. polVersion' /\ polNow' \in Nat
  BY <1>1 DEF PolInv
<1>. QED  BY <1>1, <1>11, <1>12, <1>14, <1>20, <1>21, <1>22 DEF PolInv

\* Every step keeps it.
LEMMA PolKeeps == PolInv /\ [PolNext]_polVars => PolInv'
<1>. SUFFICES ASSUME PolInv, [PolNext]_polVars PROVE PolInv'
  OBVIOUS
<1>1. ASSUME NEW c \in PolCallers, NEW r \in PolRequests, PolAsk(c, <<r>>, FALSE) PROVE PolInv'
  <2>1. <<r>> \in Seq(PolRequests)
    OBVIOUS
  <2>. QED  BY <1>1, <2>1, PolAskKeeps
<1>2. ASSUME NEW c \in PolCallers, NEW r \in PolRequests, NEW s \in PolRequests, PolAsk(c, <<r, s>>, TRUE)
      PROVE  PolInv'
  <2>1. <<r, s>> \in Seq(PolRequests)
    OBVIOUS
  <2>. QED  BY <1>2, <2>1, PolAskKeeps
<1>3. ASSUME NEW c \in PolCallers, PolLookup(c) \/ PolLoad(c) \/ PolDecide(c) \/ PolBreak(c) PROVE PolInv'
  BY <1>3, PolLookupKeeps, PolLoadKeeps, PolDecideKeeps, PolBreakKeeps
<1>4. CASE PolSwap \/ PolReload
  BY <1>4, PolSwapKeeps, PolReloads
<1>5. CASE PolTick \/ UNCHANGED polVars
  <2>1. UNCHANGED <<polVersion, polCache, polCall, polCleared, polRaced>> /\ polNow' \in Nat
    BY <1>5 DEF PolTick, polVars, PolInv
  <2>. QED  BY <2>1, PolTickKeeps
<1>. QED  BY <1>1, <1>2, <1>3, <1>4, <1>5 DEF PolNext

\* For every set of callers, requests and policies, and every cache, a decision
\* is the verdict of one list of policies the store held while it was made,
\* unless a policy was edited between the two it was made of, and without an
\* evaluation that overtook a reload it is of none the store held before the
\* last reload.
THEOREM DecisionsAreCurrent == PolSpec => []PolDecisionsCurrent
BY PolStarts, PolKeeps, PolInvFollows, PTL DEF PolSpec

-----------------------------------------------------------------------------
(* The embedding service *)

\* What a text or a vector may be.
EmbWords ==
  (UNION {ToSet(texts) : texts \in EmbLists}) \cup EmbTexts \cup {"block", "worker_block", "none"}

EmbTasks == [n : Nat \ {0}, text : EmbWords]
EmbSlotStates == [n : Nat \ {0}, text : EmbWords, at : {"send", "wait", "done", "pool"}, vector : EmbWords]

EmbTyped ==
  /\ embCall \in [EmbOwners -> Seq(EmbSlotStates)]
  /\ embTxs \in [EmbPool -> Seq(EmbTasks)] /\ embTurn \in Nat
  /\ embQueue \in Seq(EmbTasks) /\ embPending \in Seq(EmbTasks)
  /\ embRunning \in BOOLEAN /\ embIssued \in Nat /\ embFailures \in Nat

\* Whatever carries a number carries the text the number was given for, and a
\* vector that was delivered is that text.
EmbTasksNamed(tasks, name, issued) ==
  \A k \in DOMAIN tasks : tasks[k].n \in 1 .. issued /\ tasks[k].text = name[tasks[k].n]

EmbSlotsNamed(slots, name, issued) ==
  \A i \in DOMAIN slots :
    /\ slots[i].n \in 1 .. issued /\ slots[i].text = name[slots[i].n]
    /\ slots[i].at = "done" => slots[i].vector = name[slots[i].n]

EmbNamed(name, calls, txs, queue, pending, issued) ==
  /\ \A o \in EmbOwners : EmbSlotsNamed(calls[o], name, issued)
  /\ \A w \in EmbPool : EmbTasksNamed(txs[w], name, issued)
  /\ EmbTasksNamed(queue, name, issued) /\ EmbTasksNamed(pending, name, issued)

\* A text that is to be sent or waits is one call's; it is in the channel, or
\* still with a worker of the pool, once.
EmbAsking(slot) == slot.at \in {"send", "wait"}

EmbOnce(calls, txs, queue) ==
  /\ \A o, p \in EmbOwners : \A i \in DOMAIN calls[o] : \A j \in DOMAIN calls[p] :
       EmbAsking(calls[o][i]) /\ EmbAsking(calls[p][j]) /\ calls[o][i].n = calls[p][j].n => o = p /\ i = j
  /\ \A k, l \in DOMAIN queue : queue[k].n = queue[l].n => k = l
  /\ \A w, v \in EmbPool : \A k \in DOMAIN txs[w] : \A l \in DOMAIN txs[v] :
       txs[w][k].n = txs[v][l].n => w = v /\ k = l
  /\ \A w \in EmbPool : \A k \in DOMAIN txs[w] :
       /\ \A l \in DOMAIN queue : queue[l].n # txs[w][k].n
       /\ \A o \in EmbOwners : \A i \in DOMAIN calls[o] : EmbAsking(calls[o][i]) => calls[o][i].n # txs[w][k].n

\* Nothing is forgotten.
EmbHas(tasks, n) == \E k \in DOMAIN tasks : tasks[k].n = n

EmbSlotKept(s, calls, txs, queue, pending) ==
  /\ s.at = "send" => EmbHas(queue, s.n)
  /\ s.at = "wait" => EmbHas(queue, s.n) \/ EmbHas(pending, s.n)
  /\ s.at = "pool" => \E w \in EmbPool : EmbHas(txs[w], s.n) \/ EmbHas(calls[w], s.n)

EmbKept(calls, txs, queue, pending) ==
  /\ \A o \in EmbOwners : \A i \in DOMAIN calls[o] : EmbSlotKept(calls[o][i], calls, txs, queue, pending)
  /\ \A w \in EmbPool : Len(calls[w]) <= 1 /\ \A i \in DOMAIN calls[w] : calls[w][i].at # "pool"

\* What was sent stands before what waits for room; a batch grows by what failed.
EmbUnsent(calls, n) == \E o \in EmbOwners : \E i \in DOMAIN calls[o] : calls[o][i].n = n /\ calls[o][i].at = "send"
EmbRoom(calls, queue) == \A k \in DOMAIN queue : EmbUnsent(calls, queue[k].n) \/ k <= EmbCapacity

EmbBatched(pending, running, failures) ==
  /\ Len(pending) <= EmbBatch + failures
  /\ ~ running => Len(pending) < EmbBatch + failures

EmbInv ==
  /\ EmbTyped
  /\ \E name \in [1 .. embIssued -> EmbWords] :
       EmbNamed(name, embCall, embTxs, embQueue, embPending, embIssued)
  /\ EmbOnce(embCall, embTxs, embQueue)
  /\ EmbKept(embCall, embTxs, embQueue, embPending)
  /\ EmbRoom(embCall, embQueue)
  /\ EmbBatched(embPending, embRunning, embFailures)

\* The inductive invariant gives what the runs check.
LEMMA EmbInvSound == EmbInv => EmbeddingsSound
<1>. SUFFICES ASSUME EmbInv PROVE EmbeddingsSound
  OBVIOUS
<1>1. PICK name \in [1 .. embIssued -> EmbWords] :
        EmbNamed(name, embCall, embTxs, embQueue, embPending, embIssued)
  BY DEF EmbInv
<1>2. ASSUME NEW s \in EmbSlots("done") PROVE s.vector = s.text
  BY <1>1, <1>2 DEF EmbSlots, EmbNamed, EmbSlotsNamed, ToSet
<1>3. \A tasks, n : EmbHas(tasks, n) => n \in EmbNumbers(tasks)
  BY DEF EmbHas, EmbNumbers, ToSet
<1>4. ASSUME NEW at, NEW s \in EmbSlots(at)
      PROVE  s.at = at /\ EmbSlotKept(s, embCall, embTxs, embQueue, embPending)
  BY <1>4 DEF EmbInv, EmbKept, EmbSlots, ToSet
<1>5. ASSUME NEW s \in EmbSlots("wait") PROVE s.n \in EmbNumbers(embQueue) \cup EmbNumbers(embPending)
  BY <1>3, <1>4 DEF EmbSlotKept
<1>6. ASSUME NEW s \in EmbSlots("pool")
      PROVE  \/ \E w \in EmbPool : s.n \in EmbNumbers(embTxs[w])
             \/ \E w \in EmbPool : \E x \in ToSet(embCall[w]) : x.n = s.n
  <2>1. \E w \in EmbPool : EmbHas(embTxs[w], s.n) \/ EmbHas(embCall[w], s.n)
    BY <1>4 DEF EmbSlotKept
  <2>2. \A calls, n : EmbHas(calls, n) => \E x \in ToSet(calls) : x.n = n
    BY DEF EmbHas, ToSet
  <2>. QED  BY <1>3, <2>1, <2>2
<1>7. Cardinality(EmbSent) <= EmbCapacity
  <2>1. EmbCapacity \in Nat
    BY EmbConstants
  <2>2. EmbSent \subseteq 1 .. EmbCapacity
    BY <2>1 DEF EmbInv, EmbTyped, EmbRoom, EmbUnsent, EmbSent
  <2>3. IsFiniteSet(1 .. EmbCapacity) /\ Cardinality(1 .. EmbCapacity) = EmbCapacity
    BY <2>1, FS_Interval
  <2>4. Cardinality(EmbSent) <= Cardinality(1 .. EmbCapacity)
    BY ONLY <2>2, <2>3, FS_Subset
  <2>. QED  BY ONLY <2>3, <2>4
<1>8. Len(embPending) <= EmbBatch + embFailures
  BY DEF EmbInv, EmbBatched
<1>. QED  BY <1>2, <1>5, <1>6, <1>7, <1>8 DEF EmbeddingsSound

LEMMA EmbStarts == EmbInit => EmbInv
<1>. SUFFICES ASSUME EmbInit PROVE EmbInv
  OBVIOUS
<1>1. /\ \A o \in EmbOwners : embCall[o] = << >>
      /\ \A w \in EmbPool : embTxs[w] = << >> /\ w \in EmbOwners
      /\ embQueue = << >> /\ embPending = << >> /\ embIssued = 0 /\ embFailures = 0
      /\ embTurn = 0 /\ embRunning = FALSE
      /\ DOMAIN << >> = {} /\ Len(<< >>) = 0
  BY DEF EmbInit, EmbOwners
<1>2. EmbTyped
  <2>1. \A S : << >> \in Seq(S)
    OBVIOUS
  <2>2. embCall \in [EmbOwners -> Seq(EmbSlotStates)] /\ embTxs \in [EmbPool -> Seq(EmbTasks)]
    BY <2>1 DEF EmbInit
  <2>. QED  BY <1>1, <2>1, <2>2 DEF EmbTyped
<1>3. PICK name : name = [n \in 1 .. 0 |-> ""]
  OBVIOUS
<1>4. name \in [1 .. embIssued -> EmbWords]
  BY <1>1, <1>3
<1>5. EmbNamed(name, embCall, embTxs, embQueue, embPending, embIssued)
  BY <1>1 DEF EmbNamed, EmbSlotsNamed, EmbTasksNamed
<1>6. EmbOnce(embCall, embTxs, embQueue) /\ EmbKept(embCall, embTxs, embQueue, embPending) /\ EmbRoom(embCall, embQueue)
  BY <1>1 DEF EmbOnce, EmbKept, EmbRoom
<1>7. EmbBatched(embPending, embRunning, embFailures)
  <2>1. EmbBatch \in Nat /\ EmbBatch > 0
    BY EmbConstants
  <2>. QED  BY <1>1, <2>1 DEF EmbBatched
<1>. QED  BY <1>2, <1>4, <1>5, <1>6, <1>7 DEF EmbInv

\* A pause, or a failure of the model.
LEMMA EmbPauses ==
  ASSUME EmbInv, EmbTick \/ EmbFail
  PROVE  EmbInv'
<1>1. UNCHANGED <<embCall, embTxs, embTurn, embQueue, embPending, embIssued>>
  BY DEF EmbTick, EmbFail
<1>2. PICK n \in Nat, m \in Nat, b \in Nat : n = Len(embPending) /\ m = embFailures /\ b = EmbBatch
  BY EmbConstants DEF EmbInv, EmbTyped
<1>3. n <= b + m /\ (~ embRunning => n < b + m)
  BY <1>2 DEF EmbInv, EmbBatched
<1>4. \/ embRunning' = TRUE /\ embFailures' = m
      \/ embRunning' = FALSE /\ embFailures' = m + 1
  BY <1>2 DEF EmbTick, EmbFail
<1>5. embRunning' \in BOOLEAN /\ embFailures' \in Nat
  <2>1. m \in Nat /\ m + 1 \in Nat
    OBVIOUS
  <2>. QED  BY ONLY <1>4, <2>1
<1>6. n <= b + embFailures' /\ (~ embRunning' => n < b + embFailures')
  <2>1. n < b + (m + 1) /\ n <= b + (m + 1)
    BY ONLY <1>3, n \in Nat, m \in Nat, b \in Nat
  <2>. QED  BY <1>3, <1>4, <2>1
<1>7. EmbTyped' /\ EmbBatched(embPending', embRunning', embFailures')
  BY <1>1, <1>2, <1>5, <1>6 DEF EmbInv, EmbTyped, EmbBatched
<1>. QED  BY <1>1, <1>7 DEF EmbInv

\* Answers reach the slots that wait for them and change nothing else.
LEMMA EmbDeliveredFacts ==
  ASSUME NEW calls \in [EmbOwners -> Seq(EmbSlotStates)], NEW answers, NEW at \in {"wait", "pool"},
         \A n \in DOMAIN answers : answers[n] \in EmbWords
  PROVE  LET d == EmbDelivered(calls, answers, at) IN
         /\ d \in [EmbOwners -> Seq(EmbSlotStates)]
         /\ \A o \in EmbOwners :
              /\ Len(d[o]) = Len(calls[o]) /\ DOMAIN d[o] = DOMAIN calls[o]
              /\ \A i \in DOMAIN d[o] :
                   /\ d[o][i].n = calls[o][i].n /\ d[o][i].text = calls[o][i].text
                   /\ \/ d[o][i] = calls[o][i] /\ ~ (calls[o][i].at = at /\ calls[o][i].n \in DOMAIN answers)
                      \/ /\ calls[o][i].at = at /\ calls[o][i].n \in DOMAIN answers
                         /\ d[o][i].at = "done" /\ d[o][i].vector = answers[calls[o][i].n]
<1> DEFINE d == EmbDelivered(calls, answers, at)
           New(s) == IF s.at = at /\ s.n \in DOMAIN answers
                     THEN [s EXCEPT !.at = "done", !.vector = answers[s.n]] ELSE s
<1>1. ASSUME NEW s \in EmbSlotStates
      PROVE  /\ New(s) \in EmbSlotStates /\ New(s).n = s.n /\ New(s).text = s.text
             /\ \/ New(s) = s /\ ~ (s.at = at /\ s.n \in DOMAIN answers)
                \/ /\ s.at = at /\ s.n \in DOMAIN answers
                   /\ New(s).at = "done" /\ New(s).vector = answers[s.n]
  BY <1>1 DEF EmbSlotStates
<1>2. d = [o \in EmbOwners |-> [i \in DOMAIN calls[o] |-> New(calls[o][i])]]
  BY DEF EmbDelivered
<1>. HIDE DEF New, d
<1>3. ASSUME NEW o \in EmbOwners
      PROVE  /\ d[o] \in Seq(EmbSlotStates) /\ DOMAIN d[o] = DOMAIN calls[o] /\ Len(d[o]) = Len(calls[o])
             /\ \A i \in DOMAIN d[o] : d[o][i] = New(calls[o][i]) /\ calls[o][i] \in EmbSlotStates
  <2>1. PICK s \in Seq(EmbSlotStates) : s = calls[o]
    OBVIOUS
  <2>2. PICK n \in Nat : n = Len(s) /\ DOMAIN s = 1 .. n
    OBVIOUS
  <2>3. d[o] = [i \in 1 .. n |-> New(s[i])]
    BY <1>2, <2>1, <2>2
  <2>4. \A i \in 1 .. n : s[i] \in EmbSlotStates
    BY <2>2
  <2>5. \A i \in 1 .. n : New(s[i]) \in EmbSlotStates
    BY <1>1, <2>4
  <2>6. [i \in 1 .. n |-> New(s[i])] \in Seq(EmbSlotStates)
    BY <2>2, <2>5
  <2>7. Len([i \in 1 .. n |-> New(s[i])]) = n
    BY <2>2
  <2>. QED  BY <2>1, <2>2, <2>3, <2>4, <2>6, <2>7
<1>4. d \in [EmbOwners -> Seq(EmbSlotStates)]
  BY <1>2, <1>3
<1>. QED  BY <1>1, <1>3, <1>4 DEF d

\* There is room for a text.
LEMMA EmbSendKeeps ==
  ASSUME EmbInv, NEW o \in EmbOwners, EmbSend(o)
  PROVE  EmbInv'
<1>1. PICK i \in DOMAIN embCall[o] :
        /\ embCall[o][i].at = "send"
        /\ \E k \in DOMAIN embQueue : k <= EmbCapacity /\ embQueue[k].n = embCall[o][i].n
        /\ embCall' = [embCall EXCEPT ![o][i].at = "wait"]
        /\ UNCHANGED <<embTxs, embTurn, embQueue, embPending, embRunning, embIssued, embFailures>>
  BY DEF EmbSend
<1>2. PICK k \in DOMAIN embQueue : k <= EmbCapacity /\ embQueue[k].n = embCall[o][i].n
  BY <1>1
<1>3. embCall \in [EmbOwners -> Seq(EmbSlotStates)]
  BY DEF EmbInv, EmbTyped
<1>4. /\ embCall' \in [EmbOwners -> Seq(EmbSlotStates)]
      /\ \A p \in EmbOwners :
           /\ Len(embCall'[p]) = Len(embCall[p]) /\ DOMAIN embCall'[p] = DOMAIN embCall[p]
           /\ \A j \in DOMAIN embCall[p] :
                /\ embCall'[p][j].n = embCall[p][j].n /\ embCall'[p][j].text = embCall[p][j].text
                /\ IF p = o /\ j = i THEN embCall'[p][j].at = "wait" ELSE embCall'[p][j] = embCall[p][j]
  <2>1. PICK s \in Seq(EmbSlotStates) : s = embCall[o] /\ i \in DOMAIN s
    BY <1>3
  <2>2. s[i] \in EmbSlotStates
    BY <2>1
  <2>3. PICK x \in EmbSlotStates : x = [s[i] EXCEPT !.at = "wait"]
    BY <2>2 DEF EmbSlotStates
  <2>4. x.n = s[i].n /\ x.text = s[i].text /\ x.at = "wait"
    BY <2>2, <2>3 DEF EmbSlotStates
  <2>5. PICK t : t = [s EXCEPT ![i] = x]
    OBVIOUS
  <2>6. t \in Seq(EmbSlotStates) /\ Len(t) = Len(s) /\ DOMAIN t = DOMAIN s
    BY <2>1, <2>5
  <2>7. \A j \in DOMAIN s : t[j] = IF j = i THEN x ELSE s[j]
    BY <2>5
  <2>8. embCall' = [embCall EXCEPT ![o] = t]
    BY <1>1, <2>1, <2>3, <2>5
  <2>9. \A p \in EmbOwners : embCall'[p] = IF p = o THEN t ELSE embCall[p]
    BY <1>3, <2>8
  <2>10. embCall' \in [EmbOwners -> Seq(EmbSlotStates)]
    BY <1>3, <2>6, <2>8
  <2>. QED  BY <2>1, <2>4, <2>6, <2>7, <2>9, <2>10
<1>5. EmbTyped'
  BY <1>1, <1>4 DEF EmbInv, EmbTyped
<1>6. ASSUME NEW name, EmbNamed(name, embCall, embTxs, embQueue, embPending, embIssued)
      PROVE  EmbNamed(name, embCall', embTxs, embQueue, embPending, embIssued)
  BY <1>4, <1>6 DEF EmbNamed, EmbSlotsNamed
<1>7. EmbOnce(embCall', embTxs, embQueue)
  <2>1. \A p \in EmbOwners : \A j \in DOMAIN embCall'[p] :
          /\ j \in DOMAIN embCall[p] /\ embCall'[p][j].n = embCall[p][j].n
          /\ EmbAsking(embCall'[p][j]) <=> EmbAsking(embCall[p][j])
    BY <1>1, <1>4 DEF EmbAsking
  <2>2. EmbOnce(embCall, embTxs, embQueue)
    BY DEF EmbInv
  <2>. HIDE DEF EmbAsking
  <2>. QED  BY ONLY <2>1, <2>2 DEF EmbOnce
<1>8. EmbKept(embCall', embTxs, embQueue, embPending)
  <2>1. \A w \in EmbPool : w \in EmbOwners
    BY DEF EmbOwners
  <2>2. EmbHas(embQueue, embCall[o][i].n)
    BY <1>2 DEF EmbHas
  <2>3. \A n : \A w \in EmbPool : EmbHas(embCall[w], n) => EmbHas(embCall'[w], n)
    BY <1>4, <2>1 DEF EmbHas
  <2>4. ASSUME NEW p \in EmbOwners, NEW j \in DOMAIN embCall'[p]
        PROVE  EmbSlotKept(embCall'[p][j], embCall', embTxs, embQueue, embPending)
    <3>1. j \in DOMAIN embCall[p] /\ EmbSlotKept(embCall[p][j], embCall, embTxs, embQueue, embPending)
      BY <1>4 DEF EmbInv, EmbKept
    <3>2. CASE p = o /\ j = i
      BY <1>4, <2>2, <3>1, <3>2 DEF EmbSlotKept
    <3>3. CASE ~ (p = o /\ j = i)
      BY <1>4, <2>3, <3>1, <3>3 DEF EmbSlotKept
    <3>. QED  BY <3>2, <3>3
  <2>5. ASSUME NEW w \in EmbPool
        PROVE  Len(embCall'[w]) <= 1 /\ \A j \in DOMAIN embCall'[w] : embCall'[w][j].at # "pool"
    BY <1>4, <2>1 DEF EmbInv, EmbKept
  <2>. QED  BY <2>4, <2>5 DEF EmbKept
<1>9. EmbRoom(embCall', embQueue)
  <2>1. ASSUME NEW l \in DOMAIN embQueue, EmbUnsent(embCall, embQueue[l].n), l # k
        PROVE  EmbUnsent(embCall', embQueue[l].n)
    <3>1. PICK p \in EmbOwners : \E j \in DOMAIN embCall[p] : embCall[p][j].n = embQueue[l].n /\ embCall[p][j].at = "send"
      BY <2>1 DEF EmbUnsent
    <3>2. PICK j \in DOMAIN embCall[p] : embCall[p][j].n = embQueue[l].n /\ embCall[p][j].at = "send"
      BY <3>1
    <3>3. embQueue[l].n # embQueue[k].n
      BY <2>1 DEF EmbInv, EmbOnce
    <3>4. ~ (p = o /\ j = i)
      BY <1>2, <3>2, <3>3
    <3>5. j \in DOMAIN embCall'[p] /\ embCall'[p][j] = embCall[p][j]
      BY <1>4, <3>4
    <3>. QED  BY <3>2, <3>5 DEF EmbUnsent
  <2>2. EmbRoom(embCall, embQueue)
    BY DEF EmbInv
  <2>. QED  BY <1>2, <2>1, <2>2 DEF EmbRoom
<1>. QED  BY <1>1, <1>5, <1>6, <1>7, <1>8, <1>9 DEF EmbInv

\* Calls whose slots are delivered keep what the others need.
LEMMA EmbDeliveryKeeps ==
  ASSUME EmbInv, NEW calls, calls \in [EmbOwners -> Seq(EmbSlotStates)],
         \A o \in EmbOwners : calls[o] = embCall[o] \/ calls[o] = << >>,
         NEW answers, NEW at \in {"wait", "pool"}, \A n \in DOMAIN answers : answers[n] \in EmbWords,
         embCall' = EmbDelivered(calls, answers, at),
         NEW name \in [1 .. embIssued -> EmbWords],
         EmbNamed(name, embCall, embTxs, embQueue, embPending, embIssued),
         \A n \in DOMAIN answers : n \in 1 .. embIssued => answers[n] = name[n],
         \A k \in DOMAIN embQueue : EmbUnsent(embCall, embQueue[k].n) => EmbUnsent(calls, embQueue[k].n)
  PROVE  /\ embCall' \in [EmbOwners -> Seq(EmbSlotStates)]
         /\ \A o \in EmbOwners : EmbSlotsNamed(embCall'[o], name, embIssued)
         /\ EmbOnce(embCall', embTxs, embQueue)
         /\ EmbRoom(embCall', embQueue)
<1>1. /\ embCall' \in [EmbOwners -> Seq(EmbSlotStates)]
      /\ \A o \in EmbOwners :
           /\ Len(embCall'[o]) = Len(calls[o]) /\ DOMAIN embCall'[o] = DOMAIN calls[o]
           /\ \A i \in DOMAIN embCall'[o] :
                /\ embCall'[o][i].n = calls[o][i].n /\ embCall'[o][i].text = calls[o][i].text
                /\ \/ embCall'[o][i] = calls[o][i] /\ ~ (calls[o][i].at = at /\ calls[o][i].n \in DOMAIN answers)
                   \/ /\ calls[o][i].at = at /\ calls[o][i].n \in DOMAIN answers
                      /\ embCall'[o][i].at = "done" /\ embCall'[o][i].vector = answers[calls[o][i].n]
  BY EmbDeliveredFacts
<1>2. \A o \in EmbOwners : \A i \in DOMAIN calls[o] : i \in DOMAIN embCall[o] /\ calls[o][i] = embCall[o][i]
  <2>1. DOMAIN << >> = {}
    OBVIOUS
  <2>. QED  BY <2>1
<1>3. ASSUME NEW o \in EmbOwners PROVE EmbSlotsNamed(embCall'[o], name, embIssued)
  <2>1. \A i \in DOMAIN embCall[o] :
          /\ embCall[o][i].n \in 1 .. embIssued /\ embCall[o][i].text = name[embCall[o][i].n]
          /\ embCall[o][i].at = "done" => embCall[o][i].vector = name[embCall[o][i].n]
    BY DEF EmbNamed, EmbSlotsNamed
  <2>2. ASSUME NEW i \in DOMAIN embCall'[o]
        PROVE  /\ embCall'[o][i].n \in 1 .. embIssued /\ embCall'[o][i].text = name[embCall'[o][i].n]
               /\ embCall'[o][i].at = "done" => embCall'[o][i].vector = name[embCall'[o][i].n]
    <3>1. i \in DOMAIN calls[o] /\ i \in DOMAIN embCall[o] /\ calls[o][i] = embCall[o][i]
      BY ONLY <1>1, <1>2, <1>3, <2>2
    <3>2. CASE embCall'[o][i] = calls[o][i]
      BY ONLY <2>1, <3>1, <3>2
    <3>3. CASE embCall'[o][i] # calls[o][i]
      <4>1. /\ embCall'[o][i].n = calls[o][i].n /\ embCall'[o][i].text = calls[o][i].text
            /\ calls[o][i].n \in DOMAIN answers /\ embCall'[o][i].vector = answers[calls[o][i].n]
        BY ONLY <1>1, <1>3, <2>2, <3>3
      <4>2. calls[o][i].n \in 1 .. embIssued /\ calls[o][i].text = name[calls[o][i].n]
        BY ONLY <2>1, <3>1
      <4>3. answers[calls[o][i].n] = name[calls[o][i].n]
        BY <4>1, <4>2
      <4>. QED  BY ONLY <4>1, <4>2, <4>3
    <3>. QED  BY ONLY <3>2, <3>3
  <2>. QED  BY ONLY <2>2 DEF EmbSlotsNamed
<1>4. \A o \in EmbOwners : \A i \in DOMAIN embCall'[o] :
        /\ i \in DOMAIN embCall[o] /\ embCall'[o][i].n = embCall[o][i].n
        /\ EmbAsking(embCall'[o][i]) => EmbAsking(embCall[o][i])
  BY <1>1, <1>2 DEF EmbAsking
<1>5. EmbOnce(embCall', embTxs, embQueue)
  <2>1. EmbOnce(embCall, embTxs, embQueue)
    BY DEF EmbInv
  <2>. QED  BY ONLY <1>4, <2>1 DEF EmbOnce
<1>6. ASSUME NEW k \in DOMAIN embQueue, EmbUnsent(embCall, embQueue[k].n) PROVE EmbUnsent(embCall', embQueue[k].n)
  <2>0. PICK o \in EmbOwners : \E i \in DOMAIN calls[o] : calls[o][i].n = embQueue[k].n /\ calls[o][i].at = "send"
    BY <1>6 DEF EmbUnsent
  <2>1. PICK i \in DOMAIN calls[o] : calls[o][i].n = embQueue[k].n /\ calls[o][i].at = "send"
    BY <2>0
  <2>2. i \in DOMAIN embCall'[o] /\ embCall'[o][i] = calls[o][i]
    BY <1>1, <2>1
  <2>. QED  BY <2>1, <2>2 DEF EmbUnsent
<1>7. EmbRoom(embCall', embQueue)
  BY <1>6 DEF EmbInv, EmbRoom
<1>. QED  BY <1>1, <1>3, <1>5, <1>7

\* The model answers a batch.
LEMMA EmbComputeKeeps ==
  ASSUME EmbInv, EmbCompute
  PROVE  EmbInv'
<1> DEFINE tasks == ToSet(embPending)
           answers == [n \in {t.n : t \in tasks} |-> (CHOOSE t \in tasks : t.n = n).text]
<1>1. /\ embCall' = EmbDelivered(embCall, answers, "wait")
      /\ embPending' = << >> /\ embRunning' = FALSE
      /\ UNCHANGED <<embTxs, embTurn, embQueue, embIssued, embFailures>>
  BY DEF EmbCompute
<1>2. PICK name \in [1 .. embIssued -> EmbWords] :
        EmbNamed(name, embCall, embTxs, embQueue, embPending, embIssued)
  BY DEF EmbInv
<1>3. embCall \in [EmbOwners -> Seq(EmbSlotStates)] /\ embPending \in Seq(EmbTasks)
  BY DEF EmbInv, EmbTyped
<1>4. \A t \in tasks : t.text = name[t.n] /\ t.n \in 1 .. embIssued
  BY <1>2 DEF EmbNamed, EmbTasksNamed, ToSet
<1>5. \A n : n \in DOMAIN answers <=> EmbHas(embPending, n)
  BY DEF EmbHas, ToSet
<1>6. ASSUME NEW n \in DOMAIN answers PROVE answers[n] = name[n] /\ n \in 1 .. embIssued
  <2>1. \E t \in tasks : t.n = n
    OBVIOUS
  <2>2. PICK t : t = CHOOSE u \in tasks : u.n = n
    OBVIOUS
  <2>3. t \in tasks /\ t.n = n
    BY <2>1, <2>2
  <2>4. answers[n] = t.text
    BY <2>2
  <2>. QED  BY <1>4, <2>3, <2>4
<1>. HIDE DEF answers
<1>7. \A n \in DOMAIN answers : answers[n] \in EmbWords
  BY <1>6
<1>8. /\ embCall' \in [EmbOwners -> Seq(EmbSlotStates)]
      /\ \A o \in EmbOwners : EmbSlotsNamed(embCall'[o], name, embIssued)
      /\ EmbOnce(embCall', embTxs, embQueue)
      /\ EmbRoom(embCall', embQueue)
  <2>1. \A o \in EmbOwners : embCall[o] = embCall[o] \/ embCall[o] = << >>
    OBVIOUS
  <2>2. \A k \in DOMAIN embQueue : EmbUnsent(embCall, embQueue[k].n) => EmbUnsent(embCall, embQueue[k].n)
    OBVIOUS
  <2>. QED  BY <1>1, <1>2, <1>3, <1>6, <1>7, <2>1, <2>2, EmbDeliveryKeeps
<1>9. \A o \in EmbOwners :
        /\ Len(embCall'[o]) = Len(embCall[o]) /\ DOMAIN embCall'[o] = DOMAIN embCall[o]
        /\ \A i \in DOMAIN embCall'[o] :
             /\ embCall'[o][i].n = embCall[o][i].n
             /\ \/ embCall'[o][i] = embCall[o][i] /\ ~ (embCall[o][i].at = "wait" /\ embCall[o][i].n \in DOMAIN answers)
                \/ embCall'[o][i].at = "done"
  <2>1. "wait" \in {"wait", "pool"}
    OBVIOUS
  <2>. QED  BY ONLY <1>1, <1>3, <1>7, <2>1, EmbDeliveredFacts
<1>10. EmbKept(embCall', embTxs, embQueue, << >>)
  <2>1. \A w \in EmbPool : w \in EmbOwners
    BY DEF EmbOwners
  <2>2. \A n : \A w \in EmbPool : EmbHas(embCall[w], n) => EmbHas(embCall'[w], n)
    BY <1>9, <2>1 DEF EmbHas
  <2>3. ASSUME NEW o \in EmbOwners, NEW i \in DOMAIN embCall'[o]
        PROVE  EmbSlotKept(embCall'[o][i], embCall', embTxs, embQueue, << >>)
    <3>1. EmbSlotKept(embCall[o][i], embCall, embTxs, embQueue, embPending)
      BY <1>9 DEF EmbInv, EmbKept
    <3>. QED  BY <1>5, <1>9, <2>2, <3>1 DEF EmbSlotKept
  <2>4. ASSUME NEW w \in EmbPool
        PROVE  Len(embCall'[w]) <= 1 /\ \A i \in DOMAIN embCall'[w] : embCall'[w][i].at # "pool"
    BY <1>9, <2>1 DEF EmbInv, EmbKept
  <2>. QED  BY <2>3, <2>4 DEF EmbKept
<1>11. EmbTyped'
  <2>1. << >> \in Seq(EmbTasks)
    OBVIOUS
  <2>. QED  BY <1>1, <1>8, <2>1 DEF EmbInv, EmbTyped
<1>12. EmbNamed(name, embCall', embTxs, embQueue, << >>, embIssued)
  <2>1. DOMAIN << >> = {}
    OBVIOUS
  <2>. QED  BY <1>2, <1>8, <2>1 DEF EmbNamed, EmbTasksNamed
<1>13. EmbBatched(<< >>, FALSE, embFailures)
  <2>1. Len(<< >>) = 0 /\ EmbBatch \in Nat /\ EmbBatch > 0 /\ embFailures \in Nat
    BY EmbConstants DEF EmbInv, EmbTyped
  <2>. QED  BY <2>1 DEF EmbBatched
<1>. QED  BY <1>1, <1>8, <1>10, <1>11, <1>12, <1>13 DEF EmbInv

\* A call has its vectors.
LEMMA EmbReturnKeeps ==
  ASSUME EmbInv, NEW o \in EmbOwners, EmbReturn(o)
  PROVE  EmbInv'
<1> DEFINE rest == [embCall EXCEPT ![o] = << >>]
           known == IF o \in EmbPool THEN {embCall[o][1].n} ELSE {}
           answers == [n \in known |-> embCall[o][1].vector]
<1>1. PICK name \in [1 .. embIssued -> EmbWords] :
        EmbNamed(name, embCall, embTxs, embQueue, embPending, embIssued)
  BY DEF EmbInv
<1>2. /\ embCall \in [EmbOwners -> Seq(EmbSlotStates)]
      /\ \A p \in EmbOwners : DOMAIN embCall[p] = 1 .. Len(embCall[p])
      /\ embCall[o] # << >> /\ \A i \in DOMAIN embCall[o] : embCall[o][i].at = "done"
      /\ UNCHANGED <<embTxs, embTurn, embQueue, embPending, embRunning, embIssued, embFailures>>
  BY DEF EmbInv, EmbTyped, EmbReturn
<1>3. /\ rest \in [EmbOwners -> Seq(EmbSlotStates)]
      /\ \A p \in EmbOwners : rest[p] = IF p = o THEN << >> ELSE embCall[p]
  <2>1. << >> \in Seq(EmbSlotStates)
    OBVIOUS
  <2>. QED  BY <1>2, <2>1
<1>4. 1 \in DOMAIN embCall[o] /\ embCall[o][1].vector \in EmbWords
      /\ embCall[o][1].at = "done" /\ embCall[o][1].vector = name[embCall[o][1].n]
  <2>1. PICK s \in Seq(EmbSlotStates) : s = embCall[o]
    BY <1>2
  <2>2. 1 \in DOMAIN s /\ s[1] \in EmbSlotStates
    BY <1>2, <2>1
  <2>3. s[1].vector \in EmbWords
    BY <2>2 DEF EmbSlotStates
  <2>. QED  BY <1>1, <1>2, <2>1, <2>2, <2>3 DEF EmbNamed, EmbSlotsNamed
<1>5. embCall' = EmbDelivered(rest, answers, "pool")
  <2>1. CASE o \in EmbPool
    BY <2>1 DEF EmbReturn
  <2>2. CASE o \notin EmbPool
    <3>1. embCall' = rest
      BY <2>2 DEF EmbReturn
    <3>2. DOMAIN answers = {}
      BY <2>2
    <3>. HIDE DEF answers, rest
    <3>3. EmbDelivered(rest, answers, "pool") = [p \in EmbOwners |-> [i \in DOMAIN rest[p] |-> rest[p][i]]]
      BY <3>2 DEF EmbDelivered
    <3>4. \A p \in EmbOwners : rest[p] = [i \in DOMAIN rest[p] |-> rest[p][i]]
      BY <1>3
    <3>5. rest = [p \in EmbOwners |-> rest[p]]
      BY <1>3
    <3>. QED  BY <3>1, <3>3, <3>4, <3>5
  <2>. QED  BY <2>1, <2>2
<1>6. \A n \in DOMAIN answers : answers[n] \in EmbWords /\ answers[n] = name[n] /\ n = embCall[o][1].n /\ o \in EmbPool
  BY <1>4
<1>7. o \in EmbPool => embCall[o][1].n \in DOMAIN answers
  OBVIOUS
<1>. HIDE DEF rest, answers
<1>8. \A p \in EmbOwners : rest[p] = embCall[p] \/ rest[p] = << >>
  BY <1>3
<1>9. \A n : EmbUnsent(embCall, n) => EmbUnsent(rest, n)
  BY <1>2, <1>3 DEF EmbUnsent
<1>10. /\ embCall' \in [EmbOwners -> Seq(EmbSlotStates)]
       /\ \A p \in EmbOwners : EmbSlotsNamed(embCall'[p], name, embIssued)
       /\ EmbOnce(embCall', embTxs, embQueue)
       /\ EmbRoom(embCall', embQueue)
  BY <1>1, <1>3, <1>5, <1>6, <1>8, <1>9, EmbDeliveryKeeps
<1>11. \A p \in EmbOwners :
         /\ Len(embCall'[p]) = Len(rest[p]) /\ DOMAIN embCall'[p] = DOMAIN rest[p]
         /\ \A i \in DOMAIN embCall'[p] :
              /\ embCall'[p][i].n = rest[p][i].n
              /\ \/ embCall'[p][i] = rest[p][i] /\ ~ (rest[p][i].at = "pool" /\ rest[p][i].n \in DOMAIN answers)
                 \/ embCall'[p][i].at = "done"
  BY <1>3, <1>5, <1>6, EmbDeliveredFacts
<1>12. DOMAIN << >> = {} /\ Len(<< >>) = 0
  OBVIOUS
<1>13. EmbKept(embCall', embTxs, embQueue, embPending)
  <2>1. \A w \in EmbPool : w \in EmbOwners
    BY DEF EmbOwners
  <2>2. ASSUME NEW w \in EmbPool, w # o, NEW n, EmbHas(embCall[w], n) PROVE EmbHas(embCall'[w], n)
    <3>1. rest[w] = embCall[w] /\ DOMAIN embCall'[w] = DOMAIN embCall[w]
          /\ \A i \in DOMAIN embCall'[w] : embCall'[w][i].n = embCall[w][i].n
      BY <1>3, <1>11, <2>1, <2>2
    <3>. QED  BY <2>2, <3>1 DEF EmbHas
  <2>3. \A n : o \in EmbPool /\ EmbHas(embCall[o], n) => n \in DOMAIN answers
    <3>1. ASSUME o \in EmbPool PROVE \A i \in DOMAIN embCall[o] : i = 1
      <4>1. Len(embCall[o]) <= 1 /\ Len(embCall[o]) \in Nat
        BY <1>2, <3>1 DEF EmbInv, EmbKept
      <4>. QED  BY <1>2, <4>1
    <3>. QED  BY <1>7, <3>1 DEF EmbHas
  <2>4. ASSUME NEW p \in EmbOwners, NEW i \in DOMAIN embCall'[p]
        PROVE  EmbSlotKept(embCall'[p][i], embCall', embTxs, embQueue, embPending)
    <3>1. p # o /\ i \in DOMAIN embCall[p] /\ rest[p] = embCall[p]
      BY <1>3, <1>11, <1>12
    <3>2. EmbSlotKept(embCall[p][i], embCall, embTxs, embQueue, embPending)
      BY <3>1 DEF EmbInv, EmbKept
    <3>3. CASE embCall'[p][i].at = "done"
      BY <3>3 DEF EmbSlotKept
    <3>4. CASE embCall'[p][i] = embCall[p][i] /\ ~ (embCall[p][i].at = "pool" /\ embCall[p][i].n \in DOMAIN answers)
      BY <2>2, <2>3, <3>2, <3>4 DEF EmbSlotKept
    <3>. QED  BY <1>11, <3>1, <3>3, <3>4
  <2>5. ASSUME NEW w \in EmbPool
        PROVE  Len(embCall'[w]) <= 1 /\ \A i \in DOMAIN embCall'[w] : embCall'[w][i].at # "pool"
    <3>1. CASE w = o
      BY <1>3, <1>11, <1>12, <2>1, <3>1
    <3>2. CASE w # o
      <4>1. Len(embCall[w]) <= 1 /\ \A i \in DOMAIN embCall[w] : embCall[w][i].at # "pool"
        BY DEF EmbInv, EmbKept
      <4>. QED  BY <1>3, <1>11, <2>1, <3>2, <4>1
    <3>. QED  BY <3>1, <3>2
  <2>. QED  BY <2>4, <2>5 DEF EmbKept
<1>14. EmbTyped'
  BY <1>2, <1>10 DEF EmbInv, EmbTyped
<1>15. EmbNamed(name, embCall', embTxs, embQueue, embPending, embIssued)
  BY <1>1, <1>10 DEF EmbNamed
<1>. QED  BY <1>2, <1>10, <1>13, <1>14, <1>15 DEF EmbInv

\* The service's worker takes the first text in the channel.
LEMMA EmbRemovedFacts ==
  ASSUME NEW S, NEW q \in Seq(S), NEW k \in DOMAIN q
  PROVE  /\ RemoveAt(q, k) \in Seq(S)
         /\ \A j \in DOMAIN RemoveAt(q, k) :
              /\ j < k => j \in DOMAIN q /\ RemoveAt(q, k)[j] = q[j]
              /\ j >= k => j + 1 \in DOMAIN q /\ RemoveAt(q, k)[j] = q[j + 1]
         /\ \A j \in DOMAIN q :
              /\ j < k => j \in DOMAIN RemoveAt(q, k) /\ RemoveAt(q, k)[j] = q[j]
              /\ j > k => j - 1 \in DOMAIN RemoveAt(q, k) /\ RemoveAt(q, k)[j - 1] = q[j]
<1>1. PICK n \in Nat : n = Len(q) /\ DOMAIN q = 1 .. n
  OBVIOUS
<1>2. k \in 1 .. n
  BY <1>1
<1> DEFINE a == SubSeq(q, 1, k - 1)
           b == SubSeq(q, k + 1, n)
<1>3. a \in Seq(S) /\ Len(a) = k - 1 /\ \A j \in 1 .. k - 1 : a[j] = q[j]
  BY <1>1, <1>2
<1>4. b \in Seq(S) /\ Len(b) = n - k /\ \A j \in 1 .. n - k : b[j] = q[k + j]
  BY <1>1, <1>2
<1>5. RemoveAt(q, k) = a \o b
  BY <1>1 DEF RemoveAt
<1>. HIDE DEF a, b
<1>6. PICK r \in Seq(S) : r = a \o b /\ DOMAIN r = 1 .. n - 1
                          /\ \A j \in 1 .. n - 1 : r[j] = IF j < k THEN q[j] ELSE q[j + 1]
  <2>0. /\ a \o b \in Seq(S) /\ Len(a \o b) = Len(a) + Len(b)
        /\ \A i \in DOMAIN a : i \in DOMAIN (a \o b) /\ (a \o b)[i] = a[i]
        /\ \A i \in DOMAIN b : Len(a) + i \in DOMAIN (a \o b) /\ (a \o b)[Len(a) + i] = b[i]
    <3>1. a \in Seq(S) /\ b \in Seq(S)
      BY <1>3, <1>4
    <3>. QED  BY ONLY <3>1, ConcatFacts
  <2>1. a \o b \in Seq(S) /\ Len(a \o b) = n - 1
    BY <1>2, <1>3, <1>4, <2>0
  <2>5. DOMAIN a = 1 .. k - 1 /\ DOMAIN b = 1 .. n - k
    BY <1>3, <1>4
  <2>2. ASSUME NEW j \in 1 .. n - 1 PROVE (a \o b)[j] = IF j < k THEN q[j] ELSE q[j + 1]
    <3>1. CASE j < k
      <4>1. j \in 1 .. k - 1
        BY <3>1
      <4>. QED  BY <1>3, <2>0, <2>5, <3>1, <4>1
    <3>2. CASE ~ (j < k)
      <4>1. PICK i \in 1 .. n - k : (k - 1) + i = j /\ k + i = j + 1
        <5>1. j - (k - 1) \in 1 .. n - k /\ (k - 1) + (j - (k - 1)) = j /\ k + (j - (k - 1)) = j + 1
          BY <1>2, <3>2
        <5>. QED  BY ONLY <5>1
      <4>2. (a \o b)[(k - 1) + i] = b[i] /\ b[i] = q[k + i]
        BY <1>3, <1>4, <2>0, <2>5
      <4>. QED  BY <3>2, <4>1, <4>2
    <3>. QED  BY <3>1, <3>2
  <2>3. DOMAIN (a \o b) = 1 .. n - 1
    BY <2>1
  <2>. QED  BY <2>1, <2>2, <2>3
<1>7. RemoveAt(q, k) = r
  BY <1>5, <1>6
<1>8. ASSUME NEW j \in 1 .. n - 1 PROVE (j < k => j \in 1 .. n) /\ (j >= k => j + 1 \in 1 .. n)
  BY <1>2
<1>9. ASSUME NEW j \in 1 .. n
      PROVE  (j < k => j \in 1 .. n - 1) /\ (j > k => j - 1 \in 1 .. n - 1 /\ ~ (j - 1 < k) /\ (j - 1) + 1 = j)
  BY <1>2
<1>10. \A j \in 1 .. n - 1 : j >= k => ~ (j < k)
  BY <1>2
<1>. QED  BY <1>1, <1>6, <1>7, <1>8, <1>9, <1>10

LEMMA EmbReceiveKeeps ==
  ASSUME EmbInv, EmbReceive
  PROVE  EmbInv'
<1>1. PICK k \in EmbSent :
        /\ \A j \in EmbSent : k <= j
        /\ embQueue' = RemoveAt(embQueue, k)
        /\ embPending' = Append(embPending, embQueue[k])
  BY DEF EmbReceive
<1>2. /\ ~ embRunning /\ embRunning' = (Len(embPending') >= EmbBatch)
      /\ UNCHANGED <<embCall, embTxs, embTurn, embIssued, embFailures>>
  BY DEF EmbReceive
<1>3. k \in DOMAIN embQueue /\ ~ EmbUnsent(embCall, embQueue[k].n)
  BY <1>1 DEF EmbSent, EmbUnsent
<1>4. embQueue \in Seq(EmbTasks) /\ embPending \in Seq(EmbTasks)
  BY DEF EmbInv, EmbTyped
<1>5. PICK q \in Seq(EmbTasks) : q = embQueue'
  BY <1>1, <1>3, <1>4, EmbRemovedFacts
<1>6. PICK e \in EmbTasks : e = embQueue[k]
  BY <1>3, <1>4
<1>7. /\ \A j \in DOMAIN q :
           /\ j < k => j \in DOMAIN embQueue /\ q[j] = embQueue[j]
           /\ j >= k => j + 1 \in DOMAIN embQueue /\ q[j] = embQueue[j + 1]
      /\ \A j \in DOMAIN embQueue :
           /\ j < k => j \in DOMAIN q /\ q[j] = embQueue[j]
           /\ j > k => j - 1 \in DOMAIN q /\ q[j - 1] = embQueue[j]
  BY <1>1, <1>3, <1>4, <1>5, EmbRemovedFacts
<1>8. PICK p \in Seq(EmbTasks) :
        /\ p = embPending' /\ Len(p) = Len(embPending) + 1
        /\ \A i \in DOMAIN embPending : i \in DOMAIN p /\ p[i] = embPending[i]
        /\ Len(p) \in DOMAIN p /\ p[Len(p)] = e
        /\ \A i \in DOMAIN p : i \in DOMAIN embPending \/ p[i] = e
  <2>1. \A s \in Seq(EmbTasks) :
          /\ Append(s, e) \in Seq(EmbTasks) /\ Len(Append(s, e)) = Len(s) + 1
          /\ \A i \in DOMAIN s : i \in DOMAIN Append(s, e) /\ Append(s, e)[i] = s[i]
          /\ Len(Append(s, e)) \in DOMAIN Append(s, e) /\ Append(s, e)[Len(Append(s, e))] = e
          /\ \A i \in DOMAIN Append(s, e) : i \in DOMAIN s \/ Append(s, e)[i] = e
    OBVIOUS
  <2>. QED  BY <1>1, <1>4, <1>6, <2>1
<1>9. /\ \A j \in Nat : ~ (j < k) => j >= k
      /\ \A i, j \in Nat : (i < k /\ j >= k) => i # j + 1
      /\ \A i, j \in Nat : i + 1 = j + 1 => i = j
      /\ DOMAIN q \subseteq Nat /\ DOMAIN embQueue \subseteq Nat /\ k \in Nat
      /\ \A j \in Nat : j < k \/ j = k \/ j > k
  <2>1. k \in Nat /\ DOMAIN q \subseteq Nat /\ DOMAIN embQueue \subseteq Nat
    BY <1>3, <1>4
  <2>. QED  BY <2>1
<1>10. \A i \in DOMAIN q : \E j \in DOMAIN embQueue : q[i] = embQueue[j] /\ j >= i
  BY <1>7, <1>9
<1>11. \A j \in DOMAIN embQueue : j = k \/ \E i \in DOMAIN q : q[i] = embQueue[j]
  BY <1>7, <1>9
<1>12. EmbTyped'
  BY <1>2, <1>5, <1>8 DEF EmbInv, EmbTyped
<1>13. ASSUME NEW name, EmbNamed(name, embCall, embTxs, embQueue, embPending, embIssued)
       PROVE  EmbNamed(name, embCall, embTxs, q, p, embIssued)
  <2>1. EmbTasksNamed(q, name, embIssued)
    BY <1>10, <1>13 DEF EmbNamed, EmbTasksNamed
  <2>2. EmbTasksNamed(p, name, embIssued)
    BY <1>3, <1>6, <1>8, <1>13 DEF EmbNamed, EmbTasksNamed
  <2>. QED  BY <1>13, <2>1, <2>2 DEF EmbNamed
<1>14. EmbOnce(embCall, embTxs, q)
  <2>1. \A i, j \in DOMAIN embQueue : embQueue[i].n = embQueue[j].n => i = j
    BY DEF EmbInv, EmbOnce
  <2>2. ASSUME NEW i \in DOMAIN q, NEW j \in DOMAIN q, q[i].n = q[j].n PROVE i = j
    <3>1. i \in Nat /\ j \in Nat
      BY <1>9
    <3>2. CASE i < k /\ j < k
      BY <1>7, <2>1, <2>2, <3>2
    <3>3. CASE i < k /\ j >= k
      BY <1>7, <1>9, <2>1, <2>2, <3>1, <3>3
    <3>4. CASE i >= k /\ j < k
      BY <1>7, <1>9, <2>1, <2>2, <3>1, <3>4
    <3>5. CASE i >= k /\ j >= k
      BY <1>7, <1>9, <2>1, <2>2, <3>1, <3>5
    <3>. QED  BY <1>9, <3>1, <3>2, <3>3, <3>4, <3>5
  <2>3. EmbOnce(embCall, embTxs, embQueue)
    BY DEF EmbInv
  <2>. QED  BY ONLY <1>10, <2>2, <2>3 DEF EmbOnce
<1>15. EmbKept(embCall, embTxs, q, p)
  <2>1. \A n : EmbHas(embQueue, n) => EmbHas(q, n) \/ n = e.n
    BY <1>6, <1>11 DEF EmbHas
  <2>2. \A n : EmbHas(embPending, n) => EmbHas(p, n)
    BY <1>8 DEF EmbHas
  <2>3. EmbHas(p, e.n)
    BY <1>8 DEF EmbHas
  <2>4. ASSUME NEW o \in EmbOwners, NEW i \in DOMAIN embCall[o]
        PROVE  EmbSlotKept(embCall[o][i], embCall, embTxs, q, p)
    <3>1. EmbSlotKept(embCall[o][i], embCall, embTxs, embQueue, embPending)
      BY DEF EmbInv, EmbKept
    <3>2. embCall[o][i].at = "send" => embCall[o][i].n # e.n
      BY <1>3, <1>6 DEF EmbUnsent
    <3>. QED  BY <2>1, <2>2, <2>3, <3>1, <3>2 DEF EmbSlotKept
  <2>. QED  BY <2>4 DEF EmbInv, EmbKept
<1>16. EmbRoom(embCall, q)
  <2>1. ASSUME NEW i \in DOMAIN q PROVE EmbUnsent(embCall, q[i].n) \/ i <= EmbCapacity
    <3>1. PICK j \in DOMAIN embQueue : q[i] = embQueue[j] /\ j >= i
      BY <1>10
    <3>2. EmbUnsent(embCall, embQueue[j].n) \/ j <= EmbCapacity
      BY DEF EmbInv, EmbRoom
    <3>3. i \in Nat /\ j \in Nat /\ EmbCapacity \in Nat
      BY <1>9, EmbConstants
    <3>. QED  BY <3>1, <3>2, <3>3
  <2>. QED  BY <2>1 DEF EmbRoom
<1>17. EmbBatched(p, embRunning', embFailures)
  <2>1. PICK n \in Nat, m \in Nat, b \in Nat : n = Len(embPending) /\ m = embFailures /\ b = EmbBatch
    <3>1. Len(embPending) \in Nat /\ embFailures \in Nat /\ EmbBatch \in Nat
      BY <1>4, EmbConstants DEF EmbInv, EmbTyped
    <3>. QED  BY ONLY <3>1
  <2>2. n < b + m /\ Len(p) = n + 1
    BY <1>2, <1>8, <2>1 DEF EmbInv, EmbBatched
  <2>3. embRunning' = (n + 1 >= b)
    BY <1>2, <1>8, <2>1
  <2>4. n + 1 <= b + m /\ (~ (n + 1 >= b) => n + 1 < b + m)
    BY <2>2
  <2>. QED  BY <2>1, <2>2, <2>3, <2>4 DEF EmbBatched
<1>. QED  BY <1>2, <1>5, <1>8, <1>12, <1>13, <1>14, <1>15, <1>16, <1>17 DEF EmbInv

\* Numbers given later do not disturb the names.
LEMMA EmbNamesGrow ==
  ASSUME NEW n \in Nat, NEW m \in Nat, n <= m, NEW name \in [1 .. n -> EmbWords], NEW more \in [1 .. m -> EmbWords],
         \A i \in 1 .. n : more[i] = name[i],
         NEW calls, NEW txs, NEW queue, NEW pending, EmbNamed(name, calls, txs, queue, pending, n)
  PROVE  EmbNamed(more, calls, txs, queue, pending, m)
<1>1. \A i \in 1 .. n : i \in 1 .. m /\ more[i] = name[i]
  OBVIOUS
<1>2. \A tasks : EmbTasksNamed(tasks, name, n) => EmbTasksNamed(tasks, more, m)
  BY <1>1 DEF EmbTasksNamed
<1>3. \A slots : EmbSlotsNamed(slots, name, n) => EmbSlotsNamed(slots, more, m)
  BY <1>1 DEF EmbSlotsNamed
<1>. QED  BY <1>2, <1>3 DEF EmbNamed

\* A slot in its first step.
LEMMA EmbSlotFacts ==
  ASSUME NEW n \in Nat \ {0}, NEW text \in EmbWords, NEW at \in {"send", "pool"}
  PROVE  /\ EmbSlot(n, text, at) \in EmbSlotStates /\ EmbTask(EmbSlot(n, text, at)) \in EmbTasks
         /\ EmbSlot(n, text, at).n = n /\ EmbSlot(n, text, at).text = text /\ EmbSlot(n, text, at).at = at
         /\ EmbTask(EmbSlot(n, text, at)).n = n /\ EmbTask(EmbSlot(n, text, at)).text = text
<1>1. PICK s : s = [n |-> n, text |-> text, at |-> at, vector |-> "none"]
  OBVIOUS
<1>2. s.n = n /\ s.text = text /\ s.at = at
  BY <1>1
<1>3. s \in EmbSlotStates
  <2>1. "none" \in EmbWords
    BY DEF EmbWords
  <2>. QED  BY <1>1, <2>1 DEF EmbSlotStates
<1>4. PICK t : t = [n |-> n, text |-> text]
  OBVIOUS
<1>5. t.n = n /\ t.text = text /\ t \in EmbTasks
  BY <1>4 DEF EmbTasks
<1>6. EmbSlot(n, text, at) = s /\ EmbTask(s) = t
  BY <1>1, <1>2, <1>4 DEF EmbSlot, EmbTask
<1>. QED  BY <1>2, <1>3, <1>5, <1>6

\* Texts are asked for.
LEMMA EmbAskKeeps ==
  ASSUME EmbInv, NEW c \in EmbCallers, NEW texts \in EmbLists, EmbAsk(c, texts)
  PROVE  EmbInv'
<1> DEFINE slots == [i \in DOMAIN texts |-> EmbSlot(embIssued + i, EmbText("block", texts[i]), "send")]
           tasks == [i \in DOMAIN slots |-> EmbTask(slots[i])]
<1>1. /\ embCall[c] = << >>
      /\ embCall' = [embCall EXCEPT ![c] = slots]
      /\ embQueue' = embQueue \o tasks
      /\ embIssued' = embIssued + Len(texts)
      /\ UNCHANGED <<embTxs, embTurn, embPending, embRunning, embFailures>>
  BY DEF EmbAsk
<1>2. PICK n \in Nat, m \in Nat : n = embIssued /\ m = Len(texts) /\ DOMAIN texts = 1 .. m
                                  /\ \A i \in 1 .. m : EmbText("block", texts[i]) \in EmbWords
  <2>1. PICK ts \in Seq(STRING) : ts = texts
    BY EmbConstants
  <2>2. Len(ts) \in Nat /\ DOMAIN ts = 1 .. Len(ts)
    OBVIOUS
  <2>3. embIssued \in Nat
    BY DEF EmbInv, EmbTyped
  <2>4. \A i \in 1 .. Len(ts) : EmbText("block", ts[i]) \in EmbWords
    <3>1. \A i \in 1 .. Len(ts) : ts[i] \in ToSet(texts)
      BY <2>1, <2>2 DEF ToSet
    <3>2. ToSet(texts) \subseteq EmbWords /\ "block" \in EmbWords
      BY DEF EmbWords
    <3>. QED  BY ONLY <3>1, <3>2 DEF EmbText
  <2>. QED  BY <2>1, <2>2, <2>3, <2>4
<1>3. \A i \in 1 .. m : n + i \in Nat \ {0} /\ n + i \in 1 .. n + m /\ n + i \notin 1 .. n /\ (n + i) - n = i
  OBVIOUS
<1>4. DOMAIN slots = 1 .. m /\ DOMAIN tasks = 1 .. m
  BY <1>2
<1>5. \A i \in 1 .. m :
        /\ slots[i] \in EmbSlotStates /\ tasks[i] \in EmbTasks
        /\ slots[i].n = n + i /\ slots[i].text = EmbText("block", texts[i]) /\ slots[i].at = "send"
        /\ tasks[i].n = n + i /\ tasks[i].text = EmbText("block", texts[i])
  <2>1. ASSUME NEW i \in 1 .. m
        PROVE  /\ slots[i] = EmbSlot(n + i, EmbText("block", texts[i]), "send")
               /\ tasks[i] = EmbTask(EmbSlot(n + i, EmbText("block", texts[i]), "send"))
    BY <1>2, <1>4
  <2>. HIDE DEF slots, tasks
  <2>2. ASSUME NEW i \in 1 .. m
        PROVE  LET s == EmbSlot(n + i, EmbText("block", texts[i]), "send") IN
               /\ s \in EmbSlotStates /\ EmbTask(s) \in EmbTasks
               /\ s.n = n + i /\ s.text = EmbText("block", texts[i]) /\ s.at = "send"
               /\ EmbTask(s).n = n + i /\ EmbTask(s).text = EmbText("block", texts[i])
    <3>1. EmbText("block", texts[i]) \in EmbWords /\ n + i \in Nat \ {0}
      BY <1>2, <1>3
    <3>2. "send" \in {"send", "pool"}
      OBVIOUS
    <3>. QED  BY ONLY <3>1, <3>2, EmbSlotFacts
  <2>. QED  BY <2>1, <2>2
<1>6. slots \in Seq(EmbSlotStates) /\ tasks \in Seq(EmbTasks) /\ Len(tasks) = m
  <2>1. \A S, s : s = [i \in 1 .. m |-> s[i]] /\ (\A i \in 1 .. m : s[i] \in S) => s \in Seq(S) /\ Len(s) = m
    OBVIOUS
  <2>2. slots = [i \in 1 .. m |-> slots[i]] /\ tasks = [i \in 1 .. m |-> tasks[i]]
    BY <1>4
  <2>. HIDE DEF slots, tasks
  <2>. QED  BY <1>5, <2>1, <2>2
<1>. HIDE DEF slots, tasks
<1>7. embCall \in [EmbOwners -> Seq(EmbSlotStates)] /\ c \in EmbOwners /\ embQueue \in Seq(EmbTasks)
  BY DEF EmbInv, EmbTyped, EmbOwners
<1>8. /\ embCall' \in [EmbOwners -> Seq(EmbSlotStates)]
      /\ \A o \in EmbOwners : embCall'[o] = IF o = c THEN slots ELSE embCall[o]
      /\ DOMAIN embCall[c] = {} /\ c \notin EmbPool
  <2>1. DOMAIN << >> = {}
    OBVIOUS
  <2>2. c \notin EmbPool
    BY EmbConstants
  <2>. QED  BY <1>1, <1>6, <1>7, <2>1, <2>2
<1>9. PICK q \in Seq(EmbTasks) :
        /\ q = embQueue' /\ q = embQueue \o tasks
        /\ \A k \in DOMAIN embQueue : k \in DOMAIN q /\ q[k] = embQueue[k]
        /\ \A i \in 1 .. m : Len(embQueue) + i \in DOMAIN q /\ q[Len(embQueue) + i] = tasks[i]
        /\ \A k \in DOMAIN q : k \in DOMAIN embQueue \/ \E i \in 1 .. m : k = Len(embQueue) + i
  <2>1. /\ embQueue \o tasks \in Seq(EmbTasks) /\ Len(embQueue \o tasks) = Len(embQueue) + Len(tasks)
        /\ \A i \in DOMAIN embQueue : i \in DOMAIN (embQueue \o tasks) /\ (embQueue \o tasks)[i] = embQueue[i]
        /\ \A i \in DOMAIN tasks : Len(embQueue) + i \in DOMAIN (embQueue \o tasks)
                                   /\ (embQueue \o tasks)[Len(embQueue) + i] = tasks[i]
    <3>1. embQueue \in Seq(EmbTasks) /\ tasks \in Seq(EmbTasks)
      BY <1>6, <1>7
    <3>. QED  BY ONLY <3>1, ConcatFacts
  <2>2. PICK l \in Nat : l = Len(embQueue) /\ DOMAIN embQueue = 1 .. l
    BY <1>7
  <2>3. DOMAIN (embQueue \o tasks) = 1 .. l + m
    BY <1>6, <2>1, <2>2
  <2>4. ASSUME NEW k \in 1 .. l + m PROVE k \in 1 .. l \/ \E i \in 1 .. m : k = l + i
    <3>1. CASE k <= l
      BY <3>1
    <3>2. CASE ~ (k <= l)
      <4>1. k - l \in 1 .. m /\ k = l + (k - l)
        BY <3>2
      <4>. QED  BY <4>1
    <3>. QED  BY <3>1, <3>2
  <2>5. PICK q \in Seq(EmbTasks) : q = embQueue \o tasks
    BY <2>1
  <2>6. /\ \A k \in DOMAIN embQueue : k \in DOMAIN q /\ q[k] = embQueue[k]
        /\ \A i \in 1 .. m : Len(embQueue) + i \in DOMAIN q /\ q[Len(embQueue) + i] = tasks[i]
    BY ONLY <1>4, <2>1, <2>5
  <2>7. \A k \in DOMAIN q : k \in DOMAIN embQueue \/ \E i \in 1 .. m : k = Len(embQueue) + i
    BY ONLY <2>2, <2>3, <2>4, <2>5
  <2>. QED  BY <1>1, <2>5, <2>6, <2>7
<1>10. EmbTyped'
  <2>1. embIssued' \in Nat
    BY <1>1, <1>2
  <2>. QED  BY <1>1, <1>8, <1>9, <2>1 DEF EmbInv, EmbTyped
<1>11. PICK name \in [1 .. n -> EmbWords] : EmbNamed(name, embCall, embTxs, embQueue, embPending, n)
  BY <1>2 DEF EmbInv
<1>12. \A o \in EmbOwners : \A i \in DOMAIN embCall[o] : embCall[o][i].n \in 1 .. n
  BY <1>11 DEF EmbNamed, EmbSlotsNamed
<1>13. /\ \A k \in DOMAIN embQueue : embQueue[k].n \in 1 .. n
       /\ \A w \in EmbPool : \A k \in DOMAIN embTxs[w] : embTxs[w][k].n \in 1 .. n
  BY <1>11 DEF EmbNamed, EmbTasksNamed
<1>14. \E more \in [1 .. n + m -> EmbWords] : EmbNamed(more, embCall', embTxs, q, embPending, n + m)
  <2>1. PICK more : more = [i \in 1 .. n + m |-> IF i \in 1 .. n THEN name[i] ELSE EmbText("block", texts[i - n])]
    OBVIOUS
  <2>2. \A i \in 1 .. n + m : i \notin 1 .. n => i - n \in 1 .. m
    OBVIOUS
  <2>3. more \in [1 .. n + m -> EmbWords]
    BY <1>2, <2>1, <2>2
  <2>4. /\ \A i \in 1 .. n : more[i] = name[i]
        /\ \A i \in 1 .. m : more[n + i] = EmbText("block", texts[i])
    BY <1>3, <2>1
  <2>5. EmbNamed(more, embCall, embTxs, embQueue, embPending, n + m)
    <3>1. n + m \in Nat /\ n <= n + m
      OBVIOUS
    <3>. QED  BY <1>11, <2>3, <2>4, <3>1, EmbNamesGrow
  <2>6. EmbTasksNamed(q, more, n + m)
    <3>1. ASSUME NEW k \in DOMAIN q PROVE q[k].n \in 1 .. n + m /\ q[k].text = more[q[k].n]
      <4>1. CASE k \in DOMAIN embQueue
        BY <1>9, <2>5, <4>1 DEF EmbNamed, EmbTasksNamed
      <4>2. CASE k \notin DOMAIN embQueue
        <5>1. PICK i \in 1 .. m : q[k] = tasks[i]
          BY <1>9, <4>2
        <5>2. q[k].n = n + i /\ q[k].text = more[n + i] /\ n + i \in 1 .. n + m
          BY ONLY <1>3, <1>5, <2>4, <5>1
        <5>. QED  BY ONLY <5>2
      <4>. QED  BY <4>1, <4>2
    <3>. QED  BY <3>1 DEF EmbTasksNamed
  <2>7. EmbSlotsNamed(slots, more, n + m)
    <3>1. \A i \in 1 .. m :
            /\ slots[i].n \in 1 .. n + m /\ slots[i].text = more[slots[i].n] /\ slots[i].at = "send"
      BY ONLY <1>3, <1>5, <2>4
    <3>. QED  BY <1>4, <3>1 DEF EmbSlotsNamed
  <2>8. \A o \in EmbOwners : EmbSlotsNamed(embCall'[o], more, n + m)
    BY <1>8, <2>5, <2>7 DEF EmbNamed
  <2>. QED  BY <2>3, <2>5, <2>6, <2>8 DEF EmbNamed
<1>15. EmbOnce(embCall', embTxs, q)
  <2>1. EmbOnce(embCall, embTxs, embQueue)
    BY DEF EmbInv
  <2>2. \A i, j \in 1 .. m : n + i = n + j => i = j
    OBVIOUS
  <2>3. \A o \in EmbOwners : \A i \in DOMAIN embCall'[o] :
          \/ o # c /\ i \in DOMAIN embCall[o] /\ embCall'[o][i] = embCall[o][i]
          \/ o = c /\ i \in 1 .. m /\ embCall'[o][i].n = n + i
    BY <1>4, <1>5, <1>8
  <2>4. \A k \in DOMAIN q :
          \/ k \in DOMAIN embQueue /\ q[k] = embQueue[k]
          \/ \E i \in 1 .. m : k = Len(embQueue) + i /\ q[k].n = n + i
    <3>1. \A i \in 1 .. m : q[Len(embQueue) + i].n = n + i
      BY <1>5, <1>9
    <3>. QED  BY ONLY <1>9, <3>1
  <2>5. ASSUME NEW o \in EmbOwners, NEW p \in EmbOwners, NEW i \in DOMAIN embCall'[o], NEW j \in DOMAIN embCall'[p],
               EmbAsking(embCall'[o][i]), EmbAsking(embCall'[p][j]), embCall'[o][i].n = embCall'[p][j].n
        PROVE  o = p /\ i = j
    BY ONLY <1>3, <1>12, <2>1, <2>2, <2>3, <2>5 DEF EmbOnce
  <2>6. ASSUME NEW k \in DOMAIN q, NEW l \in DOMAIN q, q[k].n = q[l].n PROVE k = l
    <3>1. \A i, j \in DOMAIN embQueue : embQueue[i].n = embQueue[j].n => i = j
      BY <2>1 DEF EmbOnce
    <3>2. CASE k \in DOMAIN embQueue /\ l \in DOMAIN embQueue
      BY <1>9, <2>6, <3>1, <3>2
    <3>3. CASE k \in DOMAIN embQueue /\ l \notin DOMAIN embQueue
      <4>1. q[k].n \in 1 .. n /\ q[l].n \notin 1 .. n
        <5>1. q[k].n \in 1 .. n
          BY ONLY <1>9, <1>13, <3>3
        <5>2. \E i \in 1 .. m : q[l].n = n + i
          BY ONLY <2>4, <2>6, <3>3
        <5>. QED  BY ONLY <1>3, <5>1, <5>2
      <4>. QED  BY ONLY <2>6, <4>1
    <3>4. CASE k \notin DOMAIN embQueue /\ l \in DOMAIN embQueue
      <4>1. q[l].n \in 1 .. n /\ q[k].n \notin 1 .. n
        <5>1. q[l].n \in 1 .. n
          BY ONLY <1>9, <1>13, <3>4
        <5>2. \E i \in 1 .. m : q[k].n = n + i
          BY ONLY <2>4, <2>6, <3>4
        <5>. QED  BY ONLY <1>3, <5>1, <5>2
      <4>. QED  BY ONLY <2>6, <4>1
    <3>5. CASE k \notin DOMAIN embQueue /\ l \notin DOMAIN embQueue
      <4>1. PICK i \in 1 .. m : k = Len(embQueue) + i /\ q[k].n = n + i
        BY <2>4, <3>5
      <4>2. PICK j \in 1 .. m : l = Len(embQueue) + j /\ q[l].n = n + j
        BY <2>4, <3>5
      <4>3. i = j
        BY <2>2, <2>6, <4>1, <4>2
      <4>. QED  BY <4>1, <4>2, <4>3
    <3>. QED  BY <3>2, <3>3, <3>4, <3>5
  <2>7. ASSUME NEW w \in EmbPool, NEW k \in DOMAIN embTxs[w]
        PROVE  /\ \A l \in DOMAIN q : q[l].n # embTxs[w][k].n
               /\ \A o \in EmbOwners : \A i \in DOMAIN embCall'[o] :
                    EmbAsking(embCall'[o][i]) => embCall'[o][i].n # embTxs[w][k].n
    <3>1. embTxs[w][k].n \in 1 .. n /\ \A i \in 1 .. m : n + i # embTxs[w][k].n
      BY ONLY <1>3, <1>13, <2>7
    <3>2. /\ \A l \in DOMAIN embQueue : embQueue[l].n # embTxs[w][k].n
          /\ \A o \in EmbOwners : \A i \in DOMAIN embCall[o] :
               EmbAsking(embCall[o][i]) => embCall[o][i].n # embTxs[w][k].n
      BY ONLY <2>1, <2>7 DEF EmbOnce
    <3>3. \A l \in DOMAIN q : q[l].n # embTxs[w][k].n
      BY ONLY <2>4, <3>1, <3>2
    <3>4. ASSUME NEW o \in EmbOwners, NEW i \in DOMAIN embCall'[o], EmbAsking(embCall'[o][i])
          PROVE  embCall'[o][i].n # embTxs[w][k].n
      BY ONLY <2>3, <3>1, <3>2, <3>4
    <3>. QED  BY ONLY <3>3, <3>4
  <2>. QED  BY <2>1, <2>5, <2>6, <2>7 DEF EmbOnce
<1>16. EmbKept(embCall', embTxs, q, embPending)
  <2>1. \A w \in EmbPool : w \in EmbOwners /\ embCall'[w] = embCall[w]
    BY <1>8 DEF EmbOwners
  <2>2. \A k : EmbHas(embQueue, k) => EmbHas(q, k)
    BY <1>9 DEF EmbHas
  <2>3. ASSUME NEW i \in 1 .. m PROVE EmbHas(q, n + i)
    <3>1. Len(embQueue) + i \in DOMAIN q /\ q[Len(embQueue) + i].n = n + i
      BY <1>5, <1>9
    <3>. QED  BY ONLY <3>1 DEF EmbHas
  <2>4. ASSUME NEW o \in EmbOwners, NEW i \in DOMAIN embCall'[o]
        PROVE  EmbSlotKept(embCall'[o][i], embCall', embTxs, q, embPending)
    <3>1. CASE o = c
      <4>1. i \in 1 .. m /\ embCall'[o][i] = slots[i]
        BY <1>4, <1>8, <3>1
      <4>2. slots[i].n = n + i /\ slots[i].at = "send" /\ EmbHas(q, n + i)
        BY <1>5, <2>3, <4>1
      <4>. QED  BY <4>1, <4>2 DEF EmbSlotKept
    <3>2. CASE o # c
      <4>1. EmbSlotKept(embCall[o][i], embCall, embTxs, embQueue, embPending)
        BY <1>8, <3>2 DEF EmbInv, EmbKept
      <4>. QED  BY <1>8, <2>1, <2>2, <3>2, <4>1 DEF EmbSlotKept
    <3>. QED  BY <3>1, <3>2
  <2>. QED  BY <2>1, <2>4 DEF EmbInv, EmbKept
<1>17. EmbRoom(embCall', q)
  <2>1. ASSUME NEW k \in DOMAIN q PROVE EmbUnsent(embCall', q[k].n) \/ k <= EmbCapacity
    <3>1. CASE k \in DOMAIN embQueue
      <4>1. EmbUnsent(embCall, embQueue[k].n) \/ k <= EmbCapacity
        BY <3>1 DEF EmbInv, EmbRoom
      <4>2. EmbUnsent(embCall, embQueue[k].n) => EmbUnsent(embCall', embQueue[k].n)
        BY <1>8 DEF EmbUnsent
      <4>. QED  BY <1>9, <3>1, <4>1, <4>2
    <3>2. CASE k \notin DOMAIN embQueue
      <4>1. PICK i \in 1 .. m : q[k] = tasks[i]
        BY <1>9, <3>2
      <4>2. i \in DOMAIN embCall'[c] /\ embCall'[c][i].n = q[k].n /\ embCall'[c][i].at = "send"
        BY <1>4, <1>5, <1>7, <1>8, <4>1
      <4>. QED  BY <1>7, <4>2 DEF EmbUnsent
    <3>. QED  BY <3>1, <3>2
  <2>. QED  BY <2>1 DEF EmbRoom
<1>18. embIssued' = n + m
  BY <1>1, <1>2
<1>. QED  BY <1>1, <1>9, <1>10, <1>14, <1>15, <1>16, <1>17, <1>18 DEF EmbInv

\* A text is given to a worker of the pool.
LEMMA EmbSubmitKeeps ==
  ASSUME EmbInv, NEW c \in EmbCallers, NEW text \in EmbTexts, EmbSubmit(c, text)
  PROVE  EmbInv'
<1> DEFINE word == EmbText("worker_block", text)
           slot == EmbSlot(embIssued + 1, word, "pool")
           w    == (embTurn % EmbWorkers) + 1
<1>1. /\ embCall[c] = << >>
      /\ embCall' = [embCall EXCEPT ![c] = <<slot>>]
      /\ embTxs' = [embTxs EXCEPT ![w] = Append(@, EmbTask(slot))]
      /\ embTurn' = embTurn + 1 /\ embIssued' = embIssued + 1
      /\ UNCHANGED <<embQueue, embPending, embRunning, embFailures>>
  BY DEF EmbSubmit
<1>2. PICK n \in Nat : n = embIssued
  BY DEF EmbInv, EmbTyped
<1>3. word \in EmbWords
  BY DEF EmbText, EmbWords
<1>4. n + 1 \in Nat \ {0} /\ n + 1 \in 1 .. n + 1 /\ n + 1 \notin 1 .. n
  OBVIOUS
<1>5. PICK s \in EmbSlotStates, e \in EmbTasks :
        /\ s = slot /\ e = EmbTask(slot)
        /\ s.n = n + 1 /\ s.text = word /\ s.at = "pool" /\ e.n = n + 1 /\ e.text = word
  <2>. HIDE DEF word
  <2>1. "pool" \in {"send", "pool"}
    OBVIOUS
  <2>. QED  BY <1>2, <1>3, <1>4, <2>1, EmbSlotFacts
<1>6. w \in EmbPool
  <2>1. embTurn \in Nat /\ EmbWorkers \in Nat \ {0}
    BY EmbConstants DEF EmbInv, EmbTyped
  <2>. QED  BY <2>1 DEF EmbPool
<1>. HIDE DEF word, slot, w
<1>7. embCall \in [EmbOwners -> Seq(EmbSlotStates)] /\ c \in EmbOwners /\ embTxs \in [EmbPool -> Seq(EmbTasks)]
  BY DEF EmbInv, EmbTyped, EmbOwners
<1>8. /\ embCall' \in [EmbOwners -> Seq(EmbSlotStates)]
      /\ \A o \in EmbOwners : embCall'[o] = IF o = c THEN <<s>> ELSE embCall[o]
      /\ DOMAIN embCall[c] = {} /\ c \notin EmbPool /\ DOMAIN <<s>> = {1}
  <2>1. DOMAIN << >> = {} /\ DOMAIN <<s>> = {1} /\ <<s>> \in Seq(EmbSlotStates)
    OBVIOUS
  <2>2. c \notin EmbPool
    BY EmbConstants
  <2>. QED  BY <1>1, <1>5, <1>7, <2>1, <2>2
<1>9. PICK x \in Seq(EmbTasks) :
        /\ embTxs' = [embTxs EXCEPT ![w] = x]
        /\ \A k \in DOMAIN embTxs[w] : k \in DOMAIN x /\ x[k] = embTxs[w][k]
        /\ Len(embTxs[w]) + 1 \in DOMAIN x /\ x[Len(embTxs[w]) + 1] = e
        /\ \A k \in DOMAIN x : k \in DOMAIN embTxs[w] \/ k = Len(embTxs[w]) + 1
  <2>1. \A q \in Seq(EmbTasks) :
          /\ Append(q, e) \in Seq(EmbTasks)
          /\ \A k \in DOMAIN q : k \in DOMAIN Append(q, e) /\ Append(q, e)[k] = q[k]
          /\ Len(q) + 1 \in DOMAIN Append(q, e) /\ Append(q, e)[Len(q) + 1] = e
          /\ \A k \in DOMAIN Append(q, e) : k \in DOMAIN q \/ k = Len(q) + 1
    OBVIOUS
  <2>2. embTxs' = [embTxs EXCEPT ![w] = Append(embTxs[w], e)] /\ embTxs[w] \in Seq(EmbTasks)
    BY <1>1, <1>5, <1>6, <1>7
  <2>. QED  BY <2>1, <2>2
<1>10. embTxs' \in [EmbPool -> Seq(EmbTasks)] /\ \A v \in EmbPool : embTxs'[v] = IF v = w THEN x ELSE embTxs[v]
  BY <1>6, <1>7, <1>9
<1>11. EmbTyped'
  <2>1. embIssued' \in Nat /\ embTurn' \in Nat
    BY <1>1, <1>2 DEF EmbInv, EmbTyped
  <2>. QED  BY <1>1, <1>8, <1>10, <2>1 DEF EmbInv, EmbTyped
<1>12. PICK name \in [1 .. n -> EmbWords] : EmbNamed(name, embCall, embTxs, embQueue, embPending, n)
  BY <1>2 DEF EmbInv
<1>13. /\ \A o \in EmbOwners : \A i \in DOMAIN embCall[o] : embCall[o][i].n \in 1 .. n
       /\ \A k \in DOMAIN embQueue : embQueue[k].n \in 1 .. n
       /\ \A v \in EmbPool : \A k \in DOMAIN embTxs[v] : embTxs[v][k].n \in 1 .. n
  BY <1>12 DEF EmbNamed, EmbSlotsNamed, EmbTasksNamed
<1>14. \E more \in [1 .. n + 1 -> EmbWords] : EmbNamed(more, embCall', embTxs', embQueue, embPending, n + 1)
  <2>1. PICK more : more = [i \in 1 .. n + 1 |-> IF i \in 1 .. n THEN name[i] ELSE word]
    OBVIOUS
  <2>2. more \in [1 .. n + 1 -> EmbWords]
    BY <1>3, <2>1
  <2>3. (\A i \in 1 .. n : i \in 1 .. n + 1 /\ more[i] = name[i]) /\ more[n + 1] = word
    BY <1>4, <2>1
  <2>4. EmbNamed(more, embCall, embTxs, embQueue, embPending, n + 1)
    <3>1. n + 1 \in Nat /\ n <= n + 1
      OBVIOUS
    <3>. QED  BY <1>12, <2>2, <2>3, <3>1, EmbNamesGrow
  <2>5. EmbTasksNamed(x, more, n + 1)
    <3>1. ASSUME NEW k \in DOMAIN x PROVE x[k].n \in 1 .. n + 1 /\ x[k].text = more[x[k].n]
      <4>1. CASE k \in DOMAIN embTxs[w]
        BY <1>6, <1>9, <2>4, <4>1 DEF EmbNamed, EmbTasksNamed
      <4>2. CASE k \notin DOMAIN embTxs[w]
        BY <1>4, <1>5, <1>9, <2>3, <4>2
      <4>. QED  BY <4>1, <4>2
    <3>. QED  BY <3>1 DEF EmbTasksNamed
  <2>6. EmbSlotsNamed(<<s>>, more, n + 1)
    BY <1>4, <1>5, <1>8, <2>3 DEF EmbSlotsNamed
  <2>7. \A o \in EmbOwners : EmbSlotsNamed(embCall'[o], more, n + 1)
    BY <1>8, <2>4, <2>6 DEF EmbNamed
  <2>8. \A v \in EmbPool : EmbTasksNamed(embTxs'[v], more, n + 1)
    BY <1>10, <2>4, <2>5 DEF EmbNamed
  <2>. QED  BY <2>2, <2>4, <2>7, <2>8 DEF EmbNamed
<1>15. \A v \in EmbPool : \A k \in DOMAIN embTxs'[v] :
         \/ k \in DOMAIN embTxs[v] /\ embTxs'[v][k] = embTxs[v][k]
         \/ v = w /\ k = Len(embTxs[w]) + 1 /\ embTxs'[v][k].n = n + 1
  BY <1>5, <1>9, <1>10
<1>16. \A o \in EmbOwners : \A i \in DOMAIN embCall'[o] :
         \/ o # c /\ i \in DOMAIN embCall[o] /\ embCall'[o][i] = embCall[o][i]
         \/ o = c /\ i = 1 /\ embCall'[o][i] = s /\ ~ EmbAsking(embCall'[o][i])
  BY <1>5, <1>8 DEF EmbAsking
<1>17. EmbOnce(embCall', embTxs', embQueue)
  <2>1. EmbOnce(embCall, embTxs, embQueue)
    BY DEF EmbInv
  <2>2. ASSUME NEW v \in EmbPool, NEW u \in EmbPool, NEW k \in DOMAIN embTxs'[v], NEW l \in DOMAIN embTxs'[u],
               embTxs'[v][k].n = embTxs'[u][l].n
        PROVE  v = u /\ k = l
    BY ONLY <1>4, <1>13, <1>15, <2>1, <2>2 DEF EmbOnce
  <2>3. ASSUME NEW v \in EmbPool, NEW k \in DOMAIN embTxs'[v]
        PROVE  /\ \A l \in DOMAIN embQueue : embQueue[l].n # embTxs'[v][k].n
               /\ \A o \in EmbOwners : \A i \in DOMAIN embCall'[o] :
                    EmbAsking(embCall'[o][i]) => embCall'[o][i].n # embTxs'[v][k].n
    BY ONLY <1>4, <1>13, <1>15, <1>16, <2>1, <2>3 DEF EmbOnce
  <2>4. ASSUME NEW o \in EmbOwners, NEW p \in EmbOwners, NEW i \in DOMAIN embCall'[o], NEW j \in DOMAIN embCall'[p],
               EmbAsking(embCall'[o][i]), EmbAsking(embCall'[p][j]), embCall'[o][i].n = embCall'[p][j].n
        PROVE  o = p /\ i = j
    BY ONLY <1>16, <2>1, <2>4 DEF EmbOnce
  <2>. QED  BY ONLY <2>1, <2>2, <2>3, <2>4 DEF EmbOnce
<1>18. EmbKept(embCall', embTxs', embQueue, embPending)
  <2>1. \A v \in EmbPool : v \in EmbOwners /\ embCall'[v] = embCall[v]
    BY <1>8 DEF EmbOwners
  <2>2. \A k : \A v \in EmbPool : EmbHas(embTxs[v], k) => EmbHas(embTxs'[v], k)
    BY <1>9, <1>10 DEF EmbHas
  <2>3. EmbHas(embTxs'[w], n + 1)
    BY <1>5, <1>6, <1>9, <1>10 DEF EmbHas
  <2>4. ASSUME NEW o \in EmbOwners, NEW i \in DOMAIN embCall'[o]
        PROVE  EmbSlotKept(embCall'[o][i], embCall', embTxs', embQueue, embPending)
    <3>1. CASE o = c
      BY <1>5, <1>6, <1>16, <2>3, <3>1 DEF EmbSlotKept
    <3>2. CASE o # c
      <4>1. EmbSlotKept(embCall[o][i], embCall, embTxs, embQueue, embPending)
        BY <1>8, <3>2 DEF EmbInv, EmbKept
      <4>. QED  BY <1>8, <2>1, <2>2, <3>2, <4>1 DEF EmbSlotKept
    <3>. QED  BY <3>1, <3>2
  <2>. QED  BY <2>1, <2>4 DEF EmbInv, EmbKept
<1>19. EmbRoom(embCall', embQueue)
  <2>1. \A k : EmbUnsent(embCall, k) => EmbUnsent(embCall', k)
    BY <1>8 DEF EmbUnsent
  <2>. QED  BY <2>1 DEF EmbInv, EmbRoom
<1>20. embIssued' = n + 1
  BY <1>1, <1>2
<1>. QED  BY <1>1, <1>11, <1>14, <1>17, <1>18, <1>19, <1>20 DEF EmbInv

\* A worker of the pool calls the service.
LEMMA EmbTakesKeeps ==
  ASSUME EmbInv, NEW w \in EmbPool, EmbTakes(w)
  PROVE  EmbInv'
<1> DEFINE t == Head(embTxs[w])
<1>1. /\ embCall[w] = << >> /\ embTxs[w] # << >>
      /\ embCall' = [embCall EXCEPT ![w] = <<EmbSlot(t.n, t.text, "send")>>]
      /\ embQueue' = Append(embQueue, t)
      /\ embTxs' = [embTxs EXCEPT ![w] = Tail(@)]
      /\ UNCHANGED <<embTurn, embPending, embRunning, embIssued, embFailures>>
  BY DEF EmbTakes
<1>2. embCall \in [EmbOwners -> Seq(EmbSlotStates)] /\ w \in EmbOwners
      /\ embTxs \in [EmbPool -> Seq(EmbTasks)] /\ embQueue \in Seq(EmbTasks)
  BY DEF EmbInv, EmbTyped, EmbOwners
<1>3. PICK e \in EmbTasks, x \in Seq(EmbTasks) : e = t /\ x = Tail(embTxs[w])
  <2>1. PICK s \in Seq(EmbTasks) : s = embTxs[w] /\ s # << >>
    BY <1>1, <1>2
  <2>2. Head(s) \in EmbTasks /\ Tail(s) \in Seq(EmbTasks)
    BY <2>1
  <2>. QED  BY <2>1, <2>2
<1>20. /\ 1 \in DOMAIN embTxs[w] /\ embTxs[w][1] = e
       /\ \A k \in DOMAIN x : k + 1 \in DOMAIN embTxs[w] /\ x[k] = embTxs[w][k + 1] /\ k + 1 # 1
       /\ \A k \in DOMAIN embTxs[w] : k = 1 \/ \E j \in DOMAIN x : k = j + 1 /\ x[j] = embTxs[w][k]
       /\ \A j, k \in DOMAIN x : j + 1 = k + 1 => j = k
  <2>1. PICK s \in Seq(EmbTasks) : s = embTxs[w] /\ s # << >>
    BY <1>1, <1>2
  <2>2. x = Tail(s) /\ e = Head(s)
    BY <1>3, <2>1
  <2>. HIDE DEF t
  <2>3. 1 \in DOMAIN s /\ s[1] = e
    BY <2>1, <2>2
  <2>4. \A k \in DOMAIN x : k + 1 \in DOMAIN s /\ x[k] = s[k + 1] /\ k + 1 # 1
    BY <2>1, <2>2
  <2>5. \A k \in DOMAIN s : k = 1 \/ (k - 1 \in DOMAIN x /\ k = (k - 1) + 1 /\ x[k - 1] = s[k])
    BY <2>1, <2>2
  <2>6. \A k \in DOMAIN s : k = 1 \/ \E j \in DOMAIN x : k = j + 1 /\ x[j] = s[k]
    BY ONLY <2>5
  <2>7. \A j, k \in DOMAIN x : j + 1 = k + 1 => j = k
    OBVIOUS
  <2>8. embTxs[w] = s
    BY <2>1
  <2>. QED  BY ONLY <2>3, <2>4, <2>6, <2>7, <2>8
<1>4. PICK s \in EmbSlotStates :
        s = EmbSlot(e.n, e.text, "send") /\ s.n = e.n /\ s.text = e.text /\ s.at = "send"
  <2>1. e.n \in Nat \ {0} /\ e.text \in EmbWords /\ "send" \in {"send", "pool"}
    BY DEF EmbTasks
  <2>. QED  BY ONLY <2>1, EmbSlotFacts
<1>. HIDE DEF t
<1>5. /\ embCall' \in [EmbOwners -> Seq(EmbSlotStates)]
      /\ \A o \in EmbOwners : embCall'[o] = IF o = w THEN <<s>> ELSE embCall[o]
      /\ DOMAIN embCall[w] = {} /\ DOMAIN <<s>> = {1} /\ Len(<<s>>) = 1
  <2>1. DOMAIN << >> = {} /\ DOMAIN <<s>> = {1} /\ <<s>> \in Seq(EmbSlotStates) /\ Len(<<s>>) = 1
    OBVIOUS
  <2>. QED  BY <1>1, <1>2, <1>3, <1>20, <1>4, <2>1
<1>6. embTxs' \in [EmbPool -> Seq(EmbTasks)] /\ \A v \in EmbPool : embTxs'[v] = IF v = w THEN x ELSE embTxs[v]
  BY <1>1, <1>2, <1>3, <1>20
<1>7. PICK q \in Seq(EmbTasks) :
        /\ q = embQueue'
        /\ \A k \in DOMAIN embQueue : k \in DOMAIN q /\ q[k] = embQueue[k]
        /\ Len(embQueue) + 1 \in DOMAIN q /\ q[Len(embQueue) + 1] = e
        /\ \A k \in DOMAIN q : k \in DOMAIN embQueue \/ k = Len(embQueue) + 1
  <2>1. \A q \in Seq(EmbTasks) :
          /\ Append(q, e) \in Seq(EmbTasks)
          /\ \A k \in DOMAIN q : k \in DOMAIN Append(q, e) /\ Append(q, e)[k] = q[k]
          /\ Len(q) + 1 \in DOMAIN Append(q, e) /\ Append(q, e)[Len(q) + 1] = e
          /\ \A k \in DOMAIN Append(q, e) : k \in DOMAIN q \/ k = Len(q) + 1
    OBVIOUS
  <2>. QED  BY <1>1, <1>2, <1>3, <1>20, <2>1
<1>8. EmbTyped'
  BY <1>1, <1>5, <1>6, <1>7 DEF EmbInv, EmbTyped
<1>9. ASSUME NEW name, EmbNamed(name, embCall, embTxs, embQueue, embPending, embIssued)
      PROVE  EmbNamed(name, embCall', embTxs', q, embPending, embIssued)
  <2>1. e.n \in 1 .. embIssued /\ e.text = name[e.n]
    BY <1>3, <1>20, <1>9 DEF EmbNamed, EmbTasksNamed
  <2>2. EmbTasksNamed(x, name, embIssued)
    BY <1>3, <1>20, <1>9 DEF EmbNamed, EmbTasksNamed
  <2>3. EmbTasksNamed(q, name, embIssued)
    <3>1. ASSUME NEW k \in DOMAIN q PROVE q[k].n \in 1 .. embIssued /\ q[k].text = name[q[k].n]
      <4>1. CASE k \in DOMAIN embQueue
        BY <1>7, <1>9, <4>1 DEF EmbNamed, EmbTasksNamed
      <4>2. CASE k \notin DOMAIN embQueue
        BY <1>7, <2>1, <4>2
      <4>. QED  BY <4>1, <4>2
    <3>. QED  BY <3>1 DEF EmbTasksNamed
  <2>4. EmbSlotsNamed(<<s>>, name, embIssued)
    BY <1>4, <1>5, <2>1 DEF EmbSlotsNamed
  <2>. QED  BY <1>5, <1>6, <1>9, <2>2, <2>3, <2>4 DEF EmbNamed
<1>10. EmbOnce(embCall, embTxs, embQueue)
  BY DEF EmbInv
<1>11. /\ \A l \in DOMAIN embQueue : embQueue[l].n # e.n
       /\ \A o \in EmbOwners : \A i \in DOMAIN embCall[o] : EmbAsking(embCall[o][i]) => embCall[o][i].n # e.n
  BY <1>3, <1>20, <1>10 DEF EmbOnce
<1>12. \A o \in EmbOwners : \A i \in DOMAIN embCall'[o] :
         \/ o # w /\ i \in DOMAIN embCall[o] /\ embCall'[o][i] = embCall[o][i]
         \/ o = w /\ i = 1 /\ embCall'[o][i] = s /\ s.n = e.n
  BY <1>4, <1>5
<1>13. \A k \in DOMAIN q :
         \/ k \in DOMAIN embQueue /\ q[k] = embQueue[k]
         \/ k = Len(embQueue) + 1 /\ q[k].n = e.n
  BY <1>7
<1>14. \A v \in EmbPool : \A k \in DOMAIN embTxs'[v] :
         \/ v # w /\ k \in DOMAIN embTxs[v] /\ embTxs'[v][k] = embTxs[v][k]
         \/ v = w /\ k \in DOMAIN x /\ k + 1 \in DOMAIN embTxs[v] /\ k + 1 # 1 /\ embTxs'[v][k] = embTxs[v][k + 1]
  BY <1>3, <1>20, <1>6
<1>15. \A v \in EmbPool : \A k \in DOMAIN embTxs'[v] : embTxs'[v][k].n # e.n
  <2>1. ASSUME NEW v \in EmbPool, NEW k \in DOMAIN embTxs[v], embTxs[v][k].n = e.n PROVE v = w /\ k = 1
    BY <1>3, <1>20, <1>10, <2>1 DEF EmbOnce
  <2>. QED  BY <1>14, <2>1
<1>16. EmbOnce(embCall', embTxs', q)
  <2>1. ASSUME NEW o \in EmbOwners, NEW p \in EmbOwners, NEW i \in DOMAIN embCall'[o], NEW j \in DOMAIN embCall'[p],
               EmbAsking(embCall'[o][i]), EmbAsking(embCall'[p][j]), embCall'[o][i].n = embCall'[p][j].n
        PROVE  o = p /\ i = j
    BY ONLY <1>10, <1>11, <1>12, <2>1 DEF EmbOnce
  <2>2. ASSUME NEW k \in DOMAIN q, NEW l \in DOMAIN q, q[k].n = q[l].n PROVE k = l
    BY ONLY <1>10, <1>11, <1>13, <2>2 DEF EmbOnce
  <2>3. ASSUME NEW v \in EmbPool, NEW u \in EmbPool, NEW k \in DOMAIN embTxs'[v], NEW l \in DOMAIN embTxs'[u],
               embTxs'[v][k].n = embTxs'[u][l].n
        PROVE  v = u /\ k = l
    <3>1. \A a \in DOMAIN embTxs[v] : \A b \in DOMAIN embTxs[u] : embTxs[v][a].n = embTxs[u][b].n => v = u /\ a = b
      BY <1>10 DEF EmbOnce
    <3>2. \A j, i \in DOMAIN x : j + 1 = i + 1 => j = i
      BY <1>3, <1>20
    <3>. QED  BY ONLY <1>14, <2>3, <3>1, <3>2
  <2>4. ASSUME NEW v \in EmbPool, NEW k \in DOMAIN embTxs'[v]
        PROVE  /\ \A l \in DOMAIN q : q[l].n # embTxs'[v][k].n
               /\ \A o \in EmbOwners : \A i \in DOMAIN embCall'[o] :
                    EmbAsking(embCall'[o][i]) => embCall'[o][i].n # embTxs'[v][k].n
    <3>1. \E j \in DOMAIN embTxs[v] : embTxs'[v][k] = embTxs[v][j]
      BY <1>14
    <3>2. embTxs'[v][k].n # e.n
      BY <1>15
    <3>. QED  BY ONLY <1>10, <1>12, <1>13, <3>1, <3>2 DEF EmbOnce
  <2>. QED  BY ONLY <2>1, <2>2, <2>3, <2>4 DEF EmbOnce
<1>17. EmbKept(embCall', embTxs', q, embPending)
  <2>1. \A v \in EmbPool : v \in EmbOwners
    BY DEF EmbOwners
  <2>2. EmbHas(embCall'[w], e.n) /\ EmbHas(q, e.n)
    <3>1. 1 \in DOMAIN embCall'[w] /\ embCall'[w][1].n = e.n
      BY <1>2, <1>4, <1>5
    <3>2. \E k \in DOMAIN q : q[k].n = e.n
      BY <1>7
    <3>. QED  BY ONLY <3>1, <3>2 DEF EmbHas
  <2>3. \A n : EmbHas(embQueue, n) => EmbHas(q, n)
    BY <1>7 DEF EmbHas
  <2>4. ASSUME NEW v \in EmbPool, NEW n, EmbHas(embTxs[v], n) \/ EmbHas(embCall[v], n)
        PROVE  EmbHas(embTxs'[v], n) \/ EmbHas(embCall'[v], n)
    <3>1. CASE v # w
      BY <1>5, <1>6, <2>1, <2>4, <3>1
    <3>2. CASE v = w
      <4>1. PICK k \in DOMAIN embTxs[w] : embTxs[w][k].n = n
        BY <1>5, <2>4, <3>2 DEF EmbHas
      <4>2. CASE k = 1
        BY <1>3, <1>20, <2>2, <3>2, <4>1, <4>2
      <4>3. CASE k # 1
        <5>1. PICK j \in DOMAIN x : x[j] = embTxs[w][k]
          BY <1>3, <1>20, <4>3
        <5>. QED  BY <1>6, <3>2, <4>1, <5>1 DEF EmbHas
      <4>. QED  BY <4>2, <4>3
    <3>. QED  BY <3>1, <3>2
  <2>5. ASSUME NEW o \in EmbOwners, NEW i \in DOMAIN embCall'[o]
        PROVE  EmbSlotKept(embCall'[o][i], embCall', embTxs', q, embPending)
    <3>1. CASE o = w
      BY <1>4, <1>12, <2>2, <3>1 DEF EmbSlotKept
    <3>2. CASE o # w
      <4>1. i \in DOMAIN embCall[o] /\ embCall'[o][i] = embCall[o][i]
        BY <1>12, <3>2
      <4>2. EmbSlotKept(embCall[o][i], embCall, embTxs, embQueue, embPending)
        BY <4>1 DEF EmbInv, EmbKept
      <4>. QED  BY <2>3, <2>4, <4>1, <4>2 DEF EmbSlotKept
    <3>. QED  BY <3>1, <3>2
  <2>6. ASSUME NEW v \in EmbPool
        PROVE  Len(embCall'[v]) <= 1 /\ \A i \in DOMAIN embCall'[v] : embCall'[v][i].at # "pool"
    <3>1. CASE v = w
      BY <1>4, <1>5, <1>12, <2>1, <3>1
    <3>2. CASE v # w
      BY <1>5, <2>1, <3>2 DEF EmbInv, EmbKept
    <3>. QED  BY <3>1, <3>2
  <2>. QED  BY <2>5, <2>6 DEF EmbKept
<1>18. EmbRoom(embCall', q)
  <2>1. \A n : EmbUnsent(embCall, n) => EmbUnsent(embCall', n)
    BY <1>5 DEF EmbUnsent
  <2>2. EmbUnsent(embCall', e.n)
    <3>1. embCall'[w] = <<s>> /\ 1 \in DOMAIN <<s>> /\ <<s>>[1] = s
      BY <1>2, <1>5
    <3>. QED  BY ONLY <1>2, <1>4, <3>1 DEF EmbUnsent
  <2>3. EmbRoom(embCall, embQueue)
    BY DEF EmbInv
  <2>. QED  BY <1>7, <2>1, <2>2, <2>3 DEF EmbRoom
<1>. QED  BY <1>1, <1>7, <1>8, <1>9, <1>16, <1>17, <1>18 DEF EmbInv

\* A caller drops its call.
LEMMA EmbGiveUpKeeps ==
  ASSUME EmbInv, NEW c \in EmbCallers, EmbGiveUp(c)
  PROVE  EmbInv'
<1> DEFINE gone == {s.n : s \in {x \in ToSet(embCall[c]) : x.at = "send"}}
           pieces == [k \in DOMAIN embQueue |-> IF embQueue[k].n \in gone THEN << >> ELSE <<embQueue[k]>>]
<1>1. /\ embCall' = [embCall EXCEPT ![c] = << >>]
      /\ embQueue' = FlattenSeq(pieces)
      /\ UNCHANGED <<embTxs, embTurn, embPending, embRunning, embIssued, embFailures>>
  BY DEF EmbGiveUp
<1>2. embCall \in [EmbOwners -> Seq(EmbSlotStates)] /\ c \in EmbOwners /\ embQueue \in Seq(EmbTasks)
  BY DEF EmbInv, EmbTyped, EmbOwners
<1>3. \A n : n \in gone <=> \E i \in DOMAIN embCall[c] : embCall[c][i].n = n /\ embCall[c][i].at = "send"
  BY DEF ToSet
<1>. HIDE DEF gone
<1>4. /\ pieces \in Seq(Seq(EmbTasks)) /\ DOMAIN pieces = DOMAIN embQueue
      /\ \A k \in DOMAIN pieces :
           IF embQueue[k].n \in gone THEN Len(pieces[k]) = 0 ELSE Len(pieces[k]) = 1 /\ pieces[k][1] = embQueue[k]
  <2>1. PICK n \in Nat : DOMAIN embQueue = 1 .. n
    BY <1>2
  <2>2. ASSUME NEW k \in 1 .. n
        PROVE  /\ pieces[k] \in Seq(EmbTasks)
               /\ IF embQueue[k].n \in gone THEN Len(pieces[k]) = 0 ELSE Len(pieces[k]) = 1 /\ pieces[k][1] = embQueue[k]
    <3>1. PICK e \in EmbTasks : e = embQueue[k]
      BY <1>2, <2>1
    <3>2. /\ << >> \in Seq(EmbTasks) /\ Len(<< >>) = 0
          /\ <<e>> \in Seq(EmbTasks) /\ Len(<<e>>) = 1 /\ <<e>>[1] = e
      OBVIOUS
    <3>3. pieces[k] = IF e.n \in gone THEN << >> ELSE <<e>>
      BY <2>1, <3>1
    <3>. QED  BY ONLY <3>1, <3>2, <3>3
  <2>3. pieces = [k \in 1 .. n |-> pieces[k]]
    BY <2>1
  <2>. HIDE DEF pieces
  <2>4. pieces \in Seq(Seq(EmbTasks))
    BY <2>1, <2>2, <2>3
  <2>5. DOMAIN pieces = 1 .. n
    BY <2>3
  <2>. QED  BY <2>1, <2>2, <2>4, <2>5
<1>. HIDE DEF pieces
<1>5. PICK q \in Seq(EmbTasks) : q = embQueue' /\ InOrderOf(q, pieces)
  <2>1. \A i \in DOMAIN pieces : Len(pieces[i]) <= 1
    <3>1. 0 <= 1 /\ 1 <= 1
      OBVIOUS
    <3>. QED  BY <1>4, <3>1
  <2>2. FlattenSeq(pieces) \in Seq(EmbTasks) /\ InOrderOf(FlattenSeq(pieces), pieces)
    BY ONLY <1>4, <2>1, FlattenedOrder
  <2>. QED  BY <1>1, <2>2
<1>6. PICK from \in [DOMAIN q -> DOMAIN pieces] :
        /\ \A k \in DOMAIN q :
             /\ Len(pieces[from[k]]) = 1 /\ q[k] = pieces[from[k]][1]
             /\ k <= from[k] /\ \A l \in 1 .. k - 1 : from[l] < from[k]
        /\ \A i \in DOMAIN pieces : Len(pieces[i]) = 1 => \E k \in DOMAIN q : from[k] = i
  BY <1>5 DEF InOrderOf
<1>7. \A k \in DOMAIN q :
        /\ from[k] \in DOMAIN embQueue /\ q[k] = embQueue[from[k]] /\ embQueue[from[k]].n \notin gone
        /\ k <= from[k]
  <2>1. 0 # 1
    OBVIOUS
  <2>. QED  BY <1>4, <1>6, <2>1
<1>8. \A k \in DOMAIN embQueue : embQueue[k].n \in gone \/ \E l \in DOMAIN q : from[l] = k /\ q[l] = embQueue[k]
  BY <1>4, <1>6
<1>9. \A k, l \in DOMAIN q : from[k] = from[l] => k = l
  <2>1. PICK n \in Nat : DOMAIN q = 1 .. n
    OBVIOUS
  <2>2. \A k \in 1 .. n : from[k] \in Nat
    <3>1. DOMAIN embQueue \subseteq Nat
      BY <1>2
    <3>. QED  BY ONLY <1>7, <2>1, <3>1
  <2>3. ASSUME NEW k \in 1 .. n, NEW l \in 1 .. n, l < k PROVE from[l] < from[k]
    <3>1. l \in 1 .. k - 1
      BY <2>3
    <3>. QED  BY <1>6, <2>1, <3>1
  <2>4. ASSUME NEW k \in 1 .. n, NEW l \in 1 .. n, from[k] = from[l] PROVE k = l
    <3>1. ~ (from[k] < from[l]) /\ ~ (from[l] < from[k])
      BY <2>2, <2>4
    <3>2. ~ (l < k) /\ ~ (k < l)
      BY <2>3, <3>1
    <3>. QED  BY <3>2
  <2>. QED  BY <2>1, <2>4
<1>10. /\ embCall' \in [EmbOwners -> Seq(EmbSlotStates)]
       /\ \A o \in EmbOwners : embCall'[o] = IF o = c THEN << >> ELSE embCall[o]
       /\ DOMAIN << >> = {} /\ c \notin EmbPool
  <2>1. DOMAIN << >> = {} /\ << >> \in Seq(EmbSlotStates)
    OBVIOUS
  <2>2. c \notin EmbPool
    BY EmbConstants
  <2>. QED  BY <1>1, <1>2, <2>1, <2>2
<1>11. \A o \in EmbOwners : \A i \in DOMAIN embCall'[o] :
         o # c /\ i \in DOMAIN embCall[o] /\ embCall'[o][i] = embCall[o][i]
  BY <1>10
<1>12. EmbTyped'
  BY <1>1, <1>5, <1>10 DEF EmbInv, EmbTyped
<1>13. ASSUME NEW name, EmbNamed(name, embCall, embTxs, embQueue, embPending, embIssued)
       PROVE  EmbNamed(name, embCall', embTxs, q, embPending, embIssued)
  BY <1>7, <1>11, <1>13 DEF EmbNamed, EmbSlotsNamed, EmbTasksNamed
<1>14. EmbOnce(embCall, embTxs, embQueue)
  BY DEF EmbInv
<1>15. EmbOnce(embCall', embTxs, q)
  <2>1. ASSUME NEW k \in DOMAIN q, NEW l \in DOMAIN q, q[k].n = q[l].n PROVE k = l
    <3>1. from[k] = from[l]
      BY <1>7, <1>14, <2>1 DEF EmbOnce
    <3>. QED  BY <1>9, <3>1
  <2>2. ASSUME NEW o \in EmbOwners, NEW p \in EmbOwners, NEW i \in DOMAIN embCall'[o], NEW j \in DOMAIN embCall'[p],
               EmbAsking(embCall'[o][i]), EmbAsking(embCall'[p][j]), embCall'[o][i].n = embCall'[p][j].n
        PROVE  o = p /\ i = j
    BY ONLY <1>11, <1>14, <2>2 DEF EmbOnce
  <2>3. ASSUME NEW w \in EmbPool, NEW k \in DOMAIN embTxs[w]
        PROVE  /\ \A l \in DOMAIN q : q[l].n # embTxs[w][k].n
               /\ \A o \in EmbOwners : \A i \in DOMAIN embCall'[o] :
                    EmbAsking(embCall'[o][i]) => embCall'[o][i].n # embTxs[w][k].n
    BY ONLY <1>7, <1>11, <1>14, <2>3 DEF EmbOnce
  <2>. QED  BY ONLY <1>14, <2>1, <2>2, <2>3 DEF EmbOnce
<1>16. EmbKept(embCall', embTxs, q, embPending)
  <2>1. \A w \in EmbPool : w \in EmbOwners /\ embCall'[w] = embCall[w]
    BY <1>10 DEF EmbOwners
  <2>2. \A n : EmbHas(embQueue, n) => EmbHas(q, n) \/ n \in gone
    BY <1>8 DEF EmbHas
  <2>3. ASSUME NEW o \in EmbOwners, NEW i \in DOMAIN embCall'[o]
        PROVE  EmbSlotKept(embCall'[o][i], embCall', embTxs, q, embPending)
    <3>1. o # c /\ i \in DOMAIN embCall[o] /\ embCall'[o][i] = embCall[o][i]
      BY <1>11
    <3>2. EmbSlotKept(embCall[o][i], embCall, embTxs, embQueue, embPending)
      BY <3>1 DEF EmbInv, EmbKept
    <3>3. EmbAsking(embCall[o][i]) => embCall[o][i].n \notin gone
      <4>1. ASSUME NEW j \in DOMAIN embCall[c], embCall[c][j].at = "send", embCall[c][j].n = embCall[o][i].n,
                   EmbAsking(embCall[o][i])
            PROVE  FALSE
        <5>1. EmbAsking(embCall[c][j])
          BY <4>1 DEF EmbAsking
        <5>. QED  BY ONLY <1>2, <1>14, <3>1, <4>1, <5>1 DEF EmbOnce
      <4>. QED  BY <1>3, <4>1
    <3>. QED  BY <2>1, <2>2, <3>1, <3>2, <3>3 DEF EmbSlotKept, EmbAsking
  <2>. QED  BY <2>1, <2>3 DEF EmbInv, EmbKept
<1>17. EmbRoom(embCall', q)
  <2>1. ASSUME NEW k \in DOMAIN q PROVE EmbUnsent(embCall', q[k].n) \/ k <= EmbCapacity
    <3>1. EmbUnsent(embCall, q[k].n) \/ from[k] <= EmbCapacity
      BY <1>7 DEF EmbInv, EmbRoom
    <3>2. CASE EmbUnsent(embCall, q[k].n)
      <4>1. PICK o \in EmbOwners : \E i \in DOMAIN embCall[o] : embCall[o][i].n = q[k].n /\ embCall[o][i].at = "send"
        BY <3>2 DEF EmbUnsent
      <4>2. o # c
        BY <1>3, <1>7, <4>1
      <4>. QED  BY <1>10, <4>1, <4>2 DEF EmbUnsent
    <3>3. CASE from[k] <= EmbCapacity
      <4>1. k \in Nat /\ from[k] \in Nat /\ EmbCapacity \in Nat /\ k <= from[k]
        BY <1>2, <1>5, <1>7, EmbConstants
      <4>. QED  BY ONLY <3>3, <4>1
    <3>. QED  BY <3>1, <3>2, <3>3
  <2>. QED  BY <2>1 DEF EmbRoom
<1>. QED  BY <1>1, <1>5, <1>12, <1>13, <1>15, <1>16, <1>17 DEF EmbInv

\* Every step keeps it.
LEMMA EmbKeeps == EmbInv /\ [EmbNext]_embVars => EmbInv'
<1>. SUFFICES ASSUME EmbInv, [EmbNext]_embVars PROVE EmbInv'
  OBVIOUS
<1>1. ASSUME NEW c \in EmbCallers, NEW texts \in EmbLists, EmbAsk(c, texts) PROVE EmbInv'
  BY <1>1, EmbAskKeeps
<1>2. ASSUME NEW c \in EmbCallers, NEW t \in EmbTexts, EmbSubmit(c, t) PROVE EmbInv'
  BY <1>2, EmbSubmitKeeps
<1>3. ASSUME NEW c \in EmbCallers, EmbGiveUp(c) PROVE EmbInv'
  BY <1>3, EmbGiveUpKeeps
<1>4. ASSUME NEW w \in EmbPool, EmbTakes(w) PROVE EmbInv'
  BY <1>4, EmbTakesKeeps
<1>5. ASSUME NEW o \in EmbOwners, EmbSend(o) \/ EmbReturn(o) PROVE EmbInv'
  BY <1>5, EmbSendKeeps, EmbReturnKeeps
<1>6. CASE EmbWork
  BY <1>6, EmbReceiveKeeps, EmbPauses, EmbComputeKeeps DEF EmbWork
<1>7. CASE UNCHANGED embVars
  BY <1>7 DEF embVars, EmbInv, EmbTyped
<1>. QED  BY <1>1, <1>2, <1>3, <1>4, <1>5, <1>6, <1>7 DEF EmbNext

\* For every set of callers, every pool, capacity and batch size, and whoever
\* fails, gives up or shares a batch: a text gets its own vector, none is
\* forgotten while somebody waits for it, the channel keeps to its capacity, and
\* a batch outgrows its size only by the failures before it.
THEOREM EmbeddingsAreSound == EmbSpec => []EmbeddingsSound
BY EmbStarts, EmbKeeps, EmbInvSound, PTL DEF EmbSpec

-----------------------------------------------------------------------------
(* PiiRedact *)

PiiFound == [pattern : DOMAIN PiiPatterns, start : 0 .. PiiLength, end : 0 .. PiiLength]

\* No finding within another one, and in order.
PiiRising(fs) ==
  \A i, j \in DOMAIN fs : i < j => fs[i].start < fs[j].start /\ fs[i].end < fs[j].end

\* What has been kept of the first m findings of a sorted list.
PiiKeptSound(kept, s, m) ==
  /\ kept \in Seq({s[i] : i \in 1 .. m}) /\ PiiRising(kept)
  /\ \A i \in 1 .. m : \E j \in DOMAIN kept : PiiWithin(s[i], kept[j])

\* What a text is made of: its letters, and what replaces some.
PiiSymbols == {<<"letter", i>> : i \in 1 .. PiiLength} \cup {<<"x", p>> : p \in DOMAIN PiiPatterns}

\* P[i]: the first i letters with the findings replaced.
PiiPrefixes(P) ==
  /\ P \in [0 .. PiiLength -> Seq(PiiSymbols)] /\ P[0] = << >>
  /\ \A i \in 1 .. PiiLength : P[i] = P[i - 1] \o PiiPut(i)

\* t begins with p, and the letters behind the first e follow.
PiiGoesOn(t, p, e) ==
  /\ t \in Seq(PiiSymbols) /\ Len(t) = Len(p) + (PiiLength - e)
  /\ \A i \in 1 .. Len(p) : t[i] = p[i]
  /\ \A i \in e + 1 .. PiiLength : t[Len(p) + i - e] = <<"letter", i>>

\* q is p and the letters from e to s.
PiiLettersBetween(q, p, e, s) ==
  /\ Len(q) = Len(p) + (s - e)
  /\ \A i \in 1 .. Len(p) : q[i] = p[i]
  /\ \A i \in e + 1 .. s : q[Len(p) + i - e] = <<"letter", i>>

PiiApart == \A i \in 2 .. Len(piiFindings) : piiFindings[i - 1].end <= piiFindings[i].start

\* Where the letters begin that no replacement has come to.
PiiReached(k) == IF k = 0 THEN 0 ELSE piiFindings[k].end

PiiFindingsInv ==
  /\ piiFindings \in Seq(PiiCounted) /\ PiiRising(piiFindings)
  /\ \A f \in PiiCounted : \E j \in DOMAIN piiFindings : PiiWithin(f, piiFindings[j])

PiiTextInv ==
  \A P : PiiApart /\ PiiPrefixes(P) =>
    /\ PiiGoesOn(piiText, P[PiiReached(piiAt)], PiiReached(piiAt))
    /\ piiShift = Len(P[PiiReached(piiAt)]) - PiiReached(piiAt)

PiiInv ==
  /\ piiPhase \in {"idle", "scanned", "replacing", "done"}
  /\ piiPhase # "idle" => piiHits \in PiiHits
  /\ piiPhase \in {"idle", "scanned"} => piiShift = 0 /\ piiAt = 0
  /\ piiPhase = "scanned" => piiText = PiiLetters
  /\ piiPhase \in {"replacing", "done"} =>
       PiiFindingsInv /\ piiAt \in 0 .. Len(piiFindings) /\ PiiTextInv
  /\ piiPhase = "done" => piiAt = Len(piiFindings)

\* The findings that count are finitely many, and each is a stretch of the text.
LEMMA PiiCountedFacts ==
  ASSUME piiHits \in PiiHits
  PROVE  /\ IsFiniteSet(PiiCounted) /\ PiiCounted \subseteq PiiFound
         /\ \A f \in PiiCounted : f.start < f.end
<1>1. ASSUME NEW f \in PiiCounted
      PROVE  f \in PiiFound /\ f.start < f.end
  <2>1. PICK p \in DOMAIN PiiPatterns : \E m \in piiHits[p] : f = [pattern |-> p, start |-> m[1], end |-> m[2]]
    BY DEF PiiCounted
  <2>2. PICK m \in piiHits[p] : f = [pattern |-> p, start |-> m[1], end |-> m[2]]
    BY <2>1
  <2>3. {m[1], m[2]} \subseteq 0 .. PiiLength /\ m[1] < m[2]
    BY <2>2, PiiConstants
  <2>. QED  BY <2>2, <2>3 DEF PiiFound
<1>2. PICK T : T = (DOMAIN PiiPatterns) \X ((0 .. PiiLength) \X (0 .. PiiLength))
  OBVIOUS
<1>3. IsFiniteSet(T)
  <2>1. IsFiniteSet(0 .. PiiLength) /\ IsFiniteSet(DOMAIN PiiPatterns)
    BY PiiConstants, FS_Interval
  <2>2. IsFiniteSet((0 .. PiiLength) \X (0 .. PiiLength))
    BY <2>1, FS_Product
  <2>. QED  BY <1>2, <2>1, <2>2, FS_Product
<1>4. PICK g : g = [f \in PiiFound |-> <<f.pattern, <<f.start, f.end>>>>]
  OBVIOUS
<1>5. g \in Injection(PiiFound, T)
  <2>1. g \in [PiiFound -> T]
    BY <1>2, <1>4 DEF PiiFound
  <2>2. \A x, y \in PiiFound : g[x] = g[y] => x = y
    BY <1>4 DEF PiiFound
  <2>. QED  BY <2>1, <2>2 DEF Injection, IsInjective
<1>6. IsFiniteSet(PiiFound)
  BY <1>3, <1>5, FS_Injection
<1>. QED  BY <1>1, <1>6, FS_Subset

\* Sorting keeps all findings, each of them once and in order.
LEMMA PiiSortedFacts ==
  ASSUME NEW found \in SUBSET PiiFound, IsFiniteSet(found)
  PROVE  /\ PiiSorted(found) \in Seq(found)
         /\ \A f \in found : \E i \in DOMAIN PiiSorted(found) : PiiSorted(found)[i] = f
         /\ \A i, j \in DOMAIN PiiSorted(found) : i < j => PiiBefore(PiiSorted(found)[i], PiiSorted(found)[j])
<1>1. PICK level : level = [p \in DOMAIN PiiPatterns |-> PiiPatterns[p].level]
  OBVIOUS
<1>2. \A p \in DOMAIN PiiPatterns : level[p] \in Nat /\ p \in Nat
  BY <1>1, PiiConstants
<1>3. \A f, g \in PiiFound :
        PiiBefore(f, g) <=>
          \/ f.start < g.start
          \/ f.start = g.start /\ \/ f.end > g.end
                                  \/ f.end = g.end /\ \/ level[f.pattern] > level[g.pattern]
                                                      \/ level[f.pattern] = level[g.pattern] /\ f.pattern < g.pattern
  BY <1>1 DEF PiiBefore, PiiFound
<1>4. \A f \in PiiFound : /\ f.start \in Nat /\ f.end \in Nat /\ f.pattern \in Nat /\ level[f.pattern] \in Nat
                          /\ f = [pattern |-> f.pattern, start |-> f.start, end |-> f.end]
  BY <1>2, PiiConstants DEF PiiFound
<1>5. PICK R : R = {p \in found \X found : PiiBefore(p[1], p[2])}
  OBVIOUS
<1>6. \A x, y \in found : <<x, y>> \in R <=> PiiBefore(x, y)
  BY <1>5
<1>7. \A x \in found : <<x, x>> \notin R
  BY <1>3, <1>4, <1>6
<1>8. \A x, y, z \in found : <<x, y>> \in R /\ <<y, z>> \in R => <<x, z>> \in R
  BY <1>3, <1>4, <1>6
<1>9. \A x, y \in found : x # y => <<x, y>> \in R \/ <<y, x>> \in R
  BY <1>3, <1>4, <1>6
<1>10. PICK place : place = [x \in found |-> Cardinality({y \in found : PiiBefore(y, x)}) + 1]
  OBVIOUS
<1>11. place = Places(found, R)
  <2>1. \A x \in found : {y \in found : PiiBefore(y, x)} = {y \in found : <<y, x>> \in R}
    BY <1>6
  <2>. QED  BY <1>10, <2>1 DEF Places
<1>12. PICK n \in Nat : n = Cardinality(found)
  BY FS_CardinalityType
<1>13. /\ \A x \in found : place[x] \in 1 .. n
       /\ \A x, y \in found : <<x, y>> \in R => place[x] < place[y]
       /\ \A i \in 1 .. n : \E x \in found : place[x] = i
  BY <1>7, <1>8, <1>9, <1>11, <1>12, PlacesSort
<1>14. PICK s : s = PiiSorted(found)
  OBVIOUS
<1>15. s = [i \in 1 .. n |-> CHOOSE f \in found : place[f] = i]
  BY <1>10, <1>12, <1>14 DEF PiiSorted
<1>16. \A i \in 1 .. n : s[i] \in found /\ place[s[i]] = i
  BY <1>13, <1>15
<1>17. s \in Seq(found) /\ DOMAIN s = 1 .. n
  BY <1>15, <1>16
<1>18. ASSUME NEW x \in found, NEW y \in found, place[x] = place[y] PROVE x = y
  <2>1. place[x] \in Nat /\ ~ (place[x] < place[y]) /\ ~ (place[y] < place[x])
    BY <1>13, <1>18
  <2>. QED  BY <1>9, <1>13, <2>1
<1>19. \A f \in found : s[place[f]] = f /\ place[f] \in DOMAIN s
  BY <1>13, <1>16, <1>17, <1>18
<1>20. ASSUME NEW i \in 1 .. n, NEW j \in 1 .. n, i < j PROVE PiiBefore(s[i], s[j])
  <2>1. ~ (place[s[j]] < place[s[i]]) /\ s[i] # s[j]
    BY <1>16, <1>20
  <2>. QED  BY <1>6, <1>9, <1>13, <1>16, <2>1
<1>. QED  BY <1>14, <1>17, <1>19, <1>20

\* Dropping what lies within f keeps the others in their order.
LEMMA PiiRetainedFacts ==
  ASSUME NEW S, NEW kept \in Seq(S), NEW f, PiiRising(kept)
  PROVE  /\ PiiRetained(kept, f) \in Seq(S) /\ PiiRising(PiiRetained(kept, f))
         /\ \A k \in DOMAIN PiiRetained(kept, f) :
              /\ ~ PiiWithin(PiiRetained(kept, f)[k], f)
              /\ \E i \in DOMAIN kept : PiiRetained(kept, f)[k] = kept[i]
         /\ \A i \in DOMAIN kept : ~ PiiWithin(kept[i], f)
              => \E k \in DOMAIN PiiRetained(kept, f) : PiiRetained(kept, f)[k] = kept[i]
<1>1. PICK pieces : pieces = [i \in 1 .. Len(kept) |-> IF PiiWithin(kept[i], f) THEN << >> ELSE <<kept[i]>>]
  OBVIOUS
<1>2. DOMAIN kept = 1 .. Len(kept) /\ Len(kept) \in Nat /\ \A i \in DOMAIN kept : kept[i] \in S
  OBVIOUS
<1>3. DOMAIN pieces = DOMAIN kept
      /\ \A i \in DOMAIN kept : pieces[i] = IF PiiWithin(kept[i], f) THEN << >> ELSE <<kept[i]>>
  BY <1>1, <1>2
<1>4. \A i \in DOMAIN kept : /\ pieces[i] \in Seq(S) /\ Len(pieces[i]) <= 1
                             /\ Len(pieces[i]) = 1 <=> ~ PiiWithin(kept[i], f)
                             /\ ~ PiiWithin(kept[i], f) => pieces[i][1] = kept[i]
  <2>1. ASSUME NEW i \in DOMAIN kept
        PROVE /\ pieces[i] \in Seq(S) /\ Len(pieces[i]) <= 1
              /\ Len(pieces[i]) = 1 <=> ~ PiiWithin(kept[i], f)
              /\ ~ PiiWithin(kept[i], f) => pieces[i][1] = kept[i]
    <3>1. PICK e \in S : e = kept[i]
      BY <1>2
    <3>2. CASE PiiWithin(kept[i], f)
      <4>1. pieces[i] = << >>
        BY <1>3, <3>2
      <4>. QED  BY <3>2, <4>1
    <3>3. CASE ~ PiiWithin(kept[i], f)
      <4>1. pieces[i] = <<e>>
        BY <1>3, <3>1, <3>3
      <4>. QED  BY <3>1, <3>3, <4>1
    <3>. QED  BY <3>2, <3>3
  <2>. QED  BY <2>1
<1>5. pieces \in Seq(Seq(S))
  <2>1. pieces \in [1 .. Len(kept) -> Seq(S)]
    BY <1>1, <1>2, <1>3, <1>4
  <2>. QED  BY <1>2, <2>1
<1>6. PICK r : r = PiiRetained(kept, f)
  OBVIOUS
<1>7. r = FlattenSeq(pieces)
  BY <1>1, <1>6 DEF PiiRetained
<1>8. r \in Seq(S) /\ InOrderOf(r, pieces)
  BY <1>3, <1>4, <1>5, <1>7, FlattenedOrder
<1>9. PICK from \in [DOMAIN r -> DOMAIN kept] :
        /\ \A k \in DOMAIN r : /\ Len(pieces[from[k]]) = 1 /\ r[k] = pieces[from[k]][1]
                               /\ \A l \in 1 .. k - 1 : from[l] < from[k]
        /\ \A i \in DOMAIN kept : Len(pieces[i]) = 1 => \E k \in DOMAIN r : from[k] = i
  BY <1>3, <1>8 DEF InOrderOf
<1>10. \A k \in DOMAIN r : from[k] \in DOMAIN kept /\ r[k] = kept[from[k]] /\ ~ PiiWithin(r[k], f)
  BY <1>4, <1>9
<1>11. PiiRising(r)
  <2>1. SUFFICES ASSUME NEW i \in DOMAIN r, NEW j \in DOMAIN r, i < j
                 PROVE  r[i].start < r[j].start /\ r[i].end < r[j].end
    BY DEF PiiRising
  <2>2. i \in 1 .. j - 1
    BY <1>8, <2>1
  <2>3. from[i] < from[j]
    BY <1>9, <2>2
  <2>. QED  BY <1>10, <2>3 DEF PiiRising
<1>12. \A i \in DOMAIN kept : ~ PiiWithin(kept[i], f) => \E k \in DOMAIN r : r[k] = kept[i]
  BY <1>4, <1>9
<1>. QED  BY <1>6, <1>8, <1>10, <1>11, <1>12

\* The next finding of a sorted list.
LEMMA PiiKeepFacts ==
  ASSUME NEW s \in Seq(PiiFound), NEW m \in 1 .. Len(s), NEW kept,
         \A i, j \in DOMAIN s : i < j => PiiBefore(s[i], s[j]),
         PiiKeptSound(kept, s, m - 1)
  PROVE  PiiKeptSound(PiiKeep(kept, s[m]), s, m)
<1>1. PICK S : S = {s[i] : i \in 1 .. m}
  OBVIOUS
<1>2. PICK f : f = s[m]
  OBVIOUS
<1>3. DOMAIN s = 1 .. Len(s) /\ m \in DOMAIN s /\ 1 .. m \subseteq DOMAIN s /\ Len(s) \in Nat /\ m \in Nat
      /\ 1 .. m - 1 \subseteq 1 .. m /\ 1 .. m = (1 .. m - 1) \cup {m}
  OBVIOUS
<1>4. S \subseteq PiiFound /\ f \in S
  BY <1>1, <1>2, <1>3
<1>5. \A g \in PiiFound : g.start \in Nat /\ g.end \in Nat
  BY PiiConstants DEF PiiFound
<1>6. /\ PiiRising(kept)
      /\ \A i \in 1 .. m - 1 : \E j \in DOMAIN kept : PiiWithin(s[i], kept[j])
  BY DEF PiiKeptSound
<1>7. PICK before : before = {s[i] : i \in 1 .. m - 1}
  OBVIOUS
<1>8. before \subseteq S /\ kept \in Seq(before)
  BY <1>1, <1>3, <1>7 DEF PiiKeptSound
<1>9. kept \in Seq(S) /\ DOMAIN kept = 1 .. Len(kept) /\ Len(kept) \in Nat /\ \A j \in DOMAIN kept : kept[j] \in before
  <2>1. DOMAIN kept = 1 .. Len(kept) /\ Len(kept) \in Nat /\ \A j \in DOMAIN kept : kept[j] \in before
    BY <1>8
  <2>2. kept \in Seq(S)
    BY <1>8
  <2>. QED  BY <2>1, <2>2
<1>10. \A g \in before : g.start <= f.start /\ g \in PiiFound
  <2>1. SUFFICES ASSUME NEW i \in 1 .. m - 1 PROVE s[i].start <= f.start /\ s[i] \in PiiFound
    BY <1>7
  <2>2. i \in DOMAIN s /\ i < m
    BY <1>3
  <2>3. PiiBefore(s[i], f) /\ s[i] \in PiiFound
    BY <1>2, <1>3, <2>2
  <2>4. s[i].start < f.start \/ s[i].start = f.start
    BY <2>3 DEF PiiBefore
  <2>. QED  BY <1>4, <1>5, <2>3, <2>4
<1>11. CASE \E g \in ToSet(kept) : PiiWithin(f, g)
  <2>1. PiiKeep(kept, f) = kept
    BY <1>11 DEF PiiKeep
  <2>2. \E j \in DOMAIN kept : PiiWithin(f, kept[j])
    BY <1>11 DEF ToSet
  <2>3. ASSUME NEW i \in 1 .. m PROVE \E j \in DOMAIN kept : PiiWithin(s[i], kept[j])
    <3>1. CASE i = m
      BY <1>2, <2>2, <3>1
    <3>2. CASE i # m
      BY <1>3, <1>6, <3>2
    <3>. QED  BY <3>1, <3>2
  <2>. QED  BY <1>1, <1>2, <1>6, <1>9, <2>1, <2>3 DEF PiiKeptSound
<1>12. CASE ~ \E g \in ToSet(kept) : PiiWithin(f, g)
  <2>1. PICK r : r = PiiRetained(kept, f)
    OBVIOUS
  <2>2. PiiKeep(kept, f) = Append(r, f)
    BY <1>12, <2>1 DEF PiiKeep
  <2>3. \A j \in DOMAIN kept : ~ PiiWithin(f, kept[j])
    BY <1>12 DEF ToSet
  <2>4. /\ r \in Seq(S) /\ PiiRising(r)
        /\ \A k \in DOMAIN r : ~ PiiWithin(r[k], f) /\ \E i \in DOMAIN kept : r[k] = kept[i]
        /\ \A i \in DOMAIN kept : ~ PiiWithin(kept[i], f) => \E k \in DOMAIN r : r[k] = kept[i]
    <3>1. PiiRising(kept) /\ kept \in Seq(S)
      BY <1>6, <1>9
    <3>. QED  BY ONLY <2>1, <3>1, PiiRetainedFacts
  <2>5. \A k \in DOMAIN r : r[k].start < f.start /\ r[k].end < f.end
    <3>1. SUFFICES ASSUME NEW k \in DOMAIN r PROVE r[k].start < f.start /\ r[k].end < f.end
      OBVIOUS
    <3>2. PICK g \in before : g = r[k]
      BY <1>9, <2>4
    <3>3. ~ PiiWithin(g, f) /\ ~ PiiWithin(f, g)
      BY <2>3, <2>4, <3>2
    <3>4. g.start <= f.start /\ g.start \in Nat /\ g.end \in Nat /\ f.start \in Nat /\ f.end \in Nat
      BY <1>4, <1>5, <1>10
    <3>. QED  BY <3>2, <3>3, <3>4 DEF PiiWithin
  <2>6. PICK all : all = Append(r, f)
    OBVIOUS
  <2>7. /\ all \in Seq(S) /\ Len(r) \in Nat
        /\ DOMAIN r = 1 .. Len(r) /\ DOMAIN all = 1 .. Len(r) + 1 /\ all[Len(r) + 1] = f
        /\ \A k \in DOMAIN r : k \in DOMAIN all /\ all[k] = r[k]
    BY <1>4, <2>4, <2>6
  <2>8. PiiRising(all)
    <3>1. SUFFICES ASSUME NEW i \in DOMAIN all, NEW j \in DOMAIN all, i < j
                   PROVE  all[i].start < all[j].start /\ all[i].end < all[j].end
      BY DEF PiiRising
    <3>2. i \in DOMAIN r
      BY <2>7, <3>1
    <3>3. CASE j \in DOMAIN r
      BY <2>4, <2>7, <3>1, <3>2, <3>3 DEF PiiRising
    <3>4. CASE j \notin DOMAIN r
      <4>1. j = Len(r) + 1
        BY <2>7, <3>4
      <4>. QED  BY <2>5, <2>7, <3>2, <4>1
    <3>. QED  BY <3>3, <3>4
  <2>9. ASSUME NEW i \in 1 .. m PROVE \E j \in DOMAIN all : PiiWithin(s[i], all[j])
    <3>0. f.start \in Nat /\ f.end \in Nat
      BY <1>4, <1>5
    <3>1. CASE i = m
      <4>1. PiiWithin(s[i], f)
        BY <1>2, <3>0, <3>1 DEF PiiWithin
      <4>. QED  BY <2>7, <4>1
    <3>2. CASE i # m
      <4>1. i \in 1 .. m - 1
        BY <1>3, <3>2
      <4>2. PICK j \in DOMAIN kept : PiiWithin(s[i], kept[j])
        BY <1>6, <4>1
      <4>3. CASE ~ PiiWithin(kept[j], f)
        BY <2>4, <2>7, <4>2, <4>3
      <4>4. CASE PiiWithin(kept[j], f)
        <5>1. kept[j].start \in Nat /\ kept[j].end \in Nat /\ s[i].start \in Nat /\ s[i].end \in Nat
          BY <1>3, <1>5, <1>9, <1>10
        <5>2. PiiWithin(s[i], f)
          BY <3>0, <4>2, <4>4, <5>1 DEF PiiWithin
        <5>. QED  BY <2>7, <5>2
      <4>. QED  BY <4>3, <4>4
    <3>. QED  BY <3>1, <3>2
  <2>. QED  BY <1>1, <1>2, <2>2, <2>6, <2>7, <2>8, <2>9 DEF PiiKeptSound
<1>. QED  BY <1>2, <1>11, <1>12

\* All of them, one after the other.
LEMMA PiiKeptFacts ==
  ASSUME NEW s \in Seq(PiiFound),
         \A i, j \in DOMAIN s : i < j => PiiBefore(s[i], s[j])
  PROVE  PiiKeptSound(PiiKept(s), s, Len(s))
<1> DEFINE Solves(f, n) == f = [k \in 0 .. n |-> IF k = 0 THEN << >> ELSE PiiKeep(f[k - 1], s[k])]
           after == CHOOSE f : Solves(f, Len(s))
           unsolved == {n \in Nat : ~ \E f : Solves(f, n)}
<1>. HIDE DEF Solves
<1>1. unsolved = {}
  <2>1. SUFFICES ASSUME unsolved # {} PROVE FALSE
    OBVIOUS
  <2>2. PICK n \in unsolved : \A j \in unsolved : ~ (<<j, n>> \in OpToRel(<, Nat))
    <3>1. unsolved \subseteq Nat
      OBVIOUS
    <3>. QED  BY <2>1, <3>1, NatLessThanWellFounded, WFMin
  <2>3. CASE n = 0
    <3>1. PICK g : g = [k \in 0 .. 0 |-> << >>]
      OBVIOUS
    <3>2. g = [k \in 0 .. 0 |-> IF k = 0 THEN << >> ELSE PiiKeep(g[k - 1], s[k])]
      BY <3>1
    <3>3. Solves(g, 0)
      BY <3>2 DEF Solves
    <3>. QED  BY <2>2, <2>3, <3>3
  <2>4. CASE n # 0
    <3>1. n \in Nat /\ n - 1 \in Nat /\ n - 1 < n
      <4>1. n \in Nat
        BY <2>2
      <4>. HIDE DEF unsolved
      <4>. QED  BY <2>4, <4>1
    <3>2. <<n - 1, n>> \in OpToRel(<, Nat)
      BY <3>1 DEF OpToRel
    <3>3. PICK f : Solves(f, n - 1)
      BY <2>2, <3>1, <3>2
    <3>. HIDE DEF unsolved
    <3>4. PICK g : g = [k \in 0 .. n |-> IF k = n THEN PiiKeep(f[n - 1], s[n]) ELSE f[k]]
      OBVIOUS
    <3>5. ASSUME NEW k \in 0 .. n PROVE g[k] = IF k = 0 THEN << >> ELSE PiiKeep(g[k - 1], s[k])
      <4>1. CASE k = n
        <5>1. k # 0 /\ k - 1 \in 0 .. n /\ k - 1 # n /\ k - 1 = n - 1
          BY <2>4, <3>1, <4>1
        <5>2. g[k] = PiiKeep(f[n - 1], s[n]) /\ g[k - 1] = f[n - 1]
          BY <3>4, <4>1, <5>1
        <5>. QED  BY <4>1, <5>1, <5>2
      <4>2. CASE k # n
        <5>1. k \in 0 .. n - 1 /\ g[k] = f[k]
          BY <3>1, <3>4, <4>2
        <5>2. f[k] = IF k = 0 THEN << >> ELSE PiiKeep(f[k - 1], s[k])
          BY <3>3, <5>1 DEF Solves
        <5>3. k # 0 => g[k - 1] = f[k - 1]
          BY <3>1, <3>4, <5>1
        <5>. QED  BY <5>1, <5>2, <5>3
      <4>. QED  BY <4>1, <4>2
    <3>6. g = [k \in 0 .. n |-> g[k]]
      BY <3>4
    <3>7. Solves(g, n)
      BY <3>5, <3>6 DEF Solves
    <3>. QED  BY <2>2, <3>7 DEF unsolved
  <2>. QED  BY <2>3, <2>4
<1>0. PICK l \in Nat : l = Len(s)
  OBVIOUS
<1>2. Solves(after, Len(s))
  <2>1. \E f : Solves(f, Len(s))
    BY <1>0, <1>1
  <2>. QED  BY <2>1
<1>3. PiiKept(s) = after[Len(s)]
  BY DEF PiiKept, Solves
<1>4. PICK a : a = after
  OBVIOUS
<1>5. \A k \in 0 .. l : a[k] = IF k = 0 THEN << >> ELSE PiiKeep(a[k - 1], s[k])
  <2>1. a = [k \in 0 .. l |-> IF k = 0 THEN << >> ELSE PiiKeep(a[k - 1], s[k])]
    BY <1>0, <1>2, <1>4 DEF Solves
  <2>. QED  BY <2>1
<1>. HIDE DEF after, unsolved
<1> DEFINE wrong == {k \in 0 .. l : ~ PiiKeptSound(a[k], s, k)}
<1>6. wrong = {}
  <2>1. SUFFICES ASSUME wrong # {} PROVE FALSE
    OBVIOUS
  <2>2. PICK k \in wrong : \A j \in wrong : ~ (<<j, k>> \in OpToRel(<, Nat))
    <3>1. wrong \subseteq Nat
      OBVIOUS
    <3>. QED  BY <2>1, <3>1, NatLessThanWellFounded, WFMin
  <2>3. k \in 0 .. l /\ k \in Nat /\ ~ PiiKeptSound(a[k], s, k)
    <3>1. k \in 0 .. l /\ ~ PiiKeptSound(a[k], s, k)
      BY <2>2
    <3>. HIDE DEF wrong
    <3>. QED  BY <3>1
  <2>4. CASE k = 0
    <3>1. a[k] = << >> /\ 1 .. k = {}
      BY <1>5, <2>3, <2>4
    <3>2. PiiKeptSound(<< >>, s, k)
      BY <3>1 DEF PiiKeptSound, PiiRising
    <3>. QED  BY <2>3, <3>1, <3>2
  <2>5. CASE k # 0
    <3>. HIDE DEF wrong
    <3>1. k - 1 \in 0 .. l /\ k - 1 \in Nat /\ k - 1 < k /\ k \in 1 .. l
      BY <2>3, <2>5
    <3>2. <<k - 1, k>> \in OpToRel(<, Nat)
      BY <2>3, <3>1 DEF OpToRel
    <3>3. PiiKeptSound(a[k - 1], s, k - 1)
      BY <2>2, <3>1, <3>2 DEF wrong
    <3>4. a[k] = PiiKeep(a[k - 1], s[k])
      BY <1>5, <2>3, <2>5
    <3>5. PiiKeptSound(PiiKeep(a[k - 1], s[k]), s, k)
      BY <1>0, <3>1, <3>3, PiiKeepFacts
    <3>. QED  BY <2>3, <3>4, <3>5
  <2>. QED  BY <2>4, <2>5
<1>7. l \in 0 .. l
  OBVIOUS
<1>8. PiiKeptSound(a[l], s, l)
  BY <1>6, <1>7
<1>. QED  BY <1>0, <1>3, <1>4, <1>8

\* The findings are stretches of the text.
LEMMA PiiFindingTypes ==
  ASSUME piiHits \in PiiHits, PiiFindingsInv
  PROVE  /\ piiFindings \in Seq(PiiFound) /\ Len(piiFindings) \in Nat
         /\ DOMAIN piiFindings = 1 .. Len(piiFindings)
         /\ \A j \in DOMAIN piiFindings :
              /\ piiFindings[j] \in PiiFound /\ piiFindings[j].start \in 0 .. PiiLength
              /\ piiFindings[j].end \in 0 .. PiiLength /\ piiFindings[j].start < piiFindings[j].end
<1>1. PiiCounted \subseteq PiiFound /\ \A f \in PiiCounted : f.start < f.end
  BY PiiCountedFacts
<1>2. PICK C : C = PiiCounted
  OBVIOUS
<1>3. piiFindings \in Seq(C) /\ C \subseteq PiiFound /\ \A f \in C : f.start < f.end
  BY <1>1, <1>2 DEF PiiFindingsInv
<1>4. piiFindings \in Seq(PiiFound) /\ Len(piiFindings) \in Nat /\ DOMAIN piiFindings = 1 .. Len(piiFindings)
      /\ \A j \in DOMAIN piiFindings : piiFindings[j] \in C
  BY <1>3
<1>. QED  BY <1>3, <1>4 DEF PiiFound

\* What replaces a finding.
LEMMA PiiReplacementFacts ==
  ASSUME NEW f \in PiiFound, f.start < f.end
  PROVE  PiiReplacement(f) \in Seq(PiiSymbols)
<1>1. f.pattern \in DOMAIN PiiPatterns /\ f.start \in Nat /\ f.end \in Nat
  BY PiiConstants DEF PiiFound
<1>2. \E n \in Nat : PiiReplacement(f) = [i \in 1 .. n |-> <<"x", f.pattern>>]
  <2>1. PiiFixed \in Nat /\ f.end - f.start \in Nat
    BY <1>1, PiiConstants
  <2>. QED  BY <2>1 DEF PiiReplacement
<1>3. PICK n \in Nat : PiiReplacement(f) = [i \in 1 .. n |-> <<"x", f.pattern>>]
  BY <1>2
<1>4. <<"x", f.pattern>> \in PiiSymbols
  BY <1>1 DEF PiiSymbols
<1>. QED  BY <1>3, <1>4

\* Which letters the findings replace, when they do not overlap.
LEMMA PiiPutFacts ==
  ASSUME piiHits \in PiiHits, PiiFindingsInv, PiiApart
  PROVE  /\ \A k \in 1 .. Len(piiFindings) :
              /\ PiiReached(k - 1) <= piiFindings[k].start
              /\ \A i \in PiiReached(k - 1) + 1 .. piiFindings[k].start : PiiPut(i) = <<<<"letter", i>>>>
              /\ PiiPut(piiFindings[k].start + 1) = PiiReplacement(piiFindings[k])
              /\ \A i \in piiFindings[k].start + 2 .. piiFindings[k].end : PiiPut(i) = << >>
         /\ \A i \in PiiReached(Len(piiFindings)) + 1 .. PiiLength : PiiPut(i) = <<<<"letter", i>>>>
         /\ \A k \in 0 .. Len(piiFindings) : PiiReached(k) \in 0 .. PiiLength
         /\ \A i \in 1 .. PiiLength : PiiPut(i) \in Seq(PiiSymbols)
<1>1. PICK fs : fs = piiFindings
  OBVIOUS
<1>2. PICK n \in Nat : n = Len(fs)
  BY <1>1, PiiFindingTypes
<1>3. DOMAIN fs = 1 .. n
      /\ \A j \in 1 .. n : /\ fs[j] \in PiiFound /\ fs[j].start \in 0 .. PiiLength /\ fs[j].end \in 0 .. PiiLength
                           /\ fs[j].start < fs[j].end
  BY <1>1, <1>2, PiiFindingTypes
<1>4. PICK start : start = [j \in 1 .. n |-> fs[j].start]
  OBVIOUS
<1>5. PICK end : end = [j \in 1 .. n |-> fs[j].end]
  OBVIOUS
<1>6. \A j \in 1 .. n : /\ start[j] = fs[j].start /\ end[j] = fs[j].end /\ start[j] \in 0 .. PiiLength
                        /\ end[j] \in 0 .. PiiLength /\ start[j] < end[j]
  BY <1>3, <1>4, <1>5
<1>7. \A i, j \in 1 .. n : i < j => start[i] < start[j] /\ end[i] < end[j]
  <2>1. \A i, j \in DOMAIN fs : i < j => fs[i].start < fs[j].start /\ fs[i].end < fs[j].end
    BY <1>1 DEF PiiFindingsInv, PiiRising
  <2>2. ASSUME NEW i \in 1 .. n, NEW j \in 1 .. n, i < j PROVE start[i] < start[j] /\ end[i] < end[j]
    <3>1. fs[i].start < fs[j].start /\ fs[i].end < fs[j].end
      BY <1>3, <2>1, <2>2
    <3>. QED  BY <1>6, <3>1
  <2>. QED  BY <2>2
<1>8. \A i \in 2 .. n : end[i - 1] <= start[i]
  <2>1. ASSUME NEW i \in 2 .. n PROVE end[i - 1] <= start[i]
    <3>1. i \in 1 .. n /\ i - 1 \in 1 .. n
      OBVIOUS
    <3>. QED  BY <1>1, <1>2, <1>6, <3>1 DEF PiiApart
  <2>. QED  BY <2>1
<1>9. \A i, j \in 1 .. n : i < j => end[i] <= start[j]
  <2>1. SUFFICES ASSUME NEW i \in 1 .. n, NEW j \in 1 .. n, i < j PROVE end[i] <= start[j]
    OBVIOUS
  <2>2. j \in 2 .. n /\ j - 1 \in 1 .. n
    BY <2>1
  <2>3. PICK a \in Nat, b \in Nat, c \in Nat : a = end[i] /\ b = end[j - 1] /\ c = start[j]
    BY <1>6, <2>2
  <2>4. a <= b
    <3>1. i = j - 1 \/ i < j - 1
      BY <2>1
    <3>. QED  BY <1>7, <2>2, <2>3, <3>1
  <2>5. b <= c
    BY <1>8, <2>2, <2>3
  <2>. QED  BY ONLY <2>3, <2>4, <2>5
<1>10. \A i \in Nat : PiiOver(i) = {fs[j] : j \in {j \in 1 .. n : start[j] < i /\ i <= end[j]}}
  BY <1>1, <1>3, <1>6 DEF PiiOver, ToSet
<1>11. PiiLength \in Nat
  BY PiiConstants
<1>12. \A i \in Nat : (\A j \in 1 .. n : ~ (start[j] < i /\ i <= end[j])) => PiiPut(i) = <<<<"letter", i>>>>
  BY <1>10 DEF PiiPut
<1>13. ASSUME NEW k \in 1 .. n, NEW i \in start[k] + 1 .. end[k]
       PROVE  i \in Nat /\ PiiOver(i) = {fs[k]}
  <2>1. PICK s \in Nat, e \in Nat : s = start[k] /\ e = end[k]
    BY <1>6
  <2>2. i \in Nat /\ s < i /\ i <= e
    BY <1>13, <2>1
  <2>3. ASSUME NEW j \in 1 .. n, start[j] < i, i <= end[j] PROVE j = k
    <3>1. PICK s2 \in Nat, e2 \in Nat : s2 = start[j] /\ e2 = end[j]
      BY <1>6
    <3>2. CASE j < k
      BY <1>9, <2>1, <2>2, <2>3, <3>1, <3>2
    <3>3. CASE k < j
      BY <1>9, <2>1, <2>2, <2>3, <3>1, <3>3
    <3>. QED  BY <3>2, <3>3
  <2>4. {j \in 1 .. n : start[j] < i /\ i <= end[j]} = {k}
    BY <2>1, <2>2, <2>3
  <2>. QED  BY <1>10, <2>2, <2>4
<1>14. ASSUME NEW k \in 1 .. n
       PROVE  /\ PiiPut(start[k] + 1) = PiiReplacement(fs[k])
              /\ \A i \in start[k] + 2 .. end[k] : PiiPut(i) = << >>
  <2>1. PICK s \in Nat, e \in Nat : s = start[k] /\ e = end[k] /\ s < e /\ fs[k].start = s
    BY <1>6
  <2>2. s + 1 \in s + 1 .. e /\ \A i \in s + 2 .. e : i \in s + 1 .. e
    BY <2>1
  <2>3. PiiOver(s + 1) = {fs[k]} /\ fs[k].start = (s + 1) - 1
    BY <1>13, <2>1, <2>2
  <2>4. PiiPut(s + 1) = PiiReplacement(fs[k])
    <3>1. (CHOOSE f \in PiiOver(s + 1) : f.start = (s + 1) - 1) = fs[k]
      BY <2>3
    <3>. QED  BY <2>3, <3>1 DEF PiiPut
  <2>5. ASSUME NEW i \in s + 2 .. e PROVE PiiPut(i) = << >>
    <3>1. PiiOver(i) = {fs[k]}
      BY <1>13, <2>1, <2>2, <2>5
    <3>2. fs[k].start # i - 1
      BY <2>1, <2>5
    <3>. QED  BY <3>1, <3>2 DEF PiiPut
  <2>. QED  BY <2>1, <2>4, <2>5
<1>15. \A k \in 0 .. n : PiiReached(k) = IF k = 0 THEN 0 ELSE end[k]
  BY <1>1, <1>6 DEF PiiReached
<1>16. \A k \in 0 .. n : PiiReached(k) \in 0 .. PiiLength
  BY <1>6, <1>11, <1>15
<1>17. ASSUME NEW k \in 1 .. n
       PROVE  /\ PiiReached(k - 1) <= start[k]
              /\ \A i \in PiiReached(k - 1) + 1 .. start[k] : PiiPut(i) = <<<<"letter", i>>>>
  <2>1. k - 1 \in 0 .. n /\ (k # 1 => k - 1 \in 1 .. n)
    OBVIOUS
  <2>2. PICK r \in Nat, s \in Nat : r = PiiReached(k - 1) /\ s = start[k]
    BY <1>6, <1>16, <2>1
  <2>3. r <= s
    <3>1. CASE k = 1
      BY <1>15, <2>1, <2>2, <3>1
    <3>2. CASE k # 1
      BY <1>9, <1>15, <2>1, <2>2, <3>2
    <3>. QED  BY <3>1, <3>2
  <2>4. ASSUME NEW i \in r + 1 .. s PROVE PiiPut(i) = <<<<"letter", i>>>>
    <3>1. i \in Nat
      BY <2>4
    <3>2. ASSUME NEW j \in 1 .. n PROVE ~ (start[j] < i /\ i <= end[j])
      <4>1. PICK sj \in Nat, ej \in Nat : sj = start[j] /\ ej = end[j]
        BY <1>6
      <4>2. CASE j < k
        <5>1. PICK el \in Nat : el = end[k - 1] /\ r = el /\ k - 1 \in 1 .. n
          BY <1>6, <1>15, <2>1, <2>2, <4>2
        <5>2. ej <= el
          <6>1. j = k - 1 \/ j < k - 1
            BY <4>2
          <6>. QED  BY <1>7, <4>1, <5>1, <6>1
        <5>. QED  BY <2>4, <4>1, <5>1, <5>2
      <4>3. CASE ~ (j < k)
        <5>1. s <= sj
          <6>1. j = k \/ k < j
            BY <4>3
          <6>. QED  BY <1>7, <2>2, <4>1, <6>1
        <5>. QED  BY <2>2, <2>4, <4>1, <5>1
      <4>. QED  BY <4>2, <4>3
    <3>. QED  BY <1>12, <3>1, <3>2
  <2>. QED  BY <2>2, <2>3, <2>4
<1>18. ASSUME NEW i \in PiiReached(n) + 1 .. PiiLength PROVE PiiPut(i) = <<<<"letter", i>>>>
  <2>1. PICK r \in Nat : r = PiiReached(n)
    BY <1>16
  <2>2. i \in Nat /\ r < i
    BY <1>11, <1>18, <2>1
  <2>3. ASSUME NEW j \in 1 .. n PROVE ~ (start[j] < i /\ i <= end[j])
    <3>1. n \in 1 .. n /\ r = end[n]
      BY <1>15, <2>1
    <3>2. PICK ej \in Nat : ej = end[j]
      BY <1>6
    <3>3. j = n \/ j < n
      OBVIOUS
    <3>4. ej <= r
      BY <1>7, <3>1, <3>2, <3>3
    <3>. QED  BY <2>2, <3>2, <3>4
  <2>. QED  BY <1>12, <2>2, <2>3
<1>19. ASSUME NEW i \in 1 .. PiiLength PROVE PiiPut(i) \in Seq(PiiSymbols)
  <2>1. CASE PiiOver(i) = {}
    <3>1. <<"letter", i>> \in PiiSymbols
      BY DEF PiiSymbols
    <3>2. PiiPut(i) = <<<<"letter", i>>>>
      BY <2>1 DEF PiiPut
    <3>. QED  BY <3>1, <3>2
  <2>2. CASE PiiOver(i) # {}
    <3>1. CASE \E f \in PiiOver(i) : f.start = i - 1
      <4>1. PICK g \in PiiOver(i) : g = CHOOSE f \in PiiOver(i) : f.start = i - 1
        BY <3>1
      <4>2. g \in PiiFound /\ g.start < g.end
        BY <1>3, <1>10, <1>11
      <4>3. PiiPut(i) = PiiReplacement(g)
        BY <2>2, <3>1, <4>1 DEF PiiPut
      <4>. QED  BY <4>2, <4>3, PiiReplacementFacts
    <3>2. CASE ~ \E f \in PiiOver(i) : f.start = i - 1
      BY <2>2, <3>2 DEF PiiPut
    <3>. QED  BY <3>1, <3>2
  <2>. QED  BY <2>1, <2>2
<1>. QED  BY <1>1, <1>2, <1>6, <1>14, <1>16, <1>17, <1>18, <1>19

\* The prefixes exist, and the last of them is the whole text.
LEMMA PiiPrefixesExist ==
  ASSUME \A i \in 1 .. PiiLength : PiiPut(i) \in Seq(PiiSymbols)
  PROVE  \E P : PiiPrefixes(P) /\ PiiRedacted = P[PiiLength]
<1>1. PICK L \in Nat : L = PiiLength
  BY PiiConstants
<1>2. PICK put : put = [i \in 1 .. L |-> PiiPut(i)]
  OBVIOUS
<1>3. PiiRedacted = FlattenSeq(put) /\ \A i \in 1 .. L : put[i] = PiiPut(i) /\ put[i] \in Seq(PiiSymbols)
  BY <1>1, <1>2 DEF PiiRedacted
<1>4. CASE L = 0
  <2>1. PiiRedacted = << >>
    <3>1. Len(put) = 0 /\ put = << >>
      BY <1>2, <1>4
    <3>. QED  BY <1>3, <3>1 DEF FlattenSeq
  <2>2. PICK P : P = [i \in 0 .. 0 |-> << >>]
    OBVIOUS
  <2>3. P \in [0 .. L -> Seq(PiiSymbols)] /\ P[0] = << >> /\ 1 .. L = {}
    BY <1>4, <2>2
  <2>. QED  BY <1>1, <1>4, <2>1, <2>3 DEF PiiPrefixes
<1>5. CASE L # 0
  <2>1. L \in Nat \ {0} /\ Len(put) = L
    BY <1>2, <1>5
  <2>2. PICK f : f = [i \in 1 .. L |-> IF i = 1 THEN put[i] ELSE f[i - 1] \o put[i]] /\ FlattenSeq(put) = f[L]
    BY <2>1, FlattenEquation
  <2>3. \A i \in 1 .. L : f[i] = IF i = 1 THEN put[i] ELSE f[i - 1] \o put[i]
    BY <2>2
  <2> DEFINE wrong == {i \in 1 .. L : f[i] \notin Seq(PiiSymbols)}
  <2>4. wrong = {}
    <3>1. SUFFICES ASSUME wrong # {} PROVE FALSE
      OBVIOUS
    <3>2. PICK i \in wrong : \A j \in wrong : ~ (<<j, i>> \in OpToRel(<, Nat))
      <4>1. wrong \subseteq Nat
        OBVIOUS
      <4>. QED  BY <3>1, <4>1, NatLessThanWellFounded, WFMin
    <3>3. i \in 1 .. L /\ f[i] \notin Seq(PiiSymbols)
      BY <3>2
    <3>4. CASE i = 1
      BY <1>3, <2>3, <3>3, <3>4
    <3>5. CASE i # 1
      <4>. HIDE DEF wrong
      <4>1. i \in Nat /\ i - 1 \in Nat /\ i - 1 < i /\ i - 1 \in 1 .. L
        BY <3>3, <3>5
      <4>2. <<i - 1, i>> \in OpToRel(<, Nat)
        BY <4>1 DEF OpToRel
      <4>3. f[i - 1] \in Seq(PiiSymbols)
        BY <3>2, <4>1, <4>2 DEF wrong
      <4>4. f[i] = f[i - 1] \o put[i]
        BY <2>3, <3>3, <3>5
      <4>. QED  BY <1>3, <3>3, <4>3, <4>4
    <3>. QED  BY <3>4, <3>5
  <2>5. PICK P : P = [i \in 0 .. L |-> IF i = 0 THEN << >> ELSE f[i]]
    OBVIOUS
  <2>6. P \in [0 .. L -> Seq(PiiSymbols)] /\ P[0] = << >> /\ P[L] = f[L]
    <3>1. \A i \in 0 .. L : i # 0 => f[i] \in Seq(PiiSymbols)
      BY <2>4
    <3>2. << >> \in Seq(PiiSymbols)
      OBVIOUS
    <3>3. L \in 0 .. L /\ 0 \in 0 .. L
      OBVIOUS
    <3>. QED  BY <1>5, <2>5, <3>1, <3>2, <3>3
  <2>7. ASSUME NEW i \in 1 .. L PROVE P[i] = P[i - 1] \o PiiPut(i)
    <3>1. i \in 0 .. L /\ i - 1 \in 0 .. L /\ i # 0 /\ P[i] = f[i]
      BY <2>5
    <3>2. CASE i = 1
      <4>1. P[i - 1] = << >> /\ f[i] = put[i]
        BY <2>3, <2>6, <3>2
      <4>2. put[i] = PiiPut(i) /\ put[i] \in Seq(PiiSymbols)
        BY <1>3
      <4>. QED  BY <3>1, <4>1, <4>2
    <3>3. CASE i # 1
      <4>0. i - 1 # 0
        BY <3>3
      <4>1. P[i - 1] = f[i - 1] /\ f[i] = f[i - 1] \o put[i]
        BY <2>3, <2>5, <3>1, <3>3, <4>0
      <4>. QED  BY <1>3, <3>1, <4>1
    <3>. QED  BY <3>2, <3>3
  <2>. QED  BY <1>1, <1>3, <2>2, <2>6, <2>7 DEF PiiPrefixes
<1>. QED  BY <1>4, <1>5

\* Over a stretch without a finding the letters are kept.
LEMMA PiiLettersKept ==
  ASSUME NEW P, PiiPrefixes(P), NEW a \in 0 .. PiiLength, NEW b \in 0 .. PiiLength, a <= b,
         \A i \in a + 1 .. b : PiiPut(i) = <<<<"letter", i>>>>
  PROVE  PiiLettersBetween(P[b], P[a], a, b)
<1> DEFINE Is(c) == /\ Len(P[c]) = Len(P[a]) + (c - a)
                    /\ \A i \in 1 .. Len(P[a]) : P[c][i] = P[a][i]
                    /\ \A i \in a + 1 .. c : P[c][Len(P[a]) + i - a] = <<"letter", i>>
           wrong == {c \in a .. b : ~ Is(c)}
<1>1. PiiLength \in Nat /\ a \in Nat /\ b \in Nat
  BY PiiConstants
<1>2. \A i \in 0 .. PiiLength : P[i] \in Seq(PiiSymbols) /\ Len(P[i]) \in Nat
  BY DEF PiiPrefixes
<1>3. wrong = {}
  <2>1. SUFFICES ASSUME wrong # {} PROVE FALSE
    OBVIOUS
  <2>2. PICK c \in wrong : \A j \in wrong : ~ (<<j, c>> \in OpToRel(<, Nat))
    <3>1. wrong \subseteq Nat
      BY <1>1
    <3>. QED  BY <2>1, <3>1, NatLessThanWellFounded, WFMin
  <2>3. c \in a .. b /\ ~ Is(c)
    BY <2>2
  <2>4. CASE c = a
    <3>1. Is(a)
      BY <1>1, <1>2
    <3>. QED  BY <2>3, <2>4, <3>1
  <2>5. CASE c # a
    <3>. HIDE DEF wrong, Is
    <3>1. c \in Nat /\ c - 1 \in Nat /\ c - 1 < c /\ c - 1 \in a .. b /\ c \in a + 1 .. b
          /\ c \in 1 .. PiiLength /\ c - 1 \in 0 .. PiiLength /\ c \in 0 .. PiiLength
      BY <1>1, <2>3, <2>5
    <3>2. <<c - 1, c>> \in OpToRel(<, Nat)
      BY <3>1 DEF OpToRel
    <3>3. Is(c - 1)
      BY <2>2, <3>1, <3>2 DEF wrong
    <3>4. P[c] = P[c - 1] \o PiiPut(c) /\ PiiPut(c) = <<<<"letter", c>>>>
      BY <3>1 DEF PiiPrefixes
    <3>5. PICK p \in Seq(PiiSymbols) : p = P[c - 1]
      BY <1>2, <3>1
    <3>6. PICK n \in Nat : n = Len(P[a])
      BY <1>2
    <3>7. /\ Len(p) = n + ((c - 1) - a)
          /\ \A i \in 1 .. n : p[i] = P[a][i]
          /\ \A i \in a + 1 .. c - 1 : p[n + i - a] = <<"letter", i>>
      BY <3>3, <3>5, <3>6 DEF Is
    <3>8. PICK l : l = <<"letter", c>>
      OBVIOUS
    <3>9. PICK q : q = P[c]
      OBVIOUS
    <3>10. q = p \o <<l>>
      BY <3>4, <3>5, <3>8, <3>9
    <3>11. Len(q) = Len(p) + 1 /\ q[Len(p) + 1] = l /\ \A i \in 1 .. Len(p) : q[i] = p[i]
      BY <3>10
    <3>12. Len(q) = n + (c - a)
      BY <1>1, <3>1, <3>7, <3>11
    <3>13. \A i \in 1 .. n : q[i] = P[a][i]
      <4>1. \A i \in 1 .. n : i \in 1 .. Len(p)
        BY <1>1, <3>1, <3>7
      <4>. QED  BY <3>7, <3>11, <4>1
    <3>14. \A i \in a + 1 .. c : q[n + i - a] = <<"letter", i>>
      <4>1. SUFFICES ASSUME NEW i \in a + 1 .. c PROVE q[n + i - a] = <<"letter", i>>
        OBVIOUS
      <4>2. CASE i = c
        <5>1. n + i - a = Len(p) + 1
          BY <1>1, <3>1, <3>7, <4>2
        <5>. QED  BY <3>8, <3>11, <4>2, <5>1
      <4>3. CASE i # c
        <5>1. i \in a + 1 .. c - 1 /\ n + i - a \in 1 .. Len(p)
          BY <1>1, <3>1, <3>7, <4>3
        <5>. QED  BY <3>7, <3>11, <5>1
      <4>. QED  BY <4>2, <4>3
    <3>15. Is(c)
      BY <3>6, <3>9, <3>12, <3>13, <3>14 DEF Is
    <3>. QED  BY <2>3, <3>15
  <2>. QED  BY <2>4, <2>5
<1>4. b \in a .. b
  BY <1>1
<1>5. Is(b)
  BY <1>3, <1>4
<1>. QED  BY <1>5 DEF PiiLettersBetween

\* Where nothing is put the prefixes do not grow.
LEMMA PiiNothingPut ==
  ASSUME NEW P, PiiPrefixes(P), NEW a \in 0 .. PiiLength, NEW b \in 0 .. PiiLength, a <= b,
         \A i \in a + 1 .. b : PiiPut(i) = << >>
  PROVE  P[b] = P[a]
<1> DEFINE wrong == {c \in a .. b : P[c] # P[a]}
<1>1. PiiLength \in Nat /\ a \in Nat /\ b \in Nat
  BY PiiConstants
<1>2. \A i \in 0 .. PiiLength : P[i] \in Seq(PiiSymbols)
  BY DEF PiiPrefixes
<1>3. wrong = {}
  <2>1. SUFFICES ASSUME wrong # {} PROVE FALSE
    OBVIOUS
  <2>2. PICK c \in wrong : \A j \in wrong : ~ (<<j, c>> \in OpToRel(<, Nat))
    <3>1. wrong \subseteq Nat
      BY <1>1
    <3>. QED  BY <2>1, <3>1, NatLessThanWellFounded, WFMin
  <2>3. c \in a .. b /\ P[c] # P[a]
    BY <2>2
  <2>. HIDE DEF wrong
  <2>4. c \in Nat /\ c - 1 \in Nat /\ c - 1 < c /\ c - 1 \in a .. b /\ c \in a + 1 .. b
        /\ c \in 1 .. PiiLength /\ c - 1 \in 0 .. PiiLength
    BY <1>1, <2>3
  <2>5. <<c - 1, c>> \in OpToRel(<, Nat)
    BY <2>4 DEF OpToRel
  <2>6. P[c - 1] = P[a]
    BY <2>2, <2>4, <2>5 DEF wrong
  <2>7. P[c] = P[c - 1] \o << >>
    BY <2>4 DEF PiiPrefixes
  <2>8. P[c - 1] \in Seq(PiiSymbols)
    BY <1>2, <2>4
  <2>. QED  BY <2>3, <2>6, <2>7, <2>8
<1>. QED  BY <1>1, <1>3

\* A stretch is replaced, behind a part that has been gone through: w stands for
\* the letters from s to d.
LEMMA PiiStretchReplaced ==
  ASSUME NEW e \in Nat, NEW s \in Nat, NEW d \in Nat, e <= s, s < d, d <= PiiLength,
         NEW p \in Seq(PiiSymbols), NEW q \in Seq(PiiSymbols), NEW w \in Seq(PiiSymbols), NEW t,
         PiiGoesOn(t, p, e),
         PiiLettersBetween(q, p, e, s),
         NEW st, NEW en, st = s + (Len(p) - e), en = d + (Len(p) - e)
  PROVE  /\ st >= 0 /\ en >= 0 /\ st < Len(t) /\ en <= Len(t)
         /\ PiiGoesOn(SubSeq(t, 1, st) \o w \o SubSeq(t, en + 1, Len(t)), q \o w, d)
<1>1. PICK L \in Nat : L = PiiLength
  BY PiiConstants
<1>2. PICK n \in Nat, m \in Nat : n = Len(p) /\ m = Len(w)
  OBVIOUS
<1>3. t \in Seq(PiiSymbols) /\ Len(t) = n + (L - e) /\ Len(q) = n + (s - e) /\ d <= L
      /\ (\A i \in 1 .. n : t[i] = p[i]) /\ (\A i \in e + 1 .. L : t[n + i - e] = <<"letter", i>>)
      /\ (\A i \in 1 .. n : q[i] = p[i]) /\ (\A i \in e + 1 .. s : q[n + i - e] = <<"letter", i>>)
      /\ st = s + (n - e) /\ en = d + (n - e)
  BY <1>1, <1>2 DEF PiiGoesOn, PiiLettersBetween
<1>4. /\ st \in Nat /\ en \in Nat /\ st < en /\ en <= Len(t) /\ Len(t) \in Nat
      /\ Len(q) = st /\ Len(t) - en = L - d /\ Len(t) - en \in Nat
  <2>1. Len(t) = n + (L - e) /\ Len(q) = n + (s - e) /\ d <= L /\ st = s + (n - e) /\ en = d + (n - e)
    BY <1>3
  <2>. QED  BY ONLY <1>1, <1>2, <2>1, e \in Nat, s \in Nat, d \in Nat, e <= s, s < d
<1>5. PICK a : a = SubSeq(t, 1, st)
  OBVIOUS
<1>6. PICK b : b = SubSeq(t, en + 1, Len(t))
  OBVIOUS
<1>7. a \in Seq(PiiSymbols) /\ Len(a) = st /\ \A i \in 1 .. st : a[i] = t[i]
  BY <1>3, <1>4, <1>5
<1>8. b \in Seq(PiiSymbols) /\ Len(b) = Len(t) - en /\ \A i \in 1 .. Len(b) : b[i] = t[en + i]
  <2>1. en \in 0 .. Len(t)
    BY <1>4
  <2>. QED  BY ONLY <1>3, <1>6, <2>1, RestAt
<1>9. PICK u : u = a \o w \o b
  OBVIOUS
<1>10. PICK r : r = q \o w
  OBVIOUS
<1>11. /\ u \in Seq(PiiSymbols) /\ Len(u) = st + m + Len(b)
       /\ \A i \in 1 .. st : u[i] = a[i]
       /\ \A i \in 1 .. m : u[st + i] = w[i]
       /\ \A i \in 1 .. Len(b) : u[st + m + i] = b[i]
  <2>1. PICK c : c = a \o w
    OBVIOUS
  <2>2. c \in Seq(PiiSymbols) /\ Len(c) = st + m
        /\ (\A i \in 1 .. st : c[i] = a[i]) /\ (\A i \in 1 .. m : c[st + i] = w[i])
    <3>1. a \in Seq(PiiSymbols) /\ w \in Seq(PiiSymbols)
      BY <1>7
    <3>2. /\ a \o w \in Seq(PiiSymbols) /\ Len(a \o w) = Len(a) + Len(w)
          /\ \A i \in 1 .. Len(a) : (a \o w)[i] = a[i]
          /\ \A i \in 1 .. Len(w) : (a \o w)[Len(a) + i] = w[i]
      BY ONLY <3>1, ConcatAt
    <3>3. /\ c \in Seq(PiiSymbols) /\ Len(c) = Len(a) + Len(w)
          /\ \A i \in 1 .. Len(a) : c[i] = a[i]
          /\ \A i \in 1 .. Len(w) : c[Len(a) + i] = w[i]
      BY ONLY <2>1, <3>2
    <3>. QED  BY ONLY <1>2, <1>7, <3>3
  <2>3. u = c \o b
    BY <1>9, <2>1
  <2>4. u \in Seq(PiiSymbols) /\ Len(u) = Len(c) + Len(b)
        /\ (\A i \in 1 .. Len(c) : u[i] = c[i]) /\ (\A i \in 1 .. Len(b) : u[Len(c) + i] = b[i])
    <3>1. c \in Seq(PiiSymbols) /\ b \in Seq(PiiSymbols)
      BY <1>8, <2>2
    <3>2. /\ c \o b \in Seq(PiiSymbols) /\ Len(c \o b) = Len(c) + Len(b)
          /\ \A i \in 1 .. Len(c) : (c \o b)[i] = c[i]
          /\ \A i \in 1 .. Len(b) : (c \o b)[Len(c) + i] = b[i]
      BY ONLY <3>1, ConcatAt
    <3>3. /\ u \in Seq(PiiSymbols) /\ Len(u) = Len(c) + Len(b)
          /\ \A i \in 1 .. Len(c) : u[i] = c[i]
          /\ \A i \in 1 .. Len(b) : u[Len(c) + i] = b[i]
      BY ONLY <2>3, <3>2
    <3>. QED  BY ONLY <3>3
  <2>5. \A i \in 1 .. st : i \in 1 .. Len(c)
    BY <1>2, <1>4, <2>2
  <2>6. \A i \in 1 .. m : st + i \in 1 .. Len(c)
    BY <1>2, <1>4, <2>2
  <2>. QED  BY <2>2, <2>4, <2>5, <2>6
<1>12. /\ r \in Seq(PiiSymbols) /\ Len(r) = st + m
       /\ \A i \in 1 .. st : r[i] = q[i]
       /\ \A i \in 1 .. m : r[st + i] = w[i]
  <2>1. /\ q \o w \in Seq(PiiSymbols) /\ Len(q \o w) = Len(q) + Len(w)
        /\ \A i \in 1 .. Len(q) : (q \o w)[i] = q[i]
        /\ \A i \in 1 .. Len(w) : (q \o w)[Len(q) + i] = w[i]
    BY ONLY ConcatAt, q \in Seq(PiiSymbols), w \in Seq(PiiSymbols)
  <2>2. /\ r \in Seq(PiiSymbols) /\ Len(r) = Len(q) + Len(w)
        /\ \A i \in 1 .. Len(q) : r[i] = q[i]
        /\ \A i \in 1 .. Len(w) : r[Len(q) + i] = w[i]
    BY ONLY <1>10, <2>1
  <2>. QED  BY ONLY <1>2, <1>4, <2>2
<1>13. ASSUME NEW i \in 1 .. st PROVE t[i] = q[i]
  <2>1. CASE i <= n
    BY <1>3, <1>13, <2>1
  <2>2. CASE ~ (i <= n)
    <3>0. i \in Nat /\ n < i /\ i <= st /\ st = s + (n - e) /\ s <= L
      BY <1>3, <1>4, <1>13, <2>2
    <3>1. PICK j : j = i + e - n
      OBVIOUS
    <3>2. i = n + j - e /\ j \in e + 1 .. s /\ j \in e + 1 .. L
      BY ONLY <1>1, <1>2, <3>0, <3>1, e \in Nat, s \in Nat
    <3>3. t[n + j - e] = <<"letter", j>> /\ q[n + j - e] = <<"letter", j>>
      BY <1>3, <3>2
    <3>. QED  BY <3>2, <3>3
  <2>. QED  BY <2>1, <2>2
<1>14. Len(u) = Len(r) + (L - d)
  BY <1>1, <1>2, <1>4, <1>8, <1>11, <1>12
<1>15. \A i \in 1 .. Len(r) : u[i] = r[i]
  <2>1. SUFFICES ASSUME NEW i \in 1 .. Len(r) PROVE u[i] = r[i]
    OBVIOUS
  <2>2. CASE i <= st
    <3>1. i \in 1 .. st
      BY <1>4, <1>12, <2>1, <2>2
    <3>. QED  BY <1>7, <1>11, <1>12, <1>13, <3>1
  <2>3. CASE ~ (i <= st)
    <3>0. i \in Nat /\ i <= st + m /\ st < i
      BY <1>2, <1>4, <1>12, <2>1, <2>3
    <3>1. PICK j : j = i - st
      OBVIOUS
    <3>2. j \in 1 .. m /\ i = st + j
      BY ONLY <1>2, <1>4, <3>0, <3>1
    <3>. QED  BY <1>11, <1>12, <3>2
  <2>. QED  BY <2>2, <2>3
<1>16. \A i \in d + 1 .. L : u[Len(r) + i - d] = <<"letter", i>>
  <2>1. SUFFICES ASSUME NEW i \in d + 1 .. L PROVE u[Len(r) + i - d] = <<"letter", i>>
    OBVIOUS
  <2>2. PICK j : j = i - d
    OBVIOUS
  <2>3. j \in 1 .. Len(b) /\ Len(r) + i - d = st + m + j /\ en + j = n + i - e /\ i \in e + 1 .. L
    BY <1>1, <1>2, <1>3, <1>4, <1>8, <1>12, <2>1, <2>2
  <2>4. u[st + m + j] = b[j] /\ b[j] = t[en + j] /\ t[n + i - e] = <<"letter", i>>
    BY <1>3, <1>8, <1>11, <2>3
  <2>. QED  BY <2>3, <2>4
<1>17. PiiGoesOn(u, r, d)
  BY <1>1, <1>11, <1>14, <1>15, <1>16 DEF PiiGoesOn
<1>. QED  BY <1>4, <1>5, <1>6, <1>9, <1>10, <1>17

\* The first state satisfies the invariant.
LEMMA PiiStarts ==
  ASSUME PiiInit
  PROVE  PiiInv
BY DEF PiiInit, PiiInv

\* A text comes in.
LEMMA PiiBegins ==
  ASSUME PiiInv, PiiBegin
  PROVE  PiiInv'
BY DEF PiiInv, PiiBegin

\* It is scanned.
LEMMA PiiScans ==
  ASSUME PiiInv, PiiScan
  PROVE  PiiInv'
<1>1. piiHits \in PiiHits /\ piiText = PiiLetters /\ piiShift = 0 /\ piiAt = 0 /\ piiPhase' = "replacing"
      /\ UNCHANGED <<piiMode, piiHits, piiText, piiShift, piiAt>>
  BY DEF PiiInv, PiiScan
<1>2. PICK C : C = PiiCounted
  OBVIOUS
<1>3. PiiCounted' = C
  BY <1>1, <1>2 DEF PiiCounted, PiiLeast
<1>4. IsFiniteSet(C) /\ C \subseteq PiiFound
  BY <1>1, <1>2, PiiCountedFacts
<1>5. PICK s : s = PiiSorted(C)
  OBVIOUS
<1>6. /\ s \in Seq(C)
      /\ \A f \in C : \E i \in DOMAIN s : s[i] = f
      /\ \A i, j \in DOMAIN s : i < j => PiiBefore(s[i], s[j])
  BY <1>4, <1>5, PiiSortedFacts
<1>7. s \in Seq(PiiFound)
  BY <1>4, <1>6
<1>8. PICK kept : kept = PiiKept(s)
  OBVIOUS
<1>9. piiFindings' = kept
  BY <1>2, <1>5, <1>8 DEF PiiScan
<1>10. PiiKeptSound(kept, s, Len(s))
  BY <1>6, <1>7, <1>8, PiiKeptFacts
<1>11. DOMAIN s = 1 .. Len(s) /\ \A i \in DOMAIN s : s[i] \in C
  BY <1>6
<1>12. PICK T : T = {s[i] : i \in 1 .. Len(s)}
  OBVIOUS
<1>13. T \subseteq C /\ kept \in Seq(T)
  BY <1>10, <1>11, <1>12 DEF PiiKeptSound
<1>14. kept \in Seq(C) /\ Len(kept) \in Nat
  BY <1>13
<1>15. \A f \in C : \E j \in DOMAIN kept : PiiWithin(f, kept[j])
  BY <1>6, <1>10, <1>11 DEF PiiKeptSound
<1>16. PiiFindingsInv'
  BY <1>3, <1>9, <1>10, <1>14, <1>15 DEF PiiFindingsInv, PiiKeptSound
<1>17. PiiTextInv'
  <2>1. PiiReached(piiAt)' = 0
    BY <1>1 DEF PiiReached
  <2>2. ASSUME NEW P, PiiPrefixes(P)' PROVE PiiGoesOn(piiText, P[0], 0) /\ 0 = Len(P[0]) - 0
    <3>1. P[0] = << >>
      BY <2>2 DEF PiiPrefixes
    <3>2. PICK L \in Nat : L = PiiLength
      BY PiiConstants
    <3>3. piiText = [i \in 1 .. L |-> <<"letter", i>>]
      BY <1>1, <3>2 DEF PiiLetters
    <3>4. \A i \in 1 .. L : <<"letter", i>> \in PiiSymbols
      BY <3>2 DEF PiiSymbols
    <3>5. piiText \in Seq(PiiSymbols) /\ Len(piiText) = L
      BY <3>3, <3>4
    <3>6. PiiGoesOn(piiText, << >>, 0)
      <4>1. Len(piiText) = Len(<< >>) + (PiiLength - 0)
        BY <3>2, <3>5
      <4>2. \A i \in 0 + 1 .. PiiLength : piiText[Len(<< >>) + i - 0] = <<"letter", i>>
        BY <3>2, <3>3
      <4>. QED  BY <3>5, <4>1, <4>2 DEF PiiGoesOn
    <3>. QED  BY <3>1, <3>6
  <2>. QED  BY <1>1, <2>1, <2>2 DEF PiiTextInv
<1>. QED  BY <1>1, <1>9, <1>14, <1>16, <1>17 DEF PiiInv

\* A finding is replaced, or has been pushed out of the text.
LEMMA PiiReplaces ==
  ASSUME PiiInv, PiiReplace
  PROVE  PiiInv'
<1>1. /\ piiPhase = "replacing" /\ piiHits \in PiiHits /\ PiiFindingsInv /\ PiiTextInv
      /\ piiAt \in 0 .. Len(piiFindings) /\ piiAt < Len(piiFindings) /\ piiAt' = piiAt + 1
      /\ UNCHANGED <<piiPhase, piiMode, piiHits, piiFindings>>
  BY DEF PiiInv, PiiReplace
<1>2. PiiFindingsInv'
  BY <1>1 DEF PiiFindingsInv, PiiCounted, PiiLeast, PiiRising
<1>3. PICK n \in Nat : n = Len(piiFindings)
  BY <1>1, PiiFindingTypes
<1>4. PICK k \in 1 .. n : k = piiAt + 1
  BY <1>1, <1>3
<1>5. PICK f : f = piiFindings[k]
  OBVIOUS
<1>6. f \in PiiFound /\ f.start \in 0 .. PiiLength /\ f.end \in 0 .. PiiLength /\ f.start < f.end
  BY <1>1, <1>3, <1>5, PiiFindingTypes
<1>7. PICK e : e = PiiReached(piiAt)
  OBVIOUS
<1>8. PiiReached(piiAt)' = f.end
  BY <1>1, <1>4, <1>5 DEF PiiReached
<1>9. ASSUME NEW P, PiiApart, PiiPrefixes(P)
      PROVE  /\ PiiGoesOn(piiText', P[f.end], f.end)
             /\ piiShift' = Len(P[f.end]) - f.end
  <2>1. PiiGoesOn(piiText, P[e], e) /\ piiShift = Len(P[e]) - e
    BY <1>1, <1>7, <1>9 DEF PiiTextInv
  <2>2. /\ e <= f.start
        /\ \A i \in e + 1 .. f.start : PiiPut(i) = <<<<"letter", i>>>>
        /\ PiiPut(f.start + 1) = PiiReplacement(f)
        /\ \A i \in f.start + 2 .. f.end : PiiPut(i) = << >>
        /\ e \in 0 .. PiiLength
    <3>1. piiAt = k - 1 /\ k - 1 \in 0 .. n
      BY <1>1, <1>4
    <3>. QED  BY <1>1, <1>3, <1>5, <1>7, <1>9, <3>1, PiiPutFacts
  <2>3. PICK w \in Seq(PiiSymbols) : w = PiiReplacement(f)
    BY <1>6, PiiReplacementFacts
  <2>4. /\ PiiLength \in Nat /\ e \in Nat /\ f.start \in Nat /\ f.end \in Nat /\ f.end <= PiiLength
        /\ f.start + 1 \in 1 .. PiiLength /\ f.start + 1 \in 0 .. PiiLength /\ f.start + 1 <= f.end
        /\ (f.start + 1) - 1 = f.start
    BY <1>6, <2>2, PiiConstants
  <2>5. PICK p \in Seq(PiiSymbols), q \in Seq(PiiSymbols) : p = P[e] /\ q = P[f.start]
    BY <1>6, <1>9, <2>2 DEF PiiPrefixes
  <2>6. PiiLettersBetween(q, p, e, f.start)
    BY <1>6, <1>9, <2>2, <2>5, PiiLettersKept
  <2>7. P[f.start + 1] = q \o w
    BY <1>9, <2>2, <2>3, <2>4, <2>5 DEF PiiPrefixes
  <2>8. P[f.end] = q \o w
    <3>1. \A i \in (f.start + 1) + 1 .. f.end : PiiPut(i) = << >>
      BY <2>2, <2>4
    <3>2. P[f.end] = P[f.start + 1]
      BY <1>6, <1>9, <2>4, <3>1, PiiNothingPut
    <3>. QED  BY <2>7, <3>2
  <2>9. PICK st, en : st = f.start + piiShift /\ en = f.end + piiShift
    OBVIOUS
  <2>10. st = f.start + (Len(p) - e) /\ en = f.end + (Len(p) - e)
    BY <2>1, <2>5, <2>9
  <2>11. /\ st >= 0 /\ en >= 0 /\ st < Len(piiText) /\ en <= Len(piiText)
         /\ PiiGoesOn(SubSeq(piiText, 1, st) \o w \o SubSeq(piiText, en + 1, Len(piiText)), q \o w, f.end)
    BY <1>6, <2>1, <2>2, <2>4, <2>5, <2>6, <2>10, PiiStretchReplaced
  <2>12. /\ piiText' = SubSeq(piiText, 1, st) \o w \o SubSeq(piiText, en + 1, Len(piiText))
         /\ piiShift' = piiShift + Len(w) - (f.end - f.start)
    BY <1>4, <1>5, <2>3, <2>9, <2>11 DEF PiiReplace
  <2>13. Len(q \o w) = Len(q) + Len(w) /\ Len(q) \in Nat /\ Len(w) \in Nat /\ Len(p) \in Nat
    BY <2>3, <2>5
  <2>14. piiShift' = Len(q \o w) - f.end
    <3>1. piiShift = Len(p) - e
      BY <2>1, <2>5
    <3>2. PICK x \in Nat, y \in Nat, z \in Nat : x = Len(q) /\ y = Len(w) /\ z = Len(p)
      BY <2>13
    <3>3. piiShift = z - e /\ x = z + (f.start - e) /\ piiShift' = piiShift + y - (f.end - f.start)
          /\ Len(q \o w) = x + y
      BY <2>6, <2>12, <2>13, <3>1, <3>2 DEF PiiLettersBetween
    <3>4. PICK l \in Nat, d \in Nat : l = f.start /\ d = f.end
      BY <2>4
    <3>5. piiShift' = (z - e) + y - (d - l) /\ x = z + (l - e)
      BY <3>3, <3>4
    <3>6. piiShift' = (x + y) - d
      <4>1. PICK g \in Nat : g = e
        BY <2>4
      <4>2. x = z + (l - g) => (z - g) + y - (d - l) = (x + y) - d
        OBVIOUS
      <4>. QED  BY <3>5, <4>1, <4>2
    <3>. QED  BY <3>3, <3>4, <3>6
  <2>. QED  BY <2>8, <2>11, <2>12, <2>14
<1>10. \A P : PiiPrefixes(P)' <=> PiiPrefixes(P)
  BY <1>1 DEF PiiPrefixes, PiiPut, PiiOver
<1>11. PiiTextInv'
  BY <1>1, <1>8, <1>9, <1>10 DEF PiiTextInv, PiiApart
<1>12. (piiAt \in 0 .. Len(piiFindings))'
  BY <1>1, <1>3
<1>. QED  BY <1>1, <1>2, <1>11, <1>12 DEF PiiInv

\* The findings are through.
LEMMA PiiEnds ==
  ASSUME PiiInv, PiiEnd
  PROVE  PiiInv'
<1>1. piiPhase = "replacing" /\ piiAt = Len(piiFindings) /\ piiPhase' = "done"
      /\ UNCHANGED <<piiMode, piiHits, piiFindings, piiText, piiShift, piiAt>>
  BY DEF PiiEnd
<1>2. piiHits \in PiiHits /\ PiiFindingsInv /\ PiiTextInv /\ piiAt \in 0 .. Len(piiFindings)
  BY <1>1 DEF PiiInv
<1>3. PiiFindingsInv'
  BY <1>1, <1>2 DEF PiiFindingsInv, PiiCounted, PiiLeast, PiiRising
<1>4. PiiTextInv'
  BY <1>1, <1>2 DEF PiiTextInv, PiiApart, PiiPrefixes, PiiPut, PiiOver, PiiReached
<1>. QED  BY <1>1, <1>2, <1>3, <1>4 DEF PiiInv

\* Every step keeps it.
LEMMA PiiKeeps ==
  ASSUME PiiInv, [PiiNext]_piiVars
  PROVE  PiiInv'
<1>1. CASE UNCHANGED piiVars
  <2>1. PiiFindingsInv' <=> PiiFindingsInv
    BY <1>1 DEF piiVars, PiiFindingsInv, PiiCounted, PiiLeast, PiiRising
  <2>2. PiiTextInv' <=> PiiTextInv
    BY <1>1 DEF piiVars, PiiTextInv, PiiApart, PiiPrefixes, PiiPut, PiiOver, PiiReached
  <2>. QED  BY <1>1, <2>1, <2>2 DEF piiVars, PiiInv
<1>. QED  BY <1>1, PiiBegins, PiiScans, PiiReplaces, PiiEnds DEF PiiNext

\* The inductive invariant gives what the run checks.
LEMMA PiiInvExact ==
  ASSUME PiiInv
  PROVE  RedactionExact
<1>1. SUFFICES ASSUME piiPhase = "done" PROVE RedactionExact
  BY DEF RedactionExact
<1>2. piiHits \in PiiHits /\ PiiFindingsInv /\ PiiTextInv /\ piiAt = Len(piiFindings)
  BY <1>1 DEF PiiInv
<1>3. \A f \in PiiCounted : \E g \in ToSet(piiFindings) : PiiWithin(f, g)
  BY <1>2 DEF PiiFindingsInv, ToSet
<1>4. \A i, j \in DOMAIN piiFindings :
        i < j => piiFindings[i].start < piiFindings[j].start /\ piiFindings[i].end < piiFindings[j].end
  BY <1>2 DEF PiiFindingsInv, PiiRising
<1>5. ASSUME PiiApart PROVE piiText = PiiRedacted
  <2>1. PICK n \in Nat, L \in Nat : n = Len(piiFindings) /\ L = PiiLength
    BY <1>2, PiiFindingTypes, PiiConstants
  <2>2. /\ \A i \in PiiReached(n) + 1 .. L : PiiPut(i) = <<<<"letter", i>>>>
        /\ PiiReached(n) \in 0 .. L
        /\ \A i \in 1 .. L : PiiPut(i) \in Seq(PiiSymbols)
    BY <1>2, <1>5, <2>1, PiiPutFacts
  <2>3. PICK P : PiiPrefixes(P) /\ PiiRedacted = P[L]
    BY <2>1, <2>2, PiiPrefixesExist
  <2>4. PICK e \in 0 .. L : e = PiiReached(n)
    BY <2>2
  <2>5. PiiGoesOn(piiText, P[e], e)
    BY <1>2, <1>5, <2>1, <2>3, <2>4 DEF PiiTextInv
  <2>6. L \in 0 .. L /\ e <= L
    BY <2>4
  <2>7. PiiLettersBetween(P[L], P[e], e, L)
    BY <2>1, <2>2, <2>3, <2>4, <2>6, PiiLettersKept
  <2>8. PICK a \in Seq(PiiSymbols), p \in Seq(PiiSymbols) : a = P[L] /\ p = P[e]
    BY <2>1, <2>3, <2>6 DEF PiiPrefixes
  <2>9. PICK m \in Nat : m = Len(p)
    BY <2>8
  <2>10. piiText \in Seq(PiiSymbols) /\ Len(piiText) = Len(a) /\ Len(a) = m + (L - e)
    BY <2>1, <2>5, <2>7, <2>8, <2>9 DEF PiiGoesOn, PiiLettersBetween
  <2>11. ASSUME NEW i \in 1 .. m + (L - e) PROVE piiText[i] = a[i]
    <3>1. CASE i <= m
      BY <2>5, <2>7, <2>8, <2>9, <2>11, <3>1 DEF PiiGoesOn, PiiLettersBetween
    <3>2. CASE ~ (i <= m)
      <4>1. PICK j : j = i + e - m
        OBVIOUS
      <4>2. j \in e + 1 .. L /\ i = m + j - e
        <5>1. i \in Nat /\ m < i /\ i <= m + (L - e) /\ e \in Nat
          BY <2>1, <2>4, <2>9, <2>11, <3>2
        <5>. QED  BY ONLY <2>1, <2>9, <4>1, <5>1
      <4>3. piiText[m + j - e] = <<"letter", j>> /\ a[m + j - e] = <<"letter", j>>
        BY <2>1, <2>5, <2>7, <2>8, <2>9, <4>2 DEF PiiGoesOn, PiiLettersBetween
      <4>. QED  BY <4>2, <4>3
    <3>. QED  BY <3>1, <3>2
  <2>12. PICK k \in Nat : k = Len(a)
    BY <2>8
  <2>13. Len(piiText) = k /\ \A i \in 1 .. k : piiText[i] = a[i]
    BY ONLY <2>10, <2>11, <2>12
  <2>15. piiText \in Seq(PiiSymbols) /\ a \in Seq(PiiSymbols) /\ Len(a) = k /\ k \in Nat
    BY <2>8, <2>10, <2>12
  <2>14. piiText = a
    BY ONLY <2>13, <2>15
  <2>. QED  BY <2>3, <2>8, <2>14
<1>. QED  BY <1>3, <1>4, <1>5 DEF RedactionExact, PiiApart

\* Whatever the patterns match: every match that counts lies within a finding, no
\* finding within another, and findings that do not overlap are replaced exactly.
THEOREM RedactionIsExact == PiiSpec => []RedactionExact
<1>. QED  BY PiiStarts, PiiKeeps, PiiInvExact, PTL DEF PiiSpec
===============================================================================
