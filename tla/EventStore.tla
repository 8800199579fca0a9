------------------------------ MODULE EventStore ------------------------------
(***************************************************************************)
(* InMemoryEventStore of knowledge-core (cqrs/event_store.rs).  The code   *)
(* keeps one vector of events under a read-write lock; every query filters *)
(* it by aggregate, so the model keeps one sequence per aggregate.  Each   *)
(* operation holds the lock to its end and is one atomic step of the       *)
(* module that uses it.                                                    *)
(***************************************************************************)
EXTENDS Document, Sequences

CONSTANTS
  Streams,     \* aggregate identifiers
  AnyVersion   \* expected_version = None

ASSUME AnyVersionIsNone == AnyVersion \notin Nat

VARIABLE log   \* log[s]: the events of aggregate s, oldest first

StoredEvents == [event : Events, version : Nat]

LogTypeOK == log \in [Streams -> Seq(StoredEvents)]

LogInit == log = [s \in Streams |-> << >>]

\* The version of the aggregate's last event, 0 when it has none.
CurrentVersion(s) == IF log[s] = << >> THEN 0 ELSE log[s][Len(log[s])].version

\* Mistake: the expected version is not compared.
NeverConflicts(s, expected) == FALSE

VersionConflict(s, expected) == expected # AnyVersion /\ expected # CurrentVersion(s)

\* Mistake: versions start from 0, as SurrealEventStore numbers a batch.
NumberedFromZero(s, events) ==
  [i \in 1 .. Len(events) |-> [event |-> events[i], version |-> i - 1]]

\* append_events renumbers the batch from the current version on, whatever
\* versions the caller wrote into it.
Renumbered(s, events) ==
  [i \in 1 .. Len(events) |-> [event |-> events[i], version |-> CurrentVersion(s) + i]]

AppendEvents(s, events, expected) ==
  /\ ~VersionConflict(s, expected)
  /\ log' = [log EXCEPT ![s] = @ \o Renumbered(s, events)]
=============================================================================
