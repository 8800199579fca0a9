-------------------------- MODULE AggregateRepository --------------------------
(***************************************************************************)
(* AggregateRepository::execute of knowledge-core (cqrs/aggregate.rs) run  *)
(* by concurrent clients over one shared EventStore and one shared         *)
(* MemorySnapshotStore.  A step ends wherever the code awaits: between two *)
(* steps of one client any step of another may happen.                     *)
(*                                                                         *)
(*   Start -> LoadSnapshot -> ReadEvents -> Replay* -> Execute -> Append   *)
(*         -> LoadSnapshot -> ReadEvents -> Replay* -> SaveSnapshot        *)
(*                                                                         *)
(* The second line is only taken when a snapshot store is configured.      *)
(* "truth" is a history variable: truth[s][k] is the document that the     *)
(* first k events of s lead to, computed once when event k is appended.    *)
(***************************************************************************)
EXTENDS EventStore

CONSTANTS
  Clients,          \* tasks calling execute
  WithSnapshots,    \* AggregateRepository::with_snapshots rather than ::new
  CreateIds,        \* CreateIds[s]: document ids a client may give to Create on stream s
  MetadataInputs,   \* metadata values clients send
  MaxCommands       \* bound: commands issued over a behaviour

VARIABLES
  snapshots,   \* snapshots[k]: [doc, version] saved under key k, or NoSnapshot
  pc,          \* pc[c]: the next step of client c
  saving,      \* saving[c]: c is in the second load, the one before the save
  stream,      \* stream[c]: aggregate_id of c's call
  command,     \* command[c]: its command
  agg,         \* agg[c]: the aggregate c is rebuilding or has rebuilt
  from,        \* from[c]: from_version of the read
  batch,       \* batch[c]: the events as they were when c read them
  cursor,      \* cursor[c]: the next event of batch[c] to look at
  out,         \* out[c]: the event the command produced
  result,      \* result[c]: what the last call of c returned
  issued,      \* number of commands issued so far
  truth        \* history variable, see above

local  == <<saving, stream, command, agg, from, batch, cursor, out>>
vars   == <<log, snapshots, pc, local, result, issued, truth>>

NoSnapshot == [doc |-> NewDocument, version |-> 0]
Keys       == DocumentIds \cup {NoId}
Snapshots  == [doc : Documents, version : Nat]
NoCommand  == [op |-> "Publish", id |-> NoId, set |-> Untouched]
NoEvent    == Signal(NewDocument, "Published")
Results    == {"none", "ok", "unchanged", "refused", "conflict", "failed"}
Steps      == {"idle", "load", "read", "replay", "execute", "append", "save"}

ASSUME RepositoryConstants ==
  /\ Streams = DocumentIds
  /\ WithSnapshots \in BOOLEAN
  /\ MetadataInputs \subseteq Texts \cup {Blank, Null}
  /\ MaxCommands \in Nat
  /\ CreateIds \in [Streams -> SUBSET DocumentIds]

\* Requests[s]: the commands a client may send to stream s.
Requests ==
  [ s \in Streams |->
      UNION { [ op  : {op},
                id  : IF op = "Create" THEN CreateIds[s] ELSE {NoId},
                set : FieldInputs(op, MetadataInputs) ] : op \in Ops } ]

Init ==
  /\ LogInit
  /\ snapshots = [k \in Keys |-> NoSnapshot]
  /\ pc        = [c \in Clients |-> "idle"]
  /\ saving    = [c \in Clients |-> FALSE]
  /\ stream    = [c \in Clients |-> NoId]
  /\ command   = [c \in Clients |-> NoCommand]
  /\ agg       = [c \in Clients |-> NewDocument]
  /\ from      = [c \in Clients |-> 0]
  /\ batch     = [c \in Clients |-> << >>]
  /\ cursor    = [c \in Clients |-> 1]
  /\ out       = [c \in Clients |-> NoEvent]
  /\ result    = [c \in Clients |-> "none"]
  /\ issued    = 0
  /\ truth     = [s \in Streams |-> << >>]

\* The document after the first k events of s, and after all of them.
StateAt(s, k) == IF k = 0 THEN NewDocument ELSE truth[s][k]
Current(s)    == StateAt(s, Len(log[s]))

-----------------------------------------------------------------------------
\* A call of c returns r; its local variables are gone with it.
Return(c, r) ==
  /\ pc'      = [pc EXCEPT ![c] = "idle"]
  /\ saving'  = [saving EXCEPT ![c] = FALSE]
  /\ stream'  = [stream EXCEPT ![c] = NoId]
  /\ command' = [command EXCEPT ![c] = NoCommand]
  /\ agg'     = [agg EXCEPT ![c] = NewDocument]
  /\ from'    = [from EXCEPT ![c] = 0]
  /\ batch'   = [batch EXCEPT ![c] = << >>]
  /\ cursor'  = [cursor EXCEPT ![c] = 1]
  /\ out'     = [out EXCEPT ![c] = NoEvent]
  /\ result'  = [result EXCEPT ![c] = r]
  /\ UNCHANGED issued

Start(c, s, cmd) ==
  /\ pc[c] = "idle"
  /\ issued < MaxCommands
  /\ issued'  = issued + 1
  /\ stream'  = [stream EXCEPT ![c] = s]
  /\ command' = [command EXCEPT ![c] = cmd]
  /\ result'  = [result EXCEPT ![c] = "none"]
  /\ pc'      = [pc EXCEPT ![c] = "load"]
  /\ UNCHANGED <<log, snapshots, saving, agg, from, batch, cursor, out, truth>>

\* Mistake: the snapshot's own last event is applied again.
ResumeInclusive(snap) == snap.version

\* Where the events behind a snapshot start.
ResumeFrom(snap) == snap.version + 1

\* load, first half: take the snapshot kept under the aggregate id, if any.
LoadSnapshot(c) ==
  LET snap == snapshots[stream[c]]
      hit  == WithSnapshots /\ snap # NoSnapshot
  IN
  /\ pc[c] = "load"
  /\ agg'  = [agg EXCEPT ![c] = IF hit THEN snap.doc ELSE NewDocument]
  /\ from' = [from EXCEPT ![c] = IF hit THEN ResumeFrom(snap) ELSE 0]
  /\ pc'   = [pc EXCEPT ![c] = "read"]
  /\ UNCHANGED <<log, snapshots, saving, stream, command, batch, cursor, out,
                 result, issued, truth>>

\* load, second half: read the stream under the store's lock...
ReadEvents(c) ==
  /\ pc[c] = "read"
  /\ batch'  = [batch EXCEPT ![c] = log[stream[c]]]
  /\ cursor' = [cursor EXCEPT ![c] = 1]
  /\ pc'     = [pc EXCEPT ![c] = "replay"]
  /\ UNCHANGED <<log, snapshots, saving, stream, command, agg, from, out,
                 result, issued, truth>>

\* ... and apply, in order, those of version >= from_version.  (The store drops
\* the others while it reads; nothing is awaited from here to the next command.)
Replay(c) ==
  LET e == batch[c][cursor[c]]
  IN
  /\ pc[c] = "replay"
  /\ cursor[c] <= Len(batch[c])
  /\ agg'    = [agg EXCEPT ![c] = IF e.version >= from[c] THEN Apply(@, Decoded(e.event)) ELSE @]
  /\ cursor' = [cursor EXCEPT ![c] = @ + 1]
  /\ UNCHANGED <<log, snapshots, pc, saving, stream, command, from, batch, out,
                 result, issued, truth>>

Loaded(c) ==
  /\ pc[c] = "replay"
  /\ cursor[c] > Len(batch[c])
  /\ pc'     = [pc EXCEPT ![c] = IF saving[c] THEN "save" ELSE "execute"]
  /\ batch'  = [batch EXCEPT ![c] = << >>]
  /\ cursor' = [cursor EXCEPT ![c] = 1]
  /\ from'   = [from EXCEPT ![c] = 0]
  /\ UNCHANGED <<log, snapshots, saving, stream, command, agg, out, result,
                 issued, truth>>

Execute(c) ==
  /\ pc[c] = "execute"
  /\ \/ /\ Refused(agg[c], command[c])
        /\ Return(c, "refused")
     \/ /\ ~Refused(agg[c], command[c])
        /\ ChangesNothing(agg[c], command[c])
        /\ Return(c, "unchanged")
     \/ /\ ~Refused(agg[c], command[c])
        /\ ~ChangesNothing(agg[c], command[c])
        /\ out' = [out EXCEPT ![c] = EventOf(agg[c], command[c])]
        /\ pc'  = [pc EXCEPT ![c] = "append"]
        /\ UNCHANGED <<saving, stream, command, agg, from, batch, cursor, result, issued>>
  /\ UNCHANGED <<log, snapshots, truth>>

Persist(c) ==
  LET s == stream[c]
  IN
  /\ pc[c] = "append"
  /\ AppendEvents(s, <<out[c]>>, agg[c].version)
  /\ truth' = [truth EXCEPT ![s] = Append(@, Apply(Current(s), Decoded(out[c])))]
  /\ UNCHANGED snapshots
  /\ IF WithSnapshots
     THEN /\ pc'     = [pc EXCEPT ![c] = "load"]
          /\ saving' = [saving EXCEPT ![c] = TRUE]
          /\ UNCHANGED <<stream, command, agg, from, batch, cursor, out, result, issued>>
     ELSE Return(c, "ok")

AppendConflicts(c) ==
  /\ pc[c] = "append"
  /\ VersionConflict(stream[c], agg[c].version)
  /\ Return(c, "conflict")
  /\ UNCHANGED <<log, snapshots, truth>>

\* save_snapshot keys the snapshot by the aggregate's own id and overwrites
\* whatever is there.
SaveSnapshot(c) ==
  /\ pc[c] = "save"
  /\ snapshots' = [snapshots EXCEPT ![agg[c].id] = [doc |-> agg[c], version |-> agg[c].version]]
  /\ Return(c, "ok")
  /\ UNCHANGED <<log, truth>>

\* At an await the call may end without an answer of its own: the store behind
\* the EventStore trait fails, or the caller drops the future.  After the append
\* the event is stored all the same.
Abandoned(c) ==
  /\ pc[c] \in {"load", "read", "append", "save"}
  /\ Return(c, "failed")
  /\ UNCHANGED <<log, snapshots, truth>>

Step(c) ==
  \/ LoadSnapshot(c) \/ ReadEvents(c) \/ Replay(c) \/ Loaded(c) \/ Execute(c)
  \/ Persist(c) \/ AppendConflicts(c) \/ SaveSnapshot(c) \/ Abandoned(c)

Next ==
  \/ \E c \in Clients, s \in Streams : \E cmd \in Requests[s] : Start(c, s, cmd)
  \/ \E c \in Clients : Step(c)

Spec == Init /\ [][Next]_vars

-----------------------------------------------------------------------------
(* Properties *)

\* agg[c] is the state of c's stream after agg[c].version events.
HoldsState(c) ==
  /\ agg[c].version <= Len(log[stream[c]])
  /\ agg[c] = StateAt(stream[c], agg[c].version)

\* The event c stored is among the first n of its stream.
OwnEventWithin(c, n) == \E k \in 1 .. n : log[stream[c]][k].event = out[c]

\* Every variable has its type.
TypeOK ==
  /\ LogTypeOK
  /\ snapshots \in [Keys -> Snapshots]
  /\ pc \in [Clients -> Steps]
  /\ saving \in [Clients -> BOOLEAN]
  /\ stream \in [Clients -> Keys]
  /\ command \in [Clients -> Commands]
  /\ agg \in [Clients -> Documents]
  /\ from \in [Clients -> Nat]
  /\ batch \in [Clients -> Seq(StoredEvents)]
  /\ cursor \in [Clients -> Nat \ {0}]
  /\ out \in [Clients -> Events]
  /\ result \in [Clients -> Results]
  /\ issued \in Nat
  /\ truth \in [Streams -> Seq(Documents)]

\* The versions of a stream are 1, 2, 3, ... without gap or repetition, however
\* the appends of concurrent clients interleave.
VersionsContiguous ==
  \A s \in Streams : \A k \in 1 .. Len(log[s]) : log[s][k].version = k

\* A document is created once: only the first event of a stream is a Created
\* event, even when two clients find the stream empty and both create it.
CreatedOnce ==
  \A s \in Streams : \A k \in 1 .. Len(log[s]) : log[s][k].event.kind = "Created" <=> k = 1

\* The audit trail chains: the old value an update records is the value its
\* field had when the update was stored, not the value of some earlier state
\* the client had read.
AuditTrailChains ==
  \A s \in Streams : \A k \in 1 .. Len(log[s]) : \A f \in Fields :
    log[s][k].event.old[f] # Keep => log[s][k].event.old[f] = StateAt(s, k - 1).fields[f]

\* A snapshot is the state of its own stream after some of its events, stored
\* with the number of those events, so that loading through it is the same as
\* replaying the stream from the start.
SnapshotsAreStates ==
  \A s \in Streams : snapshots[s] # NoSnapshot =>
    /\ snapshots[s].version \in 1 .. Len(log[s])
    /\ snapshots[s].doc = StateAt(s, snapshots[s].version)

\* What load returns is the state after exactly as many events as its version
\* says, although it reads snapshot and events in two steps with appends and
\* snapshot saves of others in between.
LoadEqualsReplay ==
  \A c \in Clients : pc[c] \in {"execute", "append", "save"} => HoldsState(c)

\* The second load sees the client's own event: the snapshot a call saves is
\* never older than what the call stored.
ReloadSeesOwnEvent ==
  \A c \in Clients : pc[c] = "save" => OwnEventWithin(c, agg[c].version)

\* The status of a document only moves along the edges of can_transition_to:
\* in particular nothing leaves Deleted.
LifecycleRespected ==
  \A s \in Streams : \A k \in 2 .. Len(log[s]) :
    \/ StateAt(s, k).status = StateAt(s, k - 1).status
    \/ CanTransitionTo(StateAt(s, k - 1).status, StateAt(s, k).status)

\* A call is told of a conflict only when another event really was stored
\* after its load; and a call that gets its answer is told so whenever that
\* happened.
ConflictIffOvertaken ==
  [][\A c \in Clients : pc[c] = "append" /\ pc'[c] # "append" /\ result'[c] # "failed" =>
       (result'[c] = "conflict" <=> Len(log[stream[c]]) > agg[c].version)]_vars

\* Concurrent execution implements the abstract store: every change of a stream
\* is one command performed on the stream's current state.
Store == INSTANCE DocumentStore WITH docs <- [s \in Streams |-> Current(s)]
ImplementsStore == Store!Spec

-----------------------------------------------------------------------------
(* The inductive invariant behind the safety properties. *)

\* truth is the replay of the log, and its states are numbered by it.
TruthFollowsLog ==
  \A s \in Streams :
    /\ Len(truth[s]) = Len(log[s])
    /\ \A k \in 1 .. Len(log[s]) :
         truth[s][k] = Apply(StateAt(s, k - 1), Decoded(log[s][k].event))
    /\ \A k \in 1 .. Len(log[s]) :
         /\ truth[s][k].version = k
         /\ truth[s][k].id \in DocumentIds
         /\ WithSnapshots => truth[s][k].id = s

SnapshotsUsable ==
  /\ SnapshotsAreStates
  /\ \A s \in Streams : snapshots[s].version = 0 => snapshots[s] = NoSnapshot
  /\ ~WithSnapshots => \A s \in Streams : snapshots[s] = NoSnapshot

\* Between its two reads a client holds a state and reads on from behind it.
ReadInv(c) ==
  pc[c] = "read" =>
    /\ HoldsState(c)
    /\ \/ from[c] = agg[c].version + 1
       \/ from[c] = 0 /\ agg[c].version = 0

\* While it replays, the batch is a prefix of the log and the aggregate is the
\* state at the cursor, or still the snapshot's when that lies ahead.
ReplayInv(c) ==
  pc[c] = "replay" =>
    /\ HoldsState(c)
    /\ Len(batch[c]) <= Len(log[stream[c]])
    /\ \A k \in 1 .. Len(batch[c]) : batch[c][k] = log[stream[c]][k]
    /\ cursor[c] <= Len(batch[c]) + 1
    /\ \/ from[c] <= cursor[c] /\ agg[c].version = cursor[c] - 1
       \/ from[c] > cursor[c] /\ agg[c].version = from[c] - 1
    /\ saving[c] => OwnEventWithin(c, Len(batch[c]))

DecidedInv(c) ==
  pc[c] = "append" =>
    /\ ~Refused(agg[c], command[c])
    /\ ~ChangesNothing(agg[c], command[c])
    /\ out[c] = EventOf(agg[c], command[c])

CallInv(c) ==
  /\ pc[c] # "idle" => stream[c] \in Streams /\ command[c] \in Requests[stream[c]]
  /\ saving[c] => WithSnapshots /\ pc[c] \in {"load", "read", "replay", "save"}
  /\ saving[c] => OwnEventWithin(c, Len(log[stream[c]]))
  /\ pc[c] = "save" => saving[c] /\ agg[c].version > 0
  /\ ReadInv(c)
  /\ ReplayInv(c)
  /\ DecidedInv(c)

\* The strengthening that makes the safety properties inductive: what each
\* client holds at each step of its call, as a function of the log.
RepositoryInv ==
  /\ VersionsContiguous
  /\ TruthFollowsLog
  /\ SnapshotsUsable
  /\ LoadEqualsReplay
  /\ ReloadSeesOwnEvent
  /\ \A c \in Clients : CallInv(c)

\* Clients that use snapshots name a new document after its stream.
SafeIds == WithSnapshots => \A s \in Streams : CreateIds[s] \subseteq {s}
=============================================================================
