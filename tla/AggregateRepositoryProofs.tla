----------------------- MODULE AggregateRepositoryProofs -----------------------
(***************************************************************************)
(* Theorems about AggregateRepository for any number of clients, streams,  *)
(* values and commands.                                                    *)
(***************************************************************************)
EXTENDS AggregateRepository, CommonProofs, SequenceTheorems, TLAPS

-----------------------------------------------------------------------------
\* Requests are commands.
LEMMA RequestsAreCommands ==
  ASSUME NEW s \in Streams, NEW cmd \in Requests[s]
  PROVE  cmd \in Commands
  <1>1. PICK op \in Ops : cmd \in [ op  : {op},
                                    id  : IF op = "Create" THEN CreateIds[s] ELSE {NoId},
                                    set : FieldInputs(op, MetadataInputs) ]
    BY DEF Requests
  <1>2. cmd.op \in Ops /\ cmd.id \in DocumentIds \cup {NoId}
    BY <1>1, RepositoryConstants
  <1>3. cmd.set \in [Fields -> Values \cup {Keep}]
    BY <1>1 DEF FieldInputs
  <1>4. cmd = [op |-> cmd.op, id |-> cmd.id, set |-> cmd.set]
    BY <1>1
  <1>5. QED
    BY <1>2, <1>3, <1>4 DEF Commands

-----------------------------------------------------------------------------
(* Type correctness.                                                       *)

LEMMA DefaultsTyped ==
  /\ NoCommand \in Commands
  /\ NoEvent \in Events
  /\ NoSnapshot \in Snapshots
  /\ NoId \in Keys
  /\ Streams \subseteq Keys
  <1>1. Untouched \in [Fields -> Values \cup {Keep}]
    BY DEF Untouched
  <1>2. NoCommand \in Commands
    BY <1>1 DEF NoCommand, Commands, Ops
  <1>3. NoEvent \in Events
    BY <1>1 DEF NoEvent, Signal, Events, Kinds, NewDocument
  <1>4. NoSnapshot \in Snapshots
    BY NewDocumentType DEF NoSnapshot, Snapshots
  <1>5. QED
    BY <1>2, <1>3, <1>4, RepositoryConstants DEF Keys

\* A call that returns leaves its client's variables typed.
LEMMA ReturnTyped ==
  ASSUME TypeOK, NEW c \in Clients, NEW r \in Results, Return(c, r)
  PROVE  /\ pc' \in [Clients -> Steps]
         /\ saving' \in [Clients -> BOOLEAN]
         /\ stream' \in [Clients -> Keys]
         /\ command' \in [Clients -> Commands]
         /\ agg' \in [Clients -> Documents]
         /\ from' \in [Clients -> Nat]
         /\ batch' \in [Clients -> Seq(StoredEvents)]
         /\ cursor' \in [Clients -> Nat \ {0}]
         /\ out' \in [Clients -> Events]
         /\ result' \in [Clients -> Results]
         /\ issued' \in Nat
  BY DefaultsTyped, NewDocumentType DEF TypeOK, Return, Steps

\* The version the store computes for a stream is a natural number.
LEMMA CurrentVersionType ==
  ASSUME LogTypeOK, NEW s \in Streams
  PROVE  CurrentVersion(s) \in Nat
  <1>1. log[s] \in Seq(StoredEvents)
    BY DEF LogTypeOK
  <1>2. CASE log[s] = << >>
    BY <1>2 DEF CurrentVersion
  <1>3. CASE log[s] # << >>
    <2>1. Len(log[s]) \in 1 .. Len(log[s])
      BY <1>1, <1>3
    <2>2. log[s][Len(log[s])] \in StoredEvents
      BY <1>1, <2>1
    <2>3. QED
      BY <1>3, <2>2 DEF CurrentVersion, StoredEvents
  <1>4. QED
    BY <1>2, <1>3

\* Appending one event: the new log of the stream, entry by entry.
LEMMA AppendOne ==
  ASSUME LogTypeOK, NEW s \in Streams, NEW e \in Events, NEW v,
         AppendEvents(s, <<e>>, v)
  PROVE  /\ LogTypeOK'
         /\ Len(log'[s]) = Len(log[s]) + 1
         /\ \A k \in 1 .. Len(log[s]) : log'[s][k] = log[s][k]
         /\ log'[s][Len(log[s]) + 1] = [event |-> e, version |-> CurrentVersion(s) + 1]
         /\ \A t \in Streams \ {s} : log'[t] = log[t]
  <1> DEFINE new == Renumbered(s, <<e>>)
  <1>1. log \in [Streams -> Seq(StoredEvents)] /\ log[s] \in Seq(StoredEvents)
    BY DEF LogTypeOK
  <1>2. CurrentVersion(s) \in Nat
    BY CurrentVersionType
  <1>3. new = [i \in 1 .. 1 |-> [event |-> <<e>>[i], version |-> CurrentVersion(s) + i]]
    BY DEF Renumbered
  <1>4. new[1] = [event |-> e, version |-> CurrentVersion(s) + 1]
    BY <1>3
  <1>5. new \in Seq(StoredEvents) /\ Len(new) = 1
    <2>1. \A i \in 1 .. 1 : new[i] \in StoredEvents
      BY <1>2, <1>3 DEF StoredEvents
    <2>2. new \in [1 .. 1 -> StoredEvents]
      BY <1>3, <2>1
    <2>3. new \in Seq(StoredEvents)
      BY <2>2, SeqDef
    <2>4. DOMAIN new = 1 .. 1
      BY <1>3
    <2> HIDE DEF new
    <2>5. DOMAIN new = 1 .. Len(new) /\ Len(new) \in Nat
      BY <2>3, LenProperties
    <2>6. QED
      BY <2>3, <2>4, <2>5
  <1>6. log' = [log EXCEPT ![s] = log[s] \o new]
    BY DEF AppendEvents
  <1>7. log'[s] = log[s] \o new
    BY <1>1, <1>6
  <1> HIDE DEF new
  <1>8. log[s] \o new \in Seq(StoredEvents)
    BY <1>1, <1>5
  <1>9. /\ Len(log'[s]) = Len(log[s]) + 1
        /\ \A k \in 1 .. Len(log[s]) + 1 :
             log'[s][k] = IF k <= Len(log[s]) THEN log[s][k] ELSE new[k - Len(log[s])]
    <2> DEFINE old == log[s]
    <2>1. old \in Seq(StoredEvents)
      BY <1>1
    <2> HIDE DEF old
    <2>2. /\ Len(old \o new) = Len(old) + Len(new)
          /\ \A k \in 1 .. Len(old) + Len(new) :
               (old \o new)[k] = IF k <= Len(old) THEN old[k] ELSE new[k - Len(old)]
      BY ONLY <1>5, <2>1, ConcatProperties, Zenon
    <2>3. log'[s] = old \o new
      BY <1>7 DEF old
    <2>4. QED
      BY <1>5, <2>2, <2>3 DEF old
  <1>10. \A k \in 1 .. Len(log[s]) : log'[s][k] = log[s][k]
    BY <1>1, <1>9
  <1>11. log'[s][Len(log[s]) + 1] = new[1]
    BY <1>1, <1>9
  <1>12. log' \in [Streams -> Seq(StoredEvents)]
    BY <1>1, <1>6, <1>8
  <1>13. \A t \in Streams \ {s} : log'[t] = log[t]
    BY <1>1, <1>6
  <1>14. QED
    BY <1>4, <1>9, <1>10, <1>11, <1>12, <1>13 DEF LogTypeOK

LEMMA InitTyped == Init => TypeOK
  <1> SUFFICES ASSUME Init PROVE TypeOK
    OBVIOUS
  <1>1. LogTypeOK
    BY DEF Init, LogInit, LogTypeOK
  <1>2. QED
    BY <1>1, DefaultsTyped, NewDocumentType DEF Init, TypeOK, Steps, Results

\* The state of a stream after some of its events is a document.
LEMMA StateAtType ==
  ASSUME TypeOK, NEW s \in Streams, NEW k \in 0 .. Len(truth[s])
  PROVE  StateAt(s, k) \in Documents
  <1>1. truth[s] \in Seq(Documents)
    BY DEF TypeOK
  <1>2. CASE k = 0
    BY <1>2, NewDocumentType DEF StateAt
  <1>3. CASE k # 0
    BY <1>1, <1>3 DEF StateAt
  <1>4. QED
    BY <1>2, <1>3

LEMMA StepTyped ==
  ASSUME TypeOK, RepositoryInv, [Next]_vars
  PROVE  TypeOK'
  <1> USE DEF TypeOK
  <1>1. ASSUME NEW c \in Clients, NEW s \in Streams, NEW cmd \in Requests[s], Start(c, s, cmd)
        PROVE  TypeOK'
    BY <1>1, RequestsAreCommands, DefaultsTyped DEF Start, Steps, Results, LogTypeOK
  <1>2. ASSUME NEW c \in Clients, LoadSnapshot(c)
        PROVE  TypeOK'
    <2>1. stream[c] \in Keys /\ snapshots[stream[c]] \in Snapshots
      OBVIOUS
    <2>2. /\ agg' \in [Clients -> Documents]
          /\ from' \in [Clients -> Nat]
          /\ pc' \in [Clients -> Steps]
      BY <1>2, <2>1, NewDocumentType DEF LoadSnapshot, ResumeFrom, Snapshots, Steps
    <2>3. QED
      BY <1>2, <2>2 DEF LoadSnapshot, LogTypeOK
  <1>3. ASSUME NEW c \in Clients, ReadEvents(c)
        PROVE  TypeOK'
    <2>1. stream[c] \in Streams
      BY <1>3 DEF RepositoryInv, CallInv, ReadEvents
    <2>2. log[stream[c]] \in Seq(StoredEvents)
      BY <2>1 DEF LogTypeOK
    <2>3. QED
      BY <1>3, <2>2 DEF ReadEvents, Steps, LogTypeOK
  <1>4. ASSUME NEW c \in Clients, Abandoned(c)
        PROVE  TypeOK'
    BY <1>4, ReturnTyped DEF Abandoned, Results, LogTypeOK
  <1>5. ASSUME NEW c \in Clients, Replay(c)
        PROVE  TypeOK'
    <2> DEFINE e == batch[c][cursor[c]]
    <2>1. e \in StoredEvents
      BY <1>5 DEF Replay
    <2>2. e.event \in Events
      BY <2>1 DEF StoredEvents
    <2>3. Apply(agg[c], Decoded(e.event)) \in Documents
      BY <2>2, ApplyType, DecodedType
    <2>4. agg' \in [Clients -> Documents] /\ cursor' \in [Clients -> Nat \ {0}]
      BY <1>5, <2>3 DEF Replay
    <2>5. QED
      BY <1>5, <2>4 DEF Replay, LogTypeOK
  <1>6. ASSUME NEW c \in Clients, Loaded(c)
        PROVE  TypeOK'
    BY <1>6 DEF Loaded, Steps, LogTypeOK
  <1>7. ASSUME NEW c \in Clients, Execute(c)
        PROVE  TypeOK'
    <2>1. CASE Return(c, "refused")
      BY <1>7, <2>1, ReturnTyped DEF Execute, Results, LogTypeOK
    <2>2. CASE Return(c, "unchanged")
      BY <1>7, <2>2, ReturnTyped DEF Execute, Results, LogTypeOK
    <2>3. CASE /\ out' = [out EXCEPT ![c] = EventOf(agg[c], command[c])]
               /\ pc'  = [pc EXCEPT ![c] = "append"]
               /\ UNCHANGED <<saving, stream, command, agg, from, batch, cursor, result, issued>>
      <3>1. EventOf(agg[c], command[c]) \in Events
        BY EventOfType
      <3>2. QED
        BY <1>7, <2>3, <3>1 DEF Execute, Steps, LogTypeOK
    <2>4. QED
      BY <1>7, <2>1, <2>2, <2>3 DEF Execute
  <1>8. ASSUME NEW c \in Clients, Persist(c)
        PROVE  TypeOK'
    <2> DEFINE s == stream[c]
    <2>1. s \in Streams /\ out[c] \in Events
      BY <1>8 DEF RepositoryInv, CallInv, Persist
    <2>2. LogTypeOK'
      BY <1>8, <2>1, AppendOne DEF Persist
    <2>3. Apply(Current(s), Decoded(out[c])) \in Documents
      <3>1. Len(log[s]) \in 0 .. Len(truth[s])
        BY <2>1 DEF RepositoryInv, TruthFollowsLog, LogTypeOK
      <3>2. Current(s) \in Documents
        BY <2>1, <3>1, StateAtType DEF Current
      <3>3. QED
        BY <2>1, <3>2, ApplyType, DecodedType
    <2>4. truth' \in [Streams -> Seq(Documents)]
      BY <1>8, <2>1, <2>3 DEF Persist
    <2>5. CASE WithSnapshots
      BY <1>8, <2>2, <2>4, <2>5 DEF Persist, Steps
    <2>6. CASE ~WithSnapshots
      BY <1>8, <2>2, <2>4, <2>6, ReturnTyped DEF Persist, Results
    <2>7. QED
      BY <2>5, <2>6
  <1>9. ASSUME NEW c \in Clients, AppendConflicts(c)
        PROVE  TypeOK'
    BY <1>9, ReturnTyped DEF AppendConflicts, Results, LogTypeOK
  <1>10. ASSUME NEW c \in Clients, SaveSnapshot(c)
         PROVE  TypeOK'
    <2>1. agg[c].id \in Keys /\ agg[c].version \in Nat /\ agg[c] \in Documents
      BY DEF Documents, Keys
    <2>2. snapshots' \in [Keys -> Snapshots]
      BY <1>10, <2>1 DEF SaveSnapshot, Snapshots
    <2>3. QED
      BY <1>10, <2>2, ReturnTyped DEF SaveSnapshot, Results, LogTypeOK
  <1>11. CASE UNCHANGED vars
    BY <1>11 DEF vars, local, LogTypeOK
  <1>12. QED
    BY <1>1, <1>2, <1>3, <1>4, <1>5, <1>6, <1>7, <1>8, <1>9, <1>10, <1>11 DEF Next, Step

-----------------------------------------------------------------------------
(* The inductive invariant.                                                *)

\* All that the invariant says of one client.
ClientInv(c) ==
  /\ CallInv(c)
  /\ pc[c] \in {"execute", "append", "save"} => HoldsState(c)
  /\ pc[c] = "save" => OwnEventWithin(c, agg[c].version)

LEMMA InvByClient ==
  RepositoryInv <=> /\ VersionsContiguous
                    /\ TruthFollowsLog
                    /\ SnapshotsUsable
                    /\ \A c \in Clients : ClientInv(c)
  BY DEF RepositoryInv, ClientInv, LoadEqualsReplay, ReloadSeesOwnEvent

\* What any step does to log and truth: it keeps what is there.
Extended ==
  \A s \in Streams :
    /\ Len(log[s]) <= Len(log'[s])
    /\ \A k \in 1 .. Len(log[s]) : log'[s][k] = log[s][k] /\ truth'[s][k] = truth[s][k]

\* The variables of client d are left alone.
LocalKept(d) ==
  /\ pc'[d] = pc[d]           /\ saving'[d] = saving[d] /\ stream'[d] = stream[d]
  /\ command'[d] = command[d] /\ agg'[d] = agg[d]       /\ from'[d] = from[d]
  /\ batch'[d] = batch[d]     /\ cursor'[d] = cursor[d] /\ out'[d] = out[d]

LEMMA Lengths ==
  ASSUME TypeOK, NEW s \in Streams
  PROVE  Len(log[s]) \in Nat /\ Len(truth[s]) \in Nat
  BY DEF TypeOK, LogTypeOK

LEMMA StateAtKept ==
  ASSUME Extended, NEW s \in Streams, NEW k \in 0 .. Len(log[s])
  PROVE  StateAt(s, k)' = StateAt(s, k)
  BY DEF Extended, StateAt

\* A client whose aggregate is a state of its stream keeps it when the stream grows.
LEMMA HoldsStateKept ==
  ASSUME TypeOK, TypeOK', Extended, NEW d \in Clients, stream[d] \in Streams, HoldsState(d),
         agg'[d] = agg[d], stream'[d] = stream[d]
  PROVE  HoldsState(d)'
  <1>1. agg[d].version \in 0 .. Len(log[stream[d]])
    BY Lengths DEF HoldsState, TypeOK, Documents
  <1>2. StateAt(stream[d], agg[d].version)' = StateAt(stream[d], agg[d].version)
    BY <1>1, StateAtKept DEF StateAt
  <1>3. Len(log[stream[d]]) \in Nat /\ Len(log'[stream[d]]) \in Nat
    BY DEF TypeOK, LogTypeOK
  <1>4. agg[d].version <= Len(log'[stream[d]])
    BY <1>1, <1>3 DEF Extended
  <1>5. QED
    BY <1>2, <1>4 DEF HoldsState

\* A client that takes no step keeps its part of the invariant, whatever
\* another client appends meanwhile.
LEMMA ClientKept ==
  ASSUME TypeOK, TypeOK', Extended, NEW d \in Clients, LocalKept(d), ClientInv(d)
  PROVE  ClientInv(d)'
  <1>1. CASE pc[d] = "idle"
    BY <1>1 DEF ClientInv, CallInv, ReadInv, ReplayInv, DecidedInv, LocalKept
  <1>2. CASE pc[d] # "idle"
    <2>1. stream[d] \in Streams /\ command[d] \in Requests[stream[d]]
      BY <1>2 DEF ClientInv, CallInv
    <2>2. Len(log[stream[d]]) \in Nat /\ Len(log'[stream[d]]) \in Nat /\ Len(batch[d]) \in Nat
      BY <2>1 DEF TypeOK, LogTypeOK
    <2>3. HoldsState(d) => HoldsState(d)'
      BY <2>1, HoldsStateKept DEF LocalKept
    <2>4. ASSUME NEW n \in Nat, n <= Len(log[stream[d]]), OwnEventWithin(d, n)
          PROVE  /\ \E k \in 1 .. n : log'[stream'[d]][k].event = out'[d]
                 /\ \E k \in 1 .. Len(log'[stream'[d]]) : log'[stream'[d]][k].event = out'[d]
      <3>1. PICK k \in 1 .. n : log[stream[d]][k].event = out[d]
        BY <2>4 DEF OwnEventWithin
      <3>2. log'[stream[d]][k] = log[stream[d]][k] /\ k \in 1 .. Len(log'[stream[d]])
        BY <2>1, <2>2, <2>4, <3>1 DEF Extended
      <3>3. QED
        BY <3>1, <3>2 DEF LocalKept
    <2>5. ReadInv(d)'
      BY <2>3 DEF ClientInv, CallInv, ReadInv, LocalKept
    <2>6. ReplayInv(d)'
      <3> SUFFICES ASSUME pc'[d] = "replay" PROVE ReplayInv(d)'
        BY DEF ReplayInv
      <3>1. pc[d] = "replay" /\ ReplayInv(d)
        BY DEF LocalKept, ClientInv, CallInv
      <3>2. HoldsState(d)'
        BY <2>3, <3>1 DEF ReplayInv
      <3>3. /\ Len(batch[d]) <= Len(log'[stream[d]])
            /\ \A k \in 1 .. Len(batch[d]) : batch[d][k] = log'[stream[d]][k]
        BY <2>1, <2>2, <3>1 DEF ReplayInv, Extended
      <3>4. saving[d] => OwnEventWithin(d, Len(batch[d]))'
        BY <2>2, <2>4, <3>1 DEF ReplayInv, OwnEventWithin, LocalKept
      <3>5. QED
        BY <3>1, <3>2, <3>3, <3>4 DEF ReplayInv, LocalKept
    <2>7. DecidedInv(d)'
      BY DEF ClientInv, CallInv, DecidedInv, LocalKept
    <2>8. saving'[d] => OwnEventWithin(d, Len(log[stream[d]]))'
      BY <2>2, <2>4 DEF ClientInv, CallInv, OwnEventWithin, LocalKept
    <2>9. pc'[d] = "save" => OwnEventWithin(d, agg[d].version)'
      <3>1. pc[d] = "save" => /\ OwnEventWithin(d, agg[d].version)
                              /\ agg[d].version \in Nat
                              /\ agg[d].version <= Len(log[stream[d]])
        BY DEF ClientInv, HoldsState, TypeOK, Documents
      <3>2. QED
        BY <2>4, <3>1 DEF OwnEventWithin, LocalKept
    <2>10. CallInv(d)'
      BY <2>1, <2>5, <2>6, <2>7, <2>8 DEF CallInv, ClientInv, LocalKept
    <2>11. QED
      BY <2>3, <2>9, <2>10 DEF ClientInv, LocalKept
  <1>3. QED
    BY <1>1, <1>2

\* A step that leaves log and truth alone keeps what the invariant says of them.
LEMMA StoreKept ==
  ASSUME TypeOK, RepositoryInv, UNCHANGED <<log, truth>>
  PROVE  /\ Extended
         /\ VersionsContiguous'
         /\ TruthFollowsLog'
         /\ \A s \in Streams, k \in Nat : StateAt(s, k)' = StateAt(s, k)
  <1>1. Extended
    BY Lengths DEF Extended
  <1>2. VersionsContiguous'
    BY DEF RepositoryInv, VersionsContiguous
  <1>3. TruthFollowsLog'
    BY DEF RepositoryInv, TruthFollowsLog, StateAt
  <1>4. QED
    BY <1>1, <1>2, <1>3 DEF StateAt

LEMMA SnapshotsKept ==
  ASSUME TypeOK, TypeOK', RepositoryInv, Extended, UNCHANGED snapshots
  PROVE  SnapshotsUsable'
  <1>1. ASSUME NEW s \in Streams, snapshots[s] # NoSnapshot
        PROVE  /\ snapshots[s].version \in 1 .. Len(log'[s])
               /\ snapshots[s].doc = StateAt(s, snapshots[s].version)'
    <2>1. /\ snapshots[s].version \in 1 .. Len(log[s])
          /\ snapshots[s].doc = StateAt(s, snapshots[s].version)
      BY <1>1 DEF RepositoryInv, SnapshotsUsable, SnapshotsAreStates
    <2>2. Len(log[s]) \in Nat /\ Len(log'[s]) \in Nat /\ Len(log[s]) <= Len(log'[s])
      BY DEF TypeOK, LogTypeOK, Extended
    <2>3. QED
      BY <2>1, <2>2, StateAtKept
  <1>2. SnapshotsAreStates'
    BY <1>1 DEF SnapshotsAreStates
  <1>3. QED
    BY <1>2 DEF SnapshotsUsable, RepositoryInv

\* The invariant after a step of c, put together from its parts.
LEMMA Assemble ==
  ASSUME VersionsContiguous', TruthFollowsLog', SnapshotsUsable', NEW c \in Clients,
         ClientInv(c)', \A d \in Clients \ {c} : ClientInv(d)'
  PROVE  RepositoryInv'
  <1>1. \A d \in Clients : ClientInv(d)'
    OBVIOUS
  <1>2. QED
    BY <1>1 DEF RepositoryInv, ClientInv, LoadEqualsReplay, ReloadSeesOwnEvent

\* A client whose call returned is idle, and the others are left alone.
LEMMA AfterReturn ==
  ASSUME TypeOK, NEW c \in Clients, NEW r, Return(c, r)
  PROVE  /\ ClientInv(c)'
         /\ \A d \in Clients \ {c} : LocalKept(d)
  BY DEF TypeOK, Return, ClientInv, CallInv, ReadInv, ReplayInv, DecidedInv, LocalKept

LEMMA StartKeeps ==
  ASSUME TypeOK, TypeOK', RepositoryInv,
         NEW c \in Clients, NEW s \in Streams, NEW cmd \in Requests[s], Start(c, s, cmd)
  PROVE  RepositoryInv'
  <1>1. \A d \in Clients \ {c} : LocalKept(d)
    BY DEF Start, TypeOK, LocalKept
  <1>2. \A d \in Clients \ {c} : ClientInv(d)'
    BY <1>1, StoreKept, ClientKept, InvByClient DEF Start
  <1>3. saving[c] = FALSE
    BY DEF Start, RepositoryInv, CallInv, TypeOK
  <1>4. ClientInv(c)'
    BY <1>3 DEF Start, TypeOK, ClientInv, CallInv, ReadInv, ReplayInv, DecidedInv
  <1>5. QED
    BY <1>2, <1>4, StoreKept, SnapshotsKept, Assemble DEF Start

LEMMA LoadSnapshotKeeps ==
  ASSUME TypeOK, TypeOK', RepositoryInv, NEW c \in Clients, LoadSnapshot(c)
  PROVE  RepositoryInv'
  <1> DEFINE s == stream[c]
             snap == snapshots[s]
  <1>1. \A d \in Clients \ {c} : LocalKept(d)
    BY DEF LoadSnapshot, TypeOK, LocalKept
  <1>2. \A d \in Clients \ {c} : ClientInv(d)'
    BY <1>1, StoreKept, ClientKept, InvByClient DEF LoadSnapshot
  <1>3. s \in Streams /\ command[c] \in Requests[s] /\ Len(log[s]) \in Nat
    BY Lengths DEF LoadSnapshot, RepositoryInv, CallInv
  <1>4. HoldsState(c)' /\ ReadInv(c)'
    <2>1. CASE WithSnapshots /\ snap # NoSnapshot
      <3>1. snap.version \in 1 .. Len(log[s]) /\ snap.doc = StateAt(s, snap.version)
        BY <1>3, <2>1 DEF RepositoryInv, SnapshotsUsable, SnapshotsAreStates
      <3>2. snap.doc.version = snap.version
        BY <1>3, <3>1 DEF RepositoryInv, TruthFollowsLog, StateAt
      <3>3. /\ agg'[c] = snap.doc /\ from'[c] = snap.version + 1
            /\ stream'[c] = s /\ log' = log /\ truth' = truth
        BY <2>1 DEF LoadSnapshot, ResumeFrom, TypeOK
      <3>4. HoldsState(c)'
        BY <1>3, <3>1, <3>2, <3>3 DEF HoldsState, StateAt
      <3>5. QED
        BY <3>2, <3>3, <3>4 DEF ReadInv
    <2>2. CASE ~(WithSnapshots /\ snap # NoSnapshot)
      <3>1. agg'[c] = NewDocument /\ from'[c] = 0 /\ stream'[c] = s /\ log' = log
        BY <2>2 DEF LoadSnapshot, TypeOK
      <3>2. HoldsState(c)'
        BY <1>3, <3>1 DEF HoldsState, StateAt, NewDocument
      <3>3. QED
        BY <3>1, <3>2 DEF ReadInv, NewDocument
    <2>3. QED
      BY <2>1, <2>2
  <1>5. CallInv(c) /\ pc'[c] = "read" /\ saving' = saving /\ stream' = stream
        /\ command' = command /\ out' = out /\ log' = log
    BY DEF LoadSnapshot, RepositoryInv, TypeOK
  <1>6. CallInv(c)'
    BY <1>3, <1>4, <1>5 DEF CallInv, ReplayInv, DecidedInv, OwnEventWithin
  <1>7. ClientInv(c)'
    BY <1>5, <1>6 DEF ClientInv
  <1>8. QED
    BY <1>2, <1>7, StoreKept, SnapshotsKept, Assemble DEF LoadSnapshot

LEMMA ReadEventsKeeps ==
  ASSUME TypeOK, TypeOK', RepositoryInv, NEW c \in Clients, ReadEvents(c)
  PROVE  RepositoryInv'
  <1> DEFINE s == stream[c]
  <1>1. \A d \in Clients \ {c} : LocalKept(d)
    BY DEF ReadEvents, TypeOK, LocalKept
  <1>2. \A d \in Clients \ {c} : ClientInv(d)'
    BY <1>1, StoreKept, ClientKept, InvByClient DEF ReadEvents
  <1>3. s \in Streams /\ Len(log[s]) \in Nat
    BY Lengths DEF ReadEvents, RepositoryInv, CallInv
  <1>4. /\ CallInv(c) /\ ReadInv(c) /\ pc[c] = "read" /\ pc'[c] = "replay"
        /\ saving' = saving /\ stream' = stream /\ command' = command /\ agg' = agg
        /\ from' = from /\ out' = out /\ log' = log /\ truth' = truth
        /\ batch'[c] = log[s] /\ cursor'[c] = 1
    BY DEF ReadEvents, RepositoryInv, CallInv, TypeOK
  <1>5. HoldsState(c)'
    BY <1>4 DEF ReadInv, HoldsState, StateAt
  <1>6. agg[c].version \in Nat
    BY DEF TypeOK, Documents
  <1>7. ReplayInv(c)'
    <2>1. \/ from[c] <= 1 /\ agg[c].version = 0
          \/ from[c] > 1 /\ agg[c].version = from[c] - 1
      BY <1>4, <1>6 DEF ReadInv
    <2>2. saving[c] => OwnEventWithin(c, Len(batch[c]))'
      BY <1>4 DEF CallInv, OwnEventWithin
    <2>3. QED
      BY <1>3, <1>4, <1>5, <2>1, <2>2 DEF ReplayInv
  <1>8. CallInv(c)'
    BY <1>4, <1>7 DEF CallInv, ReadInv, DecidedInv, OwnEventWithin
  <1>9. ClientInv(c)'
    BY <1>4, <1>8 DEF ClientInv
  <1>10. QED
    BY <1>2, <1>9, StoreKept, SnapshotsKept, Assemble DEF ReadEvents

LEMMA ReplayKeeps ==
  ASSUME TypeOK, TypeOK', RepositoryInv, NEW c \in Clients, Replay(c)
  PROVE  RepositoryInv'
  <1> DEFINE s == stream[c]
             k == cursor[c]
             e == batch[c][k]
  <1>1. \A d \in Clients \ {c} : LocalKept(d)
    BY DEF Replay, TypeOK, LocalKept
  <1>2. \A d \in Clients \ {c} : ClientInv(d)'
    BY <1>1, StoreKept, ClientKept, InvByClient DEF Replay
  <1>3. s \in Streams /\ Len(log[s]) \in Nat /\ Len(batch[c]) \in Nat /\ k \in Nat \ {0}
    BY Lengths DEF Replay, RepositoryInv, CallInv, TypeOK
  <1>4. /\ CallInv(c) /\ ReplayInv(c) /\ pc[c] = "replay" /\ pc' = pc /\ k <= Len(batch[c])
        /\ saving' = saving /\ stream' = stream /\ command' = command /\ batch' = batch
        /\ from' = from /\ out' = out /\ log' = log /\ truth' = truth /\ cursor'[c] = k + 1
    BY DEF Replay, RepositoryInv, CallInv, TypeOK
  <1>5. e = log[s][k] /\ k \in 1 .. Len(log[s]) /\ HoldsState(c)
    BY <1>3, <1>4 DEF ReplayInv
  <1>6. e.version = k
    BY <1>3, <1>5 DEF RepositoryInv, VersionsContiguous
  <1>7. /\ HoldsState(c)'
        /\ \/ from[c] <= k + 1 /\ agg'[c].version = k
           \/ from[c] > k + 1 /\ agg'[c].version = from[c] - 1
    <2>1. CASE k >= from[c]
      <3>1. agg'[c] = Apply(agg[c], Decoded(e.event))
        BY <1>6, <2>1 DEF Replay, TypeOK
      <3>2. agg[c] = StateAt(s, k - 1)
        BY <1>3, <1>4, <1>5, <2>1 DEF ReplayInv, HoldsState, TypeOK
      <3>3. agg'[c] = truth[s][k] /\ truth[s][k].version = k
        BY <1>3, <1>5, <3>1, <3>2 DEF RepositoryInv, TruthFollowsLog
      <3>4. HoldsState(c)'
        BY <1>3, <1>4, <1>5, <3>3 DEF HoldsState, StateAt
      <3>5. QED
        BY <1>3, <2>1, <3>3, <3>4 DEF TypeOK
    <2>2. CASE ~(k >= from[c])
      <3>1. agg'[c] = agg[c]
        BY <1>6, <2>2 DEF Replay, TypeOK
      <3>2. HoldsState(c)'
        BY <1>4, <1>5, <3>1 DEF HoldsState, StateAt
      <3>3. from[c] \in Nat /\ agg[c].version = from[c] - 1
        BY <1>3, <1>4, <2>2 DEF ReplayInv, TypeOK
      <3>4. QED
        BY <1>3, <2>2, <3>1, <3>2, <3>3
    <2>3. QED
      BY <2>1, <2>2
  <1>8. saving[c] => OwnEventWithin(c, Len(batch[c]))'
    BY <1>4 DEF ReplayInv, OwnEventWithin
  <1>9. ReplayInv(c)'
    BY <1>3, <1>4, <1>7, <1>8 DEF ReplayInv
  <1>10. CallInv(c)'
    BY <1>4, <1>9 DEF CallInv, ReadInv, DecidedInv, OwnEventWithin
  <1>11. ClientInv(c)'
    BY <1>4, <1>10 DEF ClientInv
  <1>12. QED
    BY <1>2, <1>11, StoreKept, SnapshotsKept, Assemble DEF Replay

LEMMA LoadedKeeps ==
  ASSUME TypeOK, TypeOK', RepositoryInv, NEW c \in Clients, Loaded(c)
  PROVE  RepositoryInv'
  <1>1. \A d \in Clients \ {c} : LocalKept(d)
    BY DEF Loaded, TypeOK, LocalKept
  <1>2. \A d \in Clients \ {c} : ClientInv(d)'
    BY <1>1, StoreKept, ClientKept, InvByClient DEF Loaded
  <1>3. /\ CallInv(c) /\ ReplayInv(c) /\ pc[c] = "replay" /\ cursor[c] > Len(batch[c])
        /\ pc'[c] = (IF saving[c] THEN "save" ELSE "execute")
        /\ saving' = saving /\ stream' = stream /\ command' = command /\ agg' = agg
        /\ out' = out /\ log' = log /\ truth' = truth
    BY DEF Loaded, RepositoryInv, CallInv, TypeOK
  <1>4. Len(batch[c]) \in Nat /\ agg[c].version \in Nat /\ from[c] \in Nat /\ cursor[c] \in Nat
    BY DEF TypeOK, Documents
  <1>5. HoldsState(c)'
    BY <1>3 DEF ReplayInv, HoldsState, StateAt
  <1>6. agg[c].version >= Len(batch[c])
    BY <1>3, <1>4 DEF ReplayInv
  <1>7. saving[c] => OwnEventWithin(c, agg[c].version)' /\ agg[c].version > 0
    <2> SUFFICES ASSUME saving[c] PROVE OwnEventWithin(c, agg[c].version)' /\ agg[c].version > 0
      OBVIOUS
    <2>1. PICK k \in 1 .. Len(batch[c]) : log[stream[c]][k].event = out[c]
      BY <1>3 DEF ReplayInv, OwnEventWithin
    <2>2. k \in 1 .. agg[c].version
      BY <1>4, <1>6, <2>1
    <2>3. QED
      BY <1>3, <1>4, <2>1, <2>2 DEF OwnEventWithin
  <1>8. CallInv(c)'
    BY <1>3, <1>7 DEF CallInv, ReadInv, ReplayInv, DecidedInv, OwnEventWithin
  <1>9. ClientInv(c)'
    BY <1>3, <1>5, <1>7, <1>8 DEF ClientInv
  <1>10. QED
    BY <1>2, <1>9, StoreKept, SnapshotsKept, Assemble DEF Loaded

\* A step that only returns from a call, with log, truth and snapshots untouched.
LEMMA ReturnKeeps ==
  ASSUME TypeOK, TypeOK', RepositoryInv, NEW c \in Clients, NEW r, Return(c, r),
         UNCHANGED <<log, truth, snapshots>>
  PROVE  RepositoryInv'
  <1>1. \A d \in Clients \ {c} : ClientInv(d)'
    BY AfterReturn, StoreKept, ClientKept, InvByClient
  <1>2. QED
    BY <1>1, AfterReturn, StoreKept, SnapshotsKept, Assemble

LEMMA ExecuteKeeps ==
  ASSUME TypeOK, TypeOK', RepositoryInv, NEW c \in Clients, Execute(c)
  PROVE  RepositoryInv'
  <1>1. CASE Return(c, "refused") \/ Return(c, "unchanged")
    BY <1>1, ReturnKeeps DEF Execute
  <1>2. CASE /\ ~Refused(agg[c], command[c])
             /\ ~ChangesNothing(agg[c], command[c])
             /\ out' = [out EXCEPT ![c] = EventOf(agg[c], command[c])]
             /\ pc'  = [pc EXCEPT ![c] = "append"]
             /\ UNCHANGED <<saving, stream, command, agg, from, batch, cursor, result, issued>>
    <2>1. \A d \in Clients \ {c} : LocalKept(d)
      BY <1>2 DEF TypeOK, LocalKept
    <2>2. \A d \in Clients \ {c} : ClientInv(d)'
      BY <2>1, StoreKept, ClientKept, InvByClient DEF Execute
    <2>3. /\ CallInv(c) /\ HoldsState(c) /\ pc[c] = "execute" /\ pc'[c] = "append"
          /\ out'[c] = EventOf(agg[c], command[c])
          /\ saving' = saving /\ stream' = stream /\ command' = command /\ agg' = agg
          /\ log' = log /\ truth' = truth
      BY <1>2 DEF Execute, RepositoryInv, LoadEqualsReplay, TypeOK
    <2>4. HoldsState(c)'
      BY <2>3 DEF HoldsState, StateAt
    <2>5. DecidedInv(c)'
      BY <1>2, <2>3 DEF DecidedInv, Refused, CreateRefused, UpdateRefused, PublishRefused,
                        DeleteRefused, ChangesNothing, Changed, EventOf, CreatedEvent,
                        UpdatedEvent, Signal
    <2>6. CallInv(c)'
      BY <2>3, <2>5 DEF CallInv, ReadInv, ReplayInv
    <2>7. ClientInv(c)'
      BY <2>3, <2>4, <2>6 DEF ClientInv
    <2>8. QED
      BY <2>2, <2>7, StoreKept, SnapshotsKept, Assemble DEF Execute
  <1>3. QED
    BY <1>1, <1>2 DEF Execute

\* An append that is not refused finds the stream where the client left it.
LEMMA AppendIsCurrent ==
  ASSUME TypeOK, RepositoryInv, NEW c \in Clients, pc[c] = "append",
         ~VersionConflict(stream[c], agg[c].version)
  PROVE  /\ stream[c] \in Streams
         /\ command[c] \in Requests[stream[c]]
         /\ agg[c] = Current(stream[c])
         /\ agg[c].version = Len(log[stream[c]])
         /\ CurrentVersion(stream[c]) = Len(log[stream[c]])
         /\ out[c] = EventOf(agg[c], command[c])
         /\ ~Refused(agg[c], command[c])
         /\ ~ChangesNothing(agg[c], command[c])
  <1> DEFINE s == stream[c]
  <1>1. s \in Streams /\ command[c] \in Requests[s] /\ DecidedInv(c) /\ HoldsState(c)
    BY DEF RepositoryInv, CallInv, LoadEqualsReplay
  <1>2. log[s] \in Seq(StoredEvents) /\ Len(log[s]) \in Nat
    BY <1>1 DEF TypeOK, LogTypeOK
  <1>3. CurrentVersion(s) = Len(log[s])
    <2>1. CASE log[s] = << >>
      BY <2>1 DEF CurrentVersion
    <2>2. CASE log[s] # << >>
      <3>1. Len(log[s]) \in 1 .. Len(log[s])
        BY <1>2, <2>2
      <3>2. QED
        BY <1>1, <2>2, <3>1 DEF CurrentVersion, RepositoryInv, VersionsContiguous
    <2>3. QED
      BY <2>1, <2>2
  <1>4. agg[c].version = Len(log[s])
    BY <1>2, <1>3, AnyVersionIsNone DEF VersionConflict, TypeOK, Documents
  <1>5. agg[c] = Current(s)
    BY <1>1, <1>4 DEF HoldsState, Current
  <1>6. QED
    BY <1>1, <1>3, <1>4, <1>5 DEF DecidedInv

\* The decision rules tie a document's existence to its stream: what is decided
\* on an empty stream is a creation, and nothing else ever is.
LEMMA CreationIsFirst ==
  ASSUME TypeOK, RepositoryInv, NEW s \in Streams, NEW cmd \in Commands,
         ~Refused(Current(s), cmd)
  PROVE  /\ cmd.op = "Create" <=> Len(log[s]) = 0
         /\ EventOf(Current(s), cmd).kind = "Created" <=> cmd.op = "Create"
         /\ cmd.op = "Create" => EventOf(Current(s), cmd).id = cmd.id
  <1>1. cmd.op \in Ops
    BY DEF Commands
  <1>2. Len(log[s]) \in Nat
    BY Lengths
  <1>3. Current(s).id = NoId <=> Len(log[s]) = 0
    <2>1. CASE Len(log[s]) = 0
      BY <2>1 DEF Current, StateAt, NewDocument
    <2>2. CASE Len(log[s]) # 0
      <3>1. Len(log[s]) \in 1 .. Len(log[s])
        BY <1>2, <2>2
      <3>2. Current(s).id \in DocumentIds
        BY <2>2, <3>1 DEF Current, StateAt, RepositoryInv, TruthFollowsLog
      <3>3. QED
        BY <2>2, <3>2, DocumentConstants
    <2>3. QED
      BY <2>1, <2>2
  <1>4. cmd.op = "Create" <=> Current(s).id = NoId
    BY <1>1 DEF Refused, CreateRefused, UpdateRefused, PublishRefused, DeleteRefused, Ops
  <1>5. /\ EventOf(Current(s), cmd).kind = "Created" <=> cmd.op = "Create"
        /\ cmd.op = "Create" => EventOf(Current(s), cmd).id = cmd.id
    BY <1>1 DEF EventOf, CreatedEvent, UpdatedEvent, Signal, Ops
  <1>6. QED
    BY <1>3, <1>4, <1>5

\* What an append does to its stream, as far as the proofs need it.
LEMMA PersistEffect ==
  ASSUME TypeOK, TypeOK', RepositoryInv, NEW c \in Clients, Persist(c)
  PROVE  LET s == stream[c]
             n == Len(log[s])
         IN  /\ s \in Streams
             /\ n \in Nat
             /\ Len(log'[s]) = n + 1 /\ Len(truth'[s]) = n + 1
             /\ log'[s][n + 1] = [event |-> out[c], version |-> n + 1]
             /\ truth'[s][n + 1] = Apply(StateAt(s, n), Decoded(out[c]))
             /\ \A k \in 1 .. n : log'[s][k] = log[s][k] /\ truth'[s][k] = truth[s][k]
             /\ \A t \in Streams \ {s} : log'[t] = log[t] /\ truth'[t] = truth[t]
             /\ Extended
  <1> DEFINE s == stream[c]
             n == Len(log[s])
             next == Apply(Current(s), Decoded(out[c]))
  <1>1. pc[c] = "append" /\ ~VersionConflict(s, agg[c].version)
    BY DEF Persist, AppendEvents
  <1>2. s \in Streams /\ out[c] \in Events /\ CurrentVersion(s) = n
    BY <1>1, AppendIsCurrent DEF TypeOK
  <1>3. n \in Nat /\ LogTypeOK /\ AppendEvents(s, <<out[c]>>, agg[c].version)
    BY <1>2, Lengths DEF Persist, TypeOK
  <1>4. /\ Len(log'[s]) = n + 1
        /\ \A k \in 1 .. n : log'[s][k] = log[s][k]
        /\ log'[s][n + 1] = [event |-> out[c], version |-> n + 1]
        /\ \A t \in Streams \ {s} : log'[t] = log[t]
    BY <1>2, <1>3, AppendOne
  <1>5. truth' = [truth EXCEPT ![s] = Append(truth[s], next)]
    BY DEF Persist
  <1>6. truth \in [Streams -> Seq(Documents)] /\ Len(truth[s]) = n
    BY <1>2 DEF TypeOK, RepositoryInv, TruthFollowsLog
  <1> HIDE DEF next
  <1>7. /\ Len(truth'[s]) = n + 1
        /\ truth'[s][n + 1] = next
        /\ \A k \in 1 .. n : truth'[s][k] = truth[s][k]
        /\ \A t \in Streams \ {s} : truth'[t] = truth[t]
    BY <1>2, <1>5, <1>6
  <1>8. Extended
    <2> SUFFICES ASSUME NEW t \in Streams
                 PROVE  /\ Len(log[t]) <= Len(log'[t])
                        /\ \A k \in 1 .. Len(log[t]) :
                             log'[t][k] = log[t][k] /\ truth'[t][k] = truth[t][k]
      BY DEF Extended
    <2>1. CASE t = s
      BY <1>3, <1>4, <1>7, <2>1
    <2>2. CASE t # s
      BY <1>4, <1>7, <2>2, Lengths
    <2>3. QED
      BY <2>1, <2>2
  <1>9. QED
    BY <1>2, <1>3, <1>4, <1>7, <1>8 DEF next, Current

LEMMA PersistKeeps ==
  ASSUME SafeIds, TypeOK, TypeOK', RepositoryInv, NEW c \in Clients, Persist(c)
  PROVE  RepositoryInv'
  <1> DEFINE s == stream[c]
             n == Len(log[s])
  <1>1. /\ s \in Streams /\ command[c] \in Requests[s] /\ agg[c] = StateAt(s, n)
        /\ out[c] = EventOf(agg[c], command[c]) /\ ~Refused(agg[c], command[c])
        /\ command[c] \in Commands
    BY AppendIsCurrent DEF Persist, AppendEvents, Current, TypeOK
  <1>2. /\ n \in Nat
        /\ Len(log'[s]) = n + 1 /\ Len(truth'[s]) = n + 1
        /\ log'[s][n + 1] = [event |-> out[c], version |-> n + 1]
        /\ truth'[s][n + 1] = Apply(StateAt(s, n), Decoded(out[c]))
        /\ \A k \in 1 .. n : log'[s][k] = log[s][k] /\ truth'[s][k] = truth[s][k]
        /\ \A t \in Streams \ {s} : log'[t] = log[t] /\ truth'[t] = truth[t]
        /\ Extended
    BY PersistEffect
  <1>3. VersionsContiguous'
    <2> SUFFICES ASSUME NEW t \in Streams, NEW k \in 1 .. Len(log'[t])
                 PROVE  log'[t][k].version = k
      BY DEF VersionsContiguous
    <2>1. CASE t # s
      BY <1>2, <2>1 DEF RepositoryInv, VersionsContiguous
    <2>2. CASE t = s /\ k \in 1 .. n
      BY <1>2, <2>2 DEF RepositoryInv, VersionsContiguous
    <2>3. CASE t = s /\ k = n + 1
      BY <1>2, <2>3
    <2>4. QED
      BY <1>2, <2>1, <2>2, <2>3
  <1>4. /\ truth'[s][n + 1].version = n + 1
        /\ truth'[s][n + 1].id \in DocumentIds
        /\ WithSnapshots => truth'[s][n + 1].id = s
    <2>1. StateAt(s, n) \in Documents /\ StateAt(s, n).version = n
      BY <1>1, <1>2, StateAtType DEF RepositoryInv, TruthFollowsLog, StateAt, NewDocument
    <2>2. out[c] \in Events
      BY DEF TypeOK
    <2>3. /\ truth'[s][n + 1].version = n + 1
          /\ truth'[s][n + 1].id = IF out[c].kind = "Created" THEN out[c].id ELSE StateAt(s, n).id
      BY <1>2, <2>1, <2>2, ApplyType, DecodedType
    <2>4. /\ out[c].kind = "Created" <=> n = 0
          /\ n = 0 => command[c].op = "Create" /\ out[c].id = command[c].id
      BY <1>1, CreationIsFirst DEF Current
    <2>5. CASE n = 0
      <3>1. command[c].id \in CreateIds[s]
        BY <1>1, <2>4, <2>5 DEF Requests
      <3>2. QED
        BY <1>1, <2>3, <2>4, <2>5, <3>1, RepositoryConstants DEF SafeIds
    <2>6. CASE n # 0
      <3>1. n \in 1 .. n
        BY <1>2, <2>6
      <3>2. StateAt(s, n) = truth[s][n]
        BY <2>6 DEF StateAt
      <3>3. QED
        BY <1>1, <2>3, <2>4, <2>6, <3>1, <3>2 DEF RepositoryInv, TruthFollowsLog
    <2>7. QED
      BY <2>5, <2>6
  <1>5. TruthFollowsLog'
    <2> SUFFICES ASSUME NEW t \in Streams
                 PROVE  /\ Len(truth'[t]) = Len(log'[t])
                        /\ \A k \in 1 .. Len(log'[t]) :
                             /\ truth'[t][k] = Apply(IF k - 1 = 0 THEN NewDocument ELSE truth'[t][k - 1],
                                                     Decoded(log'[t][k].event))
                             /\ truth'[t][k].version = k
                             /\ truth'[t][k].id \in DocumentIds
                             /\ WithSnapshots => truth'[t][k].id = t
      BY DEF TruthFollowsLog, StateAt
    <2>1. CASE t # s
      BY <1>2, <2>1 DEF RepositoryInv, TruthFollowsLog, StateAt
    <2>2. CASE t = s
      <3> DEFINE Fits(k) ==
            /\ truth'[s][k] = Apply(IF k - 1 = 0 THEN NewDocument ELSE truth'[s][k - 1],
                                    Decoded(log'[s][k].event))
            /\ truth'[s][k].version = k
            /\ truth'[s][k].id \in DocumentIds
            /\ WithSnapshots => truth'[s][k].id = s
      <3>1. ASSUME NEW k \in 1 .. n
            PROVE  Fits(k)
        <4>1. /\ truth[s][k] = Apply(IF k - 1 = 0 THEN NewDocument ELSE truth[s][k - 1],
                                     Decoded(log[s][k].event))
              /\ truth[s][k].version = k
              /\ truth[s][k].id \in DocumentIds
              /\ WithSnapshots => truth[s][k].id = s
          BY <1>1 DEF RepositoryInv, TruthFollowsLog, StateAt
        <4>2. truth'[s][k] = truth[s][k] /\ log'[s][k] = log[s][k]
          BY <1>2
        <4>3. CASE k - 1 = 0
          BY <4>1, <4>2, <4>3
        <4>4. CASE k - 1 # 0
          <5>1. k - 1 \in 1 .. n
            BY <1>2, <4>4
          <5>2. truth'[s][k - 1] = truth[s][k - 1]
            BY <1>2, <5>1
          <5>3. QED
            BY <4>1, <4>2, <4>4, <5>2
        <4>5. QED
          BY <4>3, <4>4
      <3>2. Fits(n + 1)
        <4>1. n = 0 \/ n \in 1 .. n
          BY <1>2
        <4>2. (n + 1) - 1 = n
          BY <1>2
        <4>3. truth'[s][n + 1] = Apply(IF n = 0 THEN NewDocument ELSE truth'[s][n],
                                       Decoded(log'[s][n + 1].event))
          BY <1>2, <4>1 DEF StateAt
        <4>4. QED
          BY <1>4, <4>2, <4>3
      <3>3. \A k \in 1 .. n + 1 : k \in 1 .. n \/ k = n + 1
        BY <1>2
      <3> HIDE DEF Fits
      <3>4. \A k \in 1 .. n + 1 : Fits(k)
        BY <3>1, <3>2, <3>3
      <3>5. Len(truth'[t]) = Len(log'[t]) /\ Len(log'[t]) = n + 1
        BY <1>2, <2>2
      <3>6. QED
        BY <2>2, <3>4, <3>5 DEF Fits
    <2>3. QED
      BY <2>1, <2>2
  <1>6. \A d \in Clients \ {c} : ClientInv(d)'
    <2> SUFFICES ASSUME NEW d \in Clients \ {c} PROVE ClientInv(d)'
      OBVIOUS
    <2>1. LocalKept(d)
      <3>1. CASE WithSnapshots
        BY <3>1 DEF Persist, TypeOK, LocalKept
      <3>2. CASE ~WithSnapshots
        BY <3>2, AfterReturn DEF Persist
      <3>3. QED
        BY <3>1, <3>2
    <2>2. QED
      BY <1>2, <2>1, ClientKept, InvByClient
  <1>7. ClientInv(c)'
    <2>1. CASE WithSnapshots
      <3>1. /\ pc'[c] = "load" /\ saving'[c] = TRUE /\ stream' = stream /\ command' = command
            /\ out' = out
        BY <2>1 DEF Persist, TypeOK
      <3>2. OwnEventWithin(c, Len(log[stream[c]]))'
        BY <1>2, <3>1 DEF OwnEventWithin
      <3>3. QED
        BY <1>1, <2>1, <3>1, <3>2
           DEF ClientInv, CallInv, ReadInv, ReplayInv, DecidedInv
    <2>2. CASE ~WithSnapshots
      BY <2>2, AfterReturn DEF Persist
    <2>3. QED
      BY <2>1, <2>2
  <1>8. SnapshotsUsable'
    BY <1>2, SnapshotsKept DEF Persist
  <1>9. QED
    BY <1>3, <1>5, <1>6, <1>7, <1>8, Assemble

LEMMA SaveSnapshotKeeps ==
  ASSUME TypeOK, TypeOK', RepositoryInv, NEW c \in Clients, SaveSnapshot(c)
  PROVE  RepositoryInv'
  <1> DEFINE s == stream[c]
             v == agg[c].version
  <1>1. Return(c, "ok") /\ log' = log /\ truth' = truth /\ pc[c] = "save"
    BY DEF SaveSnapshot
  <1>2. \A d \in Clients \ {c} : ClientInv(d)'
    BY <1>1, AfterReturn, StoreKept, ClientKept, InvByClient
  <1>3. /\ s \in Streams /\ HoldsState(c) /\ WithSnapshots /\ v > 0
    BY <1>1 DEF RepositoryInv, CallInv, LoadEqualsReplay
  <1>4. v \in 1 .. Len(log[s]) /\ agg[c] = truth[s][v]
    BY <1>3, Lengths DEF HoldsState, StateAt, TypeOK, Documents
  <1>5. agg[c].id = s
    BY <1>3, <1>4 DEF RepositoryInv, TruthFollowsLog
  <1>6. snapshots' = [snapshots EXCEPT ![s] = [doc |-> agg[c], version |-> v]]
    BY <1>5 DEF SaveSnapshot
  <1>7. s \in Keys /\ Streams \subseteq Keys
    BY <1>3, DefaultsTyped
  <1>8. \A t \in Streams : snapshots'[t] = IF t = s THEN [doc |-> agg[c], version |-> v]
                                                   ELSE snapshots[t]
    BY <1>6, <1>7 DEF TypeOK
  <1>9. SnapshotsUsable'
    <2>1. ASSUME NEW t \in Streams, snapshots'[t] # NoSnapshot
          PROVE  /\ snapshots'[t].version \in 1 .. Len(log[t])
                 /\ snapshots'[t].doc = IF snapshots'[t].version = 0 THEN NewDocument
                                        ELSE truth[t][snapshots'[t].version]
      BY <1>3, <1>4, <1>8, <2>1
         DEF RepositoryInv, SnapshotsUsable, SnapshotsAreStates, StateAt
    <2>2. SnapshotsAreStates'
      BY <1>1, <2>1 DEF SnapshotsAreStates, StateAt
    <2>3. \A t \in Streams : snapshots'[t].version = 0 => snapshots'[t] = NoSnapshot
      BY <1>3, <1>8 DEF RepositoryInv, SnapshotsUsable
    <2>4. QED
      BY <1>3, <2>2, <2>3 DEF SnapshotsUsable
  <1>10. QED
    BY <1>1, <1>2, <1>9, AfterReturn, StoreKept, Assemble

LEMMA InvInit == TypeOK /\ Init => RepositoryInv
  <1> SUFFICES ASSUME TypeOK, Init PROVE RepositoryInv
    OBVIOUS
  <1>1. \A s \in Streams : log[s] = << >> /\ truth[s] = << >> /\ snapshots[s] = NoSnapshot
    BY DefaultsTyped DEF Init, LogInit
  <1>2. VersionsContiguous /\ TruthFollowsLog /\ SnapshotsUsable
    BY <1>1 DEF VersionsContiguous, TruthFollowsLog, SnapshotsUsable, SnapshotsAreStates
  <1>3. \A c \in Clients : ClientInv(c)
    BY DEF Init, ClientInv, CallInv, ReadInv, ReplayInv, DecidedInv
  <1>4. QED
    BY <1>2, <1>3, InvByClient

LEMMA InvStep ==
  ASSUME SafeIds, TypeOK, TypeOK', RepositoryInv, [Next]_vars
  PROVE  RepositoryInv'
  <1>1. ASSUME NEW c \in Clients, NEW s \in Streams, NEW cmd \in Requests[s], Start(c, s, cmd)
        PROVE  RepositoryInv'
    BY <1>1, StartKeeps
  <1>2. ASSUME NEW c \in Clients, Step(c)
        PROVE  RepositoryInv'
    <2>1. CASE Abandoned(c)
      BY <2>1, ReturnKeeps DEF Abandoned
    <2>2. CASE AppendConflicts(c)
      BY <2>2, ReturnKeeps DEF AppendConflicts
    <2>3. QED
      BY <1>2, <2>1, <2>2, LoadSnapshotKeeps, ReadEventsKeeps, ReplayKeeps, LoadedKeeps,
         ExecuteKeeps, PersistKeeps, SaveSnapshotKeeps DEF Step
  <1>3. CASE UNCHANGED vars
    <2>1. \A d \in Clients : LocalKept(d)
      BY <1>3 DEF vars, local, LocalKept
    <2>2. \A d \in Clients : ClientInv(d)'
      BY <1>3, <2>1, StoreKept, ClientKept, InvByClient DEF vars
    <2>3. VersionsContiguous' /\ TruthFollowsLog' /\ SnapshotsUsable'
      BY <1>3, StoreKept, SnapshotsKept DEF vars
    <2>4. QED
      BY <2>2, <2>3 DEF RepositoryInv, ClientInv, LoadEqualsReplay, ReloadSeesOwnEvent
  <1>4. QED
    BY <1>1, <1>2, <1>3 DEF Next

-----------------------------------------------------------------------------
(* The theorems.                                                           *)

\* Every variable keeps its type, and what every client holds at every step of
\* its call is the state of its stream after the events it has seen.
THEOREM RepositoryCorrect ==
  ASSUME SafeIds
  PROVE  Spec => [](TypeOK /\ RepositoryInv)
  <1>1. Init => TypeOK /\ RepositoryInv
    BY InitTyped, InvInit
  <1>2. TypeOK /\ RepositoryInv /\ [Next]_vars => (TypeOK /\ RepositoryInv)'
    BY StepTyped, InvStep
  <1>3. QED
    BY <1>1, <1>2, PTL DEF Spec

\* Type correctness.
THEOREM TypeCorrect ==
  ASSUME SafeIds
  PROVE  Spec => []TypeOK
  BY RepositoryCorrect, PTL

\* The versions of a stream stay 1, 2, 3, ... under concurrent appends.
THEOREM VersionsStayContiguous ==
  ASSUME SafeIds
  PROVE  Spec => []VersionsContiguous
  <1>1. TypeOK /\ RepositoryInv => VersionsContiguous
    BY DEF RepositoryInv
  <1>2. QED
    BY <1>1, RepositoryCorrect, PTL

\* Rebuilding through a snapshot, in two reads that others' appends and saves
\* fall between, gives what replaying the stream from its start gives.
THEOREM LoadIsReplay ==
  ASSUME SafeIds
  PROVE  Spec => [](LoadEqualsReplay /\ SnapshotsAreStates /\ ReloadSeesOwnEvent)
  <1>1. TypeOK /\ RepositoryInv => LoadEqualsReplay /\ SnapshotsAreStates /\ ReloadSeesOwnEvent
    BY DEF RepositoryInv, SnapshotsUsable
  <1>2. QED
    BY <1>1, RepositoryCorrect, PTL

\* Only an append changes log and truth.
LEMMA OnlyPersistWrites ==
  ASSUME [Next]_vars
  PROVE  UNCHANGED <<log, truth>> \/ \E c \in Clients : Persist(c)
  BY DEF Next, Step, Start, LoadSnapshot, ReadEvents, Abandoned, Replay, Loaded, Execute,
         AppendConflicts, SaveSnapshot, vars

\* What the appended event was decided on.
LEMMA PersistDecided ==
  ASSUME TypeOK, TypeOK', RepositoryInv, NEW c \in Clients, Persist(c)
  PROVE  LET s == stream[c]
             doc == StateAt(s, Len(log[s]))
         IN  /\ out[c] = EventOf(doc, command[c])
             /\ ~Refused(doc, command[c])
             /\ ~ChangesNothing(doc, command[c])
             /\ command[c] \in Requests[s]
             /\ command[c] \in Commands
             /\ doc \in Documents
  <1>1. pc[c] = "append" /\ ~VersionConflict(stream[c], agg[c].version)
    BY DEF Persist, AppendEvents
  <1>2. QED
    BY <1>1, AppendIsCurrent DEF Current, TypeOK

\* A property of the entries of the logs, stated on an event and the states
\* before and after it, holds of every entry if it holds of every appended one.
\* The three theorems below use it through the facts it collects.
LEMMA EntriesKept ==
  ASSUME TypeOK, TypeOK', RepositoryInv, [Next]_vars,
         NEW s \in Streams, NEW k \in 1 .. Len(log'[s])
  PROVE  \/ /\ k \in 1 .. Len(log[s])
            /\ log'[s][k] = log[s][k]
            /\ truth'[s][k] = truth[s][k]
            /\ k > 1 => truth'[s][k - 1] = truth[s][k - 1]
         \/ \E c \in Clients :
              /\ Persist(c)
              /\ s = stream[c]
              /\ k = Len(log[s]) + 1
              /\ log'[s][k].event = out[c]
              /\ truth'[s][k] = Apply(StateAt(s, k - 1), Decoded(out[c]))
              /\ k > 1 => truth'[s][k - 1] = truth[s][k - 1]
  <1>1. Len(log[s]) \in Nat
    BY Lengths
  <1>2. CASE UNCHANGED <<log, truth>>
    BY <1>2
  <1>3. ASSUME NEW c \in Clients, Persist(c), s # stream[c]
        PROVE  log'[s] = log[s] /\ truth'[s] = truth[s]
    BY <1>3, PersistEffect
  <1>4. ASSUME NEW c \in Clients, Persist(c), s = stream[c]
        PROVE  /\ Len(log'[s]) = Len(log[s]) + 1
               /\ log'[s][Len(log[s]) + 1] = [event |-> out[c], version |-> Len(log[s]) + 1]
               /\ truth'[s][Len(log[s]) + 1] = Apply(StateAt(s, Len(log[s])), Decoded(out[c]))
               /\ \A i \in 1 .. Len(log[s]) : log'[s][i] = log[s][i] /\ truth'[s][i] = truth[s][i]
    BY <1>4, PersistEffect
  <1>5. ASSUME NEW c \in Clients, Persist(c), s = stream[c], k = Len(log[s]) + 1
        PROVE  /\ log'[s][k].event = out[c]
               /\ truth'[s][k] = Apply(StateAt(s, k - 1), Decoded(out[c]))
               /\ k > 1 => truth'[s][k - 1] = truth[s][k - 1]
    <2>1. k - 1 = Len(log[s])
      BY <1>1, <1>5
    <2>2. k > 1 => k - 1 \in 1 .. Len(log[s])
      BY <1>1, <1>5
    <2>3. /\ log'[s][k] = [event |-> out[c], version |-> Len(log[s]) + 1]
          /\ truth'[s][k] = Apply(StateAt(s, Len(log[s])), Decoded(out[c]))
          /\ \A i \in 1 .. Len(log[s]) : truth'[s][i] = truth[s][i]
      BY <1>4, <1>5
    <2>4. log'[s][k].event = out[c]
      BY <2>3
    <2>5. truth'[s][k] = Apply(StateAt(s, k - 1), Decoded(out[c]))
      BY <2>1, <2>3
    <2>6. QED
      BY <2>2, <2>3, <2>4, <2>5
  <1>6. ASSUME NEW c \in Clients, Persist(c), s = stream[c], k # Len(log[s]) + 1
        PROVE  /\ k \in 1 .. Len(log[s])
               /\ log'[s][k] = log[s][k]
               /\ truth'[s][k] = truth[s][k]
               /\ k > 1 => truth'[s][k - 1] = truth[s][k - 1]
    <2>1. /\ Len(log'[s]) = Len(log[s]) + 1
          /\ \A i \in 1 .. Len(log[s]) : log'[s][i] = log[s][i] /\ truth'[s][i] = truth[s][i]
      BY <1>4, <1>6
    <2>2. k \in 1 .. Len(log[s]) + 1
      BY <2>1
    <2>3. k \in 1 .. Len(log[s]) /\ (k > 1 => k - 1 \in 1 .. Len(log[s]))
      BY <1>1, <1>6, <2>2
    <2>4. QED
      BY <2>1, <2>3
  <1>7. QED
    BY <1>2, <1>3, <1>5, <1>6, OnlyPersistWrites

\* A document is created by the first event of its stream and by no other.
THEOREM CreationIsUnique ==
  ASSUME SafeIds
  PROVE  Spec => []CreatedOnce
  <1>1. Init => CreatedOnce
    BY DEF Init, LogInit, CreatedOnce
  <1>2. ASSUME TypeOK, TypeOK', RepositoryInv, CreatedOnce, [Next]_vars
        PROVE  CreatedOnce'
    <2> SUFFICES ASSUME NEW s \in Streams, NEW k \in 1 .. Len(log'[s])
                 PROVE  log'[s][k].event.kind = "Created" <=> k = 1
      BY DEF CreatedOnce
    <2>1. CASE k \in 1 .. Len(log[s]) /\ log'[s][k] = log[s][k]
      BY <1>2, <2>1 DEF CreatedOnce
    <2>2. ASSUME NEW c \in Clients, Persist(c), s = stream[c], k = Len(log[s]) + 1,
                 log'[s][k].event = out[c]
          PROVE  log'[s][k].event.kind = "Created" <=> k = 1
      <3>1. /\ out[c] = EventOf(Current(s), command[c])
            /\ ~Refused(Current(s), command[c])
            /\ command[c] \in Commands
        BY <1>2, <2>2, PersistDecided DEF Current
      <3>2. out[c].kind = "Created" <=> Len(log[s]) = 0
        BY <1>2, <3>1, CreationIsFirst
      <3>3. QED
        BY <1>2, <2>2, <3>2, Lengths
    <2>3. QED
      BY <1>2, <2>1, <2>2, EntriesKept
  <1>3. QED
    BY <1>1, <1>2, RepositoryCorrect, PTL DEF Spec

\* The old value an update records is the one its field had when it was stored.
THEOREM AuditTrailIsExact ==
  ASSUME SafeIds
  PROVE  Spec => []AuditTrailChains
  <1>1. Init => AuditTrailChains
    BY DEF Init, LogInit, AuditTrailChains
  <1>2. ASSUME TypeOK, TypeOK', RepositoryInv, AuditTrailChains, [Next]_vars
        PROVE  AuditTrailChains'
    <2> SUFFICES ASSUME NEW s \in Streams, NEW k \in 1 .. Len(log'[s]), NEW f \in Fields,
                        log'[s][k].event.old[f] # Keep
                 PROVE  log'[s][k].event.old[f] =
                          (IF k - 1 = 0 THEN NewDocument ELSE truth'[s][k - 1]).fields[f]
      BY DEF AuditTrailChains, StateAt
    <2>1. CASE /\ k \in 1 .. Len(log[s])
               /\ log'[s][k] = log[s][k]
               /\ k > 1 => truth'[s][k - 1] = truth[s][k - 1]
      <3>1. log[s][k].event.old[f] = StateAt(s, k - 1).fields[f]
        BY <1>2, <2>1 DEF AuditTrailChains
      <3>2. QED
        BY <2>1, <3>1, Lengths, <1>2 DEF StateAt
    <2>2. ASSUME NEW c \in Clients, Persist(c), s = stream[c], k = Len(log[s]) + 1,
                 log'[s][k].event = out[c],
                 k > 1 => truth'[s][k - 1] = truth[s][k - 1]
          PROVE  log'[s][k].event.old[f] =
                   (IF k - 1 = 0 THEN NewDocument ELSE truth'[s][k - 1]).fields[f]
      <3> DEFINE doc == StateAt(s, Len(log[s]))
      <3>1. /\ out[c] = EventOf(doc, command[c])
            /\ command[c] \in Commands
        BY <1>2, <2>2, PersistDecided
      <3>2. out[c].old[f] = doc.fields[f]
        <4>1. command[c].op \in Ops
          BY <3>1 DEF Commands
        <4>2. out[c].old[f] # Keep
          BY <2>2
        <4> HIDE DEF doc
        <4>3. QED
          BY <3>1, <4>1, <4>2
             DEF EventOf, CreatedEvent, UpdatedEvent, Signal, Untouched, Ops
      <3>3. Len(log[s]) \in Nat /\ k - 1 = Len(log[s])
        BY <1>2, <2>2, Lengths
      <3>4. doc = IF k - 1 = 0 THEN NewDocument ELSE truth'[s][k - 1]
        BY <2>2, <3>3 DEF StateAt
      <3>5. QED
        BY <2>2, <3>2, <3>4
    <2>3. QED
      BY <1>2, <2>1, <2>2, EntriesKept
  <1>3. QED
    BY <1>1, <1>2, RepositoryCorrect, PTL DEF Spec

\* An accepted command that is not a Create moves the status along an edge of
\* can_transition_to, or not at all.
LEMMA StatusEdges ==
  ASSUME NEW doc \in Documents, NEW cmd \in Commands,
         ~Refused(doc, cmd), cmd.op # "Create"
  PROVE  LET after == StatusAfter(doc.status, EventOf(doc, cmd).kind)
         IN  after = doc.status \/ CanTransitionTo(doc.status, after)
  <1>1. cmd.op \in {"Update", "Publish", "Delete"}
    BY DEF Commands, Ops
  <1>2. CASE cmd.op = "Update"
    BY <1>2 DEF EventOf, UpdatedEvent, StatusAfter
  <1>3. CASE cmd.op = "Publish"
    BY <1>3 DEF EventOf, Signal, StatusAfter, Refused, PublishRefused
  <1>4. CASE cmd.op = "Delete"
    BY <1>4 DEF EventOf, Signal, StatusAfter, Refused, DeleteRefused
  <1>5. QED
    BY <1>1, <1>2, <1>3, <1>4

\* No interleaving of stale readers moves a document off its lifecycle.
THEOREM LifecycleIsRespected ==
  ASSUME SafeIds
  PROVE  Spec => []LifecycleRespected
  <1>1. Init => LifecycleRespected
    BY DEF Init, LogInit, LifecycleRespected
  <1>2. ASSUME TypeOK, TypeOK', RepositoryInv, LifecycleRespected, [Next]_vars
        PROVE  LifecycleRespected'
    <2> SUFFICES ASSUME NEW s \in Streams, NEW k \in 2 .. Len(log'[s])
                 PROVE  \/ truth'[s][k].status = truth'[s][k - 1].status
                        \/ CanTransitionTo(truth'[s][k - 1].status, truth'[s][k].status)
      BY Lengths, <1>2 DEF LifecycleRespected, StateAt
    <2>1. k \in 1 .. Len(log'[s]) /\ k > 1 /\ k # 0 /\ k - 1 # 0
      OBVIOUS
    <2>2. CASE /\ k \in 1 .. Len(log[s])
               /\ truth'[s][k] = truth[s][k]
               /\ truth'[s][k - 1] = truth[s][k - 1]
      <3>1. k \in 2 .. Len(log[s])
        BY <2>1, <2>2
      <3>2. StateAt(s, k) = truth[s][k] /\ StateAt(s, k - 1) = truth[s][k - 1]
        BY <2>1 DEF StateAt
      <3>3. QED
        BY <1>2, <2>2, <3>1, <3>2 DEF LifecycleRespected
    <2>3. ASSUME NEW c \in Clients, Persist(c), s = stream[c], k = Len(log[s]) + 1,
                 truth'[s][k] = Apply(StateAt(s, k - 1), Decoded(out[c])),
                 truth'[s][k - 1] = truth[s][k - 1]
          PROVE  \/ truth'[s][k].status = truth'[s][k - 1].status
                 \/ CanTransitionTo(truth'[s][k - 1].status, truth'[s][k].status)
      <3> DEFINE doc == StateAt(s, k - 1)
      <3>1. Len(log[s]) = k - 1
        BY <1>2, <2>3, Lengths
      <3>2. /\ out[c] = EventOf(doc, command[c]) /\ ~Refused(doc, command[c])
            /\ command[c] \in Commands /\ doc \in Documents
        BY <1>2, <2>3, <3>1, PersistDecided
      <3>3. command[c].op # "Create"
        BY <1>2, <2>1, <2>3, <3>1, <3>2, CreationIsFirst DEF Current
      <3>4. truth'[s][k].status = StatusAfter(doc.status, out[c].kind)
        <4>1. out[c] \in Events
          BY <1>2 DEF TypeOK
        <4>2. Decoded(out[c]) \in Events /\ Decoded(out[c]).kind = out[c].kind
          BY <4>1, DecodedType
        <4> HIDE DEF doc
        <4>3. Apply(doc, Decoded(out[c])).status = StatusAfter(doc.status, Decoded(out[c]).kind)
          BY <3>2, <4>2, ApplyType
        <4>4. QED
          BY <2>3, <4>2, <4>3 DEF doc
      <3>5. doc = truth'[s][k - 1]
        BY <2>1, <2>3 DEF StateAt
      <3> HIDE DEF doc
      <3>6. QED
        BY <3>2, <3>3, <3>4, <3>5, StatusEdges
    <2>4. QED
      BY <1>2, <2>1, <2>2, <2>3, EntriesKept
  <1>3. QED
    BY <1>1, <1>2, RepositoryCorrect, PTL DEF Spec

\* A call that has not returned has no result yet.
Unanswered == \A c \in Clients : pc[c] # "idle" => result[c] = "none"

LEMMA UnansweredUntilReturn ==
  ASSUME SafeIds
  PROVE  Spec => []Unanswered
  <1>1. Init => Unanswered
    BY DEF Init, Unanswered
  <1>2. ASSUME TypeOK, Unanswered, [Next]_vars
        PROVE  Unanswered'
    <2>1. ASSUME NEW d \in Clients, NEW s \in Streams, NEW cmd \in Requests[s],
                 Start(d, s, cmd)
          PROVE  Unanswered'
      BY <1>2, <2>1 DEF TypeOK, Unanswered, Start
    <2>2. ASSUME NEW d \in Clients, NEW r, Return(d, r)
          PROVE  Unanswered'
      BY <1>2, <2>2 DEF TypeOK, Unanswered, Return
    <2>3. ASSUME NEW d \in Clients, Step(d), result' = result,
                 \A c \in Clients : pc'[c] # "idle" => pc[c] # "idle"
          PROVE  Unanswered'
      BY <1>2, <2>3 DEF Unanswered
    <2>4. ASSUME NEW d \in Clients, Step(d)
          PROVE  \/ \E r : Return(d, r)
                 \/ /\ result' = result
                    /\ \A c \in Clients : pc'[c] # "idle" => pc[c] # "idle"
      BY <1>2, <2>4 DEF TypeOK, Step, LoadSnapshot, ReadEvents, Abandoned, Replay,
                        Loaded, Execute, Persist, AppendConflicts, SaveSnapshot
    <2>5. CASE UNCHANGED vars
      BY <1>2, <2>5 DEF vars, Unanswered
    <2>6. QED
      BY <1>2, <2>1, <2>2, <2>3, <2>4, <2>5 DEF Next
  <1>3. QED
    BY <1>1, <1>2, TypeCorrect, PTL DEF Spec

\* Optimistic locking: a conflict is reported exactly when another event was
\* stored between a call's load and its append.
THEOREM ConflictsAreReal ==
  ASSUME SafeIds
  PROVE  Spec => ConflictIffOvertaken
  <1> DEFINE Sound(c) ==
        pc[c] = "append" /\ pc'[c] # "append" /\ result'[c] # "failed" =>
          (result'[c] = "conflict" <=> Len(log[stream[c]]) > agg[c].version)
  <1>1. ASSUME TypeOK, RepositoryInv, Unanswered, [Next]_vars, NEW c \in Clients
        PROVE  Sound(c)
    <2> SUFFICES ASSUME pc[c] = "append", pc'[c] # "append", result'[c] # "failed"
                 PROVE  result'[c] = "conflict" <=> Len(log[stream[c]]) > agg[c].version
      OBVIOUS
    <2>1. /\ stream[c] \in Streams /\ HoldsState(c)
          /\ agg[c].version \in Nat /\ Len(log[stream[c]]) \in Nat
      BY <1>1, Lengths DEF RepositoryInv, CallInv, LoadEqualsReplay, TypeOK, Documents
    <2>2. VersionConflict(stream[c], agg[c].version) <=> Len(log[stream[c]]) > agg[c].version
      <3>1. CurrentVersion(stream[c]) = Len(log[stream[c]])
        <4>1. log[stream[c]] \in Seq(StoredEvents)
          BY <1>1, <2>1 DEF TypeOK, LogTypeOK
        <4>2. CASE log[stream[c]] = << >>
          BY <4>2 DEF CurrentVersion
        <4>3. CASE log[stream[c]] # << >>
          <5>1. Len(log[stream[c]]) \in 1 .. Len(log[stream[c]])
            BY <4>1, <4>3
          <5>2. QED
            BY <1>1, <2>1, <4>3, <5>1 DEF CurrentVersion, RepositoryInv, VersionsContiguous
        <4>4. QED
          BY <4>2, <4>3
      <3>2. QED
        BY <2>1, <3>1, AnyVersionIsNone DEF VersionConflict, HoldsState
    <2>3. AppendConflicts(c) \/ Persist(c)
      <3>1. ASSUME NEW d \in Clients, NEW s \in Streams, NEW cmd \in Requests[s],
                   Start(d, s, cmd)
            PROVE  FALSE
        BY <1>1, <3>1 DEF TypeOK, Start
      <3>2. ASSUME NEW d \in Clients, Step(d), d # c
            PROVE  pc'[c] = pc[c]
        BY <1>1, <3>2 DEF TypeOK, Step, LoadSnapshot, ReadEvents, Abandoned, Replay,
                          Loaded, Execute, Persist, AppendConflicts, SaveSnapshot, Return
      <3>3. CASE Step(c)
        <4>1. ~Abandoned(c)
          BY <1>1 DEF TypeOK, Abandoned, Return
        <4>2. QED
          BY <3>3, <4>1 DEF Step, LoadSnapshot, ReadEvents, Replay, Loaded, Execute, SaveSnapshot
      <3>4. CASE UNCHANGED vars
        BY <3>4 DEF vars
      <3>5. QED
        BY <1>1, <3>1, <3>2, <3>3, <3>4 DEF Next
    <2>4. CASE AppendConflicts(c)
      BY <1>1, <2>2, <2>4 DEF AppendConflicts, Return, TypeOK
    <2>5. CASE Persist(c)
      <3>1. result'[c] = "ok" \/ result'[c] = "none"
        BY <1>1, <2>5 DEF Persist, Return, TypeOK, Unanswered
      <3>2. QED
        BY <2>2, <2>5, <3>1 DEF Persist, AppendEvents
    <2>6. QED
      BY <2>3, <2>4, <2>5
  <1>2. TypeOK /\ RepositoryInv /\ Unanswered /\ [Next]_vars => [\A c \in Clients : Sound(c)]_vars
    BY <1>1
  <1>3. QED
    BY <1>2, RepositoryCorrect, UnansweredUntilReturn, PTL DEF Spec, ConflictIffOvertaken

\* DocumentStore decides and applies commands as the repository does.
LEMMA SameRules ==
  ASSUME NEW doc, NEW cmd
  PROVE  /\ Store!Refused(doc, cmd) <=> Refused(doc, cmd)
         /\ Store!ChangesNothing(doc, cmd) <=> ChangesNothing(doc, cmd)
         /\ Store!Apply(doc, Store!Decoded(Store!EventOf(doc, cmd)))
              = Apply(doc, Decoded(EventOf(doc, cmd)))
         /\ Store!NewDocument = NewDocument
  <1>1. Store!Refused(doc, cmd) <=> Refused(doc, cmd)
    BY DEF Store!Refused, Store!CreateRefused, Store!UpdateRefused, Store!PublishRefused,
           Store!DeleteRefused, Store!CanTransitionTo,
           Refused, CreateRefused, UpdateRefused, PublishRefused, DeleteRefused, CanTransitionTo
  <1>2. Store!ChangesNothing(doc, cmd) <=> ChangesNothing(doc, cmd)
    BY DEF Store!ChangesNothing, Store!Changed, Store!Fields, ChangesNothing, Changed, Fields
  <1>3. Store!EventOf(doc, cmd) = EventOf(doc, cmd)
    BY DEF Store!EventOf, Store!CreatedEvent, Store!UpdatedEvent, Store!Signal,
           Store!Untouched, Store!Changed, Store!Fields,
           EventOf, CreatedEvent, UpdatedEvent, Signal, Untouched, Changed, Fields
  <1>4. ASSUME NEW e PROVE Store!Decoded(e) = Decoded(e)
    BY DEF Store!Decoded, Store!Fields, Decoded, Fields
  <1>5. ASSUME NEW e PROVE Store!Apply(doc, e) = Apply(doc, e)
    BY DEF Store!Apply, Store!StatusAfter, Store!Fields, Apply, StatusAfter, Fields
  <1>6. Store!NewDocument = NewDocument
    BY DEF Store!NewDocument, Store!Fields, NewDocument, Fields
  <1>7. QED
    BY <1>1, <1>2, <1>3, <1>4, <1>5, <1>6

\* The document of every stream, as the abstract store sees it.
Docs == [s \in Streams |-> Current(s)]

\* An append is one command performed on the abstract store.
LEMMA PersistPerforms ==
  ASSUME TypeOK, TypeOK', RepositoryInv, NEW c \in Clients, Persist(c)
  PROVE  Store!Perform(stream[c], command[c])
  <1> DEFINE s == stream[c]
             n == Len(log[s])
  <1>1. /\ s \in Streams /\ n \in Nat /\ Len(log'[s]) = n + 1
        /\ truth'[s][n + 1] = Apply(StateAt(s, n), Decoded(out[c]))
        /\ \A t \in Streams \ {s} : log'[t] = log[t] /\ truth'[t] = truth[t]
    BY PersistEffect
  <1>2. /\ out[c] = EventOf(Current(s), command[c])
        /\ ~Refused(Current(s), command[c])
        /\ ~ChangesNothing(Current(s), command[c])
    BY PersistDecided DEF Current
  <1>3. Docs[s] = Current(s)
    BY <1>1 DEF Docs
  <1>4. Docs' = [Docs EXCEPT ![s] = Apply(Current(s), Decoded(out[c]))]
    <2> SUFFICES ASSUME NEW t \in Streams
                 PROVE  (IF Len(log'[t]) = 0 THEN NewDocument ELSE truth'[t][Len(log'[t])])
                          = IF t = s THEN Apply(Current(s), Decoded(out[c])) ELSE Current(t)
      BY DEF Docs, Current, StateAt
    <2>1. CASE t = s
      BY <1>1, <2>1 DEF Current
    <2>2. CASE t # s
      BY <1>1, <2>2 DEF Current, StateAt
    <2>3. QED
      BY <2>1, <2>2
  <1>5. Docs' = [Docs EXCEPT ![s] = Apply(Docs[s], Decoded(EventOf(Docs[s], command[c])))]
    BY <1>2, <1>3, <1>4
  <1>6. QED
    BY <1>2, <1>3, <1>5, SameRules DEF Store!Perform, Docs

\* Concurrent clients, stale reads, snapshots and calls that end half way
\* together implement the sequential document store.
THEOREM RepositoryImplementsStore ==
  ASSUME SafeIds
  PROVE  Spec => ImplementsStore
  <1>1. ASSUME Init PROVE Store!Init
    <2>1. \A s \in Streams : Current(s) = NewDocument
      BY <1>1 DEF Init, LogInit, Current, StateAt
    <2>2. QED
      BY <2>1, SameRules DEF Store!Init
  <1>2. ASSUME TypeOK, TypeOK', RepositoryInv, [Next]_vars
        PROVE  Store!Next \/ Docs' = Docs
    <2>1. CASE UNCHANGED <<log, truth>>
      BY <2>1 DEF Docs, Current, StateAt
    <2>2. ASSUME NEW c \in Clients, Persist(c)
          PROVE  Store!Next
      <3>1. stream[c] \in Streams /\ command[c] \in Requests[stream[c]]
        BY <1>2, <2>2, PersistDecided, PersistEffect
      <3>2. QED
        BY <1>2, <2>2, <3>1, PersistPerforms DEF Store!Next
    <2>3. QED
      BY <1>2, <2>1, <2>2, OnlyPersistWrites
  <1>3. TypeOK /\ TypeOK' /\ RepositoryInv /\ [Next]_vars
          => [Store!Next]_[s \in Streams |-> Current(s)]
    BY <1>2 DEF Docs
  <1>4. QED
    BY <1>1, <1>3, RepositoryCorrect, PTL DEF Spec, ImplementsStore, Store!Spec
=============================================================================
