----------------------------- MODULE DocumentStore -----------------------------
(***************************************************************************)
(* What the event-sourced write side promises its callers: every stream is *)
(* one document, and commands take effect one at a time, each decided on   *)
(* the state the previous one left.  There are no events, versions held by *)
(* readers, snapshots or clients here; AggregateRepository implements it.  *)
(***************************************************************************)
EXTENDS Document

CONSTANTS
  Streams,     \* aggregate identifiers
  Requests     \* Requests[s]: the commands callers send to stream s

VARIABLE docs          \* docs[s]: the state of the document of stream s

TypeOK == docs \in [Streams -> Documents]

Init == docs = [s \in Streams |-> NewDocument]

\* A command that is neither refused nor without effect changes one document.
Perform(s, cmd) ==
  /\ ~Refused(docs[s], cmd)
  /\ ~ChangesNothing(docs[s], cmd)
  /\ docs' = [docs EXCEPT ![s] = Apply(@, Decoded(EventOf(@, cmd)))]

Next == \E s \in Streams : \E cmd \in Requests[s] : Perform(s, cmd)

Spec == Init /\ [][Next]_docs
=============================================================================
