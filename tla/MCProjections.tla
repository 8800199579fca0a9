----------------------------- MODULE MCProjections -----------------------------
(* Two documents, one type of nodes and edges.                               *)
EXTENDS Projections

CONSTANTS d1, d2, t1, n1

TwoStreams == {d1, d2}
OneStream  == {d1}
OneText    == {t1}
OneType    == {n1}

\* Create, update of the metadata, and delete.
Some(op, id, title, metadata) ==
  [op |-> op, id |-> id, set |-> [f \in Fields |-> IF f = "title" THEN title ELSE metadata]]
SomeRequests ==
  [s \in Streams |-> { Some("Create", s, t1, Blank), Some("Update", NoId, Keep, t1),
                       Some("Delete", NoId, Keep, Keep) }]
=============================================================================
