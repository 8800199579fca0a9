------------------------------ MODULE MCHttpGate -------------------------------
(* Two clients; one user, or one of each of two roles.                       *)
EXTENDS HttpGate, TLC

CONSTANTS gc1, gc2

TwoClients   == {gc1, gc2}
OneUser      == [u \in {"ann"} |-> "admin"]
TwoUsers     == [u \in {"ann", "bob"} |-> IF u = "ann" THEN "admin" ELSE "editor"]
DefaultNodes == GateNodes
=============================================================================
