------------------------- MODULE MCAggregateRepository -------------------------
(* Model values and small instances for AggregateRepository.               *)
EXTENDS AggregateRepository

CONSTANTS d1, d2, t1, c1, c2

OneStream   == {d1}
TwoStreams  == {d1, d2}
OneText     == {t1}
TwoClients  == {c1, c2}
OwnId       == [s \in Streams |-> {s}]
AnyId       == [s \in Streams |-> DocumentIds]
NullInputs  == {t1, Null}
=============================================================================
