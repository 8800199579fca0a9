------------------------------- MODULE MCRecords ------------------------------
(* What must outlive a crash or reach every client: the audit log with two   *)
(* tasks, the WebSocket hub with two connections to two rooms, the KMS with  *)
(* two tasks on one key, the rotation scheduler with two tasks and a caller  *)
(* on two keys, envelope encryption with two tasks, and the files of a model *)
(* with two downloads.  They share no state (the KMS of the scheduler and of *)
(* the envelopes is what the trait promises), so a behaviour runs one, which *)
(* "keeping" names.                                                          *)
EXTENDS AuditLog, WsHub, LocalKms, DataKeys, ModelFiles, TLC

CONSTANTS l1, l2, c1, c2, d1, d2, k1, t1, t2, r1, r2, s1, s2, rc, v1, v2, m1, m2

VARIABLE keeping  \* the component that runs

TwoLoggers      == {l1, l2}
AnyDetails      == {"one", "many"}
TwoConns        == {c1, c2}
TwoDocs         == {d1, d2}
OneKey          == {k1}
TwoTasks        == {t1, t2}
TwoRotKeys      == {r1, r2}
TwoSchedulers   == {s1, s2}
OneRotCaller    == {rc}
TwoEncryptors   == {v1, v2}
TwoDownloads    == {m1, m2}

\* A component has at most two pairs of alike values.  Only one component leaves
\* its initial state, so the first pairs of all can be exchanged together.
Exchanged(pairs) == [x \in UNION pairs |-> CHOOSE y \in UNION pairs : {x, y} \in pairs]
RecordsSymmetry  == Permutations(OneKey)
                      \cup {Exchanged({TwoLoggers, TwoConns, TwoTasks, TwoRotKeys, TwoEncryptors, TwoDownloads})}
                      \cup {Exchanged({TwoDocs, TwoSchedulers})}

RecordsNext ==
  /\ UNCHANGED keeping
  /\ \/ keeping = "audit" /\ Next /\ UNCHANGED <<hubVars, kmsVars, rotVars, envVars, mdlVars>>
     \/ keeping = "hub" /\ HubNext /\ UNCHANGED <<vars, kmsVars, rotVars, envVars, mdlVars>>
     \/ keeping = "kms" /\ KmsNext /\ UNCHANGED <<vars, hubVars, rotVars, envVars, mdlVars>>
     \/ keeping = "rotation" /\ RotStep /\ UNCHANGED <<vars, hubVars, kmsVars, envVars, mdlVars>>
     \/ keeping = "envelopes" /\ EnvNext /\ UNCHANGED <<vars, hubVars, kmsVars, rotVars, mdlVars>>
     \/ keeping = "models" /\ MdlNext /\ UNCHANGED <<vars, hubVars, kmsVars, rotVars, envVars>>

RecordsInit ==
  /\ keeping \in {"audit", "hub", "kms", "rotation", "envelopes", "models"}
  /\ Init /\ HubInit /\ KmsInit /\ RotInit /\ EnvInit /\ MdlInit

RecordsSpec == RecordsInit /\ [][RecordsNext]_<<keeping, vars, hubVars, kmsVars, rotVars, envVars, mdlVars>>
=============================================================================
