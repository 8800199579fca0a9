------------------------------ MODULE StageDag ------------------------------
(***************************************************************************)
(* The DAG engine of knowledge-parser (dag.rs): stages are registered with *)
(* the names of the stages they depend on, a run sorts the names (Kahn's   *)
(* algorithm) and executes them one after the other.                       *)
(*                                                                         *)
(* Names are numbers, so that they have an order; the documents that pass  *)
(* through are left out.                                                   *)
(***************************************************************************)
EXTENDS Naturals, Sequences, FiniteSets, SequencesExt, FiniteSetsExt

CONSTANTS
  DagNames,    \* names of stages
  DagMaxDeps,  \* bound: dependencies a stage is registered with
  DagNotRegistered

ASSUME DagConstants == DagNames \subseteq Nat /\ IsFiniteSet(DagNames) /\ DagMaxDeps \in Nat

VARIABLES
  dagDeps,   \* adjacency and stages: dagDeps[n] the dependencies of n, in order
  dagRun,    \* "idle", "running", or how the last run ended
  dagOrder,  \* the order, of which the first have been looked at
  dagRan     \* history: the stages the run executed

dagVars == <<dagDeps, dagRun, dagOrder, dagRan>>

DagStages == {n \in DagNames : dagDeps[n] # DagNotRegistered}

DagInit ==
  /\ dagDeps = [n \in DagNames |-> DagNotRegistered]
  /\ dagRun = "idle" /\ dagOrder = << >> /\ dagRan = << >>

\* register_stage: a stage of the same name is replaced.
DagRegister ==
  /\ dagRun # "running"
  /\ \E n \in DagNames, deps \in BoundedSeq(DagNames, DagMaxDeps) : dagDeps' = [dagDeps EXCEPT ![n] = deps]
  /\ dagRun' = "idle" /\ dagOrder' = << >> /\ dagRan' = << >>

-----------------------------------------------------------------------------
(* topological_sort *)

DagDepsOf(n) == ToSet(dagDeps[n])

\* in_degree: a name counts for as often as it is listed, and every name that is
\* listed is a node.
DagNodes == DagStages \cup UNION {DagDepsOf(n) : n \in DagStages}
DagDegree == [n \in DagNodes |-> IF n \in DagStages THEN Len(dagDeps[n]) ELSE 0]

\* Mistake: a stage is queued as soon as one of its dependencies is done.
DagPopEager(s) ==
  LET node == Max(s.queue)
      succ == {n \in DagStages : node \in DagDepsOf(n)}
      deg  == [n \in DagNodes |-> IF n \in succ THEN s.degree[n] - 1 ELSE s.degree[n]]
  IN  [degree |-> deg,
       queue  |-> (s.queue \ {node}) \cup (succ \ ToSet(s.result)),
       result |-> Append(s.result, node)]

\* The last node of the sorted queue is taken, and counted off once for each
\* stage that lists it.
DagPop(s) ==
  LET node == Max(s.queue)
      succ == {n \in DagStages : node \in DagDepsOf(n)}
      deg  == [n \in DagNodes |-> IF n \in succ THEN s.degree[n] - 1 ELSE s.degree[n]]
  IN  [degree |-> deg,
       queue  |-> (s.queue \ {node}) \cup {n \in succ : deg[n] = 0},
       result |-> Append(s.result, node)]

\* The result of the loop: it takes at most one turn for each node.
DagSorted ==
  LET start == [degree |-> DagDegree,
                queue  |-> {n \in DagNodes : DagDegree[n] = 0},
                result |-> << >>]
      after[k \in 0 .. Cardinality(DagNodes)] ==
        IF k = 0 THEN start
        ELSE IF after[k - 1].queue = {} THEN after[k - 1] ELSE DagPop(after[k - 1])
  IN  after[Cardinality(DagNodes)].result

-----------------------------------------------------------------------------
(* run *)

\* The lengths are compared, not the names.
DagStart ==
  /\ dagRun = "idle"
  /\ dagRan' = << >>
  /\ IF Len(DagSorted) = Cardinality(DagStages)
       THEN dagRun' = "running" /\ dagOrder' = DagSorted
       ELSE /\ dagRun' = IF DagNodes \subseteq DagStages THEN "cycle" ELSE "missing"
            /\ dagOrder' = << >>
  /\ UNCHANGED dagDeps

\* The next name; one that is not registered is passed over.
DagStep ==
  /\ dagRun = "running" /\ dagOrder # << >>
  /\ dagOrder' = Tail(dagOrder)
  /\ dagRan' = IF Head(dagOrder) \in DagStages THEN Append(dagRan, Head(dagOrder)) ELSE dagRan
  /\ UNCHANGED <<dagDeps, dagRun>>

\* A stage fails, or the run is dropped.
DagFail ==
  /\ dagRun = "running" /\ dagOrder # << >>
  /\ dagRun' = "failed" /\ dagOrder' = << >>
  /\ UNCHANGED <<dagDeps, dagRan>>

DagDone ==
  /\ dagRun = "running" /\ dagOrder = << >>
  /\ dagRun' = "done"
  /\ UNCHANGED <<dagDeps, dagOrder, dagRan>>

DagNext ==
  \/ DagRegister \/ DagStart \/ DagStep \/ DagFail \/ DagDone

DagSpec == DagInit /\ [][DagNext]_dagVars

-----------------------------------------------------------------------------
(* Properties *)

\* Every dependency is registered, and none is listed twice.
DagWellFormed == DagNodes \subseteq DagStages /\ \A n \in DagStages : IsInjective(dagDeps[n])

\* There is a circle: stages each of which waits for another one of them.
DagCircular == \E S \in SUBSET DagStages : S # {} /\ \A n \in S : DagDepsOf(n) \cap S # {}

\* A run executes a stage once and after the stages it depends on, whatever was
\* registered.  If what was registered is well formed, a run that ends well has
\* executed every stage, and one is refused exactly when there is a circle.
DagRunsSound ==
  /\ IsInjective(dagRan)
  /\ \A i \in DOMAIN dagRan :
       /\ dagRan[i] \in DagStages
       /\ DagDepsOf(dagRan[i]) \cap DagStages \subseteq ToSet(SubSeq(dagRan, 1, i - 1))
  /\ DagWellFormed =>
       /\ dagRun \in {"running", "done", "failed"} => ~DagCircular
       /\ dagRun = "done" => ToSet(dagRan) = DagStages
       /\ dagRun # "missing" /\ (dagRun = "cycle" => DagCircular)

-----------------------------------------------------------------------------
(* What the documentation of run promises and the code does not keep. *)

\* A run over stages that depend on each other, or on one that is not there, is
\* an error.
DagDefectsAreErrors ==
  dagRun = "done" => ~DagCircular /\ DagNodes \subseteq DagStages
=============================================================================
