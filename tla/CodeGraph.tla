----------------------------- MODULE CodeGraph ------------------------------
(***************************************************************************)
(* What knowledge-parser makes of a parsed program: communities of its     *)
(* symbols, and references and flows between them. The two share no state. *)
(***************************************************************************)
EXTENDS Integers, FiniteSets, FiniteSetsExt, Functions, Sequences, SequencesExt

(***************************************************************************)
(* Communities of symbols in a parsed program (community_detector.rs of    *)
(* knowledge-parser): the Leiden algorithm without randomness.  Nodes are  *)
(* moved to the neighbouring community with the best gain of modularity,   *)
(* communities are refined, the refined parts become the nodes of a        *)
(* smaller graph, and so on.                                               *)
(*                                                                         *)
(* A graph is a symmetric matrix of weights over 0 .. n-1, which stands    *)
(* for the lists of neighbours; weights are whole numbers, so gains are    *)
(* exact, and an edge has a positive weight.  The names and the cohesion   *)
(* scores of the result are left out.                                      *)
(***************************************************************************)

CONSTANTS
  LdnGraphs,    \* the matrices that may be given
  LdnMaxPasses  \* MAX_ITERATIONS of local_moving

VARIABLES
  ldnGraph,    \* the matrix that was given
  ldnPhase,    \* "idle", "moving", "refining", "aggregating" or "done"
  ldnW,        \* the matrix of this level of the recursion
  ldnPart,     \* the node of this level that each node given belongs to
  ldnCom,      \* community of each node of this level
  ldnRef,      \* refined community of each node of this level
  ldnPass,     \* iterations of the loop of local_moving
  ldnTurn,     \* nodes visited in this pass
  ldnImproved  \* a node has moved in this pass

ldnVars == <<ldnGraph, ldnPhase, ldnW, ldnPart, ldnCom, ldnRef, ldnPass, ldnTurn, ldnImproved>>

LdnSelf(S) == [v \in S |-> v]

\* degree, and twice the total weight
LdnDegree(W, v) == SumFunction(W[v])
LdnTwiceWeight(W) == MapThenSumSet(LAMBDA v : LdnDegree(W, v), DOMAIN W)

\* The weight between v and the others of a set; the degrees of a set.
LdnTo(v, S) == SumFunctionOnSet(ldnW[v], S \ {v})
LdnTotal(S) == MapThenSumSet(LAMBDA u : LdnDegree(ldnW, u), S)

LdnInit ==
  /\ ldnPhase = "idle"
  /\ ldnGraph = << >> /\ ldnW = << >> /\ ldnPart = << >> /\ ldnCom = << >> /\ ldnRef = << >>
  /\ ldnPass = 0 /\ ldnTurn = 0 /\ ldnImproved = FALSE

\* A level begins: every node is a community of its own.
LdnLevel(W, part) ==
  /\ ldnW' = W /\ ldnPart' = part
  /\ ldnCom' = LdnSelf(DOMAIN W) /\ ldnRef' = LdnSelf(DOMAIN W)
  /\ ldnPass' = 1 /\ ldnTurn' = 0 /\ ldnImproved' = FALSE

\* detect: without any weight, or with one node, there is nothing to do.
LdnDetect ==
  /\ ldnPhase = "idle"
  /\ \E g \in LdnGraphs :
       /\ ldnGraph' = g
       /\ LdnLevel(g, LdnSelf(DOMAIN g))
       /\ ldnPhase' = IF LdnTwiceWeight(g) = 0 \/ Cardinality(DOMAIN g) <= 1 THEN "done" ELSE "moving"

-----------------------------------------------------------------------------
(* local_moving and refinement_phase *)

\* Mistake: the node still counts in the community it would leave.
LdnGainCounted(v, own, target) ==
  (LdnTo(v, target) * LdnTwiceWeight(ldnW) - LdnTotal(target) * LdnDegree(ldnW, v))
    - (LdnTo(v, own) * LdnTwiceWeight(ldnW) - LdnTotal(own) * LdnDegree(ldnW, v))

\* modularity_delta, times twice the total weight: of moving v from its own
\* community to another one.
LdnGain(v, own, target) ==
  (LdnTo(v, target) * LdnTwiceWeight(ldnW) - LdnTotal(target) * LdnDegree(ldnW, v))
    - (LdnTo(v, own) * LdnTwiceWeight(ldnW) - LdnTotal(own \ {v}) * LdnDegree(ldnW, v))

\* Communities, in the assignment com, of the neighbours of v within S; v's own
\* is left out.
LdnBeside(v, com, S) == {com[u] : u \in {u \in S : ldnW[v][u] > 0}} \ {com[v]}

\* The best of them, of equally good ones the smallest.  Local moving also takes
\* one without a gain if it is smaller than its own; refinement does not.
LdnBest(v, com, S, even) ==
  LET gain(c)  == LdnGain(v, {u \in S : com[u] = com[v]}, {u \in S : com[u] = c})
      worth    == {c \in LdnBeside(v, com, S) : gain(c) > 0 \/ (even /\ gain(c) = 0 /\ c < com[v])}
      top      == {c \in worth : \A d \in worth : gain(d) <= gain(c)}
  IN  IF worth = {} THEN com[v] ELSE Min(top)

\* One node of a pass; the order of the nodes is rotated by the number of the pass.
LdnVisit ==
  /\ ldnPhase = "moving"
  /\ LET n == Cardinality(DOMAIN ldnW)
         v == (ldnTurn + ldnPass) % n
         c == LdnBest(v, ldnCom, DOMAIN ldnW, TRUE)
         moved == ldnImproved \/ c # ldnCom[v]
     IN  /\ ldnCom' = [ldnCom EXCEPT ![v] = c]
         /\ ldnTurn' = (ldnTurn + 1) % n
         /\ IF ldnTurn + 1 < n
              THEN ldnImproved' = moved /\ UNCHANGED <<ldnPass, ldnPhase>>
              ELSE /\ ldnImproved' = FALSE
                   /\ IF moved /\ ldnPass < LdnMaxPasses
                        THEN ldnPass' = ldnPass + 1 /\ ldnPhase' = ldnPhase
                        ELSE ldnPhase' = "refining" /\ UNCHANGED ldnPass
  /\ UNCHANGED <<ldnGraph, ldnW, ldnPart, ldnRef>>

LdnMates(v) == {u \in DOMAIN ldnW : ldnCom[u] = ldnCom[v]}

\* One node of the refinement.  Communities do not meet there, so that they are
\* gone through one after the other makes no difference.
LdnRefine ==
  /\ ldnPhase = "refining"
  /\ ldnRef' = [ldnRef EXCEPT ![ldnTurn] = LdnBest(ldnTurn, ldnRef, LdnMates(ldnTurn), FALSE)]
  /\ IF ldnTurn + 1 < Cardinality(DOMAIN ldnW)
       THEN ldnTurn' = ldnTurn + 1 /\ UNCHANGED ldnPhase
       ELSE ldnTurn' = 0 /\ ldnPhase' = "aggregating"
  /\ UNCHANGED <<ldnGraph, ldnW, ldnPart, ldnCom, ldnPass, ldnImproved>>

-----------------------------------------------------------------------------
(* Aggregation, in leiden *)

\* Refined communities are numbered in the order of their first nodes.
LdnNumber(v) ==
  LET firsts == {Min({u \in DOMAIN ldnRef : ldnRef[u] = r}) : r \in Range(ldnRef)}
  IN  Cardinality({f \in firsts : f < Min({u \in DOMAIN ldnRef : ldnRef[u] = ldnRef[v]})})

LdnSuper(k) ==
  [a \in 0 .. k - 1 |-> [b \in 0 .. k - 1 |->
     MapThenSumSet(LAMBDA u : SumFunctionOnSet(ldnW[u], {v \in DOMAIN ldnW : LdnNumber(v) = b}),
                   {u \in DOMAIN ldnW : LdnNumber(u) = a})]]

\* The call returns the communities if refinement joined nothing, all in one if
\* it joined everything, and goes on with the smaller graph otherwise.
LdnAggregate ==
  /\ ldnPhase = "aggregating"
  /\ LET k == Cardinality(Range(ldnRef))
     IN  IF k = Cardinality(DOMAIN ldnW)
           THEN ldnPhase' = "done" /\ UNCHANGED <<ldnW, ldnPart, ldnCom, ldnRef, ldnPass, ldnTurn, ldnImproved>>
         ELSE IF k = 1
           THEN /\ ldnPhase' = "done" /\ ldnCom' = [v \in DOMAIN ldnW |-> 0]
                /\ UNCHANGED <<ldnW, ldnPart, ldnRef, ldnPass, ldnTurn, ldnImproved>>
           ELSE /\ ldnPhase' = "moving"
                /\ LdnLevel(LdnSuper(k), [v \in DOMAIN ldnPart |-> LdnNumber(ldnPart[v])])
  /\ UNCHANGED ldnGraph

LdnNext == LdnDetect \/ LdnVisit \/ LdnRefine \/ LdnAggregate

LdnSpec == LdnInit /\ [][LdnNext]_ldnVars

-----------------------------------------------------------------------------
(* Properties *)

LdnCommunityOf(v) == ldnCom[ldnPart[v]]
LdnCommunities == {{v \in DOMAIN ldnGraph : LdnCommunityOf(v) = c} : c \in Range(ldnCom)}

\* Modularity of a partition, times the square of twice the total weight.
LdnModularity(parts) ==
  LET W == ldnGraph
      excess(p) == W[p[1]][p[2]] * LdnTwiceWeight(W) - LdnDegree(W, p[1]) * LdnDegree(W, p[2])
  IN  MapThenSumSet(excess, UNION {S \X S : S \in parts})

LdnConnected(S) ==
  \A A \in SUBSET S : A \notin {{}, S} => \E u \in A, v \in S \ A : ldnGraph[u][v] > 0

\* The communities are never worse, by modularity, than every node alone, on no
\* level and at no moment; a level ends because nothing improves and not for the
\* limit on passes; and every community that is answered holds together, which is
\* what refinement is for.
CommunitiesSound ==
  ldnPhase # "idle" =>
    /\ LdnModularity(LdnCommunities) >= LdnModularity({{v} : v \in DOMAIN ldnGraph})
    /\ ldnPass < LdnMaxPasses
    /\ ldnPhase = "done" => \A S \in LdnCommunities : LdnConnected(S)

-----------------------------------------------------------------------------
(***************************************************************************)
(* Who names whom (knowledge-parser): GraphBuilder gives the tokens of one *)
(* file after the other to a SymbolResolver, which notes definitions in a  *)
(* table and makes references of the usages; the ExecutionFlowTracer       *)
(* follows the calls of a symbol breadth first.                            *)
(*                                                                         *)
(* A token stands for its text, and its type follows from the text.  The   *)
(* context in which the code looks for words is the text of the file: a    *)
(* word ending in "struct" counts as one there, and does not here.  The    *)
(* kinds of references and the links, which every name of a file that has  *)
(* a link makes, are left out.                                             *)
(***************************************************************************)

CONSTANTS
  SymFiles,      \* sequences of tokens a file may have
  SymMaxFiles,   \* bound: files between two resets
  FlowGraphs,    \* sequences of edges <<from, to>>
  FlowDepths     \* values of max_depth

ASSUME SymConstants ==
  /\ \A f \in SymFiles : \A i \in 1 .. Len(f) : f[i] \in STRING
  /\ SymMaxFiles \in Nat /\ FlowDepths \subseteq Nat

VARIABLES
  symTable,  \* symTable[name]: where it is defined, [file, at], in the order of registration
  symRefs,   \* what the last file's resolve returned
  symSeen,   \* history: the files since the last reset
  flowAsked, \* the graph, entry point and depth of the last trace
  flowSteps  \* what it returned

symVars == <<symTable, symRefs, symSeen, flowAsked, flowSteps>>

SymIntroduce   == {"fn", "let", "struct", "impl"}     \* keywords before a definition
SymTypeWords   == {"struct", "impl"}                  \* words that make of a file a type's definition
SymUseWords    == {"return", "new"}                   \* keywords before a usage
SymKeywords    == SymIntroduce \cup SymUseWords
SymPuncts      == {".", "::", "("}
SymIsName(w)   == w \notin SymKeywords \cup SymPuncts

SymNoFlow == [graph |-> << >>, entry |-> 0, depth |-> 0]

SymInit ==
  /\ symTable = << >> /\ symRefs = << >> /\ symSeen = << >>
  /\ flowAsked = SymNoFlow /\ flowSteps = << >>

-----------------------------------------------------------------------------
(* SymbolResolver *)

\* build_context_string: some punctuation is dropped, and a blank follows every
\* token but the last.
SymContext(tokens) == SelectSeq(tokens, LAMBDA w : w # "::")

\* The context has the word and a blank after it.
SymHas(tokens, w) ==
  LET context == SymContext(tokens) IN \E i \in 1 .. Len(context) - 1 : context[i] = w

\* is_definition_point.  Only where no keyword comes before a name it is asked whether
\* the file defines a type.
SymDefines(tokens, i) ==
  /\ i > 1
  /\ IF tokens[i - 1] \in SymKeywords THEN tokens[i - 1] \in SymIntroduce
     ELSE \E w \in SymTypeWords : SymHas(tokens, w)

\* is_usage_point, for a name that is no definition.
SymUses(table, tokens, i) ==
  \/ i > 1 /\ tokens[i - 1] \in {".", "::"} \cup SymUseWords
  \/ i < Len(tokens) /\ tokens[i + 1] = "("
  \/ tokens[i] \in DOMAIN table

\* register_definition
SymRegister(table, w, place) ==
  [n \in DOMAIN table \cup {w} |->
     IF n # w THEN table[n] ELSE Append(IF w \in DOMAIN table THEN table[w] ELSE << >>, place)]

\* Mistake: a usage means the first definition.
SymTargetFirst(table, w) == Head(table[w])

\* match_usage_to_definition: the definition registered last.
SymTarget(table, w) == Last(table[w])

\* One token, from a table and the references so far.
SymToken(tokens, file, acc, i) ==
  LET w == tokens[i]
  IN  IF ~SymIsName(w) THEN acc
      ELSE IF SymDefines(tokens, i)
        THEN [acc EXCEPT !.table = SymRegister(acc.table, w, [file |-> file, at |-> i])]
      ELSE IF SymUses(acc.table, tokens, i) /\ w \in DOMAIN acc.table
        THEN [acc EXCEPT !.refs = Append(@, [at |-> i, to |-> SymTarget(acc.table, w)])]
      ELSE acc

\* resolve: the references are taken away, the table stays.
SymResolve(tokens, file) ==
  FoldLeft(LAMBDA acc, i : SymToken(tokens, file, acc, i),
           [table |-> symTable, refs |-> << >>], [i \in 1 .. Len(tokens) |-> i])

\* build.  A file the pipeline refuses changes nothing.  The code names a token by its
\* document and its number, and the documents have no ids yet: all files share the
\* empty one, and the file's number here tells apart what the code does not.
SymBuild(tokens) ==
  /\ Len(symSeen) < SymMaxFiles
  /\ LET result == SymResolve(tokens, Len(symSeen) + 1)
     IN  symTable' = result.table /\ symRefs' = result.refs
  /\ symSeen' = Append(symSeen, tokens)
  /\ UNCHANGED <<flowAsked, flowSteps>>

\* reset
SymReset ==
  /\ symSeen # << >>
  /\ symTable' = << >> /\ symRefs' = << >> /\ symSeen' = << >>
  /\ UNCHANGED <<flowAsked, flowSteps>>

-----------------------------------------------------------------------------
(* ExecutionFlowTracer *)

\* Mistake: a symbol is marked when it is visited, not when it is queued.
FlowQueueTwice(graph, node, visited) ==
  SelectSeq([i \in 1 .. Len(graph) |-> IF graph[i][1] = node THEN graph[i][2] ELSE 0],
            LAMBDA m : m # 0 /\ m # node)

\* The symbols a symbol calls that no one has reached, in the order of the edges.
FlowFresh(graph, node, visited) ==
  FoldLeft(LAMBDA acc, e : IF e[1] = node /\ e[2] \notin visited \cup ToSet(acc) THEN Append(acc, e[2]) ELSE acc,
           << >>, graph)

\* trace_execution_flow, by the number of steps made: the queue of symbols and their
\* depths, what was ever queued, and the steps.  Confidence is counted in tenths.
FlowTrace(graph, entry, max_depth) ==
  LET Visit[n \in Nat] ==
        IF n = 0 THEN [queue |-> <<<<entry, 0>>>>, visited |-> {entry}, steps |-> << >>]
        ELSE LET before == Visit[n - 1]
             IN  IF before.queue = << >> THEN before
                 ELSE LET node  == Head(before.queue)[1]
                          depth == Head(before.queue)[2]
                          next  == IF depth < max_depth THEN FlowFresh(graph, node, before.visited)
                                                        ELSE << >>
                      IN  [queue   |-> Tail(before.queue) \o [i \in 1 .. Len(next) |-> <<next[i], depth + 1>>],
                           visited |-> before.visited \cup ToSet(next),
                           steps   |-> Append(before.steps,
                             [symbol |-> node, confidence |-> IF depth < 7 THEN 10 - depth ELSE 3])]
  IN  Visit[Len(graph) + 1].steps

FlowAsk(graph, entry, max_depth) ==
  /\ flowAsked' = [graph |-> graph, entry |-> entry, depth |-> max_depth]
  /\ flowSteps' = FlowTrace(graph, entry, max_depth)
  /\ UNCHANGED <<symTable, symRefs, symSeen>>

\* The tracer and the resolver share nothing, and a behaviour uses one of them.
SymNext ==
  \/ flowAsked = SymNoFlow /\ \E tokens \in SymFiles : SymBuild(tokens)
  \/ SymReset
  \/ /\ symSeen = << >> /\ flowAsked = SymNoFlow
     /\ \E graph \in FlowGraphs, max_depth \in FlowDepths :
          \E entry \in UNION {{e[1], e[2]} : e \in ToSet(graph)} : FlowAsk(graph, entry, max_depth)

-----------------------------------------------------------------------------

\* Where a name is defined, over the files since the last reset and before a place in
\* the last one.
SymDefinedBefore(w, at) ==
  {p \in [file : 1 .. Len(symSeen), at : 1 .. Max({1} \cup {Len(f) : f \in ToSet(symSeen)})] :
     /\ p.at <= Len(symSeen[p.file]) /\ symSeen[p.file][p.at] = w
     /\ SymDefines(symSeen[p.file], p.at)
     /\ p.file < Len(symSeen) \/ p.at < at}

\* A reference comes from a name that is not defined there and goes to the nearest
\* definition of that name behind it, and every name defined before has one.  Nothing
\* refers forward, and nothing outlives a reset.
ReferencesGoBack ==
  symSeen # << >> =>
    LET tokens == Last(symSeen)
        Nearest(i, to) ==
          /\ to \in SymDefinedBefore(tokens[i], i)
          /\ \A p \in SymDefinedBefore(tokens[i], i) : p.file < to.file \/ (p.file = to.file /\ p.at <= to.at)
    IN  /\ \A r \in ToSet(symRefs) : ~SymDefines(tokens, r.at) /\ Nearest(r.at, r.to)
        /\ \A r, s \in ToSet(symRefs) : r.at = s.at => r = s
        /\ \A i \in 1 .. Len(tokens) :
             SymIsName(tokens[i]) /\ ~SymDefines(tokens, i) /\ SymDefinedBefore(tokens[i], i) # {}
               => \E r \in ToSet(symRefs) : r.at = i

\* Symbols within n calls of the entry.
FlowWithin(n) ==
  LET Reach[k \in 0 .. n] ==
        IF k = 0 THEN {flowAsked.entry}
        ELSE Reach[k - 1] \cup {e[2] : e \in {x \in ToSet(flowAsked.graph) : x[1] \in Reach[k - 1]}}
  IN  Reach[n]

\* A flow has every symbol within the depth once, nearer ones first, and its confidence
\* falls by a tenth with every call on the shortest way.
FlowsFollowCalls ==
  flowSteps # << >> =>
    LET Distance(s) == CHOOSE n \in 0 .. flowAsked.depth :
                         s \in FlowWithin(n) /\ (n = 0 \/ s \notin FlowWithin(n - 1))
    IN  /\ {step.symbol : step \in ToSet(flowSteps)} = FlowWithin(flowAsked.depth)
        /\ \A i, j \in 1 .. Len(flowSteps) :
             /\ flowSteps[i].symbol = flowSteps[j].symbol => i = j
             /\ i < j => Distance(flowSteps[i].symbol) <= Distance(flowSteps[j].symbol)
        /\ \A step \in ToSet(flowSteps) : step.confidence = 10 - Distance(step.symbol)

SymbolsSound == ReferencesGoBack /\ FlowsFollowCalls
=============================================================================
