-------------------------------- MODULE MCReads -------------------------------
(* State kept beside its source or read to decide: the projections of two    *)
(* documents, the two cache levels of two keys, the cached sessions, tools   *)
(* and prompts of the MCP server; who may do what: the layers of an HTTP     *)
(* request with two clients, the policy engine with a caller and three lists *)
(* of policies, the role manager with two callers and two roles; the memory  *)
(* of an agent with two callers; and what is made of texts: the stages of a  *)
(* parser, chunks, symbols and their communities, the entities of two blocks,*)
(* the redaction of personal data, and the retrieval of documents.  They     *)
(* share no state, so a behaviour runs one of them, which "reading" names.   *)
EXTENDS MCProjections, TwoLevelCache, McpRegistries, MCHttpGate,
        PolicyEngine, RoleManager, AgentMemory, StageDag, SemanticChunks, CodeGraph,
        Extraction, PiiRedact, Retrieval

CONSTANTS x1, x2, cc1, cc2, sc1, sc2, pc1, rc1, rc2, u1, lc1, lc2, en1, en2, en3

VARIABLE reading  \* the component that runs

TwoCacheKeys     == {x1, x2}
TwoCacheCallers  == {cc1, cc2}
TwoSessCallers   == {sc1, sc2}
SmallAndLarge    == {1, 3}

OneEvaluator == {pc1}
TwoRbCallers == {rc1, rc2}
OneRbUser    == {u1}
TwoLtCallers == {lc1, lc2}

\* A component has at most two pairs of alike values.  Only one component leaves
\* its initial state, so the first pairs of all can be exchanged together.
Exchanged(pairs) == [x \in UNION pairs |-> CHOOSE y \in UNION pairs : {x, y} \in pairs]
ReadsSymmetry    == Permutations(OneRbUser)
                      \cup {Exchanged({TwoCacheCallers, TwoSessCallers, TwoClients, TwoRbCallers, TwoLtCallers})}
                      \cup {Exchanged({TwoCacheKeys})}

-----------------------------------------------------------------------------
(* Policies of an editor who reads documents *)

Editor   == [id |-> "u", type |-> "User", roles |-> {"editor"},
             attrs |-> [x \in {"level"} |-> <<"Integer", 2>>], fields |-> << >>]
Reading  == [id |-> <<"document", "read">>, type |-> "Document", fields |-> << >>]
InScope(d, scope) ==
  [id |-> d, type |-> "Document", attrs |-> << >>, fields |-> [x \in {"scope_id"} |-> <<"String", scope>>]]
ReadOf(resource, extra) ==
  [principal |-> Editor, action |-> Reading, resource |-> resource, extra |-> extra]
TwoReads ==
  {ReadOf(InScope("d1", <<"s">>), << >>),
   ReadOf(InScope("d2", <<"t">>), [x \in {"limit"} |-> <<"Integer", 3>>])}

\* The conditions of the default policies, and those of the lists below.
TestNodes == GateNodes @@ [n \in {"inS", "low", "both", "notLow"} |->
  CASE n = "inS"    -> [kind |-> "Attribute", attribute |-> "scope_id", op |-> "Equals",
                        value |-> [source |-> "Literal", literal |-> <<"String", <<"s">>>>]]
    [] n = "low"    -> [kind |-> "Attribute", attribute |-> "level", op |-> "LessThan",
                        value |-> [source |-> "Context", name |-> "limit"]]
    [] n = "both"   -> [kind |-> "And", children |-> <<"inS", "low">>]
    [] n = "notLow" -> [kind |-> "Not", children |-> <<"low">>]]

ForEditors(i, effect, conditions) ==
  [id |-> i, effect |-> effect, principal |-> [kind |-> "Role", role |-> "editor"],
   action |-> [kind |-> "Prefix", id |-> <<"document">>], resource |-> [kind |-> "Any"],
   conditions |-> conditions]
ThreeLists ==
  << <<ForEditors(1, "Allow", "none"), ForEditors(2, "Deny", "both")>>,
     <<ForEditors(2, "Deny", "both"), ForEditors(3, "Allow", "inS")>>,
     <<ForEditors(2, "Deny", "notLow"), ForEditors(4, "Allow", "none")>> >>

-----------------------------------------------------------------------------
(* Roles: an editor is a viewer who may update *)

Permission(i, action) == [id |-> i, type |-> "Document", actions |-> {action}]
TwoRoles ==
  [r \in {"viewer", "editor"} |->
     IF r = "viewer" THEN [name |-> r, grants |-> {Permission(1, "read")}, parents |-> {}]
                     ELSE [name |-> r, grants |-> {Permission(2, "update")}, parents |-> {"viewer"}]]
OnlyViewer   == {"viewer"}
SoonAndNever == {1, 9}

-----------------------------------------------------------------------------
(* Memories: one stored in two versions, one later, and a reflection *)

Memory(i, type, importance, born) == [id |-> i, type |-> type, importance |-> importance, born |-> born]
ThreeMemories == {Memory(1, "Fact", 2, 0), Memory(1, "Fact", 5, 0), Memory(2, "Thought", 7, 1)}
OneReflection == <<Memory(3, "Reflection", 9, 0)>>
Criterion(age, importance, types) == [age |-> age, importance |-> importance, types |-> types]
EachCriterion == {Criterion({0}, {}, {}), Criterion({}, {4}, {}), Criterion({}, {}, {{"Fact"}})}

-----------------------------------------------------------------------------
(* Who may do what, and what an agent remembers *)

accessVars == <<gateVars, polVars, rbVars, ltVars>>

AccessInit == GateInit /\ PolInit /\ RbInit /\ LtInit

AccessNext ==
  \/ reading = "http" /\ GateNext /\ UNCHANGED <<polVars, rbVars, ltVars>>
  \/ reading = "policies" /\ PolNext /\ UNCHANGED <<gateVars, rbVars, ltVars>>
  \/ reading = "roles" /\ RbNext /\ UNCHANGED <<gateVars, polVars, ltVars>>
  \/ reading = "memory" /\ LtNext /\ UNCHANGED <<gateVars, polVars, rbVars>>

-----------------------------------------------------------------------------
(* Texts of up to five letters; three separators; graphs of symbols *)

ShortTexts      == BoundedSeq({"a", ".", " ", "q"}, 5)
ThreeSeparators == <<<<" ", " ">>, <<".", " ">>, <<" ">>>>

\* Matrices over three nodes with loops, and graphs of five nodes and five or six
\* edges.
ThreeNodes ==
  {[i \in 0 .. 2 |-> [j \in 0 .. 2 |-> IF i = j THEN 2 * w[{i}] ELSE w[{i, j}]]] :
     w \in [{{i, j} : i, j \in 0 .. 2} -> 0 .. 1]}
FiveNodes ==
  {[i \in 0 .. 4 |-> [j \in 0 .. 4 |-> IF {i, j} \in edges THEN 1 ELSE 0]] :
     edges \in kSubset(5, kSubset(2, 0 .. 4)) \cup kSubset(6, kSubset(2, 0 .. 4))}
SmallGraphs == ThreeNodes \cup FiveNodes

\* Files of up to three tokens, and up to four calls between four symbols.
ShortFiles == BoundedSeq({"a", "b", "fn", "struct", "."}, 3)
CallGraphs == BoundedSeq({<<1, 2>>, <<1, 3>>, <<2, 3>>, <<3, 4>>, <<4, 1>>, <<2, 4>>}, 4)

-----------------------------------------------------------------------------
(* Extraction *)

\* The second block names en2 as well, and en3, which is a duplicate of it; en1
\* matches en2.
TwoBlocks   == <<"first", "second">>
TwoAnswers  == {[entities |-> <<en1, en2>>, relations |-> <<<<en1, en2>>>>],
                [entities |-> <<en2, en3>>, relations |-> <<<<en2, en3>>>>]}
SameEntity  == {<<en1, en2>>, <<en2, en1>>}
NearlyAlike == {<<en2, en3>>, <<en3, en2>>}

-----------------------------------------------------------------------------
(* Personal data: two patterns of one category, one of them only for the      *)
(* lenient mode.  A pattern's matches do not overlap each other.              *)

ThreePatterns ==
  <<[category |-> "id",    level |-> 90, strategy |-> "fixed"],
    [category |-> "phone", level |-> 98, strategy |-> "same"],
    [category |-> "phone", level |-> 82, strategy |-> "fixed"]>>
Stretches == {s \in (0 .. 4) \X (0 .. 4) : s[1] < s[2]}
Apart     == {S \in SUBSET Stretches : \A s, t \in S : s = t \/ s[2] <= t[1] \/ t[2] <= s[1]}
UpTo(n)   == {S \in Apart : Cardinality(S) <= n}
SomeHits  == UpTo(2) \X UpTo(1) \X UpTo(1)

-----------------------------------------------------------------------------
(* Retrieval of three documents *)

ThreeDocs    == {1, 2, 3}
ThreeLengths == <<2, 3, 4>>
SomeWeights  == {<<1, 1>>, <<7, 3>>, <<3, 7>>, <<1, 0>>, <<0, 0>>}

-----------------------------------------------------------------------------
(* What is made of texts *)

textVars == <<dagVars, chkVars, ldnVars, symVars, extVars, piiVars, retVars>>

TextsInit == DagInit /\ ChkInit /\ LdnInit /\ SymInit /\ ExtInit /\ PiiInit /\ RetInit

TextsNext ==
  \/ reading = "stages" /\ DagNext
     /\ UNCHANGED <<chkVars, ldnVars, symVars, extVars, piiVars, retVars>>
  \/ reading = "chunks" /\ ChkNext
     /\ UNCHANGED <<dagVars, ldnVars, symVars, extVars, piiVars, retVars>>
  \/ reading = "communities" /\ LdnNext
     /\ UNCHANGED <<dagVars, chkVars, symVars, extVars, piiVars, retVars>>
  \/ reading = "symbols" /\ SymNext
     /\ UNCHANGED <<dagVars, chkVars, ldnVars, extVars, piiVars, retVars>>
  \/ reading = "extraction" /\ ExtNext
     /\ UNCHANGED <<dagVars, chkVars, ldnVars, symVars, piiVars, retVars>>
  \/ reading = "redaction" /\ PiiNext
     /\ UNCHANGED <<dagVars, chkVars, ldnVars, symVars, extVars, retVars>>
  \/ reading = "retrieval" /\ RetNext
     /\ UNCHANGED <<dagVars, chkVars, ldnVars, symVars, extVars, piiVars>>

\* The parser: its stages run in order, chunks and communities are what they should
\* be, and references and flows follow the files.
ParserSound == DagRunsSound /\ ChunkingSound /\ CommunitiesSound /\ SymbolsSound

-----------------------------------------------------------------------------
(* The MCP server *)

mcpVars == <<sessVars, toolVars, prmVars>>

McpInit == SessInit /\ ToolInit /\ PrmInit

McpNext ==
  \/ reading = "sessions" /\ SessNext /\ UNCHANGED <<toolVars, prmVars>>
  \/ reading = "tools" /\ ToolNext /\ UNCHANGED <<sessVars, prmVars>>
  \/ reading = "prompts" /\ PrmNext /\ UNCHANGED <<sessVars, toolVars>>

-----------------------------------------------------------------------------
(* One of them all *)

ReadsNext ==
  /\ UNCHANGED reading
  /\ \/ reading = "projections" /\ Next /\ UNCHANGED <<cacheVars, mcpVars, accessVars, textVars>>
     \/ reading = "cache" /\ CacheNext /\ UNCHANGED <<vars, mcpVars, accessVars, textVars>>
     \/ McpNext /\ UNCHANGED <<vars, cacheVars, accessVars, textVars>>
     \/ AccessNext /\ UNCHANGED <<vars, cacheVars, mcpVars, textVars>>
     \/ TextsNext /\ UNCHANGED <<vars, cacheVars, mcpVars, accessVars>>

ReadsInit ==
  /\ reading \in {"projections", "cache", "sessions", "tools", "prompts", "http", "policies", "roles", "memory",
                  "stages", "chunks", "communities", "symbols", "extraction", "redaction", "retrieval"}
  /\ Init /\ CacheInit /\ McpInit /\ AccessInit /\ TextsInit

ReadsSpec == ReadsInit /\ [][ReadsNext]_<<reading, vars, cacheVars, mcpVars, accessVars, textVars>>
=============================================================================
