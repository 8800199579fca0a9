----------------------------- MODULE Extraction -----------------------------
(***************************************************************************)
(* The extraction pipeline of knowledge-extractor (pipeline/mod.rs) over   *)
(* the blocks of a document, in turn or some at a time.  An attempt at a   *)
(* block asks a language model for entities and relations, loads the       *)
(* stored entities of these names, replaces what matches one of them,      *)
(* drops duplicates, and writes entities and relations one by one; a       *)
(* failure anywhere starts the block again.                                *)
(*                                                                         *)
(* An entity is its name; the model's judgement, edit distance and vectors *)
(* are two constant relations between names.  A call of the model, with    *)
(* its own timeout and retries, answers or fails in one step.  The limits  *)
(* on the number of entities and relations are left out.                   *)
(***************************************************************************)
EXTENDS Naturals, Sequences, FiniteSets, SequencesExt

CONSTANTS
  ExtBlocks,       \* the blocks of the document, in order
  ExtAnswers,      \* what the model may answer: [entities, relations]; relations
                   \*   are pairs of names
  ExtMatches,      \* pairs <<candidate, stored>> taken for the same entity
  ExtDuplicates,   \* pairs of names that are duplicates
  ExtRetries,      \* max_retries
  ExtConcurrency,  \* blocks at a time
  ExtMaxFailures,  \* bound: calls that fail
  ExtMaxRuns       \* bound: batches

\* The names that the model may give.
ExtSayable ==
  UNION {ToSet(a.entities) \cup UNION {{r[1], r[2]} : r \in ToSet(a.relations)} : a \in ExtAnswers}

ASSUME ExtConstants ==
  /\ {ExtRetries, ExtConcurrency} \subseteq Nat \ {0}
  /\ {ExtMaxFailures, ExtMaxRuns} \subseteq Nat
  /\ ExtBlocks \in Seq(ToSet(ExtBlocks))
  /\ \A a \in ExtAnswers :
       a.entities \in Seq(ExtSayable) /\ a.relations \in Seq(ExtSayable \X ExtSayable)

VARIABLES
  extMode,       \* the batch: "idle", "sequential" or "concurrent"
  extBegun,      \* blocks begun, which are the first ones
  extBlock,      \* extBlock[b]: where the attempt at b is and what it holds
  extEntities,   \* table semantic_entity: the names and (history) who wrote them
  extRelations,  \* table semantic_relation: [source, target, by], rows of entities
  extFailures,   \* failures so far
  extRuns,       \* batches so far
  extAnswer      \* the answer of the last batch

extVars == <<extMode, extBegun, extBlock, extEntities, extRelations, extFailures, extRuns, extAnswer>>

ExtPositions == DOMAIN ExtBlocks

ExtFresh == [at |-> "idle", attempt |-> 0, answer |-> [entities |-> << >>, relations |-> << >>],
             unique |-> << >>, rows |-> << >>, related |-> 0]

\* Who writes: the attempt at a block in a batch.
ExtBy(b) == [run |-> extRuns, block |-> b, attempt |-> extBlock[b].attempt]

ExtInit ==
  /\ extMode = "idle" /\ extBegun = 0 /\ extAnswer = "none"
  /\ extBlock = [b \in ExtPositions |-> ExtFresh]
  /\ extEntities = << >> /\ extRelations = << >>
  /\ extFailures = 0 /\ extRuns = 0

ExtTables == <<extEntities, extRelations>>
ExtBatch  == <<extMode, extBegun, extRuns, extAnswer>>

-----------------------------------------------------------------------------
(* Batches *)

\* run or process_batch_concurrent, or process_batch.
ExtStart(mode) ==
  /\ extMode = "idle" /\ extRuns < ExtMaxRuns
  /\ extMode' = mode /\ extRuns' = extRuns + 1
  /\ extBegun' = 0 /\ extAnswer' = "none"
  /\ extBlock' = [b \in ExtPositions |-> ExtFresh]
  /\ UNCHANGED <<ExtTables, extFailures>>

ExtInFlight == {b \in ExtPositions : extBlock[b].at \notin {"idle", "ok", "failed"}}
ExtEnded    == {b \in ExtPositions : extBlock[b].at \in {"ok", "failed"}}

\* The next block begins: when the one before it ended well, or when there is a
\* place.
ExtBegin ==
  /\ extBegun < Len(ExtBlocks)
  /\ \/ extMode = "sequential" /\ \A b \in 1 .. extBegun : extBlock[b].at = "ok"
     \/ extMode = "concurrent" /\ Cardinality(ExtInFlight) < ExtConcurrency
  /\ extBegun' = extBegun + 1
  /\ extBlock' = [extBlock EXCEPT ![extBegun + 1] = [ExtFresh EXCEPT !.at = "extract", !.attempt = 1]]
  /\ UNCHANGED <<extMode, extRuns, extAnswer, ExtTables, extFailures>>

\* A sequential batch ends with its first failure, a concurrent one when all
\* blocks have ended.
ExtFinish ==
  /\ \/ extMode # "idle" /\ ExtEnded = ExtPositions
     \/ extMode = "sequential" /\ \E b \in ExtPositions : extBlock[b].at = "failed"
  /\ extAnswer' = IF \E b \in ExtPositions : extBlock[b].at = "failed" THEN "error" ELSE "ok"
  /\ extMode' = "idle"
  /\ UNCHANGED <<extBegun, extBlock, extRuns, ExtTables, extFailures>>

\* The batch is dropped; what was written stays.
ExtDropped ==
  /\ extMode # "idle"
  /\ extMode' = "idle" /\ extAnswer' = "dropped"
  /\ UNCHANGED <<extBegun, extBlock, extRuns, ExtTables, extFailures>>

-----------------------------------------------------------------------------
(* An attempt at a block *)

ExtAt(b, at) == extMode # "idle" /\ extBlock[b].at = at

\* A relation between names that are not among the entities is dropped.
ExtNamed(a) ==
  FlattenSeq([i \in 1 .. Len(a.relations) |->
                LET r == a.relations[i]
                IN  IF {r[1], r[2]} \subseteq ToSet(a.entities) THEN <<r>> ELSE << >>])

\* extract_entities and extract_relations.
ExtExtract(b) ==
  /\ ExtAt(b, "extract")
  /\ \E a \in ExtAnswers :
       extBlock' = [extBlock EXCEPT ![b].at = "load",
                      ![b].answer = [entities |-> a.entities, relations |-> ExtNamed(a)]]
  /\ UNCHANGED <<ExtBatch, ExtTables, extFailures>>

ExtNames == {e.name : e \in ToSet(extEntities)}

\* disambiguate_async: the stored entity of that name, or one that matches.
ExtResolved(name, existing) ==
  IF name \in existing THEN {name}
  ELSE LET matching == {e \in existing : <<name, e>> \in ExtMatches}
       IN  IF matching = {} THEN {name} ELSE matching

\* deduplicate: the first of several duplicates is kept.
ExtDedupNext(unique, n) ==
  IF \E k \in DOMAIN unique : unique[k] = n \/ <<n, unique[k]>> \in ExtDuplicates
  THEN unique ELSE Append(unique, n)

ExtDedup(names) ==
  LET unique[k \in 0 .. Len(names)] ==
        IF k = 0 THEN << >> ELSE ExtDedupNext(unique[k - 1], names[k])
  IN  unique[Len(names)]

\* load_existing_entities, resolve_entities_async and deduplicate.
ExtLoad(b) ==
  /\ ExtAt(b, "load")
  /\ LET asked    == extBlock[b].answer.entities
         existing == ExtNames \cap ToSet(asked)
     IN  \E resolved \in {f \in [DOMAIN asked -> ToSet(asked)] :
                            \A i \in DOMAIN asked : f[i] \in ExtResolved(asked[i], existing)} :
           extBlock' = [extBlock EXCEPT ![b].at = "entities", ![b].unique = ExtDedup(resolved)]
  /\ UNCHANGED <<ExtBatch, ExtTables, extFailures>>

\* persist_entities: each is written anew, also one that was found.
ExtEntity(b) ==
  /\ ExtAt(b, "entities") /\ Len(extBlock[b].rows) < Len(extBlock[b].unique)
  /\ LET name == extBlock[b].unique[Len(extBlock[b].rows) + 1] IN
     extEntities' = Append(extEntities, [name |-> name, by |-> ExtBy(b)])
  /\ extBlock' = [extBlock EXCEPT ![b].rows = Append(@, Len(extEntities) + 1)]
  /\ UNCHANGED <<ExtBatch, extRelations, extFailures>>

\* entity_id_map: the row of a name, 0 for none.
ExtIndex(names, name) == CHOOSE i \in DOMAIN names : names[i] = name
ExtRow(b, name) ==
  IF name \in ToSet(extBlock[b].unique) /\ Len(extBlock[b].rows) = Len(extBlock[b].unique)
  THEN extBlock[b].rows[ExtIndex(extBlock[b].unique, name)]
  ELSE 0

ExtKeepsRow(b, r) == ExtRow(b, r[1]) # 0 /\ ExtRow(b, r[2]) # 0

\* persist_relations: one between names of which one was replaced or dropped is
\* passed over.
ExtRelation(b) ==
  /\ ExtAt(b, "entities") /\ Len(extBlock[b].rows) = Len(extBlock[b].unique)
  /\ extBlock[b].related < Len(extBlock[b].answer.relations)
  /\ LET r == extBlock[b].answer.relations[extBlock[b].related + 1] IN
     IF ExtKeepsRow(b, r)
       THEN extRelations' = Append(extRelations,
              [source |-> ExtRow(b, r[1]), target |-> ExtRow(b, r[2]), by |-> ExtBy(b)])
       ELSE UNCHANGED extRelations
  /\ extBlock' = [extBlock EXCEPT ![b].related = @ + 1]
  /\ UNCHANGED <<ExtBatch, extEntities, extFailures>>

\* All is written.
ExtWritten(b) ==
  /\ ExtAt(b, "entities") /\ Len(extBlock[b].rows) = Len(extBlock[b].unique)
  /\ extBlock[b].related = Len(extBlock[b].answer.relations)
  /\ extBlock' = [extBlock EXCEPT ![b].at = "ok"]
  /\ UNCHANGED <<ExtBatch, ExtTables, extFailures>>

\* Mistake: the next attempt goes on with what the failed one held.
ExtRetryKeeping(b) ==
  [extBlock EXCEPT ![b] = IF extBlock[b].attempt < ExtRetries
                          THEN [extBlock[b] EXCEPT !.at = "extract", !.attempt = @ + 1]
                          ELSE [extBlock[b] EXCEPT !.at = "failed"]]

\* The next attempt starts from nothing, unless this was the last.
ExtRetry(b) ==
  [extBlock EXCEPT ![b] = IF extBlock[b].attempt < ExtRetries
                          THEN [ExtFresh EXCEPT !.at = "extract", !.attempt = extBlock[b].attempt + 1]
                          ELSE [extBlock[b] EXCEPT !.at = "failed"]]

\* A call of the model or of the database fails.
ExtFail(b) ==
  /\ extMode # "idle" /\ b \in ExtInFlight
  /\ extFailures < ExtMaxFailures /\ extFailures' = extFailures + 1
  /\ extBlock' = ExtRetry(b)
  /\ UNCHANGED <<ExtBatch, ExtTables>>

ExtNext ==
  \/ \E mode \in {"sequential", "concurrent"} : ExtStart(mode)
  \/ ExtBegin \/ ExtFinish \/ ExtDropped
  \/ \E b \in ExtPositions : \/ ExtExtract(b) \/ ExtLoad(b) \/ ExtEntity(b)
                             \/ ExtRelation(b) \/ ExtWritten(b) \/ ExtFail(b)

ExtSpec == ExtInit /\ [][ExtNext]_extVars

-----------------------------------------------------------------------------
(* Properties *)

\* The rows that the current attempt at b wrote, and the relations it can place.
ExtOwn(table, b) == {k \in DOMAIN table : table[k].by = ExtBy(b)}
ExtPlaced(b) ==
  {j \in DOMAIN extBlock[b].answer.relations : ExtKeepsRow(b, extBlock[b].answer.relations[j])}
ExtPairOf(k) == <<extEntities[extRelations[k].source].name, extEntities[extRelations[k].target].name>>

\* However blocks overlap, fail and are tried again: a block that ended well has
\* written, in its last attempt, one row for each name it kept and one relation
\* for each it could place, between its own rows of those names; no relation
\* joins rows of different attempts; a block that failed has used up its
\* attempts; and the batch answers ok only if every block did.
ExtractionSound ==
  /\ \A b \in ExtPositions : extBlock[b].at = "ok" =>
       /\ {extEntities[k].name : k \in ExtOwn(extEntities, b)} = ToSet(extBlock[b].unique)
       /\ Cardinality(ExtOwn(extEntities, b)) = Len(extBlock[b].unique)
       /\ Cardinality(ExtOwn(extRelations, b)) = Cardinality(ExtPlaced(b))
       /\ {ExtPairOf(k) : k \in ExtOwn(extRelations, b)} =
            {extBlock[b].answer.relations[j] : j \in ExtPlaced(b)}
  /\ \A k \in DOMAIN extRelations :
       {extEntities[extRelations[k].source].by, extEntities[extRelations[k].target].by} = {extRelations[k].by}
  /\ \A b \in ExtPositions : extBlock[b].at = "failed" => extBlock[b].attempt = ExtRetries
  /\ Cardinality(ExtInFlight) <= ExtConcurrency
  /\ extAnswer = "ok" => \A b \in ExtPositions : extBlock[b].at = "ok"
=============================================================================
