------------------------------- MODULE Retrieval -------------------------------
(***************************************************************************)
(* From a question to the documents an answer is made from: the fusion of  *)
(* keyword and vector search (search/hybrid.rs), the reranking pipeline    *)
(* with a cross encoder and a judging model (reranker/*.rs), both of       *)
(* knowledge-core, and the context of the RAG engine (rag/engine.rs of     *)
(* knowledge-api).                                                         *)
(*                                                                         *)
(* Each stage gets what a trait promises from elsewhere, a list without    *)
(* repetitions, so a behaviour runs one of them.  Documents are numbers in *)
(* the order of their ids; scores are whole numbers, those of the fusion   *)
(* times RetDenominator, so that they are exact.  What the documents know  *)
(* is brought into the tables by Extraction.                               *)
(***************************************************************************)
EXTENDS Extraction, FiniteSetsExt

CONSTANTS
  RetDocs,       \* the documents
  RetK,          \* rrf_k
  RetWeights,    \* pairs <<vector_weight, bm25_weight>>
  RetThresholds, \* score thresholds, in percent
  RetTopK,       \* options.top_k of a search
  RetReranked, RetFinal,  \* top_k_reranked, top_k_final
  RetScores,     \* what a model may say of a document, in percent
  RetLength,     \* RetLength[d]: bytes of d's entry in the context
  RetMaxContext  \* max_context_length

ASSUME RetConstants ==
  /\ RetDocs \subseteq Nat /\ IsFiniteSet(RetDocs) /\ RetLength \in [RetDocs -> Nat]
  /\ {RetK, RetTopK, RetReranked, RetFinal, RetMaxContext} \subseteq Nat
  /\ RetWeights \subseteq Nat \X Nat /\ RetThresholds \subseteq Nat
  /\ RetScores \subseteq 0 .. 100

VARIABLES
  retPhase,    \* "idle", "fusing", "ranking", "judging", "filling", then what was done:
               \* "searched", "reranked" or "answered"
  retLists,    \* the lists that were given: keywords, vectors; or candidates
  retWeights,  \* their weights
  retLevel,    \* the threshold of a search
  retScore,    \* what was last said of each candidate
  retResult,   \* the documents answered, in order; for RAG the sources
  retAnswer,   \* what the judge said: pairs <<index, relevance>>
  retContext   \* the entries of the context, pairs <<number, document>>

retVars == <<retPhase, retLists, retWeights, retLevel, retScore, retResult, retAnswer, retContext>>

RetInit ==
  /\ retPhase = "idle"
  /\ retLists = << >> /\ retWeights = << >> /\ retLevel = 0 /\ retScore = << >>
  /\ retResult = << >> /\ retAnswer = << >> /\ retContext = << >>

RetOrders == UNION {SetToSeqs(S) : S \in SUBSET RetDocs}
RetCut(list, n) == SubSeq(list, 1, IF Len(list) < n THEN Len(list) ELSE n)

\* The place of d in a list, after all of it if it is not there.
RetPlace(list, d) == Min({i \in DOMAIN list : list[i] = d} \cup {Cardinality(RetDocs) + 1})

\* By score, the best first, and then by id.
RetBefore(score, d, e) == score[d] > score[e] \/ (score[d] = score[e] /\ d < e)
RetSorted(docs, score) ==
  LET place == [d \in docs |-> Cardinality({e \in docs : RetBefore(score, e, d)}) + 1]
  IN  [i \in 1 .. Cardinality(docs) |-> CHOOSE d \in docs : place[d] = i]

\* Those that reach the threshold.
RetOver(list, score, level) ==
  FlattenSeq([i \in 1 .. Len(list) |-> IF score[list[i]] >= level THEN <<list[i]>> ELSE << >>])

-----------------------------------------------------------------------------
(* HybridSearchEngine: search, weighted_rrf *)

\* A number all the ranks' divisors divide.
RetDenominator ==
  LET product[n \in 0 .. Cardinality(RetDocs)] == IF n = 0 THEN 1 ELSE product[n - 1] * (RetK + n)
  IN  product[Cardinality(RetDocs)]

RetShare(list, d, weight) ==
  IF d \in ToSet(list) THEN (weight * RetDenominator) \div (RetK + RetPlace(list, d)) ELSE 0

\* Mistake: the second list overwrites what the first has given.
RetFusedLast(keywords, vectors, weights) ==
  [d \in ToSet(keywords) \cup ToSet(vectors) |->
     IF d \in ToSet(vectors) THEN RetShare(vectors, d, weights[1]) ELSE RetShare(keywords, d, weights[2])]

RetFused(keywords, vectors, weights) ==
  [d \in ToSet(keywords) \cup ToSet(vectors) |->
     RetShare(keywords, d, weights[2]) + RetShare(vectors, d, weights[1])]

RetSearch ==
  /\ retPhase = "idle"
  /\ retPhase' = "fusing"
  /\ \E keywords, vectors \in RetOrders :
       retLists' = <<RetCut(keywords, 2 * RetTopK), RetCut(vectors, RetTopK)>>
  /\ retWeights' \in RetWeights /\ retLevel' \in RetThresholds
  /\ UNCHANGED <<retScore, retResult, retAnswer, retContext>>

\* Scores are divided by the best a document could get; if that is nothing, they
\* are nothing.
RetFuse ==
  LET score == RetFused(retLists[1], retLists[2], retWeights)
      best  == (retWeights[1] + retWeights[2]) * (RetDenominator \div (RetK + 1))
  IN  /\ retPhase = "fusing"
      /\ retPhase' = "searched"
      /\ retScore' = score
      /\ retResult' = RetOver(RetCut(RetSorted(DOMAIN score, score), RetTopK),
                              [d \in DOMAIN score |-> score[d] * 100],
                              retLevel * (IF best > 0 THEN best ELSE 1))
      /\ UNCHANGED <<retLists, retWeights, retLevel, retAnswer, retContext>>

-----------------------------------------------------------------------------
(* RerankingPipeline: rerank, with CandleReranker and LlmJudgerImpl *)

RetRetrieve ==
  /\ retPhase = "idle"
  /\ retPhase' = "ranking"
  /\ \E candidates \in RetOrders : retLists' = <<candidates>>
  /\ UNCHANGED <<retWeights, retLevel, retScore, retResult, retAnswer, retContext>>

\* The cross encoder's scores decide who stays.  Without a judge the first of them
\* are the answer.
RetRank ==
  /\ retPhase = "ranking"
  /\ retScore' \in [ToSet(retLists[1]) -> RetScores]
  /\ LET kept == RetCut(RetSorted(ToSet(retLists[1]), retScore'), RetReranked)
     IN  \/ retPhase' = "reranked" /\ retResult' = RetCut(kept, RetFinal)
         \/ retPhase' = "judging" /\ retResult' = kept
  /\ UNCHANGED <<retLists, retWeights, retLevel, retAnswer, retContext>>

\* parse_judge_response: the relevances in the order they are listed in, whatever
\* their indices; if there are too many or too few, or the answer cannot be parsed,
\* the order stays.
RetJudged(docs, answer) ==
  [d \in ToSet(docs) |->
     LET i == CHOOSE i \in DOMAIN docs : docs[i] = d
     IN  IF Len(answer) = Len(docs) THEN answer[i][2] ELSE IF i > 20 THEN 0 ELSE 105 - 5 * i]

\* Mistake: the best are chosen before the judge is heard.
RetJudgeCut ==
  /\ retPhase = "judging"
  /\ retPhase' = "reranked"
  /\ retAnswer' \in BoundedSeq((DOMAIN retResult) \X RetScores, Len(retResult))
  /\ LET score == RetJudged(retResult, retAnswer')
     IN  retScore' = score /\ retResult' = RetSorted(ToSet(RetCut(retResult, RetFinal)), score)
  /\ UNCHANGED <<retLists, retWeights, retLevel, retContext>>

RetJudge ==
  /\ retPhase = "judging"
  /\ retPhase' = "reranked"
  /\ retAnswer' \in BoundedSeq((DOMAIN retResult) \X RetScores, Len(retResult))
  /\ LET score == RetJudged(retResult, retAnswer')
     IN  retScore' = score /\ retResult' = RetCut(RetSorted(ToSet(retResult), score), RetFinal)
  /\ UNCHANGED <<retLists, retWeights, retLevel, retContext>>

-----------------------------------------------------------------------------
(* RAGEngine: query *)

RetAsk ==
  /\ retPhase = "idle"
  /\ retPhase' = "filling"
  /\ \E candidates \in RetOrders :
       retLists' = <<candidates>> /\ retScore' \in [ToSet(candidates) -> RetScores]
  /\ retLevel' \in RetThresholds
  /\ UNCHANGED <<retWeights, retResult, retAnswer, retContext>>

\* The bytes of the first n entries.
RetBytes(entries) ==
  LET bytes[n \in 0 .. Len(entries)] == IF n = 0 THEN 0 ELSE bytes[n - 1] + RetLength[entries[n][2]]
  IN  bytes

\* build_context: numbered entries, up to the first that does not fit.
RetEntries(docs) ==
  LET entries == [i \in DOMAIN docs |-> <<i, docs[i]>>]
      bytes   == RetBytes(entries)
  IN  RetCut(entries, Max({n \in 0 .. Len(docs) : \A m \in 0 .. n : bytes[m] <= RetMaxContext}))

\* Mistake: entries are numbered before the candidates are filtered.
RetAnswerUnfiltered ==
  LET listed == [i \in DOMAIN retLists[1] |-> <<i, retLists[1][i]>>]
      bytes  == RetBytes(listed)
  IN  /\ retPhase = "filling"
      /\ retPhase' = "answered"
      /\ retResult' = RetOver(retLists[1], retScore, retLevel)
      /\ retContext' = SelectSeq(RetCut(listed, Max({n \in 0 .. Len(listed) : \A m \in 0 .. n : bytes[m] <= RetMaxContext})),
                                 LAMBDA e : retScore[e[2]] >= retLevel)
      /\ UNCHANGED <<retLists, retWeights, retLevel, retScore, retAnswer>>

\* All candidates that pass the threshold are named as sources, those as well that
\* did not fit.
RetAnswer ==
  /\ retPhase = "filling"
  /\ retPhase' = "answered"
  /\ LET filtered == RetOver(retLists[1], retScore, retLevel)
     IN  retResult' = filtered /\ retContext' = RetEntries(filtered)
  /\ UNCHANGED <<retLists, retWeights, retLevel, retScore, retAnswer>>

RetNext ==
  \/ RetSearch \/ RetFuse
  \/ RetRetrieve \/ RetRank \/ RetJudge
  \/ RetAsk \/ RetAnswer

RetSpec == RetInit /\ [][RetNext]_retVars

-----------------------------------------------------------------------------
(* Properties *)

\* A document that neither list puts behind another, and one before it, is never
\* answered behind it or left out for it.
FusionFair ==
  LET ahead(d, e) == \A i \in {1, 2} : RetPlace(retLists[i], d) <= RetPlace(retLists[i], e)
  IN  retPhase = "searched" =>
        /\ IsInjective(retResult) /\ Len(retResult) <= RetTopK
        /\ \A d, e \in RetDocs :
             d # e /\ ahead(d, e) /\ 0 \notin {retWeights[1], retWeights[2]} /\ e \in ToSet(retResult)
               => RetPlace(retResult, d) < RetPlace(retResult, e)

\* What the pipeline answers are candidates, each once, in the order of what was
\* said of them last, and nobody left out at that stage was rated better than one
\* who was answered.
RerankingSound ==
  retPhase = "reranked" =>
    /\ IsInjective(retResult) /\ ToSet(retResult) \subseteq ToSet(retLists[1])
    /\ \A d, e \in DOMAIN retScore :
         e \in ToSet(retResult) /\ retScore[d] > retScore[e] => RetPlace(retResult, d) < RetPlace(retResult, e)

\* A number in the context is the number of that source in the answer; the context
\* keeps within its limit, and holds all the sources if they fit.
ContextCites ==
  retPhase = "answered" =>
    /\ \A i \in DOMAIN retContext : retContext[i][1] \in DOMAIN retResult /\ retResult[retContext[i][1]] = retContext[i][2]
    /\ RetBytes(retContext)[Len(retContext)] <= RetMaxContext
    /\ RetBytes([i \in DOMAIN retResult |-> <<i, retResult[i]>>])[Len(retResult)] <= RetMaxContext
         => Len(retContext) = Len(retResult)

RetrievalSound == FusionFair /\ RerankingSound /\ ContextCites

\* The graph of knowledge: what the extractor writes and what a query gets back.
KnowledgeSound == ExtractionSound /\ RetrievalSound
=============================================================================
