---------------------------- MODULE SemanticChunks ----------------------------
(***************************************************************************)
(* The semantic chunker (semantic_chunker.rs of knowledge-parser): a text  *)
(* is split into sentences, the sentences are merged into chunks that      *)
(* overlap, and recursive_split cuts a text by separators instead when     *)
(* there is no model.                                                      *)
(*                                                                         *)
(* Merging sees of a sentence its tokens, and of its vector whether it is  *)
(* unlike the one before.  Splitting sees letters of four kinds: "a" any   *)
(* other, "." the end of a sentence, " " a blank, "q" a closing or opening *)
(* quote; letters are one byte long.                                       *)
(***************************************************************************)
EXTENDS Naturals, Sequences, FiniteSets, SequencesExt, FiniteSetsExt

CONSTANTS
  ChkSizes,         \* tokens a sentence may have
  ChkMaxSentences,  \* bound: sentences of a document
  ChkMax, ChkMin, ChkOverlap,  \* max_chunk_size, min_chunk_size, overlap_size
  ChkTexts,         \* texts that may be split, sequences of letters
  ChkSeparators,    \* separators, the coarsest first
  ChkTextMax, ChkTextMin       \* the same sizes, in letters, for recursive_split

ASSUME ChkConstants ==
  /\ ChkSizes \subseteq Nat \ {0} /\ {ChkTextMax} \subseteq Nat \ {0}
  /\ {ChkMax, ChkMin, ChkOverlap, ChkMaxSentences, ChkTextMin} \subseteq Nat

VARIABLES
  chkMode,     \* "idle", "merging", "splitting" or "done"
  chkTokens,   \* tokens of each sentence
  chkBreaks,   \* sentences that are unlike the one before them
  chkAt,       \* sentences looked at
  chkCurrent,  \* the sentences of the chunk that is being built
  chkChunks,   \* chunks so far, sequences of sentences
  chkText,     \* the text recursive_split works on
  chkFrom,     \* letters it has passed
  chkPieces    \* its chunks, pairs <<start_offset, end_offset>>

chkVars == <<chkMode, chkTokens, chkBreaks, chkAt, chkCurrent, chkChunks, chkText, chkFrom, chkPieces>>
chkMerge == <<chkTokens, chkBreaks, chkAt, chkCurrent, chkChunks>>
chkSplit == <<chkText, chkFrom, chkPieces>>

ChkInit ==
  /\ chkMode = "idle"
  /\ chkTokens = << >> /\ chkBreaks = {} /\ chkAt = 0 /\ chkCurrent = << >> /\ chkChunks = << >>
  /\ chkText = << >> /\ chkFrom = 0 /\ chkPieces = << >>

-----------------------------------------------------------------------------
(* chunk: merge_into_chunks *)

ChkTotal(sentences) == FoldLeft(LAMBDA sum, i : sum + chkTokens[i], 0, sentences)

\* calculate_overlap_count: a sentence is taken to have a fiftieth of the largest
\* chunk, rounded down.
ChkOverlapCount(sentences) ==
  LET n    == Len(sentences)
      done == {k \in 0 .. n : k * (ChkMax \div 50) >= ChkOverlap}
  IN  IF n <= 1 THEN 0 ELSE Min(done \cup {n})

\* Mistake: the overlap is skipped and the rest kept.
ChkTailSkip(sentences) == SubSeq(sentences, 1, ChkOverlapCount(sentences))

\* The sentences that are repeated.
ChkTail(sentences) ==
  SubSeq(sentences, Len(sentences) + 1 - ChkOverlapCount(sentences), Len(sentences))

ChkBegin ==
  /\ chkMode = "idle"
  /\ chkMode' = "merging"
  /\ \E n \in 1 .. ChkMaxSentences :
       chkTokens' \in [1 .. n -> ChkSizes] /\ chkBreaks' \in SUBSET (2 .. n)
  /\ UNCHANGED <<chkAt, chkCurrent, chkChunks, chkSplit>>

ChkFull(i) ==
  \/ ChkTotal(chkCurrent) + chkTokens[i] > ChkMax
  \/ i \in chkBreaks /\ ChkTotal(chkCurrent) >= ChkMin

\* The next sentence; a chunk that would be too long, or that has enough at a
\* change of subject, is closed first, and its last sentences begin the next one.
ChkSentence ==
  /\ chkMode = "merging" /\ chkAt < Len(chkTokens)
  /\ chkAt' = chkAt + 1
  /\ IF ChkFull(chkAt + 1) /\ chkCurrent # << >>
       THEN /\ chkChunks' = Append(chkChunks, chkCurrent)
            /\ chkCurrent' = Append(ChkTail(chkCurrent), chkAt + 1)
       ELSE /\ chkCurrent' = Append(chkCurrent, chkAt + 1)
            /\ UNCHANGED chkChunks
  /\ UNCHANGED <<chkMode, chkTokens, chkBreaks, chkSplit>>

ChkEnd ==
  /\ chkMode = "merging" /\ chkAt = Len(chkTokens)
  /\ chkMode' = "done"
  /\ chkChunks' = IF chkCurrent # << >> THEN Append(chkChunks, chkCurrent) ELSE chkChunks
  /\ UNCHANGED <<chkTokens, chkBreaks, chkAt, chkCurrent, chkSplit>>

-----------------------------------------------------------------------------
(* split_sentences and compute_sentence_offsets *)

ChkBlank(text) == ToSet(text) \subseteq {" "}

ChkTrim(text) ==
  LET kept == {i \in DOMAIN text : text[i] # " "}
  IN  IF kept = {} THEN << >> ELSE SubSeq(text, Min(kept), Max(kept))

\* A sentence is closed where it is not blank.
ChkClosed(s) == IF ChkBlank(s.current) THEN s.sentences ELSE Append(s.sentences, ChkTrim(s.current))

\* One letter.  After the end of a sentence blanks are passed over and quotes are
\* taken, also one that follows a blank; the first other letter begins a sentence.
ChkLetter(s, c) ==
  LET ended == s.after # "no"
      began == IF ended /\ c \notin {" ", "q"}
                 THEN [sentences |-> ChkClosed(s),
                       current   |-> IF s.after = "blank" THEN <<" ">> ELSE << >>,
                       after     |-> "no"]
                 ELSE s
  IN  IF ended /\ c = " " THEN [s EXCEPT !.after = "blank"]
      ELSE IF ended /\ c = "q" THEN [s EXCEPT !.current = Append(@, c)]
      ELSE [began EXCEPT !.current = Append(@, c), !.after = IF c = "." THEN "end" ELSE "no"]

ChkSentencesOf(text) ==
  ChkClosed(FoldLeft(ChkLetter, [sentences |-> << >>, current |-> << >>, after |-> "no"], text))

\* Where a sentence is looked for: after the one before.  If it is not found, it
\* and all that follow end at the end of the text.
ChkOffsetsOf(text) ==
  LET locate(s, sentence) ==
        LET at == {i \in s.from .. Len(text) - Len(sentence) :
                     SubSeq(text, i + 1, i + Len(sentence)) = sentence}
        IN  IF at # {}
              THEN [from |-> Min(at) + Len(sentence), found |-> Append(s.found, <<Min(at), Min(at) + Len(sentence)>>)]
              ELSE [from |-> Len(text), found |-> Append(s.found, <<s.from, Len(text)>>)]
  IN  FoldLeft(locate, [from |-> 0, found |-> << >>], ChkSentencesOf(text)).found

-----------------------------------------------------------------------------
(* recursive_split *)

ChkRest == SubSeq(chkText, chkFrom + 1, Len(chkText))

\* Where a separator begins in the rest of the text: the first place, if any.
ChkFound(sep) == {i \in 0 .. Len(ChkRest) - Len(sep) : SubSeq(ChkRest, i + 1, i + Len(sep)) = sep}

\* find_next_chunk: the length of the next piece, up to the first separator of
\* the list that stands far enough in the text, or as much as is allowed.
ChkPieceLength ==
  LET short  == Len(ChkRest) <= ChkTextMax
      useful == {k \in DOMAIN ChkSeparators :
                   /\ ChkFound(ChkSeparators[k]) # {}
                   /\ Min(ChkFound(ChkSeparators[k])) > (IF short THEN 0 ELSE ChkTextMin)}
      sep    == ChkSeparators[Min(useful)]
  IN  IF useful # {} THEN Min(ChkFound(sep)) + Len(sep)
      ELSE IF short THEN Len(ChkRest) ELSE ChkTextMax

ChkSplitBegin ==
  /\ chkMode = "idle"
  /\ chkMode' = "splitting" /\ chkText' \in ChkTexts
  /\ UNCHANGED <<chkMerge, chkFrom, chkPieces>>

\* Mistake: a blank piece is passed over with the letter behind it.
ChkPieceSkip ==
  /\ chkMode = "splitting" /\ chkFrom < Len(chkText)
  /\ LET piece == SubSeq(ChkRest, 1, ChkPieceLength)
     IN  IF ChkBlank(piece)
           THEN chkFrom' = chkFrom + ChkPieceLength + 1 /\ UNCHANGED chkPieces
           ELSE /\ chkPieces' = Append(chkPieces, <<chkFrom, chkFrom + ChkPieceLength>>)
                /\ chkFrom' = chkFrom + ChkPieceLength
  /\ UNCHANGED <<chkMode, chkText, chkMerge>>

\* A blank piece is passed over, any other is a chunk.
ChkPiece ==
  /\ chkMode = "splitting" /\ chkFrom < Len(chkText)
  /\ LET piece == SubSeq(ChkRest, 1, ChkPieceLength)
     IN  /\ chkPieces' = IF ChkBlank(piece) THEN chkPieces
                         ELSE Append(chkPieces, <<chkFrom, chkFrom + ChkPieceLength>>)
         /\ chkFrom' = chkFrom + Max({ChkPieceLength, 1})
  /\ UNCHANGED <<chkMode, chkText, chkMerge>>

ChkSplitEnd ==
  /\ chkMode = "splitting" /\ chkFrom >= Len(chkText)
  /\ chkMode' = "done"
  /\ UNCHANGED <<chkMerge, chkSplit>>

ChkNext == ChkBegin \/ ChkSentence \/ ChkEnd \/ ChkSplitBegin \/ ChkPiece \/ ChkSplitEnd

ChkSpec == ChkInit /\ [][ChkNext]_chkVars

-----------------------------------------------------------------------------
(* Properties *)

\* Chunks are runs of sentences; each begins within the one before it or right
\* behind it, and ends further on, so that no sentence is lost and none is
\* repeated but as overlap.  A chunk longer than the limit holds a single
\* sentence besides what it repeats.
ChunksCover ==
  LET chunks  == IF chkMode = "merging" /\ chkCurrent # << >> THEN Append(chkChunks, chkCurrent) ELSE chkChunks
      last(i) == IF i = 0 THEN 0 ELSE Last(chunks[i])
  IN  /\ \A i \in DOMAIN chunks :
           /\ chunks[i] = [k \in 1 .. Len(chunks[i]) |-> chunks[i][1] + k - 1]
           /\ last(i) > last(i - 1) /\ chunks[i][1] \in 1 .. last(i - 1) + 1
           /\ ChkTotal(chunks[i]) > ChkMax => last(i) = last(i - 1) + 1
      /\ last(Len(chunks)) = chkAt

\* What a text says is in its sentences, in order; and where each of them stands
\* is known, unless a quote follows a blank behind the end of a sentence.
SentencesKept ==
  LET said(text) == SelectSeq(text, LAMBDA c : c # " ")
      sentences  == ChkSentencesOf(chkText)
      apart == \E i \in DOMAIN chkText : i > 1 /\ chkText[i] = "q" /\ chkText[i - 1] = " "
  IN  /\ said(FlattenSeq(sentences)) = said(chkText)
      /\ ~apart => \A k \in DOMAIN sentences :
           SubSeq(chkText, ChkOffsetsOf(chkText)[k][1] + 1, ChkOffsetsOf(chkText)[k][2]) = sentences[k]

\* recursive_split goes through the text once: its pieces do not overlap, are in
\* order, and leave out nothing but blanks.
PiecesCover ==
  LET inside == UNION {chkPieces[i][1] + 1 .. chkPieces[i][2] : i \in DOMAIN chkPieces}
  IN  /\ \A i \in DOMAIN chkPieces :
           /\ chkPieces[i][1] < chkPieces[i][2] /\ chkPieces[i][2] <= Len(chkText)
           /\ i > 1 => chkPieces[i - 1][2] <= chkPieces[i][1]
      /\ \A i \in 1 .. Min({chkFrom, Len(chkText)}) : chkText[i] # " " => i \in inside

ChunkingSound == ChunksCover /\ SentencesKept /\ PiecesCover
=============================================================================
