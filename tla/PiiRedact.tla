------------------------------- MODULE PiiRedact -------------------------------
(***************************************************************************)
(* The scanner for personal data (pii/scanner.rs of knowledge-core): the   *)
(* patterns' matches in a text are sorted, those within another one are    *)
(* dropped, and the rest are replaced from left to right.                  *)
(*                                                                         *)
(* Which texts match is the patterns' business: a text is given by its     *)
(* length and the stretches <<start, end>> each pattern matches, which do  *)
(* not overlap for one pattern.  Of a replacement the length is kept: that *)
(* of the match ("same": Mask and Fuzzy) or one of its own ("fixed":       *)
(* Redact, Hash and Tokenize).  Letters are one byte long.                 *)
(***************************************************************************)
EXTENDS Integers, Sequences, FiniteSets, SequencesExt, FiniteSetsExt

CONSTANTS
  PiiPatterns,  \* sequence of [category, level, strategy]; level is the confidence in percent
  PiiLength,    \* letters of a text
  PiiFixed,     \* length of a replacement of fixed length
  PiiHits       \* what the patterns may match, functions of the pattern's number

\* A pattern that matches matches something, and where the text is.
ASSUME PiiConstants ==
  /\ PiiLength \in Nat /\ PiiFixed \in Nat
  /\ DOMAIN PiiPatterns \subseteq Nat /\ IsFiniteSet(DOMAIN PiiPatterns)
  /\ \A p \in DOMAIN PiiPatterns : PiiPatterns[p].level \in Nat
  /\ \A h \in PiiHits, p \in DOMAIN PiiPatterns : \A m \in h[p] :
       {m[1], m[2]} \subseteq 0 .. PiiLength /\ m[1] < m[2]

VARIABLES
  piiPhase,     \* "idle", "scanned", "replacing" or "done"
  piiMode,      \* "Strict" or "Lenient"
  piiHits,      \* the matches in this text
  piiFindings,  \* what scan answers, sequence of [pattern, start, end]
  piiText,      \* the text, <<"letter", i>> or <<"x", pattern>>
  piiShift,     \* offset_adjustment
  piiAt         \* findings gone through

piiVars == <<piiPhase, piiMode, piiHits, piiFindings, piiText, piiShift, piiAt>>

PiiInit ==
  /\ piiPhase = "idle" /\ piiMode = "Strict" /\ piiHits = << >>
  /\ piiFindings = << >> /\ piiText = << >> /\ piiShift = 0 /\ piiAt = 0

PiiLetters == [i \in 1 .. PiiLength |-> <<"letter", i>>]

-----------------------------------------------------------------------------
(* scan *)

PiiLeast == IF piiMode = "Strict" THEN 90 ELSE 70

\* Matches of the patterns one is sure enough of.
PiiCounted ==
  UNION {{[pattern |-> p, start |-> m[1], end |-> m[2]] : m \in piiHits[p]} :
           p \in {p \in DOMAIN PiiPatterns : PiiPatterns[p].level >= PiiLeast}}

\* By start, longer ones first, then by confidence, then in the order of the patterns.
PiiBefore(f, g) ==
  LET level(x) == PiiPatterns[x.pattern].level
  IN  \/ f.start < g.start
      \/ f.start = g.start /\ \/ f.end > g.end
                              \/ f.end = g.end /\ \/ level(f) > level(g)
                                                  \/ level(f) = level(g) /\ f.pattern < g.pattern

\* A set of findings, one after the other.
PiiSorted(found) ==
  LET place == [f \in found |-> Cardinality({g \in found : PiiBefore(g, f)}) + 1]
  IN  [i \in 1 .. Cardinality(found) |-> CHOOSE f \in found : place[f] = i]

PiiWithin(f, g) == g.start <= f.start /\ f.end <= g.end

\* Mistake: a match that only overlaps another is dropped as well.
PiiKeepApart(kept, f) ==
  IF \E g \in ToSet(kept) : g.start <= f.start /\ f.start < g.end THEN kept ELSE Append(kept, f)

\* The findings that are not within f, in their order.
PiiRetained(kept, f) ==
  FlattenSeq([i \in 1 .. Len(kept) |-> IF PiiWithin(kept[i], f) THEN << >> ELSE <<kept[i]>>])

PiiKeep(kept, f) ==
  IF \E g \in ToSet(kept) : PiiWithin(f, g) THEN kept ELSE Append(PiiRetained(kept, f), f)

\* What is kept of a list, its findings taken one after the other.
PiiKept(found) ==
  LET after[k \in 0 .. Len(found)] == IF k = 0 THEN << >> ELSE PiiKeep(after[k - 1], found[k])
  IN  after[Len(found)]

PiiBegin ==
  /\ piiPhase = "idle"
  /\ piiPhase' = "scanned"
  /\ piiMode' \in {"Strict", "Lenient"} /\ piiHits' \in PiiHits
  /\ piiText' = PiiLetters
  /\ UNCHANGED <<piiFindings, piiShift, piiAt>>

PiiScan ==
  /\ piiPhase = "scanned"
  /\ piiFindings' = PiiKept(PiiSorted(PiiCounted))
  /\ piiPhase' = "replacing"
  /\ UNCHANGED <<piiMode, piiHits, piiText, piiShift, piiAt>>

-----------------------------------------------------------------------------
(* scan_and_redact *)

\* find_pattern_for_category: the first pattern of the category has the say.
PiiReplacement(f) ==
  LET same  == {p \in DOMAIN PiiPatterns : PiiPatterns[p].category = PiiPatterns[f.pattern].category}
      fixed == PiiPatterns[Min(same)].strategy = "fixed"
  IN  [i \in 1 .. IF fixed THEN PiiFixed ELSE f.end - f.start |-> <<"x", f.pattern>>]

\* Mistake: the text is taken to keep its length.
PiiReplaceUnshifted ==
  LET f    == piiFindings[piiAt + 1]
      with == PiiReplacement(f)
  IN  /\ piiPhase = "replacing" /\ piiAt < Len(piiFindings)
      /\ piiAt' = piiAt + 1
      /\ piiText' = IF f.start < Len(piiText) /\ f.end <= Len(piiText)
                      THEN SubSeq(piiText, 1, f.start) \o with \o SubSeq(piiText, f.end + 1, Len(piiText))
                      ELSE piiText
      /\ UNCHANGED <<piiPhase, piiMode, piiHits, piiFindings, piiShift>>

\* A finding that has been pushed out of the text is passed over.
PiiReplace ==
  LET f     == piiFindings[piiAt + 1]
      with  == PiiReplacement(f)
      start == f.start + piiShift
      end   == f.end + piiShift
  IN  /\ piiPhase = "replacing" /\ piiAt < Len(piiFindings)
      /\ piiAt' = piiAt + 1
      /\ IF start >= 0 /\ end >= 0 /\ start < Len(piiText) /\ end <= Len(piiText)
           THEN /\ piiText' = SubSeq(piiText, 1, start) \o with \o SubSeq(piiText, end + 1, Len(piiText))
                /\ piiShift' = piiShift + Len(with) - (f.end - f.start)
           ELSE UNCHANGED <<piiText, piiShift>>
      /\ UNCHANGED <<piiPhase, piiMode, piiHits, piiFindings>>

PiiEnd ==
  /\ piiPhase = "replacing" /\ piiAt = Len(piiFindings)
  /\ piiPhase' = "done"
  /\ UNCHANGED <<piiMode, piiHits, piiFindings, piiText, piiShift, piiAt>>

PiiNext == PiiBegin \/ PiiScan \/ PiiReplace \/ PiiEnd

PiiSpec == PiiInit /\ [][PiiNext]_piiVars

-----------------------------------------------------------------------------
(* Properties *)

\* The text with every finding replaced, read off letter by letter.
PiiOver(i) == {f \in ToSet(piiFindings) : f.start < i /\ i <= f.end}
PiiPut(i) ==
  IF PiiOver(i) = {} THEN <<<<"letter", i>>>>
  ELSE IF \E f \in PiiOver(i) : f.start = i - 1
         THEN PiiReplacement(CHOOSE f \in PiiOver(i) : f.start = i - 1) ELSE << >>
PiiRedacted == FlattenSeq([i \in 1 .. PiiLength |-> PiiPut(i)])

\* Every match that counts lies within a finding, and no finding within another.
\* If findings do not overlap, exactly they are replaced, however the lengths
\* of the replacements move what follows.
RedactionExact ==
  piiPhase = "done" =>
    /\ \A f \in PiiCounted : \E g \in ToSet(piiFindings) : PiiWithin(f, g)
    /\ \A i, j \in DOMAIN piiFindings :
         i < j => /\ piiFindings[i].start < piiFindings[j].start
                  /\ piiFindings[i].end < piiFindings[j].end
    /\ (\A i \in 2 .. Len(piiFindings) : piiFindings[i - 1].end <= piiFindings[i].start)
         => piiText = PiiRedacted
=============================================================================
