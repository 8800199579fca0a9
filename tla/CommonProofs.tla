----------------------------- MODULE CommonProofs -----------------------------
(***************************************************************************)
(* Lemmas that the proofs of several modules rest on: the document         *)
(* operators keep to their types, for the write side and the read side;    *)
(* what becomes of sequences put one behind the other, flattened or turned *)
(* into sets; and a finite set in an order.                                *)
(***************************************************************************)
EXTENDS Document, Sequences, SequencesExt, FiniteSetTheorems, WellFoundedInduction, TLAPS

\* A command that is decided on a document emits an event.
LEMMA EventOfType ==
  ASSUME NEW doc \in Documents, NEW cmd \in Commands
  PROVE  EventOf(doc, cmd) \in Events
  <1>1. cmd.op \in Ops /\ cmd.id \in DocumentIds \cup {NoId}
        /\ cmd.set \in [Fields -> Values \cup {Keep}]
    BY DEF Commands
  <1>2. doc.id \in DocumentIds \cup {NoId} /\ doc.fields \in [Fields -> Values]
    BY DEF Documents
  <1>3. Untouched \in [Fields -> Values \cup {Keep}]
    BY DEF Untouched
  <1>4. CASE cmd.op = "Create"
    BY <1>1, <1>3, <1>4 DEF EventOf, CreatedEvent, Events, Kinds
  <1>5. CASE cmd.op = "Update"
    BY <1>1, <1>2, <1>5 DEF EventOf, UpdatedEvent, Events, Kinds
  <1>6. CASE cmd.op = "Publish"
    BY <1>2, <1>3, <1>6 DEF EventOf, Signal, Events, Kinds
  <1>7. CASE cmd.op = "Delete"
    BY <1>2, <1>3, <1>7 DEF EventOf, Signal, Events, Kinds
  <1>8. QED
    BY <1>1, <1>4, <1>5, <1>6, <1>7 DEF Ops

\* Decoding an event changes its new values only.
LEMMA DecodedType ==
  ASSUME NEW event \in Events
  PROVE  /\ Decoded(event) \in Events
         /\ Decoded(event).kind = event.kind
         /\ Decoded(event).id = event.id
  BY DEF Decoded, Events

\* Applying an event to a document gives a document, one version later.
LEMMA ApplyType ==
  ASSUME NEW doc \in Documents, NEW event \in Events
  PROVE  /\ Apply(doc, event) \in Documents
         /\ Apply(doc, event).version = doc.version + 1
         /\ Apply(doc, event).id = IF event.kind = "Created" THEN event.id ELSE doc.id
         /\ Apply(doc, event).status = StatusAfter(doc.status, event.kind)
  <1>1. event.kind \in Kinds /\ event.id \in DocumentIds \cup {NoId}
        /\ event.new \in [Fields -> Values \cup {Keep}]
    BY DEF Events
  <1>2. doc.id \in DocumentIds \cup {NoId} /\ doc.status \in Statuses
        /\ doc.fields \in [Fields -> Values] /\ doc.version \in Nat
    BY DEF Documents
  <1>3. StatusAfter(doc.status, event.kind) \in Statuses
    BY <1>1, <1>2 DEF StatusAfter, Statuses, Kinds
  <1>4. [f \in Fields |-> IF event.new[f] = Keep THEN doc.fields[f] ELSE event.new[f]]
          \in [Fields -> Values]
    BY <1>1, <1>2
  <1>5. QED
    BY <1>1, <1>2, <1>3, <1>4 DEF Apply, Documents

\* A document that does not exist yet.
LEMMA NewDocumentType == NewDocument \in Documents
  BY DEF NewDocument, Documents, Statuses, Values

-----------------------------------------------------------------------------
(* Sequences *)

\* FlattenSeq gives the last value of a function that satisfies its equation.
LEMMA FlattenEquation ==
  ASSUME NEW seqs, NEW n \in Nat \ {0}, Len(seqs) = n
  PROVE  \E f : /\ f = [i \in 1 .. n |-> IF i = 1 THEN seqs[i] ELSE f[i - 1] \o seqs[i]]
                /\ FlattenSeq(seqs) = f[n]
<1> DEFINE Solves(f, m) == f = [i \in 1 .. m |-> IF i = 1 THEN seqs[i] ELSE f[i - 1] \o seqs[i]]
           flatten == CHOOSE f : Solves(f, n)
           unsolved == {m \in Nat \ {0} : ~ \E f : Solves(f, m)}
<1>. HIDE DEF Solves
<1>1. unsolved = {}
  <2>1. SUFFICES ASSUME unsolved # {} PROVE FALSE
    OBVIOUS
  <2>2. PICK m \in unsolved : \A j \in unsolved : ~ (<<j, m>> \in OpToRel(<, Nat))
    <3>1. unsolved \subseteq Nat
      OBVIOUS
    <3>. QED  BY <2>1, <3>1, NatLessThanWellFounded, WFMin
  <2>3. CASE m = 1
    <3>1. PICK g : g = [i \in 1 .. 1 |-> seqs[i]]
      OBVIOUS
    <3>2. g = [i \in 1 .. 1 |-> IF i = 1 THEN seqs[i] ELSE g[i - 1] \o seqs[i]]
      BY <3>1
    <3>3. Solves(g, 1)
      BY <3>2 DEF Solves
    <3>. QED  BY <2>2, <2>3, <3>3
  <2>4. CASE m # 1
    <3>1. m \in Nat /\ m - 1 \in Nat \ {0} /\ m - 1 < m
      <4>1. m \in Nat \ {0}
        BY <2>2
      <4>. HIDE DEF unsolved
      <4>. QED  BY <2>4, <4>1
    <3>2. <<m - 1, m>> \in OpToRel(<, Nat)
      BY <3>1 DEF OpToRel
    <3>3. PICK f : Solves(f, m - 1)
      BY <2>2, <3>1, <3>2
    <3>. HIDE DEF unsolved
    <3>4. PICK g : g = [i \in 1 .. m |-> IF i = m THEN f[m - 1] \o seqs[m] ELSE f[i]]
      OBVIOUS
    <3>5. ASSUME NEW i \in 1 .. m PROVE g[i] = IF i = 1 THEN seqs[i] ELSE g[i - 1] \o seqs[i]
      <4>1. CASE i = m
        <5>1. i # 1 /\ i - 1 \in 1 .. m /\ i - 1 # m /\ i - 1 = m - 1
          BY <2>4, <3>1, <4>1
        <5>2. g[i] = f[m - 1] \o seqs[m] /\ g[i - 1] = f[m - 1]
          BY <3>4, <4>1, <5>1
        <5>. QED  BY <4>1, <5>1, <5>2
      <4>2. CASE i # m
        <5>1. i \in 1 .. m - 1 /\ g[i] = f[i]
          BY <3>1, <3>4, <4>2
        <5>2. f[i] = IF i = 1 THEN seqs[i] ELSE f[i - 1] \o seqs[i]
          BY <3>3, <5>1 DEF Solves
        <5>3. i # 1 => g[i - 1] = f[i - 1]
          BY <3>1, <3>4, <5>1
        <5>. QED  BY <5>1, <5>2, <5>3
      <4>. QED  BY <4>1, <4>2
    <3>6. g = [i \in 1 .. m |-> g[i]]
      BY <3>4
    <3>7. Solves(g, m)
      BY <3>5, <3>6 DEF Solves
    <3>. QED  BY <2>2, <3>7 DEF unsolved
  <2>. QED  BY <2>3, <2>4
<1>2. Solves(flatten, n)
  <2>1. \E f : Solves(f, n)
    BY <1>1
  <2>. QED  BY <2>1
<1>3. FlattenSeq(seqs) = flatten[n]
  BY DEF FlattenSeq, Solves
<1>. HIDE DEF flatten
<1>. QED  BY <1>2, <1>3 DEF Solves

\* One sequence flattened is that sequence.
LEMMA FlattenOne ==
  ASSUME NEW s
  PROVE  FlattenSeq(<<s>>) = s
<1>1. PICK seqs : seqs = <<s>>
  OBVIOUS
<1>2. Len(seqs) = 1 /\ seqs[1] = s
  BY <1>1
<1>3. PICK f : /\ f = [i \in 1 .. 1 |-> IF i = 1 THEN seqs[i] ELSE f[i - 1] \o seqs[i]]
               /\ FlattenSeq(seqs) = f[1]
  <2>1. 1 \in Nat \ {0}
    OBVIOUS
  <2>. QED  BY <1>2, <2>1, FlattenEquation
<1>4. f[1] = seqs[1]
  BY <1>3
<1>. QED  BY <1>1, <1>2, <1>3, <1>4

\* Two sequences, one behind the other, hold what each of them holds.
LEMMA ToSetConcat ==
  ASSUME NEW S, NEW a \in Seq(S), NEW b \in Seq(S)
  PROVE  ToSet(a \o b) = ToSet(a) \cup ToSet(b)
<1>1. \A i \in DOMAIN a : i \in DOMAIN (a \o b) /\ (a \o b)[i] = a[i]
  OBVIOUS
<1>2. \A i \in DOMAIN b : Len(a) + i \in DOMAIN (a \o b) /\ (a \o b)[Len(a) + i] = b[i]
  OBVIOUS
<1>3. \A i \in DOMAIN (a \o b) : \/ i \in DOMAIN a /\ (a \o b)[i] = a[i]
                                 \/ i - Len(a) \in DOMAIN b /\ (a \o b)[i] = b[i - Len(a)]
  OBVIOUS
<1>4. ToSet(a \o b) \subseteq ToSet(a) \cup ToSet(b)
  BY <1>3 DEF ToSet
<1>5. ToSet(a) \subseteq ToSet(a \o b) /\ ToSet(b) \subseteq ToSet(a \o b)
  BY ONLY <1>1, <1>2 DEF ToSet
<1>. QED  BY <1>4, <1>5

\* One element more.
LEMMA ToSetAppend ==
  ASSUME NEW S, NEW a \in Seq(S), NEW e \in S
  PROVE  ToSet(Append(a, e)) = ToSet(a) \cup {e}
<1>1. Append(a, e) = a \o <<e>> /\ <<e>> \in Seq(S)
  OBVIOUS
<1>2. ToSet(<<e>>) = {e}
  BY DEF ToSet
<1>3. PICK b : b = <<e>>
  OBVIOUS
<1>4. b \in Seq(S) /\ Append(a, e) = a \o b /\ ToSet(b) = {e}
  BY <1>1, <1>2, <1>3
<1>5. ToSet(a \o b) = ToSet(a) \cup ToSet(b)
  BY <1>4, ToSetConcat
<1>. QED  BY ONLY <1>4, <1>5

\* A sequence holds its head and what its tail holds.
LEMMA ToSetHeadTail ==
  ASSUME NEW S, NEW a \in Seq(S), a # << >>
  PROVE  ToSet(a) = {Head(a)} \cup ToSet(Tail(a))
<1>1. PICK h \in S : h = Head(a)
  OBVIOUS
<1> DEFINE t == Tail(a)
<1>7. t \in Seq(S) /\ Len(a) = Len(t) + 1
  OBVIOUS
<1>2. a[1] = h /\ 1 \in DOMAIN a
  BY <1>1
<1>3. \A i \in DOMAIN t : i + 1 \in DOMAIN a /\ t[i] = a[i + 1]
  OBVIOUS
<1>4. \A i \in DOMAIN a : i = 1 \/ (i - 1 \in DOMAIN t /\ a[i] = t[i - 1])
  OBVIOUS
<1>. HIDE DEF t
<1>5. ToSet(a) \subseteq {h} \cup ToSet(t)
  BY <1>2, <1>4 DEF ToSet
<1>6. {h} \cup ToSet(t) \subseteq ToSet(a)
  BY <1>2, <1>3 DEF ToSet
<1>. QED  BY <1>1, <1>5, <1>6 DEF t

\* Flattening keeps all elements and makes none.
LEMMA FlattenedSet ==
  ASSUME NEW S, NEW seqs \in Seq(Seq(S))
  PROVE  /\ FlattenSeq(seqs) \in Seq(S)
         /\ ToSet(FlattenSeq(seqs)) = UNION {ToSet(seqs[i]) : i \in DOMAIN seqs}
<1>1. CASE Len(seqs) = 0
  <2>1. FlattenSeq(seqs) = << >> /\ seqs = << >>
    BY <1>1 DEF FlattenSeq
  <2>. QED  BY <2>1 DEF ToSet
<1>2. CASE Len(seqs) # 0
  <2>1. PICK n \in Nat \ {0} : n = Len(seqs)
    BY <1>2
  <2>2. PICK f : /\ f = [i \in 1 .. n |-> IF i = 1 THEN seqs[i] ELSE f[i - 1] \o seqs[i]]
                 /\ FlattenSeq(seqs) = f[n]
    BY <2>1, FlattenEquation
  <2>3. DOMAIN seqs = 1 .. n /\ \A i \in 1 .. n : seqs[i] \in Seq(S)
    BY <2>1
  <2> DEFINE Is(m) == f[m] \in Seq(S) /\ ToSet(f[m]) = UNION {ToSet(seqs[i]) : i \in 1 .. m}
             wrong == {m \in 1 .. n : ~ Is(m)}
  <2>4. wrong = {}
    <3>1. SUFFICES ASSUME wrong # {} PROVE FALSE
      OBVIOUS
    <3>2. PICK m \in wrong : \A j \in wrong : ~ (<<j, m>> \in OpToRel(<, Nat))
      <4>1. wrong \subseteq Nat
        OBVIOUS
      <4>. QED  BY <3>1, <4>1, NatLessThanWellFounded, WFMin
    <3>3. CASE m = 1
      <4>1. f[1] = seqs[1] /\ 1 .. 1 = {1}
        BY <2>1, <2>2
      <4>2. Is(1)
        BY <2>1, <2>3, <4>1
      <4>. QED  BY <3>2, <3>3, <4>2
    <3>4. CASE m # 1
      <4>1. m \in 2 .. n /\ m - 1 \in 1 .. n /\ m - 1 < m /\ m \in Nat /\ m - 1 \in Nat
        <5>1. m \in 1 .. n
          BY <3>2
        <5>. HIDE DEF Is, wrong
        <5>. QED  BY <2>1, <3>4, <5>1
      <4>2. <<m - 1, m>> \in OpToRel(<, Nat)
        BY <4>1 DEF OpToRel
      <4>3. Is(m - 1)
        BY <3>2, <4>1, <4>2
      <4>4. f[m] = f[m - 1] \o seqs[m]
        <5>1. m \in 1 .. n /\ m # 1
          BY <4>1
        <5>. HIDE DEF Is, wrong
        <5>. QED  BY <2>2, <5>1
      <4>5. 1 .. m = (1 .. m - 1) \cup {m}
        BY <4>1
      <4>6. f[m] \in Seq(S)
        BY <2>3, <4>1, <4>3, <4>4
      <4>7. ToSet(f[m]) = ToSet(f[m - 1]) \cup ToSet(seqs[m])
        <5>1. PICK a \in Seq(S), b \in Seq(S) : a = f[m - 1] /\ b = seqs[m]
          BY <2>3, <4>1, <4>3
        <5>2. ToSet(a \o b) = ToSet(a) \cup ToSet(b)
          BY ToSetConcat
        <5>. QED  BY <4>4, <5>1, <5>2
      <4>8. Is(m)
        BY <4>3, <4>5, <4>6, <4>7
      <4>. QED  BY <3>2, <4>8
    <3>. QED  BY <3>3, <3>4
  <2>5. Is(n)
    BY <2>4
  <2>. QED  BY <2>2, <2>3, <2>5
<1>. QED  BY <1>1, <1>2

\* At most one element.
LEMMA ShortSequences ==
  ASSUME NEW S, NEW s \in Seq(S), Len(s) <= 1
  PROVE  Len(s) = 0 \/ Len(s) = 1
<1>1. Len(s) \in Nat
  OBVIOUS
<1>2. \A n \in Nat : n <= 1 => n = 0 \/ n = 1
  OBVIOUS
<1>. QED  BY <1>1, <1>2

\* Two sequences, one behind the other.
LEMMA ConcatFacts ==
  ASSUME NEW S, NEW a \in Seq(S), NEW b \in Seq(S)
  PROVE  /\ a \o b \in Seq(S) /\ Len(a \o b) = Len(a) + Len(b)
         /\ \A i \in DOMAIN a : i \in DOMAIN (a \o b) /\ (a \o b)[i] = a[i]
         /\ \A i \in DOMAIN b : Len(a) + i \in DOMAIN (a \o b) /\ (a \o b)[Len(a) + i] = b[i]
OBVIOUS

\* One element behind others.
LEMMA OneBehind ==
  ASSUME NEW S, NEW a \in Seq(S), NEW b \in Seq(S), Len(b) = 1
  PROVE  /\ a \o b \in Seq(S) /\ Len(a \o b) = Len(a) + 1
         /\ \A k \in 1 .. Len(a) : (a \o b)[k] = a[k]
         /\ (a \o b)[Len(a) + 1] = b[1]
<1>1. 1 \in DOMAIN b /\ DOMAIN a = 1 .. Len(a)
  OBVIOUS
<1>2. a \o b \in Seq(S) /\ Len(a \o b) = Len(a) + Len(b)
  BY ConcatFacts
<1>3. /\ \A i \in DOMAIN a : i \in DOMAIN (a \o b) /\ (a \o b)[i] = a[i]
      /\ \A i \in DOMAIN b : Len(a) + i \in DOMAIN (a \o b) /\ (a \o b)[Len(a) + i] = b[i]
  BY ConcatFacts
<1>. QED  BY <1>1, <1>2, <1>3

\* One sequence behind another, and the rest of one.
LEMMA ConcatAt ==
  ASSUME NEW S, NEW a \in Seq(S), NEW b \in Seq(S)
  PROVE  /\ a \o b \in Seq(S) /\ Len(a \o b) = Len(a) + Len(b)
         /\ \A i \in 1 .. Len(a) : (a \o b)[i] = a[i]
         /\ \A i \in 1 .. Len(b) : (a \o b)[Len(a) + i] = b[i]
         /\ Len(a) \in Nat /\ Len(b) \in Nat
<1>1. DOMAIN a = 1 .. Len(a) /\ DOMAIN b = 1 .. Len(b) /\ Len(a) \in Nat /\ Len(b) \in Nat
  OBVIOUS
<1>. QED  BY <1>1, ConcatFacts

\* How three sequences are put together does not matter.
LEMMA ConcatAssociates ==
  ASSUME NEW S, NEW s \in Seq(S), NEW t \in Seq(S), NEW u \in Seq(S)
  PROVE  (s \o t) \o u = s \o (t \o u)
<1>1. PICK a \in Seq(S), b \in Seq(S) : a = s \o t /\ b = t \o u
  <2>1. s \o t \in Seq(S) /\ t \o u \in Seq(S)
    BY ConcatAt
  <2>. QED  BY <2>1
<1>2. PICK l \in Nat, m \in Nat, n \in Nat : l = Len(s) /\ m = Len(t) /\ n = Len(u)
  OBVIOUS
<1>3. /\ Len(a) = l + m /\ Len(b) = m + n
      /\ \A i \in 1 .. l : a[i] = s[i]
      /\ \A i \in 1 .. m : a[l + i] = t[i] /\ b[i] = t[i]
      /\ \A i \in 1 .. n : b[m + i] = u[i]
  BY <1>1, <1>2, ConcatAt
<1>4. PICK x \in Seq(S), y \in Seq(S) : x = a \o u /\ y = s \o b
  <2>1. a \o u \in Seq(S) /\ s \o b \in Seq(S)
    BY ConcatAt
  <2>. QED  BY <2>1
<1>5. /\ Len(x) = (l + m) + n /\ Len(y) = l + (m + n)
      /\ \A i \in 1 .. l + m : x[i] = a[i]
      /\ \A i \in 1 .. n : x[(l + m) + i] = u[i]
      /\ \A i \in 1 .. l : y[i] = s[i]
      /\ \A i \in 1 .. m + n : y[l + i] = b[i]
  <2>1. /\ Len(a \o u) = Len(a) + Len(u)
        /\ \A i \in 1 .. Len(a) : (a \o u)[i] = a[i]
        /\ \A i \in 1 .. Len(u) : (a \o u)[Len(a) + i] = u[i]
    BY ConcatAt
  <2>2. /\ Len(s \o b) = Len(s) + Len(b)
        /\ \A i \in 1 .. Len(s) : (s \o b)[i] = s[i]
        /\ \A i \in 1 .. Len(b) : (s \o b)[Len(s) + i] = b[i]
    BY ConcatAt
  <2>. QED  BY <1>2, <1>3, <1>4, <2>1, <2>2
<1>6. ASSUME NEW i \in 1 .. l + m + n PROVE x[i] = y[i]
  <2>1. CASE i <= l
    <3>1. i \in 1 .. l /\ i \in 1 .. l + m
      BY <2>1
    <3>. QED  BY <1>3, <1>5, <3>1
  <2>2. CASE l < i /\ i <= l + m
    <3>1. PICK k \in 1 .. m : i = l + k
      <4>1. i - l \in 1 .. m /\ i = l + (i - l)
        BY <2>2
      <4>. QED  BY <4>1
    <3>2. i \in 1 .. l + m /\ k \in 1 .. m + n
      BY <3>1
    <3>. QED  BY <1>3, <1>5, <3>1, <3>2
  <2>3. CASE l + m < i
    <3>1. PICK k \in 1 .. n : i = (l + m) + k
      <4>1. i - (l + m) \in 1 .. n /\ i = (l + m) + (i - (l + m))
        BY <2>3
      <4>. QED  BY <4>1
    <3>2. m + k \in 1 .. m + n /\ i = l + (m + k)
      BY <3>1
    <3>3. x[i] = u[k] /\ y[i] = b[m + k] /\ b[m + k] = u[k]
      BY <1>3, <1>5, <3>1, <3>2
    <3>. QED  BY <3>3
  <2>. QED  BY <2>1, <2>2, <2>3
<1>7. Len(x) = l + m + n /\ Len(y) = l + m + n
  BY <1>5
<1>8. x = y
  BY ONLY <1>6, <1>7, x \in Seq(S), y \in Seq(S)
<1>. QED  BY <1>1, <1>4, <1>8

\* What follows a prefix of a sequence.
LEMMA RestAt ==
  ASSUME NEW S, NEW t \in Seq(S), NEW n \in 0 .. Len(t)
  PROVE  /\ SubSeq(t, n + 1, Len(t)) \in Seq(S) /\ Len(SubSeq(t, n + 1, Len(t))) = Len(t) - n
         /\ \A i \in 1 .. Len(t) - n : SubSeq(t, n + 1, Len(t))[i] = t[n + i]
OBVIOUS
\* Flattening one sequence more puts it behind the others.
LEMMA FlattenAppend ==
  ASSUME NEW S, NEW seqs \in Seq(Seq(S)), NEW t \in Seq(S)
  PROVE  FlattenSeq(Append(seqs, t)) = FlattenSeq(seqs) \o t
<1>1. PICK n \in Nat : n = Len(seqs)
  OBVIOUS
<1>2. PICK more : more = Append(seqs, t)
  OBVIOUS
<1>3. Len(more) = n + 1 /\ more[n + 1] = t /\ \A i \in 1 .. n : more[i] = seqs[i]
  BY <1>1, <1>2
<1>4. CASE n = 0
  <2>7. Len(seqs) = 0
    BY <1>1, <1>4
  <2>1. seqs = << >>
    BY ONLY <2>7, seqs \in Seq(Seq(S))
  <2>5. Append(<< >>, t) = <<t>>
    OBVIOUS
  <2>6. more = <<t>>
    BY <1>2, <2>1, <2>5
  <2>2. FlattenSeq(seqs) = << >>
    BY <2>1 DEF FlattenSeq
  <2>3. FlattenSeq(more) = t
    BY <2>6, FlattenOne
  <2>4. << >> \o t = t
    OBVIOUS
  <2>. QED  BY <1>2, <2>2, <2>3, <2>4
<1>5. CASE n # 0
  <2>1. n \in Nat \ {0} /\ n + 1 \in Nat \ {0}
    BY <1>5
  <2>2. PICK f : /\ f = [i \in 1 .. n |-> IF i = 1 THEN seqs[i] ELSE f[i - 1] \o seqs[i]]
                 /\ FlattenSeq(seqs) = f[n]
    BY <1>1, <2>1, FlattenEquation
  <2>3. PICK g : /\ g = [i \in 1 .. n + 1 |-> IF i = 1 THEN more[i] ELSE g[i - 1] \o more[i]]
                 /\ FlattenSeq(more) = g[n + 1]
    BY <1>3, <2>1, FlattenEquation
  <2> DEFINE wrong == {m \in 1 .. n : f[m] # g[m]}
  <2>4. wrong = {}
    <3>1. SUFFICES ASSUME wrong # {} PROVE FALSE
      OBVIOUS
    <3>2. PICK m \in wrong : \A j \in wrong : ~ (<<j, m>> \in OpToRel(<, Nat))
      <4>1. wrong \subseteq Nat
        OBVIOUS
      <4>. QED  BY <3>1, <4>1, NatLessThanWellFounded, WFMin
    <3>3. m \in 1 .. n /\ f[m] # g[m]
      BY <3>2
    <3>4. f[m] = (IF m = 1 THEN seqs[m] ELSE f[m - 1] \o seqs[m])
      BY <2>2, <3>3
    <3>5. g[m] = (IF m = 1 THEN seqs[m] ELSE g[m - 1] \o seqs[m])
      <4>1. m \in 1 .. n + 1 /\ more[m] = seqs[m]
        BY <1>3, <3>3
      <4>. QED  BY <2>3, <4>1
    <3>6. m # 1 /\ m - 1 \in 1 .. n /\ m - 1 < m /\ m - 1 \in Nat /\ m \in Nat
      BY <3>3, <3>4, <3>5
    <3>7. <<m - 1, m>> \in OpToRel(<, Nat)
      BY <3>6 DEF OpToRel
    <3>8. f[m - 1] = g[m - 1]
      BY <3>2, <3>6, <3>7
    <3>. QED  BY <3>3, <3>4, <3>5, <3>6, <3>8
  <2>5. f[n] = g[n]
    BY <2>1, <2>4
  <2>6. g[n + 1] = g[n] \o more[n + 1]
    <3>1. PICK k : k = n + 1
      OBVIOUS
    <3>2. k \in 1 .. n + 1 /\ k # 1 /\ k - 1 = n
      BY ONLY <2>1, <3>1
    <3>3. g[k] = IF k = 1 THEN more[k] ELSE g[k - 1] \o more[k]
      BY ONLY <2>3, <3>2
    <3>. QED  BY <3>1, <3>2, <3>3
  <2>. QED  BY <1>2, <1>3, <2>2, <2>3, <2>5, <2>6
<1>. QED  BY <1>1, <1>4, <1>5

\* A prefix and the element behind it.
LEMMA PrefixAppend ==
  ASSUME NEW S, NEW s \in Seq(S), NEW m \in 0 .. Len(s) - 1
  PROVE  /\ SubSeq(s, 1, m) \in Seq(S) /\ s[m + 1] \in S
         /\ SubSeq(s, 1, m + 1) = Append(SubSeq(s, 1, m), s[m + 1])
<1>1. m \in Nat /\ m + 1 \in 1 .. Len(s)
  OBVIOUS
<1>2. PICK p : p = SubSeq(s, 1, m)
  OBVIOUS
<1>3. p \in Seq(S) /\ Len(p) = m /\ \A i \in 1 .. m : p[i] = s[i]
  BY <1>1, <1>2
<1>4. PICK q : q = SubSeq(s, 1, m + 1)
  OBVIOUS
<1>5. q \in Seq(S) /\ Len(q) = m + 1 /\ \A i \in 1 .. m + 1 : q[i] = s[i]
  BY <1>1, <1>4
<1>6. PICK x \in S : x = s[m + 1]
  BY <1>1
<1>7. q = Append(p, x)
  BY ONLY <1>1, <1>3, <1>5, <1>6
<1>. QED  BY <1>2, <1>3, <1>4, <1>6, <1>7
\* A stretch of a sequence, a stretch at its end, and the stretch behind it.
LEMMA StretchFacts ==
  ASSUME NEW S, NEW s \in Seq(S), NEW y \in 0 .. Len(s), NEW x \in 0 .. y
  PROVE  /\ SubSeq(s, x + 1, y) \in Seq(S) /\ Len(SubSeq(s, x + 1, y)) = y - x
         /\ \A i \in 1 .. y - x : SubSeq(s, x + 1, y)[i] = s[x + i]
OBVIOUS

LEMMA StretchRest ==
  ASSUME NEW S, NEW s \in Seq(S), NEW y \in 0 .. Len(s), NEW x \in 0 .. y, NEW d \in 0 .. y - x
  PROVE  SubSeq(SubSeq(s, x + 1, y), d + 1, y - x) = SubSeq(s, x + d + 1, y)
<1>1. PICK t \in Seq(S) : t = SubSeq(s, x + 1, y)
  BY StretchFacts
<1>2. Len(t) = y - x /\ \A i \in 1 .. y - x : t[i] = s[x + i]
  BY <1>1, StretchFacts
<1>3. x + d \in 0 .. y /\ y - x \in 0 .. Len(t) /\ d \in 0 .. y - x
  BY <1>2
<1>4. PICK a \in Seq(S), b \in Seq(S) : a = SubSeq(t, d + 1, y - x) /\ b = SubSeq(s, x + d + 1, y)
  BY <1>3, StretchFacts
<1>5. Len(a) = y - x - d /\ \A i \in 1 .. y - x - d : a[i] = t[d + i]
  BY <1>3, <1>4, StretchFacts
<1>6. Len(b) = y - (x + d) /\ \A i \in 1 .. y - (x + d) : b[i] = s[x + d + i]
  BY <1>3, <1>4, StretchFacts
<1>7. PICK n \in Nat : n = y - x - d /\ n = y - (x + d)
  OBVIOUS
<1>8. \A i \in 1 .. n : d + i \in 1 .. y - x /\ x + (d + i) = x + d + i
  BY <1>7
<1>9. \A i \in 1 .. n : a[i] = b[i]
  BY <1>2, <1>5, <1>6, <1>7, <1>8
<1>10. Len(a) = n /\ Len(b) = n
  BY <1>5, <1>6, <1>7
<1>11. a \in Seq(S) /\ b \in Seq(S)
  BY <1>4
<1>12. a = b
  BY ONLY <1>7, <1>9, <1>10, <1>11
<1>. QED  BY <1>1, <1>4, <1>12

LEMMA StretchJoin ==
  ASSUME NEW S, NEW s \in Seq(S), NEW z \in 0 .. Len(s), NEW y \in 0 .. z, NEW x \in 0 .. y
  PROVE  SubSeq(s, x + 1, y) \o SubSeq(s, y + 1, z) = SubSeq(s, x + 1, z)
<1>1. y \in 0 .. Len(s) /\ x \in 0 .. z
  OBVIOUS
<1>2. PICK a \in Seq(S), b \in Seq(S), c \in Seq(S) :
        a = SubSeq(s, x + 1, y) /\ b = SubSeq(s, y + 1, z) /\ c = SubSeq(s, x + 1, z)
  BY <1>1, StretchFacts
<1>3. Len(a) = y - x /\ \A i \in 1 .. y - x : a[i] = s[x + i]
  BY <1>1, <1>2, StretchFacts
<1>4. Len(b) = z - y /\ \A i \in 1 .. z - y : b[i] = s[y + i]
  BY <1>1, <1>2, StretchFacts
<1>5. Len(c) = z - x /\ \A i \in 1 .. z - x : c[i] = s[x + i]
  BY <1>1, <1>2, StretchFacts
<1>6. PICK v : v = a \o b
  OBVIOUS
<1>7. /\ v \in Seq(S) /\ Len(v) = Len(a) + Len(b)
      /\ \A i \in DOMAIN a : v[i] = a[i]
      /\ \A i \in DOMAIN b : v[Len(a) + i] = b[i]
  BY <1>6, ConcatFacts
<1>8. DOMAIN a = 1 .. y - x /\ DOMAIN b = 1 .. z - y
  BY <1>3, <1>4
<1>9. ASSUME NEW i \in 1 .. z - x PROVE v[i] = c[i]
  <2>1. CASE i <= y - x
    <3>1. i \in 1 .. y - x
      BY <2>1
    <3>. QED  BY <1>3, <1>5, <1>7, <1>8, <3>1
  <2>2. CASE ~ (i <= y - x)
    <3>1. PICK j \in 1 .. z - y : i = y - x + j
      <4>1. i - (y - x) \in 1 .. z - y /\ i = y - x + (i - (y - x))
        BY <2>2
      <4>. QED  BY <4>1
    <3>2. v[i] = b[j]
      BY <1>3, <1>7, <1>8, <3>1
    <3>3. x + i = y + j
      BY <3>1
    <3>. QED  BY <1>4, <1>5, <3>1, <3>2, <3>3
  <2>. QED  BY <2>1, <2>2
<1>10. Len(v) = z - x
  BY <1>3, <1>4, <1>7
<1>11. PICK n \in Nat : n = z - x
  OBVIOUS
<1>12. v = c
  BY ONLY <1>2, <1>5, <1>7, <1>9, <1>10, <1>11
<1>. QED  BY <1>2, <1>6, <1>12
\* The first element alone.
LEMMA FirstAlone ==
  ASSUME NEW S, NEW s \in Seq(S), Len(s) >= 1
  PROVE  SubSeq(s, 1, 1) = <<s[1]>>
<1>1. 0 \in 0 .. Len(s) - 1
  OBVIOUS
<1>2. PICK p \in Seq(S), x \in S : p = SubSeq(s, 1, 0) /\ x = s[0 + 1] /\ SubSeq(s, 1, 0 + 1) = Append(p, x)
  BY <1>1, PrefixAppend
<1>3. SubSeq(s, 1, 0) = << >>
  OBVIOUS
<1>4. Append(<< >>, x) = <<x>>
  OBVIOUS
<1>5. SubSeq(s, 1, 1) = Append(p, x) /\ x = s[1]
  BY <1>2
<1>. QED  BY <1>2, <1>3, <1>4, <1>5

\* kept holds the elements of the pieces, each of at most one, in their order.
InOrderOf(kept, pieces) ==
  \E from \in [DOMAIN kept -> DOMAIN pieces] :
    /\ \A k \in DOMAIN kept :
         /\ Len(pieces[from[k]]) = 1 /\ kept[k] = pieces[from[k]][1]
         /\ k <= from[k] /\ \A l \in 1 .. k - 1 : from[l] < from[k]
    /\ \A i \in DOMAIN pieces : Len(pieces[i]) = 1 => \E k \in DOMAIN kept : from[k] = i

\* Flattening keeps the order.
LEMMA FlattenedOrder ==
  ASSUME NEW S, NEW seqs \in Seq(Seq(S)), \A i \in DOMAIN seqs : Len(seqs[i]) <= 1
  PROVE  FlattenSeq(seqs) \in Seq(S) /\ InOrderOf(FlattenSeq(seqs), seqs)
<1>1. CASE Len(seqs) = 0
  <2>1. FlattenSeq(seqs) = << >> /\ seqs = << >>
    BY <1>1 DEF FlattenSeq
  <2>2. DOMAIN FlattenSeq(seqs) = {} /\ DOMAIN seqs = {} /\ FlattenSeq(seqs) \in Seq(S)
    BY <2>1
  <2>3. PICK from : from = [k \in {} |-> 1]
    OBVIOUS
  <2>4. from \in [DOMAIN FlattenSeq(seqs) -> DOMAIN seqs]
    BY <2>2, <2>3
  <2>. QED  BY <2>2, <2>4 DEF InOrderOf
<1>2. CASE Len(seqs) # 0
  <2>1. PICK n \in Nat \ {0} : n = Len(seqs)
    BY <1>2
  <2>2. PICK f : /\ f = [i \in 1 .. n |-> IF i = 1 THEN seqs[i] ELSE f[i - 1] \o seqs[i]]
                 /\ FlattenSeq(seqs) = f[n]
    BY <2>1, FlattenEquation
  <2>3. DOMAIN seqs = 1 .. n /\ \A i \in 1 .. n : seqs[i] \in Seq(S) /\ Len(seqs[i]) \in {0, 1}
    <3>1. DOMAIN seqs = 1 .. n /\ \A i \in DOMAIN seqs : seqs[i] \in Seq(S)
      BY <2>1
    <3>2. ASSUME NEW s \in Seq(S), Len(s) <= 1 PROVE Len(s) \in {0, 1}
      BY <3>2, ShortSequences
    <3>. QED  BY <3>1, <3>2
  <2> DEFINE Orders(m, from) ==
               /\ \A k \in 1 .. Len(f[m]) :
                    /\ Len(seqs[from[k]]) = 1 /\ f[m][k] = seqs[from[k]][1]
                    /\ k <= from[k] /\ \A l \in 1 .. k - 1 : from[l] < from[k]
               /\ \A i \in 1 .. m : Len(seqs[i]) = 1 => \E k \in 1 .. Len(f[m]) : from[k] = i
             Is(m) == f[m] \in Seq(S) /\ \E from \in [1 .. Len(f[m]) -> 1 .. m] : Orders(m, from)
             wrong == {m \in 1 .. n : ~ Is(m)}
  <2>4. wrong = {}
    <3>1. SUFFICES ASSUME wrong # {} PROVE FALSE
      OBVIOUS
    <3>2. PICK m \in wrong : \A j \in wrong : ~ (<<j, m>> \in OpToRel(<, Nat))
      <4>1. wrong \subseteq Nat
        OBVIOUS
      <4>. QED  BY <3>1, <4>1, NatLessThanWellFounded, WFMin
    <3>3. CASE m = 1
      <4>1. f[1] = seqs[1]
        BY <2>1, <2>2
      <4>2. PICK a \in Seq(S) : a = f[1] /\ Len(a) \in {0, 1}
        BY <2>1, <2>3, <4>1
      <4>3. PICK from : from = [k \in 1 .. Len(a) |-> 1]
        OBVIOUS
      <4>4. from \in [1 .. Len(f[1]) -> 1 .. 1]
        BY <4>2, <4>3
      <4>5. Orders(1, from)
        <5>1. \A k \in 1 .. Len(a) : k = 1 /\ from[k] = 1 /\ Len(a) = 1
          <6>1. CASE Len(a) = 0
            BY ONLY <6>1
          <6>2. CASE Len(a) = 1
            <7>1. \A k \in 1 .. Len(a) : k = 1
              BY ONLY <6>2
            <7>. QED  BY ONLY <4>3, <6>2, <7>1
          <6>. QED  BY <4>2, <6>1, <6>2
        <5>2. \A i \in 1 .. 1 : i = 1
          OBVIOUS
        <5>3. ASSUME Len(a) = 1 PROVE 1 \in 1 .. Len(a) /\ from[1] = 1
          BY <4>3, <5>3
        <5>. QED  BY <4>1, <4>2, <5>1, <5>2, <5>3
      <4>. HIDE DEF Orders
      <4>6. Is(1)
        BY <4>2, <4>4, <4>5
      <4>. QED  BY <3>2, <3>3, <4>6
    <3>4. CASE m # 1
      <4>1. m \in 2 .. n /\ m - 1 \in 1 .. n /\ m - 1 < m /\ m \in Nat /\ m - 1 \in Nat
        <5>1. m \in 1 .. n
          BY <3>2
        <5>. HIDE DEF Is, wrong
        <5>. QED  BY <2>1, <3>4, <5>1
      <4>2. <<m - 1, m>> \in OpToRel(<, Nat)
        BY <4>1 DEF OpToRel
      <4>3. Is(m - 1)
        BY <3>2, <4>1, <4>2
      <4>. HIDE DEF wrong
      <4>4. f[m] = f[m - 1] \o seqs[m]
        <5>1. m \in 1 .. n /\ m # 1
          BY <4>1
        <5>. QED  BY ONLY <2>2, <5>1
      <4>5. PICK a \in Seq(S), b \in Seq(S) : a = f[m - 1] /\ b = seqs[m] /\ Len(b) \in {0, 1}
        BY <2>3, <4>1, <4>3
      <4>6. PICK old \in [1 .. Len(a) -> 1 .. m - 1] : Orders(m - 1, old)
        BY <4>3, <4>5
      <4>7. PICK p \in Nat : p = m - 1
        BY <4>1
      <4>8. /\ \A k \in 1 .. Len(a) :
                 /\ old[k] \in 1 .. p
                 /\ Len(seqs[old[k]]) = 1 /\ a[k] = seqs[old[k]][1]
                 /\ k <= old[k] /\ \A l \in 1 .. k - 1 : old[l] < old[k]
            /\ \A i \in 1 .. p : Len(seqs[i]) = 1 => \E k \in 1 .. Len(a) : old[k] = i
        BY <4>5, <4>6, <4>7
      <4>. HIDE DEF Is, Orders
      <4>9. f[m] = a \o b /\ m = p + 1 /\ 1 .. m = (1 .. p) \cup {m} /\ m \notin 1 .. p
        BY <4>1, <4>4, <4>5, <4>7
      <4>10. CASE Len(b) = 0
        <5>1. f[m] = a
          <6>1. b = << >>
            BY <4>5, <4>10
          <6>2. a \o << >> = a
            OBVIOUS
          <6>. QED  BY <4>9, <6>1, <6>2
        <5>2. old \in [1 .. Len(f[m]) -> 1 .. m]
          BY <4>6, <4>7, <4>9, <5>1
        <5>3. \A i \in 1 .. m : Len(seqs[i]) = 1 => \E k \in 1 .. Len(a) : old[k] = i
          <6>1. Len(seqs[m]) # 1
            BY <4>5, <4>10
          <6>2. ASSUME NEW i \in 1 .. m, Len(seqs[i]) = 1 PROVE i \in 1 .. p
            BY ONLY <4>9, <6>1, <6>2
          <6>. QED  BY ONLY <4>8, <6>2
        <5>4. Orders(m, old)
          BY <4>8, <5>1, <5>3 DEF Orders
        <5>5. f[m] \in Seq(S)
          BY <5>1
        <5>6. Is(m)
          BY <5>2, <5>4, <5>5 DEF Is
        <5>. QED  BY <3>2, <5>6 DEF wrong
      <4>11. CASE Len(b) = 1
        <5>1. PICK q \in Nat : q = Len(a)
          OBVIOUS
        <5>2. /\ f[m] \in Seq(S) /\ Len(f[m]) = q + 1
              /\ \A k \in 1 .. q : f[m][k] = a[k]
              /\ f[m][q + 1] = b[1]
          <6>1. a \in Seq(S) /\ b \in Seq(S)
            OBVIOUS
          <6>2. /\ a \o b \in Seq(S) /\ Len(a \o b) = Len(a) + 1
                /\ \A k \in 1 .. Len(a) : (a \o b)[k] = a[k]
                /\ (a \o b)[Len(a) + 1] = b[1]
            BY <4>11, <6>1, OneBehind
          <6>. QED  BY ONLY <4>9, <5>1, <6>2
        <5>3. PICK from : from = [k \in 1 .. q + 1 |-> IF k = q + 1 THEN m ELSE old[k]]
          OBVIOUS
        <5>4. /\ \A k \in 1 .. q : from[k] = old[k] /\ old[k] \in 1 .. p /\ k \in 1 .. q + 1 /\ k <= old[k]
              /\ from[q + 1] = m /\ q + 1 \in 1 .. q + 1
          BY <4>8, <5>1, <5>3
        <5>5. from \in [1 .. Len(f[m]) -> 1 .. m]
          <6>1. \A k \in 1 .. q + 1 : from[k] \in 1 .. m
            <7>1. m \in 1 .. m /\ \A j \in 1 .. p : j \in 1 .. m
              BY <4>9
            <7>2. \A k \in 1 .. q + 1 : k = q + 1 \/ k \in 1 .. q
              BY <5>1
            <7>. QED  BY ONLY <5>4, <7>1, <7>2
          <6>2. from \in [1 .. q + 1 -> 1 .. m]
            BY ONLY <5>3, <6>1
          <6>. QED  BY <5>2, <6>2
        <5>6. q <= p
          <6>1. CASE q = 0
            BY <6>1
          <6>2. CASE q # 0
            <7>1. q \in 1 .. q
              BY <6>2
            <7>2. q <= old[q] /\ old[q] \in 1 .. p
              BY <5>4, <7>1
            <7>. QED  BY <7>2
          <6>. QED  BY <6>1, <6>2
        <5>7. ASSUME NEW k \in 1 .. q + 1
              PROVE  /\ Len(seqs[from[k]]) = 1 /\ f[m][k] = seqs[from[k]][1]
                     /\ k <= from[k] /\ \A l \in 1 .. k - 1 : from[l] < from[k]
          <6>1. CASE k = q + 1
            <7>1. from[k] = m /\ f[m][k] = b[1] /\ k <= m
              BY <4>9, <5>2, <5>4, <5>6, <6>1
            <7>2. \A l \in 1 .. k - 1 : l \in 1 .. q
              BY <6>1
            <7>3. \A l \in 1 .. k - 1 : from[l] < from[k]
              BY <4>9, <5>4, <7>1, <7>2
            <7>. QED  BY <4>5, <4>11, <7>1, <7>3
          <6>2. CASE k # q + 1
            <7>1. k \in 1 .. q /\ \A l \in 1 .. k - 1 : l \in 1 .. q
              BY <6>2
            <7>. QED  BY <4>8, <5>1, <5>2, <5>4, <7>1
          <6>. QED  BY <6>1, <6>2
        <5>8. ASSUME NEW i \in 1 .. m, Len(seqs[i]) = 1
              PROVE  \E k \in 1 .. q + 1 : from[k] = i
          <6>1. CASE i = m
            BY <5>4, <6>1
          <6>2. CASE i # m
            BY <4>8, <4>9, <5>1, <5>4, <5>8, <6>2
          <6>. QED  BY <6>1, <6>2
        <5>9. Orders(m, from)
          BY <5>2, <5>7, <5>8 DEF Orders
        <5>10. Is(m)
          BY <5>2, <5>5, <5>9 DEF Is
        <5>. QED  BY <3>2, <5>10 DEF wrong
      <4>. QED  BY <4>5, <4>10, <4>11
    <3>. QED  BY <3>3, <3>4
  <2>5. f[n] \in Seq(S) /\ \E from \in [1 .. Len(f[n]) -> 1 .. n] : Orders(n, from)
    <3>1. n \in 1 .. n
      BY <2>1
    <3>. HIDE DEF Orders
    <3>2. Is(n)
      BY <2>4, <3>1
    <3>. QED  BY <3>2
  <2>6. PICK g \in Seq(S) : g = f[n] /\ FlattenSeq(seqs) = g /\ DOMAIN g = 1 .. Len(g)
    <3>1. f[n] \in Seq(S) /\ FlattenSeq(seqs) = f[n]
      BY <2>2, <2>5
    <3>2. \A g \in Seq(S) : DOMAIN g = 1 .. Len(g)
      OBVIOUS
    <3>. QED  BY ONLY <3>1, <3>2
  <2>7. PICK from \in [1 .. Len(g) -> 1 .. n] : Orders(n, from)
    BY <2>5, <2>6
  <2>8. /\ \A k \in 1 .. Len(g) :
             /\ Len(seqs[from[k]]) = 1 /\ g[k] = seqs[from[k]][1]
             /\ k <= from[k] /\ \A l \in 1 .. k - 1 : from[l] < from[k]
        /\ \A i \in 1 .. n : Len(seqs[i]) = 1 => \E k \in 1 .. Len(g) : from[k] = i
    BY <2>6, <2>7
  <2>9. from \in [DOMAIN g -> 1 .. n]
    BY <2>6
  <2>10. DOMAIN seqs = 1 .. n
    BY <2>3
  <2>11. InOrderOf(g, seqs)
    <3>1. DOMAIN g = 1 .. Len(g) /\ from \in [DOMAIN g -> DOMAIN seqs]
      BY ONLY <2>6, <2>9, <2>10
    <3>2. /\ \A k \in DOMAIN g :
               /\ Len(seqs[from[k]]) = 1 /\ g[k] = seqs[from[k]][1]
               /\ k <= from[k] /\ \A l \in 1 .. k - 1 : from[l] < from[k]
          /\ \A i \in DOMAIN seqs : Len(seqs[i]) = 1 => \E k \in DOMAIN g : from[k] = i
      BY ONLY <2>8, <2>10, <3>1
    <3>. QED  BY ONLY <3>1, <3>2, Zenon DEF InOrderOf
  <2>. QED  BY ONLY <2>6, <2>11
<1>. QED  BY <1>1, <1>2

\* The place of each element of S in an order R.
Places(S, R) == [x \in S |-> Cardinality({y \in S : <<y, x>> \in R}) + 1]

\* A finite set in a strict total order: the number of those before an element,
\* and one, is its place.
LEMMA PlacesSort ==
  ASSUME NEW S, IsFiniteSet(S), NEW R,
         \A x \in S : <<x, x>> \notin R,
         \A x, y, z \in S : <<x, y>> \in R /\ <<y, z>> \in R => <<x, z>> \in R,
         \A x, y \in S : x # y => <<x, y>> \in R \/ <<y, x>> \in R,
         NEW place, place = Places(S, R)
  PROVE  /\ \A x \in S : place[x] \in 1 .. Cardinality(S)
         /\ \A x, y \in S : <<x, y>> \in R => place[x] < place[y]
         /\ \A i \in 1 .. Cardinality(S) : \E x \in S : place[x] = i
<1>1. PICK before : before = [x \in S |-> {y \in S : <<y, x>> \in R}]
  OBVIOUS
<1>2. PICK n \in Nat : n = Cardinality(S)
  BY FS_CardinalityType
<1>3. ASSUME NEW x \in S
      PROVE  /\ IsFiniteSet(before[x]) /\ Cardinality(before[x]) \in Nat
             /\ place[x] = Cardinality(before[x]) + 1 /\ place[x] \in 1 .. n
  <2>1. before[x] \in SUBSET S /\ x \notin before[x]
    BY <1>1
  <2>2. IsFiniteSet(before[x]) /\ Cardinality(before[x]) <= Cardinality(S)
        /\ (Cardinality(S) = Cardinality(before[x]) => S = before[x])
    BY <2>1, FS_Subset
  <2>3. PICK b \in Nat : b = Cardinality(before[x])
    BY <2>2, FS_CardinalityType
  <2>4. b <= n /\ b # n
    BY <1>2, <2>1, <2>2, <2>3
  <2>5. place[x] = b + 1
    BY <1>1, <2>3 DEF Places
  <2>. QED  BY <2>2, <2>3, <2>4, <2>5
<1>4. ASSUME NEW x \in S, NEW y \in S, <<x, y>> \in R
      PROVE  place[x] < place[y]
  <2>1. before[x] \in SUBSET before[y] /\ x \in before[y] /\ x \notin before[x]
    BY <1>1, <1>4
  <2>2. Cardinality(before[x]) <= Cardinality(before[y])
        /\ Cardinality(before[x]) # Cardinality(before[y])
    BY <1>3, <2>1, FS_Subset
  <2>3. PICK a \in Nat, b \in Nat : a = Cardinality(before[x]) /\ b = Cardinality(before[y])
    BY <1>3
  <2>4. place[x] = a + 1 /\ place[y] = b + 1 /\ a <= b /\ a # b
    BY <1>3, <2>2, <2>3
  <2>. QED  BY ONLY <2>4
<1>5. place \in Injection(S, 1 .. n)
  <2>1. place \in [S -> 1 .. n]
    BY <1>3 DEF Places
  <2>2. ASSUME NEW x \in S, NEW y \in S, place[x] = place[y] PROVE x = y
    <3>1. place[x] \in Nat /\ ~ (place[x] < place[y]) /\ ~ (place[y] < place[x])
      BY <1>3, <2>2
    <3>. QED  BY <1>4, <3>1
  <2>. QED  BY <2>1, <2>2 DEF Injection, IsInjective
<1>6. place \in Surjection(S, 1 .. n)
  <2>1. IsFiniteSet(1 .. n) /\ Cardinality(1 .. n) = n
    BY FS_Interval
  <2>. QED  BY <1>2, <1>5, <2>1, FS_Injection
<1>. QED  BY <1>2, <1>3, <1>4, <1>6 DEF Surjection
================================================================================
