----------------------------- MODULE RecordsProofs -----------------------------
(* Proofs about what must outlive a crash, with any number of tasks, keys,   *)
(* entries, calls and crashes: the audit log (AuditLog), the local KMS       *)
(* (LocalKms), the downloaded files of a model (ModelFiles), and the         *)
(* rotation of keys and envelope encryption (DataKeys).                      *)
EXTENDS AuditLog, LocalKms, DataKeys, ModelFiles, FiniteSetTheorems, WellFoundedInduction, TLAPS

(***************************************************************************)
(* The audit log                                                           *)
(***************************************************************************)

\* A strict order on a finite set has a maximal element.
LEMMA MaximalExists ==
  ASSUME NEW S, IsFiniteSet(S), S # {}, NEW R,
         \A x \in S : <<x, x>> \notin R,
         \A x, y, z \in S : <<x, y>> \in R /\ <<y, z>> \in R => <<x, z>> \in R
  PROVE  \E x \in S : \A y \in S : <<x, y>> \notin R
  <1>1. PICK above : above = [x \in S |-> {y \in S : <<x, y>> \in R}]
    OBVIOUS
  <1>2. PICK T : T = {above[x] : x \in S}
    OBVIOUS
  <1>3. T # {} /\ T \subseteq SUBSET S
    <2>1. \A x \in S : above[x] \in T
      BY <1>2
    <2>2. \A x \in S : above[x] \subseteq S
      BY <1>1
    <2>3. \A t \in T : t \subseteq S
      BY <1>2, <2>2
    <2>4. QED
      BY <2>1, <2>3
  <1>4. T \subseteq FiniteSubsetsOf(S)
    BY <1>3, FS_Subset DEF FiniteSubsetsOf
  <1>5. IsWellFoundedOn(StrictSubsetOrdering(S), FiniteSubsetsOf(S))
    BY FS_StrictSubsetOrderingWellFounded
  <1>6. PICK least \in T : \A t \in T : <<t, least>> \notin StrictSubsetOrdering(S)
    BY <1>3, <1>4, <1>5, WFMin
  <1>7. PICK x \in S : least = above[x]
    BY <1>2
  <1>8. ASSUME NEW y \in S, <<x, y>> \in R
        PROVE  FALSE
    <2>1. above[y] \in T /\ above[y] \in SUBSET S /\ above[x] \in SUBSET S
      BY <1>1, <1>2
    <2>2. above[y] \subseteq above[x]
      BY <1>1, <1>8
    <2>3. y \in above[x] /\ y \notin above[y]
      BY <1>1, <1>8
    <2>4. <<above[y], above[x]>> \in StrictSubsetOrdering(S)
      BY <2>1, <2>2, <2>3 DEF StrictSubsetOrdering
    <2>5. QED
      BY <1>6, <1>7, <2>1, <2>4
  <1>9. QED
    BY <1>8

\* Every position holds an entry or one of the marks.
LEMMA EntryFields ==
  ASSUME TypeOK, NEW i \in DOMAIN file, IsEntry(file[i])
  PROVE  /\ i \in Nat /\ file[i] \in AuditEntries
         /\ file[i].id \in 1 .. MaxEntries /\ file[i].id \in Nat
         /\ file[i].time \in Nat /\ file[i].details \in Details
  BY AuditConstants DEF TypeOK, IsEntry, AuditEntries

\* "Before" orders the entries strictly and totally.
LEMMA EntriesOrdered ==
  ASSUME TypeOK, NEW S \in SUBSET Readable
  PROVE  /\ \A i \in S : i \in DOMAIN file /\ i \in Nat /\ file[i].time \in Nat
         /\ IsFiniteSet(S)
         /\ \A i \in S : ~Before(i, i)
         /\ \A i, j \in S : i = j \/ Before(i, j) \/ Before(j, i)
         /\ \A i, j, k \in S : Before(i, j) /\ Before(j, k) => Before(i, k)
         /\ \A i, j \in S : Before(i, j) => ~Before(j, i)
  <1>1. \A i \in S : i \in DOMAIN file /\ IsEntry(file[i])
    BY DEF Readable
  <1>2. \A i \in S : i \in DOMAIN file /\ i \in Nat /\ file[i].time \in Nat
    BY <1>1, EntryFields
  <1>3. IsFiniteSet(S)
    <2>1. Len(file) \in Nat /\ DOMAIN file = 1 .. Len(file)
      BY DEF TypeOK
    <2>2. IsFiniteSet(DOMAIN file)
      BY <2>1, FS_Interval
    <2>3. QED
      BY <1>1, <2>2, FS_Subset
  <1>4. QED
    BY <1>2, <1>3 DEF Before

\* Readable entries have a last one and a first one.
LEMMA LastExists ==
  ASSUME TypeOK, NEW S \in SUBSET Readable, S # {}
  PROVE  \E i \in S : IsLast(i, S)
  <1>1. PICK R : R = {p \in S \X S : Before(p[1], p[2])}
    OBVIOUS
  <1>2. \A i, j \in S : <<i, j>> \in R <=> Before(i, j)
    BY <1>1
  <1>3. /\ IsFiniteSet(S)
        /\ \A i \in S : ~Before(i, i)
        /\ \A i, j \in S : i = j \/ Before(i, j) \/ Before(j, i)
        /\ \A i, j, k \in S : Before(i, j) /\ Before(j, k) => Before(i, k)
    BY EntriesOrdered
  <1>4. PICK i \in S : \A j \in S : <<i, j>> \notin R
    BY <1>2, <1>3, MaximalExists, Zenon
  <1>5. QED
    BY <1>2, <1>3, <1>4 DEF IsLast

\* The same for a first entry.
LEMMA FirstExists ==
  ASSUME TypeOK, NEW S \in SUBSET Readable, S # {}
  PROVE  \E i \in S : \A j \in S : j = i \/ Before(i, j)
  <1>1. PICK R : R = {p \in S \X S : Before(p[2], p[1])}
    OBVIOUS
  <1>2. \A i, j \in S : <<i, j>> \in R <=> Before(j, i)
    BY <1>1
  <1>3. /\ IsFiniteSet(S)
        /\ \A i \in S : ~Before(i, i)
        /\ \A i, j \in S : i = j \/ Before(i, j) \/ Before(j, i)
        /\ \A i, j, k \in S : Before(i, j) /\ Before(j, k) => Before(i, k)
    BY EntriesOrdered
  <1>4. PICK i \in S : \A j \in S : <<i, j>> \notin R
    BY <1>2, <1>3, MaximalExists, Zenon
  <1>5. QED
    BY <1>2, <1>3, <1>4

\* What log_event links to.
LEMMA PreviousFacts ==
  ASSUME TypeOK
  PROVE  \/ Recent = {} /\ Previous = NoHash
         \/ \E i \in Recent : IsLast(i, Recent) /\ Previous = file[i].id /\ Previous \in 1 .. MaxEntries
  <1>1. CASE Recent = {}
    BY <1>1 DEF Previous
  <1>2. CASE Recent # {}
    <2>1. \E i \in Recent : IsLast(i, Recent)
      BY <1>2, LastExists DEF Recent
    <2>2. PICK i : i = CHOOSE j \in Recent : IsLast(j, Recent)
      OBVIOUS
    <2>3. i \in Recent /\ IsLast(i, Recent)
      BY <2>1, <2>2, Zenon
    <2>4. Previous = file[i].id
      BY <1>2, <2>2 DEF Previous, Latest
    <2>5. file[i].id \in 1 .. MaxEntries
      BY <2>3, EntryFields DEF Recent, Readable
    <2>6. QED
      BY <2>3, <2>4, <2>5
  <1>3. QED
    BY <1>1, <1>2

-----------------------------------------------------------------------------
\* The file only grows, one write at a time.
LEMMA FileGrows ==
  ASSUME TypeOK, NEW x, file' = Append(file, x)
  PROVE  /\ DOMAIN file = 1 .. Len(file) /\ Len(file) \in Nat
         /\ Len(file') = Len(file) + 1 /\ DOMAIN file' = 1 .. Len(file) + 1
         /\ \A i \in DOMAIN file : i \in DOMAIN file' /\ file'[i] = file[i]
         /\ file'[Len(file) + 1] = x
  BY DEF TypeOK

\* Which entries can be read after a write.
LEMMA ReadableGrows ==
  ASSUME TypeOK, NEW x, file' = Append(file, x), NEW i
  PROVE  i \in Readable' <=> \/ i \in Readable /\ (i = Len(file) => x = Newline)
                             \/ i = Len(file) + 1 /\ IsEntry(x) /\ (Len(file) > 0 => file[Len(file)] = Newline)
  <1>1. /\ DOMAIN file = 1 .. Len(file) /\ Len(file) \in Nat
        /\ Len(file') = Len(file) + 1 /\ DOMAIN file' = 1 .. Len(file) + 1
        /\ \A j \in 1 .. Len(file) : file'[j] = file[j]
        /\ file'[Len(file) + 1] = x
    BY FileGrows
  <1>2. CASE i \in 1 .. Len(file)
    <2>1. i \in Readable <=> /\ IsEntry(file[i]) /\ (i > 1 => file[i - 1] = Newline)
                             /\ (i < Len(file) => file[i + 1] = Newline)
      BY <1>1, <1>2 DEF Readable
    <2>2. i \in Readable' <=> /\ IsEntry(file'[i]) /\ (i > 1 => file'[i - 1] = Newline)
                              /\ (i < Len(file') => file'[i + 1] = Newline)
      BY <1>1, <1>2 DEF Readable
    <2>3. (i > 1 => file'[i - 1] = file[i - 1]) /\ file'[i] = file[i] /\ i < Len(file')
      BY <1>1, <1>2
    <2>4. CASE i = Len(file)
      <3>0. PICK n \in Nat : n = Len(file)
        BY <1>1
      <3>1. i + 1 = Len(file) + 1 /\ ~(i < Len(file)) /\ i # Len(file) + 1
        BY <2>4, <3>0
      <3>2. file'[i + 1] = x
        BY <1>1, <3>1, Zenon
      <3>3. QED
        BY <2>1, <2>2, <2>3, <2>4, <3>1, <3>2, Zenon
    <2>5. CASE i # Len(file)
      <3>0. PICK n \in Nat : n = Len(file)
        BY <1>1
      <3>1. i + 1 \in 1 .. Len(file) /\ i < Len(file) /\ i # Len(file) + 1
        BY <1>2, <2>5, <3>0
      <3>2. file'[i + 1] = file[i + 1]
        BY <1>1, <3>1
      <3>3. QED
        BY <2>1, <2>2, <2>3, <2>5, <3>1, <3>2, Zenon
    <2>6. QED
      BY <2>4, <2>5
  <1>3. CASE i = Len(file) + 1
    <2>1. i \notin Readable /\ i \in DOMAIN file' /\ ~(i < Len(file'))
      BY <1>1, <1>3 DEF Readable
    <2>2. i \in Readable' <=> IsEntry(x) /\ (i > 1 => file'[i - 1] = Newline)
      BY <1>1, <1>3, <2>1 DEF Readable
    <2>3. i > 1 <=> Len(file) > 0
      BY <1>1, <1>3
    <2>4. Len(file) > 0 => file'[i - 1] = file[Len(file)]
      <3>1. SUFFICES ASSUME Len(file) > 0 PROVE file'[i - 1] = file[Len(file)]
        OBVIOUS
      <3>2. i - 1 = Len(file) /\ Len(file) \in 1 .. Len(file)
        BY <1>1, <1>3, <3>1
      <3>3. QED
        BY <1>1, <3>2, Zenon
    <2>5. QED
      BY <1>3, <2>1, <2>2, <2>3, <2>4, Zenon
  <1>4. CASE i \notin 1 .. Len(file) /\ i # Len(file) + 1
    BY <1>1, <1>4 DEF Readable
  <1>5. QED
    BY <1>2, <1>3, <1>4

\* A call at work holds an entry of its own.
CallsSound ==
  \A l \in Loggers : pc[l] # "idle" => entry[l] \in AuditEntries /\ entry[l].id <= started

\* The types hold at the start ...
LEMMA AuditTypesInit == Init => TypeOK /\ CallsSound
  <1> SUFFICES ASSUME Init PROVE TypeOK /\ CallsSound
    OBVIOUS
  <1>1. 0 \in 0 .. MaxTime /\ 0 \in 0 .. MaxEntries /\ 0 \in 0 .. MaxAborts
    BY AuditConstants
  <1>2. QED
    BY <1>1 DEF Init, TypeOK, CallsSound

\* ... after a call has stamped its entry, ...
LEMMA StampTypes ==
  ASSUME TypeOK, CallsSound, NEW l \in Loggers, NEW d \in Details, Stamp(l, d)
  PROVE  TypeOK' /\ CallsSound'
  <1>1. PICK e : e = [id |-> started + 1, time |-> now, details |-> d, prev |-> NoHash]
    OBVIOUS
  <1>2. started \in Nat /\ started + 1 \in 1 .. MaxEntries /\ started' = started + 1 /\ started' \in 0 .. MaxEntries
    BY AuditConstants DEF Stamp, TypeOK
  <1>3. e \in AuditEntries /\ e.id = started + 1
    BY <1>1, <1>2 DEF TypeOK, AuditEntries
  <1>4. /\ pc[l] = "idle" /\ entry' = [entry EXCEPT ![l] = e] /\ pc' = [pc EXCEPT ![l] = "read"]
        /\ trouble' \subseteq Troubles
        /\ UNCHANGED <<file, now, acked, aborts, report>>
    BY <1>1 DEF Stamp, TypeOK, Troubles
  <1>5. acked' \subseteq 1 .. started'
    BY <1>2, <1>4 DEF TypeOK
  <1>6. CallsSound'
    <2>1. \A m \in Loggers : pc'[m] # "idle" => entry'[m] \in AuditEntries /\ entry'[m].id <= started + 1
      <3> TAKE m \in Loggers
      <3> HAVE pc'[m] # "idle"
      <3>1. CASE m = l
        BY <1>2, <1>3, <1>4, <3>1 DEF TypeOK
      <3>2. CASE m # l
        <4>1. entry'[m] = entry[m] /\ pc[m] # "idle"
          BY <1>4, <3>2 DEF TypeOK
        <4>2. entry[m] \in AuditEntries /\ entry[m].id <= started /\ entry[m].id \in Nat
          BY <4>1 DEF CallsSound, AuditEntries
        <4>3. QED
          BY <1>2, <4>1, <4>2
      <3>3. QED
        BY <3>1, <3>2
    <2>2. QED
      BY <1>2, <2>1 DEF CallsSound
  <1>7. QED
    BY <1>2, <1>3, <1>4, <1>5, <1>6 DEF TypeOK

\* ... after it has read the last entry, ...
LEMMA ReadLastTypes ==
  ASSUME TypeOK, CallsSound, NEW l \in Loggers, ReadLast(l)
  PROVE  TypeOK' /\ CallsSound'
  <1>1. PICK p \in 1 .. MaxEntries \cup {NoHash} : p = Previous
    BY PreviousFacts
  <1>2. entry[l] \in AuditEntries /\ entry[l].id <= started
    BY DEF ReadLast, CallsSound
  <1>3. entry' = [entry EXCEPT ![l].prev = p]
    BY <1>1 DEF ReadLast
  <1>4. entry'[l] = [entry[l] EXCEPT !.prev = p] /\ \A m \in Loggers \ {l} : entry'[m] = entry[m]
    BY <1>3 DEF TypeOK
  <1>5. entry'[l] \in AuditEntries /\ entry'[l].id = entry[l].id
    BY <1>2, <1>4 DEF AuditEntries
  <1>6. entry' \in [Loggers -> AuditEntries \cup {Blank}]
    BY <1>3, <1>4, <1>5 DEF TypeOK
  <1>7. QED
    BY <1>2, <1>4, <1>5, <1>6 DEF ReadLast, TypeOK, CallsSound, Troubles

\* ... and after every step.
LEMMA AuditTypesStep == TypeOK /\ CallsSound /\ [Next]_vars => TypeOK' /\ CallsSound'
  <1> SUFFICES ASSUME TypeOK, CallsSound, [Next]_vars PROVE TypeOK' /\ CallsSound'
    OBVIOUS
  <1>1. ASSUME NEW l \in Loggers, WriteEntry(l) PROVE TypeOK' /\ CallsSound'
    <2>1. entry[l] \in AuditEntries
      BY <1>1 DEF WriteEntry, CallsSound
    <2>2. file' \in Seq(AuditEntries \cup {Newline, Torn})
      BY <1>1, <2>1 DEF WriteEntry, Written, TypeOK
    <2>3. QED
      BY <1>1, <2>2 DEF WriteEntry, TypeOK, CallsSound
  <1>2. ASSUME NEW l \in Loggers, WriteNewline(l) PROVE TypeOK' /\ CallsSound'
    <2>1. entry[l].id \in 1 .. started
      BY <1>2 DEF WriteNewline, CallsSound, AuditEntries, TypeOK
    <2>2. file' \in Seq(AuditEntries \cup {Newline, Torn})
      <3>1. PICK X : X = AuditEntries \cup {Newline, Torn}
        OBVIOUS
      <3>2. file \in Seq(X) /\ Newline \in X /\ file' = Append(file, Newline)
        BY <1>2, <3>1 DEF WriteNewline, TypeOK
      <3>3. QED
        BY <3>1, <3>2
    <2>3. QED
      BY <1>2, <2>1, <2>2 DEF WriteNewline, TypeOK, CallsSound
  <1>3. ASSUME NEW l \in Loggers, Abort(l) PROVE TypeOK' /\ CallsSound'
    <2>1. file' \in Seq(AuditEntries \cup {Newline, Torn})
      <3>1. PICK X : X = AuditEntries \cup {Newline, Torn}
        OBVIOUS
      <3>2. /\ file \in Seq(X) /\ Newline \in X /\ Torn \in X
            /\ (file' = file \/ file' = Append(file, Newline) \/ file' = Append(file, Torn))
        BY <1>3, <3>1 DEF Abort, TypeOK
      <3>3. QED
        BY <3>1, <3>2
    <2>2. aborts' \in 0 .. MaxAborts
      BY <1>3, AuditConstants DEF Abort, TypeOK
    <2>3. QED
      BY <1>3, <2>1, <2>2 DEF Abort, TypeOK, CallsSound
  <1>4. CASE Verify
    BY <1>4 DEF Verify, TypeOK, CallsSound
  <1>5. CASE Tick
    <2>1. now' \in 0 .. MaxTime
      BY <1>5, AuditConstants DEF Tick, TypeOK
    <2>2. QED
      BY <1>5, <2>1 DEF Tick, TypeOK, CallsSound
  <1>6. CASE UNCHANGED vars
    BY <1>6 DEF vars, TypeOK, CallsSound
  <1>7. QED
    BY <1>1, <1>2, <1>3, <1>4, <1>5, <1>6, StampTypes, ReadLastTypes DEF Next

-----------------------------------------------------------------------------
\* The hash a call is about to link to is in the file.
Linked ==
  \A l \in Loggers : pc[l] = "append" /\ entry[l].prev # NoHash =>
    \E j \in DOMAIN file : IsEntry(file[j]) /\ file[j].id = entry[l].prev

\* No id is in the file twice, none twice on its way there.
IdsUnique ==
  /\ \A i \in DOMAIN file : IsEntry(file[i]) => file[i].id <= started
  /\ \A i, j \in DOMAIN file : IsEntry(file[i]) /\ IsEntry(file[j]) /\ file[i].id = file[j].id => i = j
  /\ \A l \in Loggers : pc[l] \in {"read", "append"} =>
       \A i \in DOMAIN file : IsEntry(file[i]) => file[i].id # entry[l].id
  /\ \A l, m \in Loggers : pc[l] # "idle" /\ pc[m] # "idle" /\ entry[l].id = entry[m].id => l = m

LogInv == TypeOK /\ CallsSound /\ LinksPointBack /\ Linked /\ IdsUnique

\* A step that writes no entry keeps the entries where they are.
LEMMA NoNewEntry ==
  ASSUME TypeOK, file' = file \/ file' = Append(file, Newline) \/ file' = Append(file, Torn)
  PROVE  /\ \A i \in DOMAIN file : i \in DOMAIN file' /\ file'[i] = file[i]
         /\ \A i \in DOMAIN file' : IsEntry(file'[i]) => i \in DOMAIN file /\ file'[i] = file[i]
  <1>1. CASE file' = file
    BY <1>1
  <1>2. ASSUME NEW x \in {Newline, Torn}, file' = Append(file, x)
        PROVE  /\ \A i \in DOMAIN file : i \in DOMAIN file' /\ file'[i] = file[i]
               /\ \A i \in DOMAIN file' : IsEntry(file'[i]) => i \in DOMAIN file /\ file'[i] = file[i]
    <2>1. /\ DOMAIN file = 1 .. Len(file) /\ Len(file) \in Nat /\ DOMAIN file' = 1 .. Len(file) + 1
          /\ \A i \in DOMAIN file : i \in DOMAIN file' /\ file'[i] = file[i]
          /\ file'[Len(file) + 1] = x
      BY <1>2, FileGrows
    <2>2. \A i \in DOMAIN file' : i \in DOMAIN file \/ i = Len(file) + 1
      BY <2>1
    <2>3. ~IsEntry(x)
      BY <1>2 DEF IsEntry
    <2>4. QED
      BY <2>1, <2>2, <2>3
  <1>3. QED
    BY <1>1, <1>2

\* A step that writes no entry and stamps none.
LEMMA QuietStepKeeps ==
  ASSUME LogInv, TypeOK', CallsSound', 
         file' = file \/ file' = Append(file, Newline) \/ file' = Append(file, Torn),
         started' = started, entry' = entry,
         \A l \in Loggers : pc'[l] = pc[l] \/ pc'[l] = "idle"
  PROVE  LogInv'
  <1>1. /\ \A i \in DOMAIN file : i \in DOMAIN file' /\ file'[i] = file[i]
        /\ \A i \in DOMAIN file' : IsEntry(file'[i]) => i \in DOMAIN file /\ file'[i] = file[i]
    BY NoNewEntry DEF LogInv
  <1>2. LinksPointBack'
    <2> SUFFICES ASSUME NEW i \in DOMAIN file', IsEntry(file'[i]), file'[i].prev # NoHash
                 PROVE  \E j \in 1 .. i - 1 : IsEntry(file'[j]) /\ file'[j].id = file'[i].prev
      BY DEF LinksPointBack
    <2>1. i \in DOMAIN file /\ file'[i] = file[i]
      BY <1>1
    <2>2. PICK j \in 1 .. i - 1 : IsEntry(file[j]) /\ file[j].id = file[i].prev
      BY <2>1 DEF LogInv, LinksPointBack
    <2>3. j \in DOMAIN file
      BY <2>1, <2>2 DEF LogInv, TypeOK
    <2>4. QED
      BY <1>1, <2>1, <2>2, <2>3
  <1>3. Linked'
    BY <1>1 DEF LogInv, Linked
  <1>4. IdsUnique'
    <2>1. \A l \in Loggers : (pc'[l] # "idle" => pc[l] # "idle") /\ (pc'[l] \in {"read", "append"} => pc[l] \in {"read", "append"})
      OBVIOUS
    <2>2. QED
      BY <1>1, <2>1 DEF LogInv, IdsUnique
  <1>5. QED
    BY <1>2, <1>3, <1>4 DEF LogInv

\* A new entry has an identifier of its own.
LEMMA StampKeeps ==
  ASSUME LogInv, TypeOK', CallsSound', NEW l \in Loggers, NEW d \in Details, Stamp(l, d)
  PROVE  LogInv'
  <1>1. /\ pc[l] = "idle" /\ pc'[l] = "read" /\ entry'[l].id = started + 1 /\ started' = started + 1 /\ file' = file
        /\ \A m \in Loggers \ {l} : pc'[m] = pc[m] /\ entry'[m] = entry[m]
        /\ started \in Nat
    BY DEF Stamp, LogInv, TypeOK
  <1>2. LinksPointBack'
    BY <1>1 DEF LogInv, LinksPointBack
  <1>3. Linked'
    BY <1>1 DEF LogInv, Linked
  <1>4. /\ \A i \in DOMAIN file : IsEntry(file[i]) => file[i].id \in Nat /\ file[i].id <= started
        /\ \A m \in Loggers \ {l} : pc[m] # "idle" => entry[m].id \in Nat /\ entry[m].id <= started
    BY EntryFields DEF LogInv, IdsUnique, CallsSound, AuditEntries
  <1>5. /\ \A i \in DOMAIN file : IsEntry(file[i]) => file[i].id # started + 1 /\ file[i].id <= started + 1
        /\ \A m \in Loggers \ {l} : pc[m] # "idle" => entry[m].id # started + 1
    BY <1>1, <1>4
  <1>6. IdsUnique'
    BY <1>1, <1>5 DEF LogInv, IdsUnique
  <1>7. QED
    BY <1>2, <1>3, <1>6 DEF LogInv

\* What a call reads as the last entry is an earlier one.
LEMMA ReadLastKeeps ==
  ASSUME LogInv, TypeOK', CallsSound', NEW l \in Loggers, ReadLast(l)
  PROVE  LogInv'
  <1>1. /\ pc[l] = "read" /\ pc'[l] = "append" /\ entry'[l] = [entry[l] EXCEPT !.prev = Previous]
        /\ started' = started /\ file' = file
        /\ \A m \in Loggers \ {l} : pc'[m] = pc[m] /\ entry'[m] = entry[m]
    BY DEF ReadLast, LogInv, TypeOK
  <1>2. entry[l] \in AuditEntries
    BY <1>1 DEF LogInv, CallsSound
  <1>3. entry'[l].id = entry[l].id /\ entry'[l].prev = Previous
    BY <1>1, <1>2 DEF AuditEntries
  <1>4. \A m \in Loggers : entry'[m].id = entry[m].id
    BY <1>1, <1>3
  <1>5. LinksPointBack'
    BY <1>1 DEF LogInv, LinksPointBack
  <1>6. Previous # NoHash => \E j \in DOMAIN file : IsEntry(file[j]) /\ file[j].id = Previous
    BY PreviousFacts DEF LogInv, Recent, Readable
  <1>7. Linked'
    <2>1. ASSUME NEW m \in Loggers, pc'[m] = "append", entry'[m].prev # NoHash
          PROVE  \E j \in DOMAIN file : IsEntry(file[j]) /\ file[j].id = entry'[m].prev
      <3>1. CASE m = l
        BY <1>3, <1>6, <2>1, <3>1, Zenon
      <3>2. CASE m # l
        BY <1>1, <2>1, <3>2 DEF LogInv, Linked
      <3>3. QED
        BY <3>1, <3>2
    <2>2. QED
      BY <1>1, <2>1 DEF Linked
  <1>8. IdsUnique'
    BY <1>1, <1>4 DEF LogInv, IdsUnique
  <1>9. QED
    BY <1>5, <1>7, <1>8 DEF LogInv

\* An entry goes into the file behind the one it names.
LEMMA WriteEntryKeeps ==
  ASSUME LogInv, TypeOK', CallsSound', NEW l \in Loggers, WriteEntry(l)
  PROVE  LogInv'
  <1>0. /\ pc[l] = "append" /\ pc'[l] = "newline" /\ entry' = entry /\ started' = started
        /\ file' = Append(file, entry[l]) /\ \A m \in Loggers \ {l} : pc'[m] = pc[m]
    BY DEF WriteEntry, Written, LogInv, TypeOK
  <1>1. PICK n \in Nat : n = Len(file)
    BY DEF LogInv, TypeOK
  <1>2. /\ DOMAIN file = 1 .. n /\ DOMAIN file' = 1 .. n + 1
        /\ \A i \in 1 .. n : file'[i] = file[i]
        /\ file'[n + 1] = entry[l]
    BY <1>0, <1>1, FileGrows DEF LogInv
  <1>3. IsEntry(entry[l]) /\ entry[l].id <= started
    BY <1>0, AuditMarks DEF LogInv, CallsSound, IsEntry
  <1>4. LinksPointBack'
    <2> SUFFICES ASSUME NEW i \in 1 .. n + 1, IsEntry(file'[i]), file'[i].prev # NoHash
                 PROVE  \E j \in 1 .. i - 1 : IsEntry(file'[j]) /\ file'[j].id = file'[i].prev
      BY <1>2 DEF LinksPointBack
    <2>1. CASE i = n + 1
      <3>1. PICK j \in 1 .. n : IsEntry(file[j]) /\ file[j].id = entry[l].prev
        BY <1>0, <1>2, <2>1 DEF LogInv, Linked
      <3>2. QED
        BY <1>2, <2>1, <3>1
    <2>2. CASE i \in 1 .. n
      <3>1. PICK j \in 1 .. i - 1 : IsEntry(file[j]) /\ file[j].id = file[i].prev
        BY <1>2, <2>2 DEF LogInv, LinksPointBack
      <3>2. QED
        BY <1>2, <2>2, <3>1
    <2>3. QED
      BY <2>1, <2>2
  <1>5. Linked'
    <2>1. \A m \in Loggers : pc'[m] = "append" => m # l /\ pc[m] = "append"
      BY <1>0
    <2>2. ASSUME NEW m \in Loggers, pc'[m] = "append", entry'[m].prev # NoHash
          PROVE  \E j \in DOMAIN file' : IsEntry(file'[j]) /\ file'[j].id = entry'[m].prev
      <3>1. PICK j \in DOMAIN file : IsEntry(file[j]) /\ file[j].id = entry[m].prev
        BY <1>0, <2>1, <2>2 DEF LogInv, Linked
      <3>2. j \in DOMAIN file' /\ file'[j] = file[j]
        BY <1>2
      <3>3. QED
        BY <1>0, <3>1, <3>2
    <2>3. QED
      BY <2>2 DEF Linked
  <1>6. IdsUnique'
    <2>1. \A i \in DOMAIN file' : i \in 1 .. n \/ i = n + 1
      BY <1>2
    <2>2. \A i \in 1 .. n : IsEntry(file[i]) => file[i].id # entry[l].id
      BY <1>0, <1>2 DEF LogInv, IdsUnique
    <2>3. \A m \in Loggers \ {l} : pc[m] # "idle" => entry[m].id # entry[l].id
      BY <1>0 DEF LogInv, IdsUnique
    <2>4. QED
      BY <1>0, <1>2, <1>3, <2>1, <2>2, <2>3 DEF LogInv, IdsUnique
  <1>7. QED
    BY <1>4, <1>5, <1>6 DEF LogInv

\* The invariant holds at the start ...
LEMMA LogInit == Init => LogInv
  BY AuditTypesInit DEF Init, LogInv, LinksPointBack, Linked, IdsUnique

\* ... and every step keeps it.
LEMMA LogStep == LogInv /\ [Next]_vars => LogInv'
  <1> SUFFICES ASSUME LogInv, [Next]_vars PROVE LogInv'
    OBVIOUS
  <1>1. TypeOK' /\ CallsSound'
    BY AuditTypesStep DEF LogInv
  <1>2. ASSUME NEW l \in Loggers, WriteNewline(l) \/ Abort(l) PROVE LogInv'
    <2>1. /\ file' = file \/ file' = Append(file, Newline) \/ file' = Append(file, Torn)
          /\ started' = started /\ entry' = entry
          /\ \A m \in Loggers : pc'[m] = pc[m] \/ pc'[m] = "idle"
      BY <1>2 DEF WriteNewline, Abort, LogInv, TypeOK
    <2>2. QED
      BY <1>1, <2>1, QuietStepKeeps
  <1>3. CASE Verify \/ Tick \/ UNCHANGED vars
    <2>1. file' = file /\ started' = started /\ entry' = entry /\ pc' = pc
      BY <1>3 DEF Verify, Tick, vars
    <2>2. QED
      BY <1>1, <2>1, QuietStepKeeps
  <1>4. QED
    BY <1>1, <1>2, <1>3, StampKeeps, ReadLastKeeps, WriteEntryKeeps DEF Next

\* An entry between two others has one right before and one right after it.
LEMMA Neighbours ==
  ASSUME TypeOK, NEW m \in Readable, NEW a \in Readable, NEW b \in Readable, Before(a, m), Before(m, b)
  PROVE  \E p, s \in Readable : Follows(p, m, Readable) /\ Follows(m, s, Readable)
                                /\ Follows(p, s, Readable \ {m}) /\ p # m /\ s # m
  <1>1. /\ \A i \in Readable : ~Before(i, i)
        /\ \A i, j \in Readable : i = j \/ Before(i, j) \/ Before(j, i)
        /\ \A i, j, k \in Readable : Before(i, j) /\ Before(j, k) => Before(i, k)
        /\ \A i, j \in Readable : Before(i, j) => ~Before(j, i)
    BY EntriesOrdered
  <1>2. PICK below : below = {i \in Readable : Before(i, m)}
    OBVIOUS
  <1>3. PICK over : over = {i \in Readable : Before(m, i)}
    OBVIOUS
  <1>4. PICK p \in below : \A i \in below : i = p \/ Before(i, p)
    <2>1. \E p \in below : IsLast(p, below)
      BY <1>2, LastExists
    <2>2. QED
      BY <2>1 DEF IsLast
  <1>5. PICK s \in over : \A j \in over : j = s \/ Before(s, j)
    BY <1>3, FirstExists
  <1>6. p \in Readable /\ s \in Readable /\ Before(p, m) /\ Before(m, s) /\ Before(p, s) /\ p # m /\ s # m
    BY <1>1, <1>2, <1>3
  <1>7. \A i \in Readable : ~(Before(p, i) /\ Before(i, m))
    BY <1>1, <1>2, <1>4, <1>6
  <1>8. \A i \in Readable : ~(Before(m, i) /\ Before(i, s))
    BY <1>1, <1>3, <1>5, <1>6
  <1>9. \A i \in Readable \ {m} : ~(Before(p, i) /\ Before(i, s))
    BY <1>1, <1>7, <1>8
  <1>10. QED
    BY <1>6, <1>7, <1>8, <1>9, Zenon DEF Follows

\* Links point back and gaps show, whoever overlaps and whatever breaks off.
THEOREM GapsShow == Spec => []ChainSound
  <1>1. LogInv => ChainSound
    <2> SUFFICES ASSUME LogInv PROVE ChainSound
      OBVIOUS
    <2>1. ASSUME ChainOk(Readable), NEW m \in Readable, NEW a \in Readable, NEW b \in Readable,
                 Before(a, m), Before(m, b), ChainOk(Readable \ {m})
          PROVE  FALSE
      <3>1. PICK p, s \in Readable : Follows(p, m, Readable) /\ Follows(m, s, Readable)
                                     /\ Follows(p, s, Readable \ {m}) /\ p # m /\ s # m
        BY <2>1, Neighbours DEF LogInv
      <3>2. file[s].prev = file[m].id
        BY <2>1, <3>1 DEF ChainOk
      <3>3. file[s].prev = file[p].id
        BY <2>1, <3>1 DEF ChainOk
      <3>4. p = m
        <4>1. file[p].id = file[m].id
          BY ONLY <3>2, <3>3
        <4>2. IdsUnique
          BY DEF LogInv
        <4>. QED
          BY ONLY <3>1, <4>1, <4>2 DEF IdsUnique, Readable
      <3>5. QED
        BY <3>1, <3>4
    <2>2. QED
      BY <2>1 DEF ChainSound, LogInv
  <1>2. QED
    BY <1>1, LogInit, LogStep, PTL DEF Spec

-----------------------------------------------------------------------------
\* The entry of a call that wrote it is in the file until the call ends, that of
\* one that succeeded forever.
EntriesWritten ==
  /\ \A l \in Loggers : pc[l] = "newline" => \E i \in DOMAIN file : file[i] = entry[l]
  /\ \A id \in acked : \E i \in DOMAIN file : IsEntry(file[i]) /\ file[i].id = id

OneCall == \A l, m \in Loggers : pc[l] # "idle" /\ pc[m] # "idle" => l = m

\* Calls that neither overlap nor break off leave one entry on each line.
WholeLines ==
  aborts = 0 /\ "overlap" \notin trouble =>
    /\ OneCall
    /\ \A i \in DOMAIN file : IsEntry(file[i]) => i \in Readable
    /\ (\A l \in Loggers : pc[l] # "newline") /\ Len(file) > 0 => file[Len(file)] = Newline

LinesInv == TypeOK /\ CallsSound /\ EntriesWritten /\ WholeLines

\* Every step keeps each written entry readable.
LEMMA LinesStep == LinesInv /\ [Next]_vars => LinesInv'
  <1> SUFFICES ASSUME LinesInv, [Next]_vars PROVE LinesInv'
    OBVIOUS
  <1>0. TypeOK' /\ CallsSound' /\ TypeOK /\ CallsSound
    BY AuditTypesStep DEF LinesInv
  <1>1. ASSUME NEW l \in Loggers, NEW d \in Details, Stamp(l, d) PROVE LinesInv'
    <2>1. /\ file' = file /\ acked' = acked /\ aborts' = aborts /\ pc[l] = "idle" /\ pc'[l] = "read"
          /\ \A m \in Loggers \ {l} : pc'[m] = pc[m] /\ entry'[m] = entry[m]
          /\ trouble \subseteq trouble'
          /\ "overlap" \notin trouble' => \A m \in Loggers : pc[m] = "idle"
      BY <1>0, <1>1 DEF Stamp, TypeOK
    <2>2. EntriesWritten'
      BY <2>1 DEF EntriesWritten, LinesInv
    <2>3. Readable' = Readable
      BY <2>1 DEF Readable
    <2>4. WholeLines'
      BY <2>1, <2>3 DEF WholeLines, OneCall, LinesInv
    <2>5. QED
      BY <1>0, <2>2, <2>4 DEF LinesInv
  <1>2. ASSUME NEW l \in Loggers, ReadLast(l) PROVE LinesInv'
    <2>1. /\ file' = file /\ acked' = acked /\ aborts' = aborts /\ pc[l] = "read" /\ pc'[l] = "append"
          /\ \A m \in Loggers \ {l} : pc'[m] = pc[m] /\ entry'[m] = entry[m]
          /\ trouble \subseteq trouble'
      BY <1>0, <1>2 DEF ReadLast, TypeOK
    <2>2. EntriesWritten'
      BY <2>1 DEF EntriesWritten, LinesInv
    <2>3. Readable' = Readable
      BY <2>1 DEF Readable
    <2>4. WholeLines'
      BY <2>1, <2>3 DEF WholeLines, OneCall, LinesInv
    <2>5. QED
      BY <1>0, <2>2, <2>4 DEF LinesInv
  <1>3. ASSUME NEW l \in Loggers, WriteEntry(l) PROVE LinesInv'
    <2>1. /\ file' = Append(file, entry[l]) /\ acked' = acked /\ aborts' = aborts /\ entry' = entry
          /\ pc[l] = "append" /\ pc'[l] = "newline" /\ trouble' = trouble
          /\ \A m \in Loggers \ {l} : pc'[m] = pc[m]
      BY <1>0, <1>3 DEF WriteEntry, Written, TypeOK
    <2>2. PICK n \in Nat : n = Len(file)
      BY <1>0 DEF TypeOK
    <2>3. /\ DOMAIN file = 1 .. n /\ DOMAIN file' = 1 .. n + 1
          /\ \A i \in DOMAIN file : i \in DOMAIN file' /\ file'[i] = file[i]
          /\ file'[n + 1] = entry[l]
      BY <1>0, <2>1, <2>2, FileGrows
    <2>4. EntriesWritten'
      <3>1. ASSUME NEW m \in Loggers, pc'[m] = "newline"
            PROVE  \E i \in DOMAIN file' : file'[i] = entry'[m]
        <4>1. CASE m = l
          BY <2>1, <2>3, <4>1
        <4>2. CASE m # l
          <5>1. PICK i \in DOMAIN file : file[i] = entry[m]
            BY <2>1, <3>1, <4>2 DEF LinesInv, EntriesWritten
          <5>2. QED
            BY <2>1, <2>3, <5>1
        <4>3. QED
          BY <4>1, <4>2
      <3>2. ASSUME NEW id \in acked'
            PROVE  \E i \in DOMAIN file' : IsEntry(file'[i]) /\ file'[i].id = id
        <4>1. PICK i \in DOMAIN file : IsEntry(file[i]) /\ file[i].id = id
          BY <2>1 DEF LinesInv, EntriesWritten
        <4>2. QED
          BY <2>3, <4>1
      <3>3. QED
        BY <3>1, <3>2 DEF EntriesWritten
    <2>5. WholeLines'
      <3>1. SUFFICES ASSUME aborts = 0, "overlap" \notin trouble
                     PROVE  /\ OneCall' /\ \E m \in Loggers : pc'[m] = "newline"
                            /\ \A i \in DOMAIN file' : IsEntry(file'[i]) => i \in Readable'
        BY <2>1 DEF WholeLines
      <3>2. /\ OneCall
            /\ \A i \in DOMAIN file : IsEntry(file[i]) => i \in Readable
            /\ (\A m \in Loggers : pc[m] # "newline") /\ Len(file) > 0 => file[Len(file)] = Newline
        BY <3>1 DEF LinesInv, WholeLines
      <3>3. \A m \in Loggers : pc[m] # "newline"
        BY <2>1, <3>2 DEF OneCall
      <3>4. OneCall'
        BY <2>1, <3>2 DEF OneCall
      <3>5. Len(file) > 0 => file[Len(file)] = Newline
        BY <3>2, <3>3
      <3>6. \A i : i \in Readable' <=>
              \/ i \in Readable /\ (i = Len(file) => entry[l] = Newline)
              \/ i = Len(file) + 1 /\ IsEntry(entry[l])
        BY <1>0, <2>1, <3>5, ReadableGrows
      <3>7. ~IsEntry(Newline)
        BY DEF IsEntry
      <3>8. ASSUME NEW i \in DOMAIN file', IsEntry(file'[i])
            PROVE  i \in Readable'
        <4>1. CASE i = n + 1
          BY <2>2, <2>3, <3>6, <3>8, <4>1
        <4>2. CASE i \in 1 .. n
          <5>1. IsEntry(file[i]) /\ i \in Readable
            BY <2>3, <3>2, <3>8, <4>2
          <5>2. i # Len(file)
            BY <2>2, <3>5, <3>7, <4>2, <5>1
          <5>3. QED
            BY <3>6, <5>1, <5>2
        <4>3. QED
          BY <2>3, <4>1, <4>2
      <3>9. QED
        BY <2>1, <3>4, <3>8
    <2>6. QED
      BY <1>0, <2>4, <2>5 DEF LinesInv
  <1>4. ASSUME NEW l \in Loggers, WriteNewline(l) PROVE LinesInv'
    <2>1. /\ file' = Append(file, Newline) /\ acked' = acked \cup {entry[l].id} /\ aborts' = aborts /\ entry' = entry
          /\ pc[l] = "newline" /\ pc'[l] = "idle" /\ trouble' = trouble
          /\ \A m \in Loggers \ {l} : pc'[m] = pc[m]
      BY <1>0, <1>4 DEF WriteNewline, TypeOK
    <2>2. /\ \A i \in DOMAIN file : i \in DOMAIN file' /\ file'[i] = file[i]
          /\ \A i \in DOMAIN file' : IsEntry(file'[i]) => i \in DOMAIN file /\ file'[i] = file[i]
      BY <1>0, <2>1, NoNewEntry
    <2>3. EntriesWritten'
      <3>1. PICK j \in DOMAIN file : file[j] = entry[l]
        BY <2>1 DEF LinesInv, EntriesWritten
      <3>2. IsEntry(entry[l])
        BY <1>0, <2>1, AuditMarks DEF CallsSound, IsEntry
      <3>3. ASSUME NEW id \in acked'
            PROVE  \E i \in DOMAIN file' : IsEntry(file'[i]) /\ file'[i].id = id
        <4>1. CASE id = entry[l].id
          BY <2>2, <3>1, <3>2, <4>1
        <4>2. CASE id \in acked
          <5>1. PICK i \in DOMAIN file : IsEntry(file[i]) /\ file[i].id = id
            BY <4>2 DEF LinesInv, EntriesWritten
          <5>2. QED
            BY <2>2, <5>1
        <4>3. QED
          BY <2>1, <4>1, <4>2
      <3>4. \A m \in Loggers : pc'[m] = "newline" => pc[m] = "newline"
        BY <2>1
      <3>5. QED
        BY <2>1, <2>2, <3>3, <3>4 DEF LinesInv, EntriesWritten
    <2>4. WholeLines'
      <3>1. SUFFICES ASSUME aborts = 0, "overlap" \notin trouble
                     PROVE  /\ OneCall' /\ file'[Len(file')] = Newline
                            /\ \A i \in DOMAIN file' : IsEntry(file'[i]) => i \in Readable'
        BY <2>1 DEF WholeLines
      <3>2. OneCall /\ \A i \in DOMAIN file : IsEntry(file[i]) => i \in Readable
        BY <3>1 DEF LinesInv, WholeLines
      <3>3. \A i \in Readable : i \in Readable'
        BY <1>0, <2>1, ReadableGrows
      <3>4. file'[Len(file')] = Newline
        BY <1>0, <2>1, FileGrows
      <3>5. QED
        BY <2>1, <2>2, <3>2, <3>3, <3>4 DEF OneCall
    <2>5. QED
      BY <1>0, <2>3, <2>4 DEF LinesInv
  <1>5. ASSUME NEW l \in Loggers, Abort(l) PROVE LinesInv'
    <2>1. /\ file' = file \/ file' = Append(file, Newline) \/ file' = Append(file, Torn)
          /\ acked' = acked /\ aborts' # 0 /\ entry' = entry
          /\ \A m \in Loggers : pc'[m] = pc[m] \/ pc'[m] = "idle"
      BY <1>0, <1>5 DEF Abort, TypeOK
    <2>2. \A i \in DOMAIN file : i \in DOMAIN file' /\ file'[i] = file[i]
      BY <1>0, <2>1, NoNewEntry
    <2>3. \A m \in Loggers : pc'[m] = "newline" => pc[m] = "newline"
      BY <2>1
    <2>4. EntriesWritten'
      BY <2>1, <2>2, <2>3 DEF LinesInv, EntriesWritten
    <2>5. WholeLines'
      BY <2>1 DEF WholeLines
    <2>6. QED
      BY <1>0, <2>4, <2>5 DEF LinesInv
  <1>6. CASE Verify \/ Tick \/ UNCHANGED vars
    <2>1. /\ file' = file /\ acked' = acked /\ aborts' = aborts /\ entry' = entry /\ pc' = pc /\ trouble' = trouble
      BY <1>6 DEF Verify, Tick, vars
    <2>2. Readable' = Readable
      BY <2>1 DEF Readable
    <2>3. QED
      BY <1>0, <2>1, <2>2 DEF LinesInv, EntriesWritten, WholeLines, OneCall
  <1>7. QED
    BY <1>1, <1>2, <1>3, <1>4, <1>5, <1>6 DEF Next

\* What log_event answered for can be read, unless calls overlapped or broke off.
THEOREM AcknowledgedRead == Spec => []AcknowledgedStay
  <1>1. Init => LinesInv
    BY AuditTypesInit DEF Init, LinesInv, EntriesWritten, WholeLines, OneCall
  <1>2. LinesInv => AcknowledgedStay
    BY DEF LinesInv, EntriesWritten, WholeLines, AcknowledgedStay
  <1>3. QED
    BY <1>1, <1>2, LinesStep, PTL DEF Spec

-----------------------------------------------------------------------------
\* As long as nothing troubles the log, calls come one after the other, so that
\* entries are written in the order of their times, each of one detail.
InOrder ==
  /\ OneCall
  /\ \A i, j \in DOMAIN file : IsEntry(file[i]) /\ IsEntry(file[j]) /\ i <= j => file[i].time <= file[j].time
  /\ \A i \in DOMAIN file : IsEntry(file[i]) => file[i].time <= now /\ file[i].details = "one"
  /\ \A l \in Loggers : pc[l] \in {"read", "append"} =>
       /\ entry[l].time <= now /\ entry[l].details = "one"
       /\ \A i \in DOMAIN file : IsEntry(file[i]) => file[i].time <= entry[l].time

\* Each readable entry links to the readable one before it in the file; so will
\* the one about to be written.
LinesLinked ==
  /\ \A i, j \in Readable : i < j /\ (\A m \in Readable : m <= i \/ j <= m) => file[j].prev = file[i].id
  /\ \A l \in Loggers : pc[l] = "append" =>
       \A i \in Readable : (\A m \in Readable : m <= i) => entry[l].prev = file[i].id

Undisturbed ==
  /\ TypeOK /\ CallsSound
  /\ trouble = {} => InOrder /\ LinesLinked /\ report # "invalid"

\* Then the order of times is the order of the file.
LEMMA FileOrder ==
  ASSUME TypeOK, InOrder, NEW i \in Readable, NEW j \in Readable
  PROVE  Before(i, j) <=> i < j
  <1>1. /\ i \in DOMAIN file /\ j \in DOMAIN file /\ IsEntry(file[i]) /\ IsEntry(file[j])
        /\ i \in Nat /\ j \in Nat /\ file[i].time \in Nat /\ file[j].time \in Nat
    BY EntryFields DEF Readable
  <1>2. (i <= j => file[i].time <= file[j].time) /\ (j <= i => file[j].time <= file[i].time)
    BY <1>1 DEF InOrder
  <1>3. QED
    BY <1>1, <1>2 DEF Before

\* Verification accepts a file whose entries stand in the order of their times and name each other.
LEMMA OrderedLogVerifies ==
  ASSUME TypeOK, InOrder, LinesLinked
  PROVE  ChainOk(Readable) /\ ~HashMayDiffer
  <1>1. \A i, j \in Readable : i \in Nat /\ j \in Nat /\ (Before(i, j) <=> i < j)
    BY FileOrder, EntryFields DEF Readable
  <1>2. ASSUME NEW i \in Readable, NEW j \in Readable, Follows(i, j, Readable)
        PROVE  file[j].prev = file[i].id
    <2>1. i < j /\ \A m \in Readable : m <= i \/ j <= m
      BY <1>1, <1>2 DEF Follows
    <2>2. QED
      BY <2>1 DEF LinesLinked
  <1>3. QED
    BY <1>2 DEF ChainOk, HashMayDiffer, InOrder, Readable

\* The last entry read_last sees is the last readable one of the file.
LEMMA PreviousIsLast ==
  ASSUME TypeOK, InOrder, Recent # {} \/ Readable = {},
         NEW i \in Readable, \A m \in Readable : m <= i
  PROVE  Previous = file[i].id
  <1>1. \A j, k \in Readable : j \in Nat /\ j \in DOMAIN file /\ IsEntry(file[j]) /\ file[j].time \in Nat
                               /\ (Before(j, k) <=> j < k)
    BY FileOrder, EntryFields DEF Readable
  <1>2. PICK p \in Recent : IsLast(p, Recent) /\ Previous = file[p].id
    BY PreviousFacts
  <1>3. p \in Readable /\ file[p].time + Window >= now
    BY <1>2 DEF Recent
  <1>4. file[p].time <= file[i].time
    BY <1>1, <1>3 DEF InOrder
  <1>5. now \in Nat /\ Window \in Nat
    BY AuditConstants DEF TypeOK
  <1>6. i \in Recent
    BY <1>1, <1>3, <1>4, <1>5 DEF Recent
  <1>7. i = p
    BY <1>1, <1>2, <1>3, <1>6 DEF IsLast
  <1>8. QED
    BY <1>2, <1>7

\* A write of a mark takes at most the last entry from those that can be read.
LEMMA MarkKeepsLinks ==
  ASSUME TypeOK, TypeOK', InOrder, LinesLinked, entry' = entry, now' = now,
         file' = file \/ file' = Append(file, Newline) \/ file' = Append(file, Torn),
         \A l \in Loggers : pc'[l] = pc[l] \/ pc'[l] = "idle"
  PROVE  InOrder' /\ ((\A l \in Loggers : pc'[l] # "append") => LinesLinked')
  <1>1. /\ \A i \in DOMAIN file : i \in DOMAIN file' /\ file'[i] = file[i]
        /\ \A i \in DOMAIN file' : IsEntry(file'[i]) => i \in DOMAIN file /\ file'[i] = file[i]
    BY NoNewEntry
  <1>2. \A l \in Loggers : (pc'[l] # "idle" => pc[l] # "idle") /\ (pc'[l] \in {"read", "append"} => pc[l] \in {"read", "append"})
    OBVIOUS
  <1>3. InOrder'
    BY <1>1, <1>2 DEF InOrder, OneCall
  <1>4. Readable' = Readable \/ Readable' = Readable \ {Len(file)}
    <2>1. CASE file' = file
      BY <2>1 DEF Readable
    <2>2. ASSUME NEW x \in {Newline, Torn}, file' = Append(file, x)
          PROVE  Readable' = Readable \/ Readable' = Readable \ {Len(file)}
      <3>1. ~IsEntry(x)
        BY <2>2 DEF IsEntry
      <3>2. \A i : i \in Readable' <=> i \in Readable /\ (i = Len(file) => x = Newline)
        BY <2>2, <3>1, ReadableGrows
      <3>3. CASE x = Newline
        BY <3>2, <3>3
      <3>4. CASE x # Newline
        BY <3>2, <3>4
      <3>5. QED
        BY <3>3, <3>4
    <2>3. QED
      BY <2>1, <2>2
  <1>5. \A i \in Readable : i \in DOMAIN file /\ i \in Nat /\ i <= Len(file)
    BY DEF Readable, TypeOK
  <1>6. Len(file) \in Nat
    BY DEF TypeOK
  <1>7. ASSUME NEW i \in Readable', NEW j \in Readable', i < j, \A m \in Readable' : m <= i \/ j <= m
        PROVE  file'[j].prev = file'[i].id
    <2>1. i \in Readable /\ j \in Readable
      BY <1>4
    <2>2. \A m \in Readable : m <= i \/ j <= m
      BY <1>4, <1>5, <1>6, <1>7, <2>1
    <2>3. QED
      BY <1>1, <1>5, <1>7, <2>1, <2>2 DEF LinesLinked
  <1>8. QED
    BY <1>3, <1>7 DEF LinesLinked

\* As long as no two calls overlap and none is cut short, every step keeps the file in order.
LEMMA UndisturbedStep == Undisturbed /\ [Next]_vars => Undisturbed'
  <1> SUFFICES ASSUME Undisturbed, [Next]_vars, trouble' = {}
               PROVE  InOrder' /\ LinesLinked' /\ report' # "invalid"
    BY AuditTypesStep DEF Undisturbed
  <1>0. TypeOK' /\ CallsSound' /\ TypeOK /\ CallsSound
    BY AuditTypesStep DEF Undisturbed
  <1>a. trouble = {}
    BY DEF Next, Stamp, ReadLast, WriteEntry, WriteNewline, Abort, Verify, Tick, vars
  <1>b. InOrder /\ LinesLinked /\ report # "invalid"
    BY <1>a DEF Undisturbed
  <1>c. \A i \in DOMAIN file : IsEntry(file[i]) => file[i].time \in Nat
    BY <1>0, EntryFields
  <1>d. \A l \in Loggers : pc[l] # "idle" => entry[l] \in AuditEntries /\ entry[l].time \in Nat
    BY <1>0, AuditConstants DEF CallsSound, AuditEntries
  <1>e. now \in Nat
    BY <1>0, AuditConstants DEF TypeOK
  <1>1. ASSUME NEW l \in Loggers, NEW d \in Details, Stamp(l, d)
        PROVE  InOrder' /\ LinesLinked' /\ report' # "invalid"
    <2>1. PICK e : e = [id |-> started + 1, time |-> now, details |-> d, prev |-> NoHash]
      OBVIOUS
    <2>2. /\ file' = file /\ now' = now /\ report' = report /\ pc'[l] = "read" /\ entry'[l] = e
          /\ \A m \in Loggers \ {l} : pc'[m] = pc[m] /\ entry'[m] = entry[m]
          /\ \A m \in Loggers : pc[m] = "idle"
          /\ d # "many"
      BY <1>0, <1>1, <2>1 DEF Stamp, TypeOK
    <2>3. e.time = now /\ e.details = "one"
      BY <2>1, <2>2, AuditConstants
    <2>4. InOrder'
      BY <1>b, <1>e, <2>2, <2>3 DEF InOrder, OneCall
    <2>5. LinesLinked'
      BY <1>b, <2>2 DEF LinesLinked, Readable
    <2>6. QED
      BY <1>b, <2>2, <2>4, <2>5
  <1>2. ASSUME NEW l \in Loggers, ReadLast(l)
        PROVE  InOrder' /\ LinesLinked' /\ report' # "invalid"
    <2>0. /\ file' = file /\ now' = now /\ report' = report /\ pc[l] = "read" /\ pc'[l] = "append"
          /\ \A m \in Loggers \ {l} : pc'[m] = pc[m]
      BY <1>0, <1>2 DEF ReadLast, TypeOK
    <2>1. Recent # {} \/ Readable = {}
      BY <1>2 DEF ReadLast
    <2>2. entry'[l].time = entry[l].time /\ entry'[l].details = entry[l].details /\ entry'[l].prev = Previous
      <3>1. entry'[l] = [entry[l] EXCEPT !.prev = Previous]
        BY <1>0, <1>2 DEF ReadLast, TypeOK
      <3>2. QED
        BY <1>d, <2>0, <3>1 DEF AuditEntries
    <2>3. \A m \in Loggers : m # l => pc[m] = "idle" /\ pc'[m] = "idle"
      BY <1>b, <2>0 DEF InOrder, OneCall
    <2>4. InOrder'
      <3>1. OneCall'
        BY <2>3 DEF OneCall
      <3>2. /\ entry[l].time <= now /\ entry[l].details = "one"
            /\ \A i \in DOMAIN file : IsEntry(file[i]) => file[i].time <= entry[l].time
        BY <1>b, <2>0 DEF InOrder
      <3>3. ASSUME NEW m \in Loggers, pc'[m] \in {"read", "append"}
            PROVE  /\ entry'[m].time <= now /\ entry'[m].details = "one"
                   /\ \A i \in DOMAIN file : IsEntry(file[i]) => file[i].time <= entry'[m].time
        <4>1. m = l
          BY <2>3, <3>3
        <4>2. QED
          BY <2>2, <3>2, <4>1, Zenon
      <3>4. QED
        BY <1>b, <2>0, <3>1, <3>3 DEF InOrder
    <2>5. Readable' = Readable
      BY <2>0 DEF Readable
    <2>6. \A i \in Readable : (\A m \in Readable : m <= i) => Previous = file[i].id
      BY <1>0, <1>b, <2>1, PreviousIsLast
    <2>7. LinesLinked'
      <3>1. \A m \in Loggers : pc'[m] = "append" => m = l
        BY <2>3
      <3>2. \A m \in Loggers : pc'[m] = "append" => entry'[m].prev = Previous
        BY <2>2, <3>1, Zenon
      <3>3. QED
        BY <1>b, <2>0, <2>5, <2>6, <3>2 DEF LinesLinked
    <2>8. QED
      BY <1>b, <2>0, <2>4, <2>7
  <1>3. ASSUME NEW l \in Loggers, WriteEntry(l)
        PROVE  InOrder' /\ LinesLinked' /\ report' # "invalid"
    <2>1. /\ file' = Append(file, entry[l]) /\ now' = now /\ report' = report /\ entry' = entry
          /\ pc[l] = "append" /\ pc'[l] = "newline"
          /\ \A m \in Loggers \ {l} : pc'[m] = pc[m]
      BY <1>0, <1>3 DEF WriteEntry, Written, TypeOK
    <2>2. \A m \in Loggers \ {l} : pc[m] = "idle"
      BY <1>b, <2>1 DEF InOrder, OneCall
    <2>3. PICK n \in Nat : n = Len(file)
      BY <1>0 DEF TypeOK
    <2>4. /\ DOMAIN file = 1 .. n /\ DOMAIN file' = 1 .. n + 1
          /\ \A i \in DOMAIN file : i \in DOMAIN file' /\ file'[i] = file[i]
          /\ file'[n + 1] = entry[l]
      BY <1>0, <2>1, <2>3, FileGrows
    <2>5. /\ entry[l].time \in Nat /\ entry[l].time <= now /\ entry[l].details = "one"
          /\ \A i \in DOMAIN file : IsEntry(file[i]) => file[i].time <= entry[l].time
      BY <1>b, <1>d, <2>1 DEF InOrder
    <2>6. InOrder'
      <3>1. ASSUME NEW i \in DOMAIN file', NEW j \in DOMAIN file', IsEntry(file'[i]), IsEntry(file'[j]), i <= j
            PROVE  file'[i].time <= file'[j].time
        <4>1. CASE j = n + 1
          <5>1. i \in DOMAIN file \/ i = n + 1
            BY <2>4
          <5>2. QED
            BY <2>4, <2>5, <3>1, <4>1, <5>1
        <4>2. CASE j # n + 1
          <5>1. i \in DOMAIN file /\ j \in DOMAIN file
            BY <2>4, <3>1, <4>2
          <5>2. QED
            BY <1>b, <2>4, <3>1, <5>1 DEF InOrder
        <4>3. QED
          BY <4>1, <4>2
      <3>2. ASSUME NEW i \in DOMAIN file', IsEntry(file'[i])
            PROVE  file'[i].time <= now /\ file'[i].details = "one"
        <4>1. i \in DOMAIN file \/ i = n + 1
          BY <2>4
        <4>2. QED
          BY <1>b, <2>4, <2>5, <3>2, <4>1 DEF InOrder
      <3>3. OneCall' /\ \A m \in Loggers : pc'[m] \notin {"read", "append"}
        BY <2>1, <2>2 DEF OneCall
      <3>4. QED
        BY <2>1, <3>1, <3>2, <3>3 DEF InOrder
    <2>7. LinesLinked'
      <3>1. IsEntry(entry[l]) /\ entry[l] # Newline
        BY <1>d, <2>1, AuditMarks DEF IsEntry
      <3>2. \A i : i \in Readable' <=> \/ i \in Readable /\ i # n
                                       \/ i = n + 1 /\ (n > 0 => file[n] = Newline)
        BY <1>0, <2>1, <2>3, <3>1, ReadableGrows
      <3>3. \A i \in Readable : i \in DOMAIN file /\ i \in 1 .. n /\ IsEntry(file[i])
        BY <2>4 DEF Readable
      <3>4. ~IsEntry(Newline)
        BY DEF IsEntry
      <3>5. ASSUME NEW i \in Readable', NEW j \in Readable', i < j, \A m \in Readable' : m <= i \/ j <= m
            PROVE  file'[j].prev = file'[i].id
        <4>1. i \in Readable /\ i # n
          BY <3>2, <3>3, <3>5
        <4>2. CASE j = n + 1
          <5>1. file[n] = Newline /\ n \notin Readable
            BY <2>3, <3>2, <3>3, <3>4, <4>1, <4>2
          <5>2. \A m \in Readable : m <= i
            BY <3>2, <3>3, <3>5, <4>2, <5>1
          <5>3. entry[l].prev = file[i].id
            BY <1>b, <2>1, <4>1, <5>2 DEF LinesLinked
          <5>4. QED
            BY <2>4, <3>3, <4>1, <4>2, <5>3
        <4>3. CASE j # n + 1
          <5>1. j \in Readable /\ j # n
            BY <3>2, <4>3
          <5>2. \A m \in Readable : m <= i \/ j <= m
            BY <3>2, <3>3, <3>5, <4>1, <5>1
          <5>3. QED
            BY <1>b, <2>4, <3>3, <3>5, <4>1, <5>1, <5>2 DEF LinesLinked
        <4>4. QED
          BY <4>2, <4>3
      <3>6. \A m \in Loggers : pc'[m] # "append"
        BY <2>1, <2>2
      <3>7. QED
        BY <3>5, <3>6 DEF LinesLinked
    <2>8. QED
      BY <1>b, <2>1, <2>6, <2>7
  <1>4. ASSUME NEW l \in Loggers, WriteNewline(l) \/ Abort(l)
        PROVE  InOrder' /\ LinesLinked' /\ report' # "invalid"
    <2>1. /\ file' = file \/ file' = Append(file, Newline) \/ file' = Append(file, Torn)
          /\ entry' = entry /\ now' = now /\ report' = report
          /\ \A m \in Loggers : pc'[m] = pc[m] \/ pc'[m] = "idle"
          /\ pc[l] # "idle" /\ pc'[l] = "idle"
      BY <1>0, <1>4 DEF WriteNewline, Abort, TypeOK
    <2>2. \A m \in Loggers : pc'[m] # "append"
      BY <1>b, <2>1 DEF InOrder, OneCall
    <2>3. QED
      BY <1>0, <1>b, <2>1, <2>2, MarkKeepsLinks
  <1>5. CASE Verify
    <2>1. /\ file' = file /\ entry' = entry /\ now' = now /\ pc' = pc
          /\ report' # "invalid"
      BY <1>0, <1>5, <1>b, OrderedLogVerifies DEF Verify
    <2>2. QED
      BY <1>b, <2>1 DEF InOrder, OneCall, LinesLinked, Readable
  <1>6. CASE Tick
    <2>1. file' = file /\ entry' = entry /\ now' = now + 1 /\ pc' = pc /\ report' = report
      BY <1>6 DEF Tick
    <2>2. /\ \A i \in DOMAIN file : IsEntry(file[i]) => file[i].time <= now + 1
          /\ \A l \in Loggers : pc[l] \in {"read", "append"} => entry[l].time <= now + 1
      <3>1. \A v \in Nat : v <= now => v <= now + 1
        BY <1>e
      <3>2. QED
        BY <1>b, <1>c, <1>d, <3>1 DEF InOrder
    <2>3. InOrder'
      BY <1>b, <2>1, <2>2 DEF InOrder, OneCall
    <2>4. Readable' = Readable
      BY <2>1 DEF Readable
    <2>5. LinesLinked'
      BY <1>b, <2>1, <2>4 DEF LinesLinked
    <2>6. QED
      BY <1>b, <2>1, <2>3, <2>5
  <1>7. CASE UNCHANGED vars
    BY <1>7, <1>b DEF vars, InOrder, OneCall, LinesLinked, Readable
  <1>8. QED
    BY <1>1, <1>2, <1>3, <1>4, <1>5, <1>6, <1>7 DEF Next

\* A log that met no trouble never fails verification, whatever calls broke off.
THEOREM QuietLogVerifies == Spec => []UndisturbedLogVerifies
  <1>1. Init => Undisturbed
    BY AuditTypesInit DEF Init, Undisturbed, InOrder, OneCall, LinesLinked, Readable
  <1>2. Undisturbed => UndisturbedLogVerifies
    BY DEF Undisturbed, UndisturbedLogVerifies
  <1>3. QED
    BY <1>1, <1>2, UndisturbedStep, PTL DEF Spec

-----------------------------------------------------------------------------
(***************************************************************************)
(* The local KMS                                                           *)
(***************************************************************************)

\* A list of at most MaxPrevious versions.
LEMMA CappedFacts ==
  ASSUME NEW s \in Seq(Versions)
  PROVE  /\ Capped(s) \in Seq(Versions)
         /\ Len(Capped(s)) = IF Len(s) > MaxPrevious THEN MaxPrevious ELSE Len(s)
         /\ \A i \in 1 .. Len(Capped(s)) : Capped(s)[i] = s[Len(s) - Len(Capped(s)) + i]
  <1> DEFINE n == Len(s)
             m == n - MaxPrevious + 1
  <1>0. n \in Nat /\ MaxPrevious \in Nat \ {0} /\ \A i \in 1 .. n : s[i] \in Versions
    BY KmsConstants
  <1>1. CASE n > MaxPrevious
    <2>1. Capped(s) = SubSeq(s, m, n)
      BY <1>1 DEF Capped
    <2>2. m \in 1 .. n
      BY <1>0, <1>1
    <2>3. SubSeq(s, m, n) \in Seq(Versions)
      BY <1>0, <2>2
    <2>4. Len(SubSeq(s, m, n)) = MaxPrevious
      BY <1>0, <2>2
    <2>5. \A i \in 1 .. MaxPrevious : SubSeq(s, m, n)[i] = s[m + i - 1]
      BY <1>0, <2>2
    <2>6. QED
      BY <1>0, <1>1, <2>1, <2>3, <2>4, <2>5
  <1>2. CASE ~(n > MaxPrevious)
    BY <1>0, <1>2 DEF Capped
  <1>3. QED
    BY <1>1, <1>2

\* A version added to such a list.
LEMMA CappedAppend ==
  ASSUME NEW p \in Seq(Versions), NEW w \in Versions
  PROVE  \E kept \in Seq(Versions) :
           /\ kept = Capped(Append(p, w)) /\ Len(kept) \in Nat
           /\ Len(kept) = IF Len(p) + 1 > MaxPrevious THEN MaxPrevious ELSE Len(p) + 1
           /\ \A i \in 1 .. Len(kept) : \E j \in 1 .. Len(p) + 1 :
                j = Len(p) + 1 - Len(kept) + i /\ kept[i] = IF j = Len(p) + 1 THEN w ELSE p[j]
  <1>0. Len(p) \in Nat /\ MaxPrevious \in Nat \ {0}
    BY KmsConstants
  <1>1. PICK list : list = Append(p, w)
    OBVIOUS
  <1>2. /\ list \in Seq(Versions) /\ Len(list) = Len(p) + 1
        /\ \A i \in 1 .. Len(p) : list[i] = p[i]
        /\ list[Len(p) + 1] = w
    BY <1>1
  <1>3. PICK kept : kept = Capped(list)
    OBVIOUS
  <1>4. /\ kept \in Seq(Versions) /\ Len(kept) \in Nat
        /\ Len(kept) = IF Len(p) + 1 > MaxPrevious THEN MaxPrevious ELSE Len(p) + 1
        /\ \A i \in 1 .. Len(kept) : kept[i] = list[Len(p) + 1 - Len(kept) + i]
    <2>1. /\ Capped(list) \in Seq(Versions)
          /\ Len(Capped(list)) = IF Len(list) > MaxPrevious THEN MaxPrevious ELSE Len(list)
          /\ \A i \in 1 .. Len(Capped(list)) : Capped(list)[i] = list[Len(list) - Len(Capped(list)) + i]
      BY <1>2, CappedFacts
    <2>2. kept \in Seq(Versions)
      BY <1>3, <2>1
    <2>3. Len(kept) \in Nat
      BY <2>2
    <2>4. \A i \in 1 .. Len(kept) : kept[i] = list[Len(list) - Len(kept) + i]
      BY <1>3, <2>1, Zenon
    <2>5. Len(kept) = IF Len(list) > MaxPrevious THEN MaxPrevious ELSE Len(list)
      BY <1>3, <2>1, Zenon
    <2>6. QED
      BY <1>2, <2>2, <2>3, <2>4, <2>5
  <1>5. Len(kept) <= Len(p) + 1
    BY <1>0, <1>4
  <1>6. \A i \in 1 .. Len(kept) : Len(p) + 1 - Len(kept) + i \in 1 .. Len(p) + 1
    BY <1>0, <1>4, <1>5
  <1>7. \A j \in 1 .. Len(p) + 1 : list[j] = IF j = Len(p) + 1 THEN w ELSE p[j]
    BY <1>0, <1>2
  <1>8. kept = Capped(Append(p, w))
    BY <1>1, <1>3
  <1>9. \A i \in 1 .. Len(kept) : \E j \in 1 .. Len(p) + 1 :
          j = Len(p) + 1 - Len(kept) + i /\ kept[i] = IF j = Len(p) + 1 THEN w ELSE p[j]
    BY <1>4, <1>6, <1>7
  <1>10. QED
    BY <1>4, <1>8, <1>9, Zenon

\* What rotating a stored key makes of it.
LEMMA RotatedRecord ==
  ASSUME NEW sk \in StoredKeys, minted \in Nat
  PROVE  /\ Rotated(sk) \in StoredKeys
         /\ Rotated(sk).born = sk.born
         /\ Rotated(sk).version = sk.version + 1
         /\ Rotated(sk).material = minted + 1
         /\ Rotated(sk).previous =
              Capped(Append(sk.previous, [version |-> sk.version, material |-> sk.material]))
  <1>0. /\ sk.version \in Nat /\ sk.previous \in Seq(Versions)
        /\ [version |-> sk.version, material |-> sk.material] \in Versions
    BY DEF StoredKeys, Versions
  <1>1. PICK own \in Versions : own = [version |-> sk.version, material |-> sk.material]
    BY <1>0
  <1>2. PICK kept : kept = Capped(Append(sk.previous, own))
    OBVIOUS
  <1>3. kept \in Seq(Versions)
    BY <1>0, <1>2, CappedAppend
  <1>4. Rotated(sk) = [born |-> sk.born, version |-> sk.version + 1, material |-> minted + 1, previous |-> kept]
    BY <1>1, <1>2 DEF Rotated
  <1>5. QED
    BY <1>1, <1>2, <1>3, <1>4 DEF StoredKeys

\* Rotation keeps the versions lined up, adds one and gives up at most the oldest.
LEMMA RotatedFacts ==
  ASSUME NEW sk \in StoredKeys, LinedUp(sk), minted \in Nat
  PROVE  /\ Rotated(sk) \in StoredKeys
         /\ LinedUp(Rotated(sk))
         /\ Rotated(sk).born = sk.born
         /\ Rotated(sk).version = sk.version + 1
         /\ Usable(Rotated(sk)) \subseteq
              Usable(sk) \cup {[version |-> sk.version + 1, material |-> minted + 1]}
  <1>1. PICK own \in Versions : own = [version |-> sk.version, material |-> sk.material]
    BY DEF StoredKeys, Versions
  <1>2. PICK kept \in Seq(Versions) :
          /\ kept = Capped(Append(sk.previous, own)) /\ Len(kept) \in Nat
          /\ Len(kept) = IF Len(sk.previous) + 1 > MaxPrevious THEN MaxPrevious ELSE Len(sk.previous) + 1
          /\ \A i \in 1 .. Len(kept) : \E j \in 1 .. Len(sk.previous) + 1 :
               /\ j = Len(sk.previous) + 1 - Len(kept) + i
               /\ kept[i] = IF j = Len(sk.previous) + 1 THEN own ELSE sk.previous[j]
    BY CappedAppend DEF StoredKeys
  <1>3. PICK r \in StoredKeys : /\ r = Rotated(sk) /\ r.born = sk.born /\ r.version = sk.version + 1
                                /\ r.material = minted + 1 /\ r.previous = kept
    BY <1>1, <1>2, RotatedRecord
  <1>4. PICK n \in Nat : n = Len(sk.previous)
    BY DEF StoredKeys
  <1>5. /\ sk.version \in Nat /\ sk.previous \in Seq(Versions) /\ MaxPrevious \in Nat \ {0}
        /\ own.version = sk.version
    BY <1>1, KmsConstants DEF StoredKeys
  <1>6. /\ n = IF sk.version - 1 < MaxPrevious THEN sk.version - 1 ELSE MaxPrevious
        /\ \A i \in 1 .. n : sk.previous[i].version = sk.version - n - 1 + i
    BY <1>4 DEF LinedUp
  <1>7. /\ Len(kept) \in Nat /\ kept \in Seq(Versions)
        /\ Len(kept) = IF n + 1 > MaxPrevious THEN MaxPrevious ELSE n + 1
        /\ \A i \in 1 .. Len(kept) : \E j \in 1 .. n + 1 :
             j = n + 1 - Len(kept) + i /\ kept[i] = IF j = n + 1 THEN own ELSE sk.previous[j]
    BY <1>2, <1>4, Zenon
  <1>8. Len(kept) = IF r.version - 1 < MaxPrevious THEN r.version - 1 ELSE MaxPrevious
    BY <1>3, <1>5, <1>6, <1>7
  <1>9. \A i \in 1 .. Len(kept) :
          kept[i] \in Usable(sk) /\ kept[i].version = r.version - Len(kept) - 1 + i
    <2> TAKE i \in 1 .. Len(kept)
    <2>1. PICK j \in 1 .. n + 1 : j = n + 1 - Len(kept) + i /\ kept[i] = IF j = n + 1 THEN own ELSE sk.previous[j]
      BY <1>7
    <2>2. r.version - Len(kept) - 1 + i = sk.version - n - 1 + j
      <3>1. ASSUME NEW v \in Nat, NEW k \in Nat, NEW x \in Nat
            PROVE  (v + 1) - k - 1 + x = v - n - 1 + (n + 1 - k + x)
        OBVIOUS
      <3>2. sk.version \in Nat /\ Len(kept) \in Nat /\ i \in Nat
        BY <1>5, <1>7
      <3>3. (sk.version + 1) - Len(kept) - 1 + i = sk.version - n - 1 + (n + 1 - Len(kept) + i)
        BY <3>1, <3>2
      <3>4. QED
        BY <1>3, <2>1, <3>3, Zenon
    <2>3. CASE j = n + 1
      <3>1. kept[i] = own
        BY <2>1, <2>3
      <3>2. sk.version - n - 1 + j = sk.version
        BY <1>5, <2>3
      <3>3. QED
        BY <1>1, <1>5, <2>2, <3>1, <3>2, Zenon DEF Usable
    <2>4. CASE j # n + 1
      <3>1. j \in 1 .. n /\ kept[i] = sk.previous[j]
        BY <2>1, <2>4
      <3>2. sk.previous[j] \in Range(sk.previous)
        BY <1>4, <1>5, <3>1 DEF Range
      <3>3. QED
        BY <1>6, <2>2, <3>1, <3>2 DEF Usable
    <2>5. QED
      BY <2>3, <2>4, Zenon
  <1>10. LinedUp(r)
    BY <1>3, <1>8, <1>9 DEF LinedUp
  <1>11. Range(kept) \subseteq Usable(sk)
    <2> SUFFICES ASSUME NEW v \in Range(kept) PROVE v \in Usable(sk)
      OBVIOUS
    <2>1. PICK i \in DOMAIN kept : v = kept[i]
      BY DEF Range
    <2>2. i \in 1 .. Len(kept)
      BY <1>7
    <2>3. QED
      BY <1>9, <2>1, <2>2
  <1>12. Usable(r) = {[version |-> sk.version + 1, material |-> minted + 1]} \cup Range(kept)
    BY <1>3 DEF Usable
  <1>13. QED
    BY <1>3, <1>10, <1>11, <1>12

\* No usable version of a stored key is above its own.
LEMMA UsableBelow ==
  ASSUME NEW sk \in StoredKeys, LinedUp(sk), NEW v \in Usable(sk)
  PROVE  v.version \in Int /\ v.version <= sk.version
  <1>0. sk.version \in Nat /\ sk.previous \in Seq(Versions) /\ Len(sk.previous) \in Nat
    BY DEF StoredKeys
  <1>1. CASE v = [version |-> sk.version, material |-> sk.material]
    BY <1>0, <1>1
  <1>2. CASE v \in Range(sk.previous)
    <2>1. PICK i \in 1 .. Len(sk.previous) : v = sk.previous[i]
      BY <1>0, <1>2 DEF Range
    <2>2. v.version = sk.version - Len(sk.previous) - 1 + i
      BY <2>1 DEF LinedUp
    <2>3. QED
      BY <1>0, <2>1, <2>2
  <1>3. QED
    BY <1>1, <1>2 DEF Usable

-----------------------------------------------------------------------------
(* LineagesAgree *)

\* What is known of a key is well formed and was made so far; two records of the
\* same key agree on the materials; none is newer than the one in the map.
KeyInv(k) ==
  /\ \A r \in Records(k) : LinedUp(r) /\ r.born <= minted
  /\ \A a, b \in Records(k) : a.born = b.born =>
       \A v \in Usable(a), w \in Usable(b) : v.version = w.version => v.material = w.material
  /\ \A r \in Records(k) :
       kmsStore[k] # NoKey /\ r.born = kmsStore[k].born => r.version <= kmsStore[k].version

\* A copy is held only until it is saved.
CopyInv == \A t \in Tasks : kmsPc[t] = "save" <=> kmsCopy[t] # NoKey

LineageInv == KmsTypeOK /\ CopyInv /\ \A k \in Keys : KeyInv(k)

\* A new key has version 1 and nothing before it.
LEMMA FreshFacts ==
  ASSUME minted \in Nat
  PROVE  /\ Fresh \in StoredKeys /\ LinedUp(Fresh) /\ Fresh.born = minted + 1
         /\ Usable(Fresh) = {[version |-> 1, material |-> minted + 1]}
  <1>1. << >> \in Seq(Versions) /\ Len(<< >>) = 0 /\ Range(<< >>) = {}
    BY DEF Range
  <1>2. Fresh \in StoredKeys /\ Fresh.born = minted + 1 /\ Fresh.previous = << >> /\ Fresh.version = 1
    BY <1>1 DEF Fresh, StoredKeys
  <1>3. LinedUp(Fresh)
    BY <1>1, <1>2, KmsConstants DEF LinedUp
  <1>4. Usable(Fresh) = {[version |-> 1, material |-> minted + 1]}
    BY <1>1 DEF Fresh, Usable
  <1>5. QED
    BY <1>2, <1>3, <1>4

\* The types hold at the start ...
LEMMA KmsTypesInit == KmsInit => KmsTypeOK /\ CopyInv
  BY KmsConstants DEF KmsInit, KmsTypeOK, CopyInv

\* ... and after every step.
LEMMA KmsTypesStep == KmsTypeOK /\ CopyInv /\ [KmsNext]_kmsVars => KmsTypeOK' /\ CopyInv'
  <1> SUFFICES ASSUME KmsTypeOK, CopyInv, [KmsNext]_kmsVars
               PROVE  KmsTypeOK' /\ CopyInv'
    OBVIOUS
  <1> USE KmsMarks DEF KmsTypeOK
  <1>1. ASSUME NEW t \in Tasks, NEW k \in Keys, Create(t, k)
        PROVE  KmsTypeOK' /\ CopyInv'
    BY <1>1, FreshFacts DEF Create, Begin, CopyInv
  <1>2. ASSUME NEW t \in Tasks, NEW k \in Keys, Rotate(t, k)
        PROVE  KmsTypeOK' /\ CopyInv'
    <2>1. kmsStore[k] \in StoredKeys
      BY <1>2 DEF Rotate
    <2>2. PICK r \in StoredKeys : r = Rotated(kmsStore[k])
      BY <2>1, RotatedRecord
    <2>3. kmsStore' = [kmsStore EXCEPT ![k] = r]
      BY <1>2, <2>2 DEF Rotate
    <2>4. QED
      BY <1>2, <2>3 DEF Rotate, Begin, CopyInv
  <1>3. ASSUME NEW t \in Tasks, NEW k \in Keys, Destroy(t, k)
        PROVE  KmsTypeOK' /\ CopyInv'
    BY <1>3 DEF Destroy, Begin, CopyInv
  <1>4. ASSUME NEW t \in Tasks, Reread(t)
        PROVE  KmsTypeOK' /\ CopyInv'
    BY <1>4 DEF Reread, ToSave, kmsHistory, kmsBounds, CopyInv
  <1>5. ASSUME NEW t \in Tasks, Save(t)
        PROVE  KmsTypeOK' /\ CopyInv'
    BY <1>5 DEF Save, Saved, kmsBounds, CopyInv
  <1>6. ASSUME NEW t \in Tasks, Unlink(t)
        PROVE  KmsTypeOK' /\ CopyInv'
    <2>1. gone' \in [Keys -> SUBSET Nat]
      <3>1. kmsAcked[kmsKey[t]] # NoKey => kmsAcked[kmsKey[t]].born \in Nat
        BY DEF StoredKeys
      <3>2. QED
        BY <1>6, <3>1 DEF Unlink
    <2>2. QED
      BY <1>6, <2>1 DEF Unlink, kmsBounds, CopyInv
  <1>7. ASSUME NEW t \in Tasks, Fail(t)
        PROVE  KmsTypeOK' /\ CopyInv'
    BY <1>7 DEF Fail, CopyInv
  <1>8. ASSUME Crash
        PROVE  KmsTypeOK' /\ CopyInv'
    <2>1. kmsDisk' \in [Keys -> StoredKeys \cup {NoKey, TornKey}] /\ disturbed' \in [Keys -> BOOLEAN]
      BY <1>8 DEF Crash
    <2>2. kmsStore' \in [Keys -> StoredKeys \cup {NoKey}]
      BY <1>8, <2>1 DEF Crash, Loaded
    <2>3. QED
      BY <1>8, <2>1, <2>2 DEF Crash, CopyInv
  <1>9. CASE UNCHANGED kmsVars
    BY <1>9 DEF kmsVars, kmsHistory, kmsBounds, CopyInv
  <1>10. QED
    BY <1>1, <1>2, <1>3, <1>4, <1>5, <1>6, <1>7, <1>8, <1>9 DEF KmsNext

\* The places a key is kept in.
LEMMA RecordsTyped ==
  ASSUME KmsTypeOK, NEW k \in Keys
  PROVE  /\ Records(k) \subseteq StoredKeys
         /\ kmsStore[k] # NoKey => kmsStore[k] \in Records(k)
         /\ kmsDisk[k] \notin {NoKey, TornKey} => kmsDisk[k] \in Records(k)
  BY KmsMarks DEF KmsTypeOK, Records

\* Records that were there before, under a map that keeps the key.
LEMMA FewerRecords ==
  ASSUME NEW k \in Keys, KeyInv(k), minted \in Nat, minted' \in Nat, minted <= minted',
         Records(k) \subseteq StoredKeys, Records(k)' \subseteq Records(k),
         kmsStore'[k] = kmsStore[k] \/ kmsStore'[k] = NoKey
           \/ \A r \in Records(k)' : r = kmsStore'[k]
  PROVE  KeyInv(k)'
  <1>1. ASSUME NEW r \in Records(k)'
        PROVE  /\ LinedUp(r) /\ r.born <= minted'
               /\ kmsStore'[k] # NoKey /\ r.born = kmsStore'[k].born => r.version <= kmsStore'[k].version
    <2>1. r \in Records(k) /\ r \in StoredKeys /\ r.born \in Nat /\ r.version \in Nat
      BY <1>1 DEF StoredKeys
    <2>2. LinedUp(r) /\ r.born <= minted
      BY <2>1 DEF KeyInv
    <2>3. kmsStore[k] # NoKey /\ r.born = kmsStore[k].born => r.version <= kmsStore[k].version
      BY <2>1 DEF KeyInv
    <2>4. QED
      BY <1>1, <2>1, <2>2, <2>3
  <1>2. ASSUME NEW a \in Records(k)', NEW b \in Records(k)', a.born = b.born,
               NEW v \in Usable(a), NEW w \in Usable(b), v.version = w.version
        PROVE  v.material = w.material
    <2>1. a \in Records(k) /\ b \in Records(k)
      BY <1>2
    <2>2. QED
      BY <1>2, <2>1 DEF KeyInv
  <1>3. QED
    BY <1>1, <1>2 DEF KeyInv

\* A key the counter has not reached yet, or the next version of the one in the
\* map, becomes the one in the map.
LEMMA OneMoreRecord ==
  ASSUME NEW k \in Keys, KeyInv(k), minted \in Nat, minted' = minted + 1,
         Records(k) \subseteq StoredKeys,
         NEW new \in StoredKeys, LinedUp(new), kmsStore'[k] = new, new.born <= minted + 1,
         Records(k)' \subseteq Records(k) \cup {new},
         \A v \in Usable(new) : v.version \in Int /\ v.version <= new.version /\
           (v.version = new.version => v.material = minted + 1),
         \A v, w \in Usable(new) : v.version < new.version /\ v.version = w.version =>
           v.material = w.material,
         \A a \in Records(k) : a.born = new.born =>
           /\ a.version < new.version
           /\ \A v \in Usable(a), w \in Usable(new) :
                w.version < new.version /\ v.version = w.version => v.material = w.material
  PROVE  KeyInv(k)'
  <1>0. \A r \in StoredKeys : r.born \in Nat /\ r.version \in Nat
    BY DEF StoredKeys
  <1>1. ASSUME NEW r \in Records(k)'
        PROVE  /\ LinedUp(r) /\ r.born <= minted'
               /\ kmsStore'[k] # NoKey /\ r.born = kmsStore'[k].born => r.version <= kmsStore'[k].version
    <2>1. CASE r = new
      BY <2>1, <1>0
    <2>2. CASE r \in Records(k)
      <3>1. LinedUp(r) /\ r.born <= minted /\ r.born \in Nat /\ r.version \in Nat /\ new.version \in Nat
        BY <2>2, <1>0 DEF KeyInv
      <3>2. QED
        BY <2>2, <3>1
    <2>3. QED
      BY <1>1, <2>1, <2>2
  <1>2. ASSUME NEW v \in Usable(new), NEW w \in Usable(new), v.version = w.version
        PROVE  v.material = w.material
    <2>1. CASE v.version < new.version
      BY <1>2, <2>1
    <2>2. CASE v.version = new.version
      BY <1>2, <2>2
    <2>3. QED
      BY <1>0, <2>1, <2>2
  <1>3. ASSUME NEW a \in Records(k), a.born = new.born,
               NEW v \in Usable(a), NEW w \in Usable(new), v.version = w.version
        PROVE  v.material = w.material
    <2>1. LinedUp(a) /\ a \in StoredKeys /\ a.version < new.version
      BY <1>3 DEF KeyInv
    <2>2. v.version \in Int /\ v.version <= a.version
      BY <1>3, <2>1, UsableBelow
    <2>3. w.version < new.version
      BY <1>0, <1>3, <2>1, <2>2
    <2>4. QED
      BY <1>3, <2>3
  <1>4. ASSUME NEW a \in Records(k)', NEW b \in Records(k)', a.born = b.born,
               NEW v \in Usable(a), NEW w \in Usable(b), v.version = w.version
        PROVE  v.material = w.material
    <2>1. CASE a \in Records(k) /\ b \in Records(k)
      BY <1>4, <2>1 DEF KeyInv
    <2>2. CASE a = new /\ b = new
      BY <1>2, <1>4, <2>2
    <2>3. CASE a \in Records(k) /\ b = new
      BY <1>3, <1>4, <2>3
    <2>4. CASE a = new /\ b \in Records(k)
      <3>1. w.material = v.material
        BY <1>3, <1>4, <2>4
      <3>2. QED
        BY <3>1
    <2>5. QED
      BY <1>4, <2>1, <2>2, <2>3, <2>4
  <1>5. QED
    BY <1>1, <1>4 DEF KeyInv

\* What a call that begins leaves of the records.
LEMMA BeginRecords ==
  ASSUME KmsTypeOK, CopyInv, NEW t \in Tasks, NEW k \in Keys, NEW x \in Keys,
         kmsPc[t] = "idle", kmsDisk' = kmsDisk, kmsKey' = [kmsKey EXCEPT ![t] = k],
         \A y \in Keys \ {k} : kmsStore'[y] = kmsStore[y],
         \A u \in Tasks \ {t} : kmsCopy'[u] = kmsCopy[u],
         kmsCopy'[t] \in {NoKey, kmsStore'[k]}
  PROVE  Records(x)' \subseteq Records(x) \cup {kmsStore'[k]} /\ (x # k => Records(x)' \subseteq Records(x))
  <1>1. ASSUME NEW u \in Tasks, kmsKey'[u] = x, kmsCopy'[u] # NoKey
        PROVE  (kmsKey[u] = x /\ kmsCopy[u] = kmsCopy'[u]) \/ (x = k /\ kmsCopy'[u] = kmsStore'[k])
    BY <1>1 DEF KmsTypeOK
  <1>2. \A r \in Records(x)' : r \in Records(x) \/ (x = k /\ r = kmsStore'[k])
    BY <1>1 DEF Records
  <1>3. QED
    BY <1>2

\* A step that makes nothing new.
LEMMA NothingNew ==
  ASSUME LineageInv, KmsTypeOK', NEW x \in Keys, minted' = minted,
         kmsStore'[x] = kmsStore[x] \/ kmsStore'[x] = NoKey \/ \A r \in Records(x)' : r = kmsStore'[x],
         Records(x)' \subseteq Records(x)
  PROVE  KeyInv(x)'
  <1>1. minted \in Nat /\ minted' \in Nat /\ minted <= minted'
    BY DEF LineageInv, KmsTypeOK
  <1>2. Records(x) \subseteq StoredKeys
    BY RecordsTyped DEF LineageInv
  <1>3. QED
    BY <1>1, <1>2, FewerRecords DEF LineageInv

\* A new key does not touch what is known of others.
LEMMA CreateKeeps ==
  ASSUME LineageInv, KmsTypeOK', NEW t \in Tasks, NEW k \in Keys, Create(t, k), NEW x \in Keys
  PROVE  KeyInv(x)'
  <1>0. KmsTypeOK /\ CopyInv /\ KeyInv(x) /\ minted \in Nat /\ minted' = minted + 1
    BY DEF LineageInv, KmsTypeOK, Create
  <1>1. PICK new \in StoredKeys : /\ new = Fresh /\ LinedUp(new) /\ new.born = minted + 1
                                  /\ Usable(new) = {[version |-> 1, material |-> minted + 1]} /\ new.version = 1
    BY <1>0, FreshFacts DEF Fresh
  <1>2. /\ kmsPc[t] = "idle" /\ kmsDisk' = kmsDisk /\ kmsKey' = [kmsKey EXCEPT ![t] = k]
        /\ \A y \in Keys \ {k} : kmsStore'[y] = kmsStore[y]
        /\ \A u \in Tasks \ {t} : kmsCopy'[u] = kmsCopy[u]
        /\ kmsStore'[k] = new /\ kmsCopy'[t] = new
    BY <1>0, <1>1 DEF Create, Begin, KmsTypeOK
  <1>3. Records(x) \subseteq StoredKeys
    BY <1>0, RecordsTyped
  <1>9. Records(x)' \subseteq Records(x) \cup {new} /\ (x # k => Records(x)' \subseteq Records(x))
    BY <1>0, <1>2, BeginRecords
  <1>4. CASE x = k
    <2>1. Records(x)' \subseteq Records(x) \cup {new} /\ kmsStore'[x] = new
      BY <1>2, <1>4, <1>9
    <2>5. \A v \in Usable(new) : v.version = new.version /\ v.version \in Int /\ v.material = minted + 1
      BY <1>1
    <2>2. \A a \in Records(x) : a.born # new.born
      BY <1>0, <1>1, <1>3 DEF KeyInv, StoredKeys
    <2>3. new.born <= minted + 1
      BY <1>0, <1>1
    <2>4. QED
      BY <1>0, <1>1, <1>3, <1>4, <2>1, <2>2, <2>3, <2>5, OneMoreRecord
  <1>5. CASE x # k
    <2>1. Records(x)' \subseteq Records(x) /\ kmsStore'[x] = kmsStore[x]
      BY <1>2, <1>5, <1>9
    <2>2. QED
      BY <1>0, <1>3, <2>1, FewerRecords
  <1>6. QED
    BY <1>4, <1>5

\* A rotation adds a version to the lineage it read.
LEMMA RotateKeeps ==
  ASSUME LineageInv, KmsTypeOK', NEW t \in Tasks, NEW k \in Keys, Rotate(t, k), NEW x \in Keys
  PROVE  KeyInv(x)'
  <1>0. KmsTypeOK /\ CopyInv /\ KeyInv(x) /\ KeyInv(k) /\ minted \in Nat /\ minted' = minted + 1
    BY DEF LineageInv, KmsTypeOK, Rotate
  <1>1. PICK sk \in StoredKeys : sk = kmsStore[k] /\ sk \in Records(k) /\ LinedUp(sk) /\ sk.born <= minted
    BY <1>0, RecordsTyped DEF Rotate, KmsTypeOK, KeyInv
  <1>2. PICK new \in StoredKeys : /\ new = Rotated(sk) /\ LinedUp(new) /\ new.born = sk.born
                                  /\ new.version = sk.version + 1
                                  /\ Usable(new) \subseteq
                                       Usable(sk) \cup {[version |-> sk.version + 1, material |-> minted + 1]}
    BY <1>0, <1>1, RotatedFacts
  <1>3. /\ kmsPc[t] = "idle" /\ kmsDisk' = kmsDisk /\ kmsKey' = [kmsKey EXCEPT ![t] = k]
        /\ \A y \in Keys \ {k} : kmsStore'[y] = kmsStore[y]
        /\ \A u \in Tasks \ {t} : kmsCopy'[u] = kmsCopy[u]
        /\ kmsStore'[k] = new /\ kmsCopy'[t] = NoKey
    BY <1>0, <1>1, <1>2 DEF Rotate, Begin, KmsTypeOK, CopyInv
  <1>4. Records(x)' \subseteq Records(x) \cup {new} /\ (x # k => Records(x)' \subseteq Records(x))
    BY <1>0, <1>3, BeginRecords
  <1>5. Records(x) \subseteq StoredKeys
    BY <1>0, RecordsTyped
  <1>6. CASE x # k
    BY <1>0, <1>3, <1>4, <1>5, <1>6, FewerRecords
  <1>7. CASE x = k
    <2>0. sk.version \in Nat /\ sk.born \in Nat /\ new.version \in Nat
      BY DEF StoredKeys
    <2>1. \A v \in Usable(sk) : v.version \in Int /\ v.version <= sk.version
      BY <1>1, UsableBelow
    <2>2. \A v \in Usable(new) :
            /\ (v \in Usable(sk) \/ (v.version = new.version /\ v.material = minted + 1))
            /\ v.version \in Int
      BY <1>2, <2>0, <2>1
    <2>3. \A v \in Usable(new) : v.version < new.version => v \in Usable(sk)
      BY <2>0, <2>2
    <2>4. \A v \in Usable(new) : v.version <= new.version /\
            (v.version = new.version => v.material = minted + 1)
      BY <1>2, <2>0, <2>1, <2>2
    <2>5. \A v, w \in Usable(new) : v.version < new.version /\ v.version = w.version => v.material = w.material
      <3>1. \A v, w \in Usable(sk) : v.version = w.version => v.material = w.material
        BY <1>0, <1>1 DEF KeyInv
      <3>2. QED
        BY <2>3, <3>1
    <2>6. ASSUME NEW a \in Records(k), a.born = new.born
          PROVE  /\ a.version < new.version
                 /\ \A v \in Usable(a), w \in Usable(new) :
                      w.version < new.version /\ v.version = w.version => v.material = w.material
      <3>1. a.version \in Nat /\ a.version <= sk.version
        BY <1>0, <1>1, <1>2, <1>5, <1>7, <2>6, KmsMarks DEF KeyInv, StoredKeys
      <3>2. \A v \in Usable(a), w \in Usable(sk) : v.version = w.version => v.material = w.material
        BY <1>0, <1>1, <1>2, <2>6 DEF KeyInv
      <3>3. QED
        BY <1>2, <2>0, <2>3, <3>1, <3>2
    <2>7. new.born <= minted + 1
      BY <1>0, <1>1, <1>2, <2>0
    <2>8. QED
      BY <1>0, <1>2, <1>3, <1>4, <1>5, <1>7, <2>2, <2>4, <2>5, <2>6, <2>7, OneMoreRecord
  <1>8. QED
    BY <1>6, <1>7

\* Destroying a key takes its record out of memory and nothing else.
LEMMA DestroyKeeps ==
  ASSUME LineageInv, KmsTypeOK', NEW t \in Tasks, NEW k \in Keys, Destroy(t, k), NEW x \in Keys
  PROVE  KeyInv(x)'
  <1>0. KmsTypeOK /\ CopyInv /\ minted' = minted
    BY DEF LineageInv, Destroy
  <1>1. /\ kmsPc[t] = "idle" /\ kmsDisk' = kmsDisk /\ kmsKey' = [kmsKey EXCEPT ![t] = k]
        /\ \A y \in Keys \ {k} : kmsStore'[y] = kmsStore[y]
        /\ \A u \in Tasks \ {t} : kmsCopy'[u] = kmsCopy[u]
        /\ kmsStore'[k] = NoKey /\ kmsCopy'[t] = NoKey
    BY <1>0 DEF Destroy, Begin, KmsTypeOK, CopyInv
  <1>2. Records(x)' \subseteq Records(x) \cup {NoKey}
    BY <1>0, <1>1, BeginRecords
  <1>3. NoKey \notin Records(x)'
    BY DEF Records
  <1>4. QED
    BY <1>0, <1>1, <1>2, <1>3, NothingNew

\* The steps of a call after its first, and the end of it.
LEMMA CallKeeps ==
  ASSUME LineageInv, KmsTypeOK', NEW t \in Tasks, Reread(t) \/ Save(t) \/ Unlink(t) \/ Fail(t), NEW x \in Keys
  PROVE  KeyInv(x)'
  <1>0. KmsTypeOK /\ CopyInv /\ minted' = minted /\ kmsStore' = kmsStore /\ kmsKey' = kmsKey
    BY DEF LineageInv, Reread, Save, Unlink, Fail
  <1>1. Records(x)' \subseteq Records(x)
    <2>1. ASSUME NEW r \in Records(x)'
          PROVE  r \in Records(x)
      <3>1. CASE r = kmsStore[x]
        BY <1>0, <2>1, <3>1 DEF Records
      <3>2. CASE r = kmsDisk'[x]
        <4>1. kmsDisk'[x] \in {kmsDisk[x], NoKey, TornKey} \/ (kmsKey[t] = x /\ kmsDisk'[x] = kmsCopy[t])
          BY <1>0 DEF Reread, Save, Saved, Unlink, Fail, KmsTypeOK
        <4>2. QED
          BY <1>0, <2>1, <3>2, <4>1 DEF Records
      <3>3. CASE \E u \in Tasks : kmsKey[u] = x /\ r = kmsCopy'[u]
        <4>1. PICK u \in Tasks : kmsKey[u] = x /\ r = kmsCopy'[u]
          BY <3>3
        <4>2. kmsCopy'[u] \in {kmsCopy[u], NoKey} \/ (u = t /\ kmsCopy'[u] = kmsStore[kmsKey[u]])
          BY <1>0 DEF Reread, ToSave, Save, Unlink, Fail, KmsTypeOK
        <4>3. QED
          BY <1>0, <2>1, <4>1, <4>2 DEF Records
      <3>4. QED
        BY <1>0, <2>1, <3>1, <3>2, <3>3 DEF Records
    <2>2. QED
      BY <2>1
  <1>2. QED
    BY <1>0, <1>1, NothingNew

\* A crash loses memory; a torn file is no record.
LEMMA CrashKeeps ==
  ASSUME LineageInv, KmsTypeOK', Crash, NEW x \in Keys
  PROVE  KeyInv(x)'
  <1>0. KmsTypeOK /\ minted' = minted /\ kmsCopy' = [u \in Tasks |-> NoKey]
    BY DEF LineageInv, Crash
  <1>1. kmsDisk'[x] = kmsDisk[x] \/ kmsDisk'[x] = TornKey
    BY DEF Crash
  <1>2. kmsStore'[x] = IF kmsDisk'[x] = TornKey THEN NoKey ELSE kmsDisk'[x]
    BY DEF Crash, Loaded
  <1>3. \A r \in Records(x)' : r = kmsDisk'[x] /\ r = kmsStore'[x] /\ r = kmsDisk[x]
    BY <1>0, <1>1, <1>2 DEF Records
  <1>4. Records(x)' \subseteq Records(x)
    <2>1. ASSUME NEW r \in Records(x)'
          PROVE  r \in Records(x)
      <3>1. r \notin {NoKey, TornKey} /\ r = kmsDisk[x]
        BY <1>3, <2>1 DEF Records
      <3>2. QED
        BY <3>1 DEF Records
    <2>2. QED
      BY <2>1
  <1>5. QED
    BY <1>0, <1>3, <1>4, NothingNew

\* Every step keeps the lineages.
LEMMA LineageStep == LineageInv /\ [KmsNext]_kmsVars => LineageInv'
  <1> SUFFICES ASSUME LineageInv, [KmsNext]_kmsVars
               PROVE  LineageInv'
    OBVIOUS
  <1>1. KmsTypeOK' /\ CopyInv'
    BY KmsTypesStep DEF LineageInv
  <1>2. ASSUME NEW x \in Keys
        PROVE  KeyInv(x)'
    <2>1. CASE UNCHANGED kmsVars
      <3>1. kmsStore' = kmsStore /\ kmsDisk' = kmsDisk /\ kmsCopy' = kmsCopy /\ kmsKey' = kmsKey /\ minted' = minted
        BY <2>1 DEF kmsVars
      <3>2. Records(x)' = Records(x)
        BY <3>1 DEF Records
      <3>3. QED
        BY <1>1, <3>1, <3>2, NothingNew
    <2>2. QED
      BY <1>1, <2>1, CreateKeeps, RotateKeeps, DestroyKeeps, CallKeeps, CrashKeeps DEF KmsNext
  <1>3. QED
    BY <1>1, <1>2 DEF LineageInv

\* The versions a key keeps, in the map, in its file and on the way there, agree
\* for every number of keys and tasks, of crashes and of failing calls.
THEOREM KeyLineagesAgree == KmsSpec => []LineagesAgree
  <1>1. KmsInit => LineageInv
    <2> SUFFICES ASSUME KmsInit PROVE LineageInv
      OBVIOUS
    <2>1. KmsTypeOK /\ CopyInv
      BY KmsTypesInit
    <2>2. \A x \in Keys : Records(x) = {}
      BY DEF KmsInit, Records
    <2>3. QED
      BY <2>1, <2>2 DEF LineageInv, KeyInv
  <1>2. LineageInv => LineagesAgree
    <2> SUFFICES ASSUME LineageInv PROVE LineagesAgree
      OBVIOUS
    <2>1. KmsTypeOK /\ \A x \in Keys : KeyInv(x)
      BY DEF LineageInv
    <2>2. ASSUME NEW x \in Keys, kmsStore[x] # NoKey, kmsDisk[x] \notin {NoKey, TornKey},
                 kmsDisk[x].born = kmsStore[x].born
          PROVE  kmsDisk[x].version <= kmsStore[x].version
      BY <2>1, <2>2, RecordsTyped DEF KeyInv
    <2>3. QED
      BY <2>1, <2>2 DEF LineagesAgree, KeyInv
  <1>3. QED
    BY <1>1, <1>2, LineageStep, PTL DEF KmsSpec

-----------------------------------------------------------------------------
(* Durable *)

\* A key nothing disturbed: one call at most is at work on it; the file holds what
\* was acknowledged, and the map is ahead of it only by what that call did.
QuietInv(k) ==
  ~disturbed[k] =>
    /\ \A t, u \in Tasks : kmsPc[t] # "idle" /\ kmsPc[u] # "idle" /\ kmsKey[t] = k /\ kmsKey[u] = k => t = u
    /\ kmsDisk[k] = kmsAcked[k]
    /\ ~Busy(k) => kmsStore[k] = kmsAcked[k]
    /\ \A t \in Tasks : kmsKey[t] = k =>
         /\ kmsPc[t] = "save" => kmsStore[k] = kmsCopy[t]
         /\ kmsPc[t] = "reread" => kmsStore[k] # NoKey
         /\ kmsPc[t] = "unlink" => kmsStore[k] = NoKey

QuietKeys == \A k \in Keys : QuietInv(k)

\* The part of a call in memory.
LEMMA BeginQuiet ==
  ASSUME KmsTypeOK, QuietKeys, NEW t \in Tasks, NEW k \in Keys,
         Create(t, k) \/ Rotate(t, k) \/ Destroy(t, k), KmsTypeOK', CopyInv, NEW x \in Keys
  PROVE  QuietInv(x)'
  <1>0. /\ kmsPc[t] = "idle" /\ kmsKey' = [kmsKey EXCEPT ![t] = k] /\ kmsDisk' = kmsDisk /\ kmsAcked' = kmsAcked
        /\ disturbed' = [disturbed EXCEPT ![k] = @ \/ Busy(k)]
        /\ kmsPc'[t] \in {"save", "reread", "unlink"} /\ \A u \in Tasks \ {t} : kmsPc'[u] = kmsPc[u] /\ kmsCopy'[u] = kmsCopy[u]
        /\ \A y \in Keys \ {k} : kmsStore'[y] = kmsStore[y]
    BY DEF Create, Rotate, Destroy, Begin, KmsTypeOK
  <1>1. /\ kmsPc'[t] = "save" => kmsStore'[k] = kmsCopy'[t]
        /\ kmsPc'[t] = "reread" => kmsStore'[k] # NoKey
        /\ kmsPc'[t] = "unlink" => kmsStore'[k] = NoKey
    <2>1. CASE Create(t, k)
      BY <2>1 DEF Create, Begin, KmsTypeOK
    <2>2. CASE Rotate(t, k)
      <3>1. kmsStore[k] \in StoredKeys
        BY <2>2 DEF Rotate, KmsTypeOK
      <3>2. Rotated(kmsStore[k]) \in StoredKeys
        BY <3>1, RotatedRecord DEF KmsTypeOK
      <3>3. kmsStore'[k] = Rotated(kmsStore[k]) /\ kmsPc'[t] = "reread"
        BY <2>2 DEF Rotate, Begin, KmsTypeOK
      <3>4. QED
        BY <3>2, <3>3, KmsMarks
    <2>3. CASE Destroy(t, k)
      BY <2>3 DEF Destroy, Begin, KmsTypeOK
    <2>4. QED
      BY <2>1, <2>2, <2>3
  <1>2. CASE x = k
    <2>1. SUFFICES ASSUME ~disturbed'[k] PROVE QuietInv(x)'
      BY <1>2 DEF QuietInv
    <2>2. ~disturbed[k] /\ ~Busy(k)
      BY <1>0, <2>1 DEF KmsTypeOK
    <2>3. \A u \in Tasks \ {t} : kmsPc'[u] # "idle" => kmsKey'[u] # k
      BY <1>0, <2>2 DEF Busy, KmsTypeOK
    <2>4. Busy(k)'
      BY <1>0 DEF Busy, KmsTypeOK
    <2>5. QED
      BY <1>0, <1>1, <1>2, <2>2, <2>3, <2>4 DEF QuietInv, QuietKeys
  <1>3. CASE x # k
    <2>1. disturbed'[x] = disturbed[x]
      BY <1>0, <1>3 DEF KmsTypeOK
    <2>2. \A u \in Tasks : kmsPc'[u] # "idle" /\ kmsKey'[u] = x <=> kmsPc[u] # "idle" /\ kmsKey[u] = x
      BY <1>0, <1>3 DEF KmsTypeOK
    <2>3. Busy(x)' <=> Busy(x)
      BY <2>2 DEF Busy
    <2>4. \A u \in Tasks : kmsKey'[u] = x => u # t /\ kmsKey[u] = x
      BY <1>0, <1>3 DEF KmsTypeOK
    <2>5. QED
      BY <1>0, <1>3, <2>1, <2>2, <2>3, <2>4 DEF QuietInv, QuietKeys
  <1>4. QED
    BY <1>2, <1>3

\* A later step of a call.
LEMMA CallQuiet ==
  ASSUME KmsTypeOK, QuietKeys, KmsTypeOK', CopyInv, NEW t \in Tasks,
         Reread(t) \/ Save(t) \/ Unlink(t) \/ Fail(t), NEW x \in Keys
  PROVE  QuietInv(x)'
  <1>0. /\ kmsPc[t] # "idle" /\ kmsKey' = kmsKey /\ kmsStore' = kmsStore
        /\ \A u \in Tasks \ {t} : kmsPc'[u] = kmsPc[u] /\ kmsCopy'[u] = kmsCopy[u]
        /\ \A y \in Keys \ {kmsKey[t]} : /\ kmsDisk'[y] = kmsDisk[y] /\ kmsAcked'[y] = kmsAcked[y]
                                         /\ disturbed'[y] = disturbed[y]
    BY DEF Reread, Save, Saved, Unlink, Fail, kmsHistory, KmsTypeOK
  <1>1. CASE x # kmsKey[t]
    <2>1. \A u \in Tasks : kmsKey[u] = x => u # t
      BY <1>1
    <2>2. Busy(x)' <=> Busy(x)
      BY <1>0, <2>1 DEF Busy
    <2>3. QED
      BY <1>0, <1>1, <2>1, <2>2 DEF QuietInv, QuietKeys
  <1>2. CASE x = kmsKey[t]
    <2>0. SUFFICES ASSUME ~disturbed'[x] PROVE QuietInv(x)'
      BY DEF QuietInv
    <2>1. CASE Fail(t)
      BY <1>2, <2>0, <2>1 DEF Fail, KmsTypeOK
    <2>2. CASE ~Fail(t)
      <3>0. disturbed' = disturbed
        BY <2>2 DEF Reread, Save, Unlink, kmsHistory
      <3>1. /\ \A u \in Tasks \ {t} : kmsKey[u] = x => kmsPc[u] = "idle"
            /\ kmsDisk[x] = kmsAcked[x]
            /\ kmsPc[t] = "save" => kmsStore[x] = kmsCopy[t]
            /\ kmsPc[t] = "reread" => kmsStore[x] # NoKey
            /\ kmsPc[t] = "unlink" => kmsStore[x] = NoKey
        BY <1>0, <1>2, <2>0, <3>0 DEF QuietInv, QuietKeys
      <3>2. CASE Reread(t)
        <4>1. /\ kmsPc'[t] = "save" /\ kmsCopy'[t] = kmsStore[x]
              /\ kmsDisk' = kmsDisk /\ kmsAcked' = kmsAcked
          BY <1>2, <3>1, <3>2 DEF Reread, ToSave, kmsHistory, KmsTypeOK
        <4>2. Busy(x)'
          BY <1>0, <1>2, <4>1 DEF Busy
        <4>3. QED
          BY <1>0, <1>2, <3>1, <4>1, <4>2 DEF QuietInv
      <3>3. CASE Save(t)
        <4>1. /\ kmsPc'[t] = "idle" /\ kmsDisk'[x] = kmsCopy[t] /\ kmsAcked'[x] = kmsCopy[t]
              /\ kmsStore[x] = kmsCopy[t]
          BY <1>2, <3>1, <3>3 DEF Save, Saved, KmsTypeOK
        <4>2. QED
          BY <1>0, <1>2, <3>1, <4>1 DEF QuietInv
      <3>4. CASE Unlink(t)
        <4>1. /\ kmsPc'[t] = "idle" /\ kmsDisk'[x] = NoKey /\ kmsAcked'[x] = NoKey /\ kmsStore[x] = NoKey
          BY <1>2, <3>1, <3>4 DEF Unlink, KmsTypeOK
        <4>2. QED
          BY <1>0, <1>2, <3>1, <4>1 DEF QuietInv
      <3>5. QED
        BY <2>2, <3>2, <3>3, <3>4
    <2>3. QED
      BY <2>1, <2>2
  <1>3. QED
    BY <1>1, <1>2

\* A crash that leaves a key's file whole brings back what was acknowledged.
LEMMA CrashQuiet ==
  ASSUME KmsTypeOK, QuietKeys, Crash, NEW x \in Keys
  PROVE  QuietInv(x)'
  <1>0. SUFFICES ASSUME ~disturbed'[x] PROVE QuietInv(x)'
    BY DEF QuietInv
  <1>1. ~disturbed[x] /\ kmsDisk'[x] = kmsDisk[x] /\ kmsAcked' = kmsAcked
    BY <1>0 DEF Crash, KmsTypeOK
  <1>2. kmsDisk[x] = kmsAcked[x] /\ kmsAcked[x] \in StoredKeys \cup {NoKey}
    BY <1>1 DEF QuietInv, QuietKeys, KmsTypeOK
  <1>3. kmsDisk[x] # TornKey
    BY <1>2, KmsMarks
  <1>4. kmsStore'[x] = kmsDisk[x]
    BY <1>1, <1>3 DEF Crash, Loaded
  <1>5. \A u \in Tasks : kmsPc'[u] = "idle"
    BY DEF Crash
  <1>6. QED
    BY <1>1, <1>2, <1>4, <1>5 DEF QuietInv

\* A key whose calls neither overlapped nor failed survives every crash that does
\* not tear its file, as its last successful call left it.
THEOREM QuietKeysAreDurable == KmsSpec => []Durable
  <1> DEFINE Quiet == KmsTypeOK /\ CopyInv /\ QuietKeys
  <1>1. KmsInit => Quiet
    <2> SUFFICES ASSUME KmsInit PROVE Quiet
      OBVIOUS
    <2>1. KmsTypeOK /\ CopyInv
      BY KmsTypesInit
    <2>2. QuietKeys
      BY DEF KmsInit, QuietKeys, QuietInv
    <2>3. QED
      BY <2>1, <2>2
  <1>2. Quiet /\ [KmsNext]_kmsVars => Quiet'
    <2> SUFFICES ASSUME Quiet, [KmsNext]_kmsVars PROVE Quiet'
      OBVIOUS
    <2>1. KmsTypeOK' /\ CopyInv'
      BY KmsTypesStep
    <2>2. ASSUME NEW x \in Keys PROVE QuietInv(x)'
      <3>1. CASE UNCHANGED kmsVars
        <4>1. QuietInv(x)
          BY DEF QuietKeys
        <4>2. QED
          BY <3>1, <4>1 DEF kmsVars, kmsHistory, QuietInv, Busy
      <3>2. QED
        BY <2>1, <3>1, BeginQuiet, CallQuiet, CrashQuiet DEF KmsNext
    <2>3. QED
      BY <2>1, <2>2 DEF QuietKeys
  <1>3. Quiet => Durable
    BY DEF QuietKeys, QuietInv, Durable
  <1>4. QED
    BY <1>1, <1>2, <1>3, PTL DEF KmsSpec

(***************************************************************************)
(* The files of a model                                                    *)
(***************************************************************************)

MdlEditionsOrNone == MdlEditions \cup {0}
MdlTaskRecords ==
  [at : {"idle", "asking", "asked", "writing", "written", "renamed", "wrong", "left"},
   expected : MdlEditionsOrNone, edition : MdlEditionsOrNone, file : Nat,
   written : Nat, answer : {"none", "path", "error"}, given : Seq(MdlEditionsOrNone)]

MdlHolds(t) == mdlTask[t].at \in {"writing", "written", "left"}

MdlDiskTyped ==
  /\ mdlData \in Seq(Seq(MdlEditionsOrNone))
  /\ mdlTemp \in 0 .. Len(mdlData) /\ mdlFinal \in 0 .. Len(mdlData)
  /\ mdlTemp # 0 => mdlTemp # mdlFinal
  /\ mdlOverlap \in BOOLEAN

MdlTaskTyped ==
  /\ mdlTask \in [MdlTasks -> MdlTaskRecords]
  /\ \A t \in MdlTasks :
       /\ mdlTask[t].file \in 0 .. Len(mdlData)
       /\ mdlTask[t].at \in {"asking", "asked"} => mdlTask[t].written = 0
       /\ mdlTask[t].at \in {"asked", "writing", "left"} => mdlTask[t].edition \in MdlEditions
       /\ mdlTask[t].at \in {"writing", "left"} => mdlTask[t].file # 0

\* Without an overlap one download has the file open, under its temporary name, and
\* the file holds what that download has written.
MdlOpen(t) ==
  /\ mdlTemp # 0 /\ mdlTask[t].file = mdlTemp
  /\ mdlTask[t].at = "writing" =>
       /\ mdlTask[t].written < MdlPieces
       /\ mdlData[mdlTemp] = [i \in 1 .. mdlTask[t].written |-> mdlTask[t].edition]
  /\ mdlTask[t].at = "written" => \E e \in MdlEditions : mdlData[mdlTemp] = MdlWhole(e)

MdlAlone ==
  /\ \A t, u \in MdlTasks : MdlHolds(t) /\ MdlHolds(u) => t = u
  /\ \A t \in MdlTasks : MdlHolds(t) => MdlOpen(t)

MdlInv ==
  /\ MdlDiskTyped
  /\ MdlTaskTyped
  /\ ~mdlOverlap => MdlAlone
  /\ FinalIsWhole
  /\ CheckedIsRight

\* Nothing has happened to a file.
LEMMA MdlInitInv == MdlInit => MdlInv
  <1> SUFFICES ASSUME MdlInit PROVE MdlInv
    OBVIOUS
  <1>1. MdlIdle \in MdlTaskRecords /\ MdlIdle.at = "idle" /\ MdlIdle.answer = "none" /\ MdlIdle.file = 0
    BY DEF MdlIdle, MdlCall, MdlTaskRecords, MdlEditionsOrNone
  <1>2. mdlData \in Seq(Seq(MdlEditionsOrNone)) /\ Len(mdlData) = 0
    BY DEF MdlInit
  <1>3. \A t \in MdlTasks : mdlTask[t] = MdlIdle
    BY DEF MdlInit
  <1>4. MdlDiskTyped
    <2>1. mdlTemp = 0 /\ mdlFinal = 0 /\ mdlOverlap = FALSE
      BY DEF MdlInit
    <2>2. mdlTemp \in 0 .. Len(mdlData) /\ mdlFinal \in 0 .. Len(mdlData)
      BY <1>2, <2>1
    <2>3. QED
      BY <1>2, <2>1, <2>2 DEF MdlDiskTyped
  <1>5. MdlTaskTyped
    BY <1>1, <1>2, <1>3 DEF MdlInit, MdlTaskTyped
  <1>6. ~mdlOverlap => MdlAlone
    BY <1>1, <1>3 DEF MdlAlone, MdlHolds
  <1>7. FinalIsWhole
    BY DEF MdlInit, FinalIsWhole
  <1>8. CheckedIsRight
    BY <1>1, <1>3 DEF CheckedIsRight
  <1>9. QED
    BY <1>4, <1>5, <1>6, <1>7, <1>8 DEF MdlInv

\* A step of t leaves the other downloads where they are.
LEMMA MdlGoes ==
  ASSUME MdlInv, NEW t \in MdlTasks, NEW task \in MdlTaskRecords, MdlGo(t, task)
  PROVE  /\ mdlTask' \in [MdlTasks -> MdlTaskRecords]
         /\ mdlTask'[t] = task
         /\ \A u \in MdlTasks : u # t => mdlTask'[u] = mdlTask[u]
  BY DEF MdlInv, MdlTaskTyped, MdlGo

\* A piece that is put changes one file, and behind a row of pieces of its own
\* edition it makes the row longer by one.
LEMMA MdlPieceIsPut ==
  ASSUME MdlConstants, MdlInv, NEW t \in MdlTasks, mdlTask[t].at \in {"writing", "left"}, MdlPut(t)
  PROVE  /\ mdlData' \in Seq(Seq(MdlEditionsOrNone)) /\ Len(mdlData') = Len(mdlData)
         /\ \A f \in 1 .. Len(mdlData) : f # mdlTask[t].file => mdlData'[f] = mdlData[f]
         /\ mdlData[mdlTask[t].file] = [i \in 1 .. mdlTask[t].written |-> mdlTask[t].edition]
              => mdlData'[mdlTask[t].file] = [i \in 1 .. mdlTask[t].written + 1 |-> mdlTask[t].edition]
  <1>1. PICK n \in Nat : n = mdlTask[t].written
    BY DEF MdlInv, MdlTaskTyped, MdlTaskRecords
  <1>2. PICK f \in 1 .. Len(mdlData) : f = mdlTask[t].file
    <2>1. mdlTask[t].file \in 0 .. Len(mdlData) /\ mdlTask[t].file # 0
      BY DEF MdlInv, MdlTaskTyped
    <2>2. Len(mdlData) \in Nat
      BY DEF MdlInv, MdlDiskTyped
    <2>3. QED
      BY <2>1, <2>2
  <1>3. PICK e \in MdlEditions : e = mdlTask[t].edition
    BY DEF MdlInv, MdlTaskTyped
  <1>4. mdlData \in Seq(Seq(MdlEditionsOrNone)) /\ Len(mdlData) \in Nat
    BY DEF MdlInv, MdlDiskTyped
  <1>5. PICK old : old = mdlData[f]
    OBVIOUS
  <1>6. old \in Seq(MdlEditionsOrNone) /\ Len(old) \in Nat
    BY <1>4, <1>5
  <1>7. PICK len \in Nat : len = IF Len(old) > n + 1 THEN Len(old) ELSE n + 1
    BY <1>6
  <1>8. PICK new : new = [i \in 1 .. len |-> IF i = n + 1 THEN e ELSE IF i \in DOMAIN old THEN old[i] ELSE 0]
    OBVIOUS
  <1>9. new \in Seq(MdlEditionsOrNone)
    <2>1. \A i \in 1 .. len : new[i] \in MdlEditionsOrNone
      BY <1>6, <1>8 DEF MdlEditionsOrNone
    <2>2. new \in [1 .. len -> MdlEditionsOrNone]
      BY <1>8, <2>1
    <2>3. QED
      BY <2>2
  <1>10. mdlData' = [mdlData EXCEPT ![f] = new]
    BY <1>1, <1>2, <1>3, <1>5, <1>7, <1>8 DEF MdlPut
  <1>11. mdlData' \in Seq(Seq(MdlEditionsOrNone)) /\ Len(mdlData') = Len(mdlData)
    BY <1>4, <1>9, <1>10
  <1>12. \A g \in 1 .. Len(mdlData) : g # f => mdlData'[g] = mdlData[g]
    BY <1>4, <1>10
  <1>13. ASSUME old = [i \in 1 .. n |-> e]
         PROVE  new = [i \in 1 .. n + 1 |-> e]
    <2>1. Len(old) = n /\ len = n + 1 /\ DOMAIN old = 1 .. n
      BY <1>7, <1>13
    <2>2. \A i \in 1 .. n + 1 : (IF i = n + 1 THEN e ELSE IF i \in DOMAIN old THEN old[i] ELSE 0) = e
      BY <1>13, <2>1
    <2>3. QED
      BY <1>8, <2>1, <2>2
  <1>14. mdlData'[f] = new
    BY <1>4, <1>10
  <1>15. QED
    BY <1>1, <1>2, <1>3, <1>5, <1>11, <1>12, <1>13, <1>14

\* A step that writes and renames nothing, opens no file and answers nothing that
\* was not compared keeps everything.
LEMMA MdlQuietKeeps ==
  ASSUME MdlInv, NEW t \in MdlTasks, NEW task \in MdlTaskRecords, MdlGo(t, task),
         UNCHANGED <<mdlDisk, mdlOverlap>>,
         task.file \in 0 .. Len(mdlData),
         task.at \in {"asked", "writing", "left"} => task.edition \in MdlEditions,
         task.at \in {"writing", "left"} => task.file # 0,
         task.at \in {"asking", "asked"} => task.written = 0,
         task.at \in {"writing", "written", "left"} =>
           MdlHolds(t) /\ task.file = mdlTask[t].file /\ task.at = "left",
         task.answer = "path" /\ task.expected # 0 => task.given = MdlWhole(task.expected)
  PROVE  MdlInv'
  <1> DEFINE new == mdlTask'
  <1>1. /\ new \in [MdlTasks -> MdlTaskRecords] /\ new[t] = task
        /\ \A u \in MdlTasks : u # t => new[u] = mdlTask[u]
    BY MdlGoes
  <1>2. mdlData' = mdlData /\ mdlTemp' = mdlTemp /\ mdlFinal' = mdlFinal /\ mdlOverlap' = mdlOverlap
    BY DEF mdlDisk
  <1>3. MdlDiskTyped'
    BY <1>2 DEF MdlInv, MdlDiskTyped
  <1>4. MdlTaskTyped'
    BY <1>1, <1>2 DEF MdlInv, MdlTaskTyped
  <1>5. ASSUME ~mdlOverlap' PROVE MdlAlone'
    <2>1. MdlAlone
      BY <1>2, <1>5 DEF MdlInv
    <2>2. \A u \in MdlTasks : MdlHolds(u)' => MdlHolds(u)
      BY <1>1 DEF MdlHolds
    <2>3. ASSUME NEW u \in MdlTasks, MdlHolds(u)' PROVE MdlOpen(u)'
      <3>1. MdlOpen(u)
        BY <2>1, <2>2, <2>3 DEF MdlAlone
      <3>2. CASE u = t
        <4>1. new[t].at = "left" /\ new[t].file = mdlTask[t].file
          BY <1>1, <2>3, <3>2 DEF MdlHolds
        <4>2. QED
          BY <1>2, <3>1, <3>2, <4>1 DEF MdlOpen
      <3>3. CASE u # t
        <4>1. new[u] = mdlTask[u]
          BY <1>1, <3>3
        <4>2. QED
          BY <1>2, <3>1, <4>1 DEF MdlOpen
      <3>4. QED
        BY <3>2, <3>3
    <2>4. QED
      BY <2>1, <2>2, <2>3 DEF MdlAlone
  <1>6. FinalIsWhole'
    BY <1>2 DEF MdlInv, FinalIsWhole
  <1>7. CheckedIsRight'
    BY <1>1 DEF MdlInv, CheckedIsRight, MdlWhole
  <1>8. QED
    BY <1>3, <1>4, <1>5, <1>6, <1>7 DEF MdlInv

\* What a name stands for is a row of pieces or nothing.
LEMMA MdlGiven ==
  ASSUME MdlInv
  PROVE  (IF mdlFinal = 0 THEN << >> ELSE mdlData[mdlFinal]) \in Seq(MdlEditionsOrNone)
  <1>1. CASE mdlFinal = 0
    BY <1>1
  <1>2. CASE mdlFinal # 0
    BY <1>2 DEF MdlInv, MdlDiskTyped
  <1>3. QED
    BY <1>1, <1>2

\* What a task holds has its type.
LEMMA MdlTaskFields ==
  ASSUME MdlInv, NEW t \in MdlTasks
  PROVE  /\ mdlTask[t] \in MdlTaskRecords
         /\ mdlTask[t].file \in 0 .. Len(mdlData) /\ mdlTask[t].written \in Nat
         /\ mdlTask[t].at \in {"asked", "writing", "left"} => mdlTask[t].edition \in MdlEditions
         /\ mdlTask[t].at \in {"writing", "left"} => mdlTask[t].file # 0
         /\ mdlTask[t].at \in {"asking", "asked"} => mdlTask[t].written = 0
         /\ mdlTask[t].answer = "path" /\ mdlTask[t].expected # 0 =>
              mdlTask[t].given = MdlWhole(mdlTask[t].expected)
         /\ mdlData \in Seq(Seq(MdlEditionsOrNone)) /\ Len(mdlData) \in Nat
         /\ mdlTemp \in 0 .. Len(mdlData) /\ mdlFinal \in 0 .. Len(mdlData)
  BY DEF MdlInv, MdlTaskTyped, MdlDiskTyped, MdlTaskRecords, CheckedIsRight

\* A call begins: it holds nothing yet.
LEMMA MdlBeginKeeps ==
  ASSUME MdlInv, NEW t \in MdlTasks, NEW expected \in MdlEditionsOrNone, MdlBegin(t, expected)
  PROVE  MdlInv'
  <1>1. UNCHANGED <<mdlDisk, mdlOverlap>>
    BY DEF MdlBegin
  <1>2. Len(mdlData) \in Nat
    BY MdlTaskFields
  <1>3. CASE mdlFinal # 0 /\ (expected = 0 \/ mdlData[mdlFinal] = MdlWhole(expected))
    <2>1. PICK task : task = [at |-> "idle", expected |-> expected, edition |-> 0, file |-> 0,
                              written |-> 0, answer |-> "path", given |-> mdlData[mdlFinal]]
      OBVIOUS
    <2>2. MdlGo(t, task)
      BY <1>3, <2>1 DEF MdlBegin, MdlCall
    <2>3. task \in MdlTaskRecords
      <3>1. mdlData[mdlFinal] \in Seq(MdlEditionsOrNone)
        BY <1>3, MdlGiven
      <3>2. QED
        BY <2>1, <3>1 DEF MdlTaskRecords, MdlEditionsOrNone
    <2>4. /\ task.file \in 0 .. Len(mdlData) /\ task.at = "idle"
          /\ task.expected # 0 => task.given = MdlWhole(task.expected)
      BY <1>2, <1>3, <2>1
    <2>5. QED
      BY <1>1, <2>2, <2>3, <2>4, MdlQuietKeeps
  <1>4. CASE ~(mdlFinal # 0 /\ (expected = 0 \/ mdlData[mdlFinal] = MdlWhole(expected)))
    <2>1. PICK task : task = [at |-> "asking", expected |-> expected, edition |-> 0, file |-> 0,
                              written |-> 0, answer |-> "none", given |-> << >>]
      OBVIOUS
    <2>2. MdlGo(t, task)
      BY <1>4, <2>1 DEF MdlBegin, MdlCall
    <2>3. task \in MdlTaskRecords
      BY <2>1 DEF MdlTaskRecords, MdlEditionsOrNone
    <2>4. task.file \in 0 .. Len(mdlData) /\ task.at = "asking" /\ task.answer = "none" /\ task.written = 0
      BY <1>2, <2>1
    <2>5. QED
      BY <1>1, <2>2, <2>3, <2>4, MdlQuietKeeps
  <1>5. QED
    BY <1>3, <1>4

\* A failing call answers with an error.
LEMMA MdlFailing ==
  ASSUME MdlInv, NEW t \in MdlTasks, MdlFails(t)
  PROVE  \E task \in MdlTaskRecords :
           MdlGo(t, task) /\ task.at = "idle" /\ task.answer = "error" /\ task.file = mdlTask[t].file
  <1>1. PICK task : task = [mdlTask[t] EXCEPT !.at = "idle", !.answer = "error"]
    OBVIOUS
  <1>2. task \in MdlTaskRecords /\ task.at = "idle" /\ task.answer = "error" /\ task.file = mdlTask[t].file
    BY <1>1, MdlTaskFields DEF MdlTaskRecords
  <1>3. QED
    BY <1>1, <1>2 DEF MdlFails

\* The answer of the server names an edition, and no file is touched.
LEMMA MdlAskKeeps ==
  ASSUME MdlInv, NEW t \in MdlTasks, MdlAsk(t)
  PROVE  MdlInv'
  <1>0. mdlTask[t].at = "asking"
    BY DEF MdlAsk, MdlAt
  <1>1. UNCHANGED <<mdlDisk, mdlOverlap>>
    BY DEF MdlAsk
  <1>2. CASE MdlFails(t)
    BY <1>1, <1>2, MdlFailing, MdlTaskFields, MdlQuietKeeps
  <1>3. ASSUME NEW e \in MdlEditions, MdlGo(t, [mdlTask[t] EXCEPT !.at = "asked", !.edition = e])
        PROVE  MdlInv'
    <2>1. PICK task : task = [mdlTask[t] EXCEPT !.at = "asked", !.edition = e]
      OBVIOUS
    <2>2. /\ task \in MdlTaskRecords /\ task.at = "asked" /\ task.edition \in MdlEditions
          /\ task.file = mdlTask[t].file /\ task.answer = mdlTask[t].answer /\ task.written = mdlTask[t].written
          /\ task.expected = mdlTask[t].expected /\ task.given = mdlTask[t].given
      BY <2>1, MdlTaskFields DEF MdlTaskRecords, MdlEditionsOrNone
    <2>3. task.written = 0
      BY <1>0, <2>2, MdlTaskFields
    <2>4. QED
      BY <1>1, <1>3, <2>1, <2>2, <2>3, MdlTaskFields, MdlQuietKeeps
  <1>4. QED
    BY <1>2, <1>3 DEF MdlAsk

\* A transfer that breaks ends the call, and its file stays as it is.
LEMMA MdlBreakKeeps ==
  ASSUME MdlInv, NEW t \in MdlTasks, MdlBreak(t)
  PROVE  MdlInv'
  BY MdlFailing, MdlTaskFields, MdlQuietKeeps DEF MdlBreak

\* A call whose future is dropped leaves its file open to the writer's thread.
LEMMA MdlDroppedKeeps ==
  ASSUME MdlInv, NEW t \in MdlTasks, MdlDropped(t)
  PROVE  MdlInv'
  <1>1. UNCHANGED <<mdlDisk, mdlOverlap>>
    BY DEF MdlDropped
  <1>2. PICK at : at = IF MdlAt(t, "writing") /\ mdlTask[t].written < MdlPieces THEN "left" ELSE "idle"
    OBVIOUS
  <1>3. PICK task : task = [mdlTask[t] EXCEPT !.at = at, !.answer = "none"]
    OBVIOUS
  <1>4. MdlGo(t, task)
    BY <1>2, <1>3 DEF MdlDropped
  <1>5. at \in {"left", "idle"} /\ (at = "left" => mdlTask[t].at = "writing")
    BY <1>2 DEF MdlAt
  <1>6. /\ task \in MdlTaskRecords /\ task.at = at /\ task.answer = "none"
        /\ task.file = mdlTask[t].file /\ task.edition = mdlTask[t].edition
    BY <1>3, <1>5, MdlTaskFields DEF MdlTaskRecords
  <1>7. task.at = "left" => MdlHolds(t)
    BY <1>5, <1>6 DEF MdlHolds
  <1>8. QED
    BY <1>1, <1>4, <1>5, <1>6, <1>7, MdlTaskFields, MdlQuietKeeps

\* The checksum is compared with that of the file that has the final name.
LEMMA MdlCheckKeeps ==
  ASSUME MdlInv, NEW t \in MdlTasks, MdlCheck(t)
  PROVE  MdlInv'
  <1>1. UNCHANGED <<mdlDisk, mdlOverlap>>
    BY DEF MdlCheck
  <1> DEFINE right == mdlTask[t].expected = 0
                        \/ (mdlFinal # 0 /\ mdlData[mdlFinal] = MdlWhole(mdlTask[t].expected))
  <1>2. CASE right
    <2>1. PICK given \in Seq(MdlEditionsOrNone) : given = IF mdlFinal = 0 THEN << >> ELSE mdlData[mdlFinal]
      BY MdlGiven
    <2>2. PICK task : task = [mdlTask[t] EXCEPT !.at = "idle", !.answer = "path", !.given = given]
      OBVIOUS
    <2>3. MdlGo(t, task)
      BY <1>2, <2>1, <2>2 DEF MdlCheck, MdlReturns
    <2>4. /\ task \in MdlTaskRecords /\ task.at = "idle" /\ task.file = mdlTask[t].file
          /\ task.given = given /\ task.expected = mdlTask[t].expected
      BY <2>2, MdlTaskFields DEF MdlTaskRecords
    <2>5. task.expected # 0 => task.given = MdlWhole(task.expected)
      BY <1>2, <2>1, <2>4
    <2>6. QED
      BY <1>1, <2>3, <2>4, <2>5, MdlTaskFields, MdlQuietKeeps
  <1>3. CASE ~right
    <2>1. PICK task : task = [mdlTask[t] EXCEPT !.at = "wrong"]
      OBVIOUS
    <2>2. MdlGo(t, task)
      BY <1>3, <2>1 DEF MdlCheck
    <2>3. /\ task \in MdlTaskRecords /\ task.at = "wrong" /\ task.file = mdlTask[t].file
          /\ task.answer = mdlTask[t].answer
          /\ task.given = mdlTask[t].given /\ task.expected = mdlTask[t].expected
      BY <2>1, MdlTaskFields DEF MdlTaskRecords
    <2>4. QED
      BY <1>1, <2>2, <2>3, MdlTaskFields, MdlQuietKeeps
  <1>4. QED
    BY <1>2, <1>3

\* File::create: if nobody else has the file open, it is this download's alone.
LEMMA MdlCreateKeeps ==
  ASSUME MdlConstants, MdlInv, NEW t \in MdlTasks, MdlCreate(t)
  PROVE  MdlInv'
  <1>1. PICK task : task = [mdlTask[t] EXCEPT !.at = "writing", !.file = mdlTemp']
    OBVIOUS
  <1>2. mdlFinal' = mdlFinal /\ MdlGo(t, task) /\ mdlTask[t].at = "asked"
    BY <1>1 DEF MdlCreate, MdlAt
  <1>3. /\ mdlTemp' # 0 /\ mdlTemp' # mdlFinal
        /\ mdlData' \in Seq(Seq(MdlEditionsOrNone)) /\ Len(mdlData') \in Nat
        /\ Len(mdlData) <= Len(mdlData') /\ mdlTemp' \in 1 .. Len(mdlData')
        /\ mdlData'[mdlTemp'] = << >>
        /\ \A f \in 1 .. Len(mdlData) : f # mdlTemp' => mdlData'[f] = mdlData[f]
    <2>1. /\ mdlData \in Seq(Seq(MdlEditionsOrNone)) /\ Len(mdlData) \in Nat
          /\ mdlTemp \in 0 .. Len(mdlData) /\ mdlFinal \in 0 .. Len(mdlData)
          /\ mdlTemp # 0 => mdlTemp # mdlFinal
      BY DEF MdlInv, MdlDiskTyped
    <2>2. << >> \in Seq(MdlEditionsOrNone)
      OBVIOUS
    <2>3. CASE mdlTemp # 0
      <3>1. mdlData' = [mdlData EXCEPT ![mdlTemp] = << >>] /\ mdlTemp' = mdlTemp
        BY <2>3 DEF MdlCreate
      <3>2. QED
        BY <2>1, <2>2, <2>3, <3>1
    <2>4. CASE mdlTemp = 0
      <3>1. mdlData' = Append(mdlData, << >>) /\ mdlTemp' = Len(mdlData) + 1
        BY <2>4 DEF MdlCreate
      <3>2. QED
        BY <2>1, <2>2, <3>1
    <2>5. QED
      BY <2>3, <2>4
  <1>4. /\ task \in MdlTaskRecords /\ task.at = "writing" /\ task.file = mdlTemp'
        /\ task.written = mdlTask[t].written /\ task.edition = mdlTask[t].edition
        /\ task.answer = mdlTask[t].answer /\ task.expected = mdlTask[t].expected
        /\ task.given = mdlTask[t].given
    <2>1. mdlTask[t] \in MdlTaskRecords /\ mdlTemp' \in Nat
      BY <1>3, MdlTaskFields
    <2>2. QED
      BY <1>1, <2>1 DEF MdlTaskRecords
  <1>5. /\ mdlTask' \in [MdlTasks -> MdlTaskRecords] /\ mdlTask'[t] = task
        /\ \A u \in MdlTasks : u # t => mdlTask'[u] = mdlTask[u]
    BY <1>2, <1>4, MdlGoes
  <1>6. mdlOverlap' \in BOOLEAN /\ (~mdlOverlap' => ~mdlOverlap /\ \A u \in MdlTasks : ~MdlHolds(u))
    <2>1. mdlOverlap' = (mdlOverlap \/ \E u \in MdlTasks : MdlHolds(u))
      BY DEF MdlCreate, MdlHolds
    <2>2. QED
      BY <2>1 DEF MdlInv, MdlDiskTyped
  <1>7. mdlFinal \in 0 .. Len(mdlData) /\ mdlFinal \in 0 .. Len(mdlData')
    BY <1>3, MdlTaskFields
  <1>8. MdlDiskTyped'
    BY <1>2, <1>3, <1>6, <1>7 DEF MdlDiskTyped
  <1>9. MdlTaskTyped'
    <2>1. ASSUME NEW u \in MdlTasks
          PROVE  /\ mdlTask'[u].file \in 0 .. Len(mdlData')
                 /\ mdlTask'[u].at \in {"asking", "asked"} => mdlTask'[u].written = 0
                 /\ mdlTask'[u].at \in {"asked", "writing", "left"} => mdlTask'[u].edition \in MdlEditions
                 /\ mdlTask'[u].at \in {"writing", "left"} => mdlTask'[u].file # 0
      <3>1. CASE u = t
        <4>1. mdlTask[t].edition \in MdlEditions
          BY <1>2, MdlTaskFields
        <4>2. QED
          BY <1>3, <1>4, <1>5, <3>1, <4>1
      <3>2. CASE u # t
        <4>1. mdlTask'[u] = mdlTask[u]
          BY <1>5, <3>2
        <4>2. \A n \in 0 .. Len(mdlData) : n \in 0 .. Len(mdlData')
          BY <1>3, MdlTaskFields
        <4>3. QED
          BY <4>1, <4>2, MdlTaskFields
      <3>3. QED
        BY <3>1, <3>2
    <2>2. QED
      BY <1>5, <2>1 DEF MdlTaskTyped
  <1>10. ASSUME ~mdlOverlap' PROVE MdlAlone'
    <2>1. \A u \in MdlTasks : MdlHolds(u)' => u = t
      BY <1>5, <1>6, <1>10 DEF MdlHolds
    <2>2. mdlTask[t].written = 0
      BY <1>2, MdlTaskFields
    <2>3. MdlOpen(t)'
      <3>1. mdlData'[mdlTemp'] = [i \in 1 .. task.written |-> task.edition]
        BY <1>3, <1>4, <2>2
      <3>2. task.written < MdlPieces
        BY <1>4, <2>2 DEF MdlConstants
      <3>3. QED
        BY <1>3, <1>4, <1>5, <3>1, <3>2 DEF MdlOpen
    <2>4. QED
      BY <2>1, <2>3 DEF MdlAlone
  <1>11. FinalIsWhole'
    <2>1. mdlFinal # 0 => mdlData'[mdlFinal] = mdlData[mdlFinal]
      <3>1. mdlFinal # 0 => mdlFinal \in 1 .. Len(mdlData)
        BY <1>7, MdlTaskFields
      <3>2. QED
        BY <1>3, <3>1
    <2>2. QED
      BY <1>2, <1>6, <2>1 DEF MdlInv, FinalIsWhole
  <1>12. CheckedIsRight'
    <2>1. \A u \in MdlTasks : mdlTask'[u].answer = mdlTask[u].answer
             /\ mdlTask'[u].expected = mdlTask[u].expected /\ mdlTask'[u].given = mdlTask[u].given
      BY <1>4, <1>5
    <2>2. SUFFICES ASSUME NEW u \in MdlTasks, mdlTask'[u].answer = "path", mdlTask'[u].expected # 0
                   PROVE  mdlTask'[u].given = MdlWhole(mdlTask'[u].expected)
      BY DEF CheckedIsRight, MdlWhole
    <2>3. QED
      BY <2>1, <2>2, MdlTaskFields
  <1>13. QED
    BY <1>8, <1>9, <1>10, <1>11, <1>12 DEF MdlInv

\* A piece that is put touches nothing but the file of the one who puts it.
LEMMA MdlPutKeeps ==
  ASSUME MdlConstants, MdlInv, NEW t \in MdlTasks, mdlTask[t].at \in {"writing", "left"}, MdlPut(t),
         NEW task \in MdlTaskRecords, MdlGo(t, task), UNCHANGED <<mdlTemp, mdlFinal, mdlOverlap>>,
         task.file = mdlTask[t].file, task.edition = mdlTask[t].edition,
         task.answer = mdlTask[t].answer, task.expected = mdlTask[t].expected, task.given = mdlTask[t].given,
         task.at \in {"writing", "written", "idle"},
         task.at \in {"writing", "written"} =>
           /\ mdlTask[t].at = "writing" /\ task.written = mdlTask[t].written + 1
           /\ IF task.at = "writing" THEN task.written < MdlPieces ELSE task.written = MdlPieces
  PROVE  MdlInv'
  <1>1. /\ mdlTask' \in [MdlTasks -> MdlTaskRecords] /\ mdlTask'[t] = task
        /\ \A u \in MdlTasks : u # t => mdlTask'[u] = mdlTask[u]
    BY MdlGoes
  <1>2. /\ mdlData' \in Seq(Seq(MdlEditionsOrNone)) /\ Len(mdlData') = Len(mdlData)
        /\ \A f \in 1 .. Len(mdlData) : f # mdlTask[t].file => mdlData'[f] = mdlData[f]
        /\ mdlData[mdlTask[t].file] = [i \in 1 .. mdlTask[t].written |-> mdlTask[t].edition]
             => mdlData'[mdlTask[t].file] = [i \in 1 .. mdlTask[t].written + 1 |-> mdlTask[t].edition]
    BY MdlPieceIsPut
  <1>3. MdlDiskTyped'
    BY <1>2 DEF MdlInv, MdlDiskTyped
  <1>4. MdlTaskTyped'
    <2>1. ASSUME NEW u \in MdlTasks
          PROVE  /\ mdlTask'[u].file \in 0 .. Len(mdlData')
                 /\ mdlTask'[u].at \in {"asking", "asked"} => mdlTask'[u].written = 0
                 /\ mdlTask'[u].at \in {"asked", "writing", "left"} => mdlTask'[u].edition \in MdlEditions
                 /\ mdlTask'[u].at \in {"writing", "left"} => mdlTask'[u].file # 0
      <3>1. CASE u = t
        BY <1>1, <1>2, <3>1, MdlTaskFields
      <3>2. CASE u # t
        BY <1>1, <1>2, <3>2, MdlTaskFields
      <3>3. QED
        BY <3>1, <3>2
    <2>2. QED
      BY <1>1, <2>1 DEF MdlTaskTyped
  <1>5. ASSUME ~mdlOverlap' PROVE MdlAlone' /\ mdlTask[t].file = mdlTemp /\ mdlTemp # 0
    <2>1. MdlAlone /\ MdlHolds(t)
      BY <1>5 DEF MdlInv, MdlHolds
    <2>2. MdlOpen(t)
      BY <2>1 DEF MdlAlone
    <2>3. \A u \in MdlTasks : MdlHolds(u)' => u = t
      BY <1>1, <2>1 DEF MdlAlone, MdlHolds
    <2>4. ASSUME MdlHolds(t)' PROVE MdlOpen(t)'
      <3>1. task.at \in {"writing", "written"}
        BY <1>1, <2>4 DEF MdlHolds
      <3>2. mdlData'[mdlTemp] = [i \in 1 .. task.written |-> task.edition]
        BY <1>2, <2>2, <3>1 DEF MdlOpen
      <3>3. task.at = "written" => task.edition \in MdlEditions /\ mdlData'[mdlTemp] = MdlWhole(task.edition)
        BY <3>1, <3>2, MdlTaskFields DEF MdlWhole
      <3>4. QED
        BY <1>1, <2>2, <3>1, <3>2, <3>3 DEF MdlOpen, MdlWhole
    <2>5. QED
      BY <2>2, <2>3, <2>4 DEF MdlAlone, MdlOpen
  <1>6. FinalIsWhole'
    <2>1. SUFFICES ASSUME ~mdlOverlap', mdlFinal' # 0 PROVE FinalIsWhole'
      BY DEF FinalIsWhole
    <2>2. mdlFinal # mdlTask[t].file /\ mdlFinal \in 1 .. Len(mdlData)
      BY <1>5, <2>1 DEF MdlInv, MdlDiskTyped
    <2>3. mdlData'[mdlFinal] = mdlData[mdlFinal]
      BY <1>2, <2>2
    <2>4. QED
      BY <2>1, <2>3 DEF MdlInv, FinalIsWhole
  <1>7. CheckedIsRight'
    <2>1. \A u \in MdlTasks : mdlTask'[u].answer = mdlTask[u].answer
             /\ mdlTask'[u].expected = mdlTask[u].expected /\ mdlTask'[u].given = mdlTask[u].given
      BY <1>1
    <2>2. SUFFICES ASSUME NEW u \in MdlTasks, mdlTask'[u].answer = "path", mdlTask'[u].expected # 0
                   PROVE  mdlTask'[u].given = MdlWhole(mdlTask'[u].expected)
      BY DEF CheckedIsRight, MdlWhole
    <2>3. QED
      BY <2>1, <2>2, MdlTaskFields
  <1>8. QED
    BY <1>3, <1>4, <1>5, <1>6, <1>7 DEF MdlInv

\* The next piece goes to the open file.
LEMMA MdlWriteKeeps ==
  ASSUME MdlConstants, MdlInv, NEW t \in MdlTasks, MdlWrite(t)
  PROVE  MdlInv'
  <1>1. PICK n \in Nat : n = mdlTask[t].written
    BY MdlTaskFields
  <1>2. PICK at : at = IF n + 1 < MdlPieces THEN "writing" ELSE "written"
    OBVIOUS
  <1>3. PICK task : task = [mdlTask[t] EXCEPT !.written = n + 1, !.at = at]
    OBVIOUS
  <1>4. /\ mdlTask[t].at = "writing" /\ n < MdlPieces /\ MdlPut(t)
        /\ UNCHANGED <<mdlTemp, mdlFinal, mdlOverlap>>
    BY <1>1 DEF MdlWrite, MdlAt
  <1>5. MdlGo(t, task)
    <2>1. MdlGo(t, [mdlTask[t] EXCEPT !.written = @ + 1,
                                      !.at = IF mdlTask[t].written + 1 < MdlPieces THEN @ ELSE "written"])
      BY DEF MdlWrite
    <2>2. QED
      BY <1>1, <1>2, <1>3, <1>4, <2>1
  <1>6. /\ task \in MdlTaskRecords /\ task.at = at /\ task.written = n + 1
        /\ task.file = mdlTask[t].file /\ task.edition = mdlTask[t].edition
        /\ task.answer = mdlTask[t].answer /\ task.expected = mdlTask[t].expected
        /\ task.given = mdlTask[t].given
    <2>1. at \in {"writing", "written"} /\ mdlTask[t] \in MdlTaskRecords /\ n + 1 \in Nat
      BY <1>1, <1>2, MdlTaskFields
    <2>2. QED
      BY <1>3, <2>1 DEF MdlTaskRecords
  <1>7. IF task.at = "writing" THEN task.written < MdlPieces ELSE task.written = MdlPieces
    BY <1>1, <1>2, <1>4, <1>6 DEF MdlConstants
  <1>8. QED
    BY <1>1, <1>2, <1>4, <1>5, <1>6, <1>7, MdlPutKeeps

\* The piece in flight of a dropped call goes to its file.
LEMMA MdlLateWriteKeeps ==
  ASSUME MdlConstants, MdlInv, NEW t \in MdlTasks, MdlLateWrite(t)
  PROVE  MdlInv'
  <1>1. PICK task : task = [mdlTask[t] EXCEPT !.at = "idle"]
    OBVIOUS
  <1>2. MdlGo(t, task) /\ mdlTask[t].at = "left" /\ UNCHANGED <<mdlTemp, mdlFinal, mdlOverlap>>
    BY <1>1 DEF MdlLateWrite, MdlAt
  <1>3. /\ task \in MdlTaskRecords /\ task.at = "idle"
        /\ task.file = mdlTask[t].file /\ task.edition = mdlTask[t].edition
        /\ task.answer = mdlTask[t].answer /\ task.expected = mdlTask[t].expected
        /\ task.given = mdlTask[t].given
    <2>1. mdlTask[t] \in MdlTaskRecords
      BY MdlTaskFields
    <2>2. QED
      BY <1>1, <2>1 DEF MdlTaskRecords
  <1>4. CASE MdlPut(t)
    BY <1>2, <1>3, <1>4, MdlPutKeeps
  <1>5. CASE UNCHANGED mdlData
    <2>1. UNCHANGED <<mdlDisk, mdlOverlap>>
      BY <1>2, <1>5 DEF mdlDisk
    <2>2. QED
      BY <1>2, <1>3, <2>1, MdlTaskFields, MdlQuietKeeps
  <1>6. QED
    BY <1>4, <1>5 DEF MdlLateWrite

\* The file that gets the final name is whole, if nobody else has it open.
LEMMA MdlRenameKeeps ==
  ASSUME MdlInv, NEW t \in MdlTasks, MdlRename(t)
  PROVE  MdlInv'
  <1>1. mdlTask[t].at = "written" /\ mdlData' = mdlData /\ mdlOverlap' = mdlOverlap
    BY DEF MdlRename, MdlAt
  <1>2. CASE mdlTemp = 0
    <2>1. MdlFails(t) /\ UNCHANGED <<mdlDisk, mdlOverlap>>
      BY <1>1, <1>2 DEF MdlRename, mdlDisk
    <2>2. QED
      BY <2>1, MdlFailing, MdlTaskFields, MdlQuietKeeps
  <1>3. CASE mdlTemp # 0
    <2>1. PICK task : task = [mdlTask[t] EXCEPT !.at = "renamed"]
      OBVIOUS
    <2>2. MdlGo(t, task) /\ mdlFinal' = mdlTemp /\ mdlTemp' = 0
      BY <1>3, <2>1 DEF MdlRename
    <2>3. /\ task \in MdlTaskRecords /\ task.at = "renamed" /\ task.file = mdlTask[t].file
          /\ task.answer = mdlTask[t].answer /\ task.expected = mdlTask[t].expected
          /\ task.given = mdlTask[t].given
      <3>1. mdlTask[t] \in MdlTaskRecords
        BY MdlTaskFields
      <3>2. QED
        BY <2>1, <3>1 DEF MdlTaskRecords
    <2>4. /\ mdlTask' \in [MdlTasks -> MdlTaskRecords] /\ mdlTask'[t] = task
          /\ \A u \in MdlTasks : u # t => mdlTask'[u] = mdlTask[u]
      BY <2>2, <2>3, MdlGoes
    <2>5. MdlDiskTyped'
      <3>1. 0 \in 0 .. Len(mdlData)
        BY MdlTaskFields
      <3>2. QED
        BY <1>1, <2>2, <3>1 DEF MdlInv, MdlDiskTyped
    <2>6. MdlTaskTyped'
      BY <1>1, <2>3, <2>4 DEF MdlInv, MdlTaskTyped
    <2>7. ASSUME ~mdlOverlap'
          PROVE  MdlAlone' /\ \E e \in MdlEditions : mdlData[mdlTemp] = MdlWhole(e)
      <3>1. MdlAlone /\ MdlHolds(t)
        BY <1>1, <2>7 DEF MdlInv, MdlHolds
      <3>2. \A u \in MdlTasks : ~MdlHolds(u)'
        BY <2>3, <2>4, <3>1 DEF MdlAlone, MdlHolds
      <3>3. MdlOpen(t)
        BY <3>1 DEF MdlAlone
      <3>4. QED
        BY <1>1, <3>2, <3>3 DEF MdlAlone, MdlOpen
    <2>8. FinalIsWhole'
      BY <1>1, <2>2, <2>7 DEF FinalIsWhole
    <2>9. CheckedIsRight'
      <3>1. SUFFICES ASSUME NEW u \in MdlTasks, mdlTask'[u].answer = "path", mdlTask'[u].expected # 0
                     PROVE  mdlTask'[u].given = MdlWhole(mdlTask'[u].expected)
        BY DEF CheckedIsRight, MdlWhole
      <3>2. QED
        BY <2>3, <2>4, <3>1, MdlTaskFields
    <2>10. QED
      BY <2>5, <2>6, <2>7, <2>8, <2>9 DEF MdlInv
  <1>4. QED
    BY <1>2, <1>3

\* A file with a wrong checksum is removed.
LEMMA MdlRemoveKeeps ==
  ASSUME MdlInv, NEW t \in MdlTasks, MdlRemove(t)
  PROVE  MdlInv'
  <1>1. /\ mdlTask[t].at = "wrong" /\ mdlFinal' = 0 /\ MdlFails(t)
        /\ mdlData' = mdlData /\ mdlTemp' = mdlTemp /\ mdlOverlap' = mdlOverlap
    BY DEF MdlRemove, MdlAt
  <1>2. PICK task \in MdlTaskRecords :
          MdlGo(t, task) /\ task.at = "idle" /\ task.answer = "error" /\ task.file = mdlTask[t].file
    BY <1>1, MdlFailing
  <1>3. /\ mdlTask' \in [MdlTasks -> MdlTaskRecords] /\ mdlTask'[t] = task
        /\ \A u \in MdlTasks : u # t => mdlTask'[u] = mdlTask[u]
    BY <1>2, MdlGoes
  <1>4. MdlDiskTyped'
    <2>1. 0 \in 0 .. Len(mdlData)
      BY MdlTaskFields
    <2>2. QED
      BY <1>1, <2>1 DEF MdlInv, MdlDiskTyped
  <1>5. MdlTaskTyped'
    BY <1>1, <1>2, <1>3 DEF MdlInv, MdlTaskTyped
  <1>6. ASSUME ~mdlOverlap' PROVE MdlAlone'
    <2>1. MdlAlone
      BY <1>1, <1>6 DEF MdlInv
    <2>2. \A u \in MdlTasks : MdlHolds(u)' => u # t /\ MdlHolds(u)
      BY <1>2, <1>3 DEF MdlHolds
    <2>3. ASSUME NEW u \in MdlTasks, MdlHolds(u)' PROVE MdlOpen(u)'
      <3>1. MdlOpen(u) /\ mdlTask'[u] = mdlTask[u]
        BY <1>3, <2>1, <2>2, <2>3 DEF MdlAlone
      <3>2. QED
        BY <1>1, <3>1 DEF MdlOpen
    <2>4. QED
      BY <2>1, <2>2, <2>3 DEF MdlAlone
  <1>7. FinalIsWhole'
    BY <1>1 DEF FinalIsWhole
  <1>8. CheckedIsRight'
    <2>1. SUFFICES ASSUME NEW u \in MdlTasks, mdlTask'[u].answer = "path", mdlTask'[u].expected # 0
                   PROVE  mdlTask'[u].given = MdlWhole(mdlTask'[u].expected)
      BY DEF CheckedIsRight, MdlWhole
    <2>2. QED
      BY <1>2, <1>3, <2>1, MdlTaskFields
  <1>9. QED
    BY <1>4, <1>5, <1>6, <1>7, <1>8 DEF MdlInv

\* After a crash nobody has a file open; what has a name keeps it.
LEMMA MdlCrashKeeps ==
  ASSUME MdlInv, MdlCrash
  PROVE  MdlInv'
  <1>1. mdlData' = mdlData /\ mdlTemp' = mdlTemp /\ mdlFinal' = mdlFinal /\ mdlOverlap' = mdlOverlap
    BY DEF MdlCrash, mdlDisk
  <1>2. ASSUME NEW t \in MdlTasks
        PROVE  /\ mdlTask'[t] \in MdlTaskRecords /\ mdlTask'[t].at = "idle"
               /\ mdlTask'[t].file = mdlTask[t].file /\ mdlTask'[t].expected = mdlTask[t].expected
               /\ mdlTask'[t].given = mdlTask[t].given
               /\ mdlTask'[t].answer \in {mdlTask[t].answer, "none"}
    <2>1. PICK answer : answer = IF MdlAt(t, "idle") THEN mdlTask[t].answer ELSE "none"
      OBVIOUS
    <2>2. mdlTask'[t] = [mdlTask[t] EXCEPT !.at = "idle", !.answer = answer]
      BY <2>1 DEF MdlCrash
    <2>3. answer \in {"none", "path", "error"} /\ answer \in {mdlTask[t].answer, "none"}
          /\ mdlTask[t] \in MdlTaskRecords
      BY <2>1, MdlTaskFields DEF MdlTaskRecords
    <2>4. QED
      BY <2>2, <2>3 DEF MdlTaskRecords
  <1>3. mdlTask' \in [MdlTasks -> MdlTaskRecords]
    <2>1. mdlTask' = [t \in MdlTasks |-> mdlTask'[t]]
      BY DEF MdlCrash
    <2>2. QED
      BY <1>2, <2>1
  <1>4. MdlDiskTyped'
    BY <1>1 DEF MdlInv, MdlDiskTyped
  <1>5. MdlTaskTyped'
    <2>1. \A t \in MdlTasks : mdlTask'[t].file \in 0 .. Len(mdlData')
      BY <1>1, <1>2, MdlTaskFields
    <2>2. QED
      BY <1>2, <1>3, <2>1 DEF MdlTaskTyped
  <1>6. MdlAlone'
    BY <1>2 DEF MdlAlone, MdlHolds
  <1>7. FinalIsWhole'
    BY <1>1 DEF MdlInv, FinalIsWhole
  <1>8. CheckedIsRight'
    <2>1. SUFFICES ASSUME NEW u \in MdlTasks, mdlTask'[u].answer = "path", mdlTask'[u].expected # 0
                   PROVE  mdlTask'[u].given = MdlWhole(mdlTask'[u].expected)
      BY DEF CheckedIsRight, MdlWhole
    <2>2. QED
      BY <1>2, <2>1, MdlTaskFields
  <1>9. QED
    BY <1>4, <1>5, <1>6, <1>7, <1>8 DEF MdlInv

\* A downloaded file is whole or not there, as long as no two downloads write it at
\* once; and a call that expects a checksum answers with no other file, whatever
\* overlaps, breaks off, is dropped or crashes (download_file).
THEOREM DownloadsAreWhole == MdlSpec => []ModelFilesSound
  <1>1. ASSUME MdlInv, [MdlNext]_mdlVars PROVE MdlInv'
    <2>1. CASE MdlNext
      <3>1. MdlConstants
        BY MdlConstants
      <3>2. ASSUME NEW t \in MdlTasks, NEW e \in MdlEditions \cup {0}, MdlBegin(t, e) PROVE MdlInv'
        BY <1>1, <3>2, MdlBeginKeeps DEF MdlEditionsOrNone
      <3>3. ASSUME NEW t \in MdlTasks,
                   \/ MdlAsk(t) \/ MdlCreate(t) \/ MdlWrite(t) \/ MdlBreak(t) \/ MdlRename(t)
                   \/ MdlCheck(t) \/ MdlRemove(t) \/ MdlDropped(t) \/ MdlLateWrite(t)
            PROVE  MdlInv'
        BY <1>1, <3>1, <3>3, MdlAskKeeps, MdlCreateKeeps, MdlWriteKeeps, MdlBreakKeeps, MdlRenameKeeps,
           MdlCheckKeeps, MdlRemoveKeeps, MdlDroppedKeeps, MdlLateWriteKeeps
      <3>4. QED
        BY <1>1, <2>1, <3>2, <3>3, MdlCrashKeeps DEF MdlNext
    <2>2. CASE UNCHANGED mdlVars
      <3>1. /\ mdlData' = mdlData /\ mdlTemp' = mdlTemp /\ mdlFinal' = mdlFinal
            /\ mdlTask' = mdlTask /\ mdlOverlap' = mdlOverlap
        BY <2>2 DEF mdlVars
      <3>2. MdlDiskTyped' /\ MdlTaskTyped' /\ FinalIsWhole' /\ CheckedIsRight'
        BY <1>1, <3>1 DEF MdlInv, MdlDiskTyped, MdlTaskTyped, FinalIsWhole, CheckedIsRight, MdlWhole
      <3>3. (~mdlOverlap => MdlAlone)'
        BY <1>1, <3>1 DEF MdlInv, MdlAlone, MdlOpen, MdlHolds
      <3>4. QED
        BY <3>2, <3>3 DEF MdlInv
    <2>3. QED
      BY <1>1, <2>1, <2>2
  <1>2. MdlInv => ModelFilesSound
    BY DEF MdlInv, ModelFilesSound
  <1>3. QED
    BY <1>1, <1>2, MdlInitInv, PTL DEF MdlSpec

(***************************************************************************)
(* The rotation of keys                                                    *)
(***************************************************************************)

RotRecords == [key : RotKeys, version : Nat]

RotTyped ==
  /\ rotNow \in Nat
  /\ rotVersion \in [RotKeys -> Nat]
  /\ \A k \in RotKeys : rotVersion[k] = 1 \/ rotVersion[k] \in 2 .. RotMaxVersions
  /\ rotHist \in Seq(RotRecords)
  /\ rotWorker \in [RotWorkers -> [at : {"new", "tick", "rotate", "record", "reschedule", "done"},
                                   due : SUBSET RotKeys, key : SUBSET RotKeys, now : Nat, made : SUBSET RotRecords]]
  /\ rotHandle \subseteq RotWorkers
  /\ rotCall \in [RotCallers -> [at : {"idle", "reschedule", "record"}, made : SUBSET RotRecords]]
  /\ rotLost \subseteq RotRecords

\* No date is further ahead than one interval, and no task has read a later time.
RotScheduled ==
  /\ DOMAIN rotNext \subseteq RotKeys
  /\ \A k \in DOMAIN rotNext : rotNext[k] \in Nat /\ rotNext[k] <= rotNow + RotInterval
  /\ \A w \in RotWorkers : rotWorker[w].now <= rotNow

\* A task or a caller holds one rotation while it has to record it, and none else.
RotHeld ==
  /\ \A w \in RotWorkers : IF rotWorker[w].at = "record" THEN \E r \in RotRecords : rotWorker[w].made = {r}
                                                         ELSE rotWorker[w].made = {}
  /\ \A c \in RotCallers : IF rotCall[c].at # "idle" THEN \E r \in RotRecords : rotCall[c].made = {r}
                                                     ELSE rotCall[c].made = {}

\* Each rotation that was made is in one place: recorded, lost, or held by one
\* task or by one caller.
RotPlaces(kept, lost, W, C, done) ==
  /\ kept \cup lost \cup (UNION {W[w] : w \in RotWorkers}) \cup (UNION {C[c] : c \in RotCallers}) = done
  /\ kept \cap lost = {}
  /\ \A w \in RotWorkers : W[w] \cap (kept \cup lost) = {}
  /\ \A c \in RotCallers : C[c] \cap (kept \cup lost) = {}
  /\ \A w, u \in RotWorkers : w # u => W[w] \cap W[u] = {}
  /\ \A c, d \in RotCallers : c # d => C[c] \cap C[d] = {}
  /\ \A w \in RotWorkers, c \in RotCallers : W[w] \cap C[c] = {}

RotKept == {rotHist[i] : i \in DOMAIN rotHist}
RotByWorkers == [w \in RotWorkers |-> rotWorker[w].made]
RotByCallers == [c \in RotCallers |-> rotCall[c].made]
RotDone == {r \in RotRecords : 2 <= r.version /\ r.version <= rotVersion[r.key]}

RotRecordedOnce == \A i, j \in DOMAIN rotHist : rotHist[i] = rotHist[j] => i = j

RotInv ==
  /\ RotTyped /\ RotScheduled /\ RotHeld
  /\ RotPlaces(RotKept, rotLost, RotByWorkers, RotByCallers, RotDone)
  /\ RotRecordedOnce

\* A new rotation in the hands of a task that held none.
LEMMA RotNewByWorker ==
  ASSUME NEW kept, NEW lost, NEW W, NEW C, NEW done, RotPlaces(kept, lost, W, C, done),
         NEW w \in RotWorkers, W[w] = {}, NEW r, r \notin done,
         NEW V, V[w] = {r}, \A u \in RotWorkers : u # w => V[u] = W[u]
  PROVE  RotPlaces(kept, lost, V, C, done \cup {r})
  <1>1. (UNION {V[u] : u \in RotWorkers}) = (UNION {W[u] : u \in RotWorkers}) \cup {r}
    OBVIOUS
  <1>2. /\ r \notin kept /\ r \notin lost
        /\ \A u \in RotWorkers : r \notin W[u]
        /\ \A c \in RotCallers : r \notin C[c]
    BY DEF RotPlaces
  <1>3. QED
    BY <1>1, <1>2 DEF RotPlaces

\* ... and in those of a caller.
LEMMA RotNewByCaller ==
  ASSUME NEW kept, NEW lost, NEW W, NEW C, NEW done, RotPlaces(kept, lost, W, C, done),
         NEW c \in RotCallers, C[c] = {}, NEW r, r \notin done,
         NEW D, D[c] = {r}, \A d \in RotCallers : d # c => D[d] = C[d]
  PROVE  RotPlaces(kept, lost, W, D, done \cup {r})
  <1>1. (UNION {D[d] : d \in RotCallers}) = (UNION {C[d] : d \in RotCallers}) \cup {r}
    OBVIOUS
  <1>2. /\ r \notin kept /\ r \notin lost
        /\ \A u \in RotWorkers : r \notin W[u]
        /\ \A d \in RotCallers : r \notin C[d]
    BY DEF RotPlaces
  <1>3. QED
    BY <1>1, <1>2 DEF RotPlaces

\* What a task lets go of is recorded or lost.
LEMMA RotPlacedByWorker ==
  ASSUME NEW kept, NEW lost, NEW W, NEW C, NEW done, RotPlaces(kept, lost, W, C, done),
         NEW w \in RotWorkers, NEW V, V[w] = {}, \A u \in RotWorkers : u # w => V[u] = W[u]
  PROVE  /\ RotPlaces(kept \cup W[w], lost, V, C, done)
         /\ RotPlaces(kept, lost \cup W[w], V, C, done)
  <1>1. (UNION {V[u] : u \in RotWorkers}) \cup W[w] = (UNION {W[u] : u \in RotWorkers})
    OBVIOUS
  <1>2. \A u \in RotWorkers : V[u] \subseteq W[u] /\ V[u] \cap W[w] = {}
    BY DEF RotPlaces
  <1>3. QED
    BY <1>1, <1>2 DEF RotPlaces

\* What a caller lets go of is recorded.
LEMMA RotPlacedByCaller ==
  ASSUME NEW kept, NEW lost, NEW W, NEW C, NEW done, RotPlaces(kept, lost, W, C, done),
         NEW c \in RotCallers, NEW D, D[c] = {}, \A d \in RotCallers : d # c => D[d] = C[d]
  PROVE  RotPlaces(kept \cup C[c], lost, W, D, done)
  <1>1. (UNION {D[d] : d \in RotCallers}) \cup C[c] = (UNION {C[d] : d \in RotCallers})
    OBVIOUS
  <1>2. \A d \in RotCallers : D[d] \subseteq C[d] /\ D[d] \cap C[c] = {}
    BY DEF RotPlaces
  <1>3. QED
    BY <1>1, <1>2 DEF RotPlaces

\* At first every key has its first version and nothing was rotated.
LEMMA RotInitInv == RotInit => RotInv
  <1> SUFFICES ASSUME RotInit PROVE RotInv
    OBVIOUS
  <1>1. RotTyped
    BY DEF RotInit, RotTyped
  <1>2. RotScheduled
    BY DEF RotInit, RotScheduled
  <1>3. RotHeld
    BY DEF RotInit, RotHeld
  <1>4. RotPlaces(RotKept, rotLost, RotByWorkers, RotByCallers, RotDone)
    <2>1. RotKept = {} /\ rotLost = {}
      BY DEF RotInit, RotKept
    <2>2. \A w \in RotWorkers : RotByWorkers[w] = {}
      BY DEF RotInit, RotByWorkers
    <2>3. \A c \in RotCallers : RotByCallers[c] = {}
      BY DEF RotInit, RotByCallers
    <2>4. RotDone = {}
      BY DEF RotInit, RotDone, RotRecords
    <2>5. QED
      BY <2>1, <2>2, <2>3, <2>4 DEF RotPlaces
  <1>5. RotRecordedOnce
    BY DEF RotInit, RotRecordedOnce
  <1>6. QED
    BY <1>1, <1>2, <1>3, <1>4, <1>5 DEF RotInv

\* A date that is set anew is one interval behind a time that was read.
LEMMA RotDates ==
  ASSUME RotConstants, RotInv, NEW k \in RotKeys, NEW date \in Nat, date <= rotNow,
         RotReschedule(k, date), rotNow' = rotNow
  PROVE  /\ DOMAIN rotNext' \subseteq RotKeys
         /\ \A x \in DOMAIN rotNext' : rotNext'[x] \in Nat /\ rotNext'[x] <= rotNow + RotInterval
  <1>1. RotInterval \in Nat /\ rotNow \in Nat
    BY DEF RotConstants, RotInv, RotTyped
  <1>2. date + RotInterval \in Nat /\ date + RotInterval <= rotNow + RotInterval
    BY <1>1
  <1>3. QED
    BY <1>2 DEF RotReschedule, RotInv, RotScheduled

\* What a task holds has its type.
LEMMA RotWorkerFields ==
  ASSUME RotInv, NEW w \in RotWorkers
  PROVE  /\ rotWorker[w] \in [at : {"new", "tick", "rotate", "record", "reschedule", "done"},
                              due : SUBSET RotKeys, key : SUBSET RotKeys, now : Nat, made : SUBSET RotRecords]
         /\ rotWorker[w].now <= rotNow /\ rotWorker[w].now \in Nat
         /\ rotWorker[w].at # "record" => rotWorker[w].made = {}
         /\ rotWorker[w].at = "record" => \E r \in RotRecords : rotWorker[w].made = {r}
  BY DEF RotInv, RotTyped, RotScheduled, RotHeld

\* A step of a task that makes, records and loses nothing.
LEMMA RotWorkerGoes ==
  ASSUME RotInv, NEW w \in RotWorkers,
         NEW task \in [at : {"new", "tick", "rotate", "reschedule", "done"},
                       due : SUBSET RotKeys, key : SUBSET RotKeys, now : Nat, made : {{}}],
         task.now <= rotNow, rotWorker[w].made = {},
         rotWorker' = [rotWorker EXCEPT ![w] = task], rotHandle' \subseteq RotWorkers,
         UNCHANGED <<rotNow, rotVersion, rotHist, rotCall, rotLost>>,
         DOMAIN rotNext' \subseteq RotKeys,
         \A k \in DOMAIN rotNext' : rotNext'[k] \in Nat /\ rotNext'[k] <= rotNow + RotInterval
  PROVE  RotInv'
  <1>1. task \in [at : {"new", "tick", "rotate", "record", "reschedule", "done"},
                  due : SUBSET RotKeys, key : SUBSET RotKeys, now : Nat, made : SUBSET RotRecords]
        /\ task.made = {} /\ task.at # "record"
    OBVIOUS
  <1>2. rotWorker'[w] = task /\ \A u \in RotWorkers : u # w => rotWorker'[u] = rotWorker[u]
    BY DEF RotInv, RotTyped
  <1>3. RotTyped'
    BY <1>1 DEF RotInv, RotTyped
  <1>4. RotScheduled'
    BY <1>2 DEF RotInv, RotScheduled
  <1>5. RotHeld'
    BY <1>1, <1>2 DEF RotInv, RotHeld
  <1>6. RotByWorkers' = RotByWorkers /\ RotByCallers' = RotByCallers
    BY <1>1, <1>2 DEF RotByWorkers, RotByCallers
  <1>7. RotKept' = RotKept /\ RotDone' = RotDone
    BY DEF RotKept, RotDone
  <1>8. RotPlaces(RotKept, rotLost, RotByWorkers, RotByCallers, RotDone)'
    BY <1>6, <1>7 DEF RotInv, RotPlaces
  <1>9. RotRecordedOnce'
    BY DEF RotInv, RotRecordedOnce
  <1>10. QED
    BY <1>3, <1>4, <1>5, <1>8, <1>9 DEF RotInv

\* A scheduler's task wakes and takes the due keys.
LEMMA RotTickKeeps ==
  ASSUME RotInv, NEW w \in RotWorkers, RotTick(w)
  PROVE  RotInv'
  <1>1. PICK due : due = {k \in DOMAIN rotNext : rotNow >= rotNext[k]}
    OBVIOUS
  <1>2. PICK task : task = [at |-> "rotate", due |-> due, key |-> {}, now |-> rotNow, made |-> {}]
    OBVIOUS
  <1>3. rotWorker' = [rotWorker EXCEPT ![w] = task] /\ rotWorker[w].at = "tick"
        /\ UNCHANGED <<rotNow, rotVersion, rotNext, rotHist, rotHandle, rotCall, rotLost>>
    BY <1>1, <1>2 DEF RotTick
  <1>4. due \subseteq RotKeys /\ rotNow \in Nat
    BY <1>1 DEF RotInv, RotScheduled, RotTyped
  <1>5. task \in [at : {"new", "tick", "rotate", "reschedule", "done"},
                  due : SUBSET RotKeys, key : SUBSET RotKeys, now : Nat, made : {{}}]
        /\ task.now <= rotNow
    BY <1>2, <1>4
  <1>6. QED
    BY <1>3, <1>5, RotWorkerFields, RotWorkerGoes DEF RotInv, RotScheduled, RotTyped

\* start() spawns a task.
LEMMA RotStartKeeps ==
  ASSUME RotInv, NEW w \in RotWorkers, RotStart(w)
  PROVE  RotInv'
  <1>1. PICK task : task = [rotWorker[w] EXCEPT !.at = "tick"]
    OBVIOUS
  <1>2. rotWorker' = [rotWorker EXCEPT ![w] = task] /\ rotWorker[w].at = "new" /\ rotHandle' = {w}
        /\ UNCHANGED <<rotNow, rotVersion, rotNext, rotHist, rotCall, rotLost>>
    BY <1>1 DEF RotStart
  <1>3. task \in [at : {"new", "tick", "rotate", "reschedule", "done"},
                  due : SUBSET RotKeys, key : SUBSET RotKeys, now : Nat, made : {{}}]
        /\ task.now <= rotNow
    BY <1>1, <1>2, RotWorkerFields
  <1>4. /\ rotHandle' \subseteq RotWorkers /\ DOMAIN rotNext' \subseteq RotKeys
        /\ \A k \in DOMAIN rotNext' : rotNext'[k] \in Nat /\ rotNext'[k] <= rotNow + RotInterval
    BY <1>2 DEF RotInv, RotScheduled
  <1>5. QED
    BY <1>2, <1>3, <1>4, RotWorkerFields, RotWorkerGoes

\* A task sets the next date of the key it has rotated, from the time it read.
LEMMA RotPostponeKeeps ==
  ASSUME RotConstants, RotInv, NEW w \in RotWorkers, RotPostpone(w)
  PROVE  RotInv'
  <1>1. PICK left : left = rotWorker[w].due \ rotWorker[w].key
    OBVIOUS
  <1>2. PICK at : at = IF left = {} THEN "tick" ELSE "rotate"
    OBVIOUS
  <1>3. PICK task : task = [rotWorker[w] EXCEPT !.at = at, !.due = left, !.key = {}]
    OBVIOUS
  <1>4. rotWorker' = [rotWorker EXCEPT ![w] = task] /\ rotWorker[w].at = "reschedule"
        /\ UNCHANGED <<rotNow, rotVersion, rotHist, rotHandle, rotCall, rotLost>>
    BY <1>1, <1>2, <1>3 DEF RotPostpone
  <1>5. PICK k \in rotWorker[w].key : RotReschedule(k, rotWorker[w].now)
    BY DEF RotPostpone
  <1>6. /\ DOMAIN rotNext' \subseteq RotKeys
        /\ \A x \in DOMAIN rotNext' : rotNext'[x] \in Nat /\ rotNext'[x] <= rotNow + RotInterval
    <2>1. k \in RotKeys /\ rotWorker[w].now \in Nat /\ rotWorker[w].now <= rotNow
      BY RotWorkerFields
    <2>2. QED
      BY <1>4, <1>5, <2>1, RotDates
  <1>7. task \in [at : {"new", "tick", "rotate", "reschedule", "done"},
                  due : SUBSET RotKeys, key : SUBSET RotKeys, now : Nat, made : {{}}]
        /\ task.now <= rotNow
    <2>1. at \in {"tick", "rotate"} /\ left \subseteq RotKeys /\ rotWorker[w].made = {}
      BY <1>1, <1>2, <1>4, RotWorkerFields
    <2>2. QED
      BY <1>3, <2>1, RotWorkerFields
  <1>8. rotHandle' \subseteq RotWorkers
    BY <1>4 DEF RotInv, RotTyped
  <1>9. QED
    BY <1>4, <1>6, <1>7, <1>8, RotWorkerFields, RotWorkerGoes

\* A task that is aborted loses what it holds.
LEMMA RotStopKeeps ==
  ASSUME RotInv, RotStop
  PROVE  RotInv'
  <1>1. PICK w \in rotHandle :
          /\ rotHandle' = {}
          /\ rotLost' = rotLost \cup rotWorker[w].made
          /\ rotWorker' = [rotWorker EXCEPT ![w] = [rotWorker[w] EXCEPT !.at = "done", !.due = {}, !.key = {}, !.made = {}]]
          /\ UNCHANGED <<rotNow, rotVersion, rotNext, rotHist, rotCall>>
    BY DEF RotStop
  <1>2. w \in RotWorkers
    BY DEF RotInv, RotTyped
  <1>3. PICK task : task = [rotWorker[w] EXCEPT !.at = "done", !.due = {}, !.key = {}, !.made = {}]
    OBVIOUS
  <1>4. /\ task \in [at : {"new", "tick", "rotate", "record", "reschedule", "done"},
                     due : SUBSET RotKeys, key : SUBSET RotKeys, now : Nat, made : SUBSET RotRecords]
        /\ task.at = "done" /\ task.made = {} /\ task.now = rotWorker[w].now
    BY <1>2, <1>3, RotWorkerFields
  <1>5. rotWorker'[w] = task /\ \A u \in RotWorkers : u # w => rotWorker'[u] = rotWorker[u]
    BY <1>1, <1>3 DEF RotInv, RotTyped
  <1>6. RotTyped'
    <2>1. rotLost' \subseteq RotRecords
      BY <1>1, <1>2, RotWorkerFields DEF RotInv, RotTyped
    <2>2. rotWorker' = [rotWorker EXCEPT ![w] = task]
      BY <1>1, <1>3
    <2>3. QED
      BY <1>1, <1>4, <2>1, <2>2 DEF RotInv, RotTyped
  <1>7. RotScheduled'
    BY <1>1, <1>4, <1>5 DEF RotInv, RotScheduled
  <1>8. RotHeld'
    BY <1>1, <1>4, <1>5 DEF RotInv, RotHeld
  <1>9. RotPlaces(RotKept, rotLost, RotByWorkers, RotByCallers, RotDone)'
    <2>1. RotPlaces(RotKept, rotLost, RotByWorkers, RotByCallers, RotDone)
      BY DEF RotInv
    <2>2. RotByWorkers'[w] = {} /\ RotByWorkers[w] = rotWorker[w].made
          /\ \A u \in RotWorkers : u # w => RotByWorkers'[u] = RotByWorkers[u]
      BY <1>2, <1>4, <1>5 DEF RotByWorkers
    <2>3. RotPlaces(RotKept, rotLost \cup RotByWorkers[w], RotByWorkers', RotByCallers, RotDone)
      BY <1>2, <2>1, <2>2, RotPlacedByWorker
    <2>4. RotKept' = RotKept /\ RotByCallers' = RotByCallers /\ RotDone' = RotDone
      BY <1>1 DEF RotKept, RotByCallers, RotDone
    <2>5. QED
      BY <1>1, <2>2, <2>3, <2>4 DEF RotPlaces
  <1>10. RotRecordedOnce'
    BY <1>1 DEF RotInv, RotRecordedOnce
  <1>11. QED
    BY <1>6, <1>7, <1>8, <1>9, <1>10 DEF RotInv

\* A rotation makes the next version of its key, which nobody has made before.
LEMMA RotVersionIsNew ==
  ASSUME RotConstants, RotInv, NEW k \in RotKeys, rotVersion[k] < RotMaxVersions,
         rotVersion' = [rotVersion EXCEPT ![k] = @ + 1]
  PROVE  \E r \in RotRecords :
           /\ r = [key |-> k, version |-> rotVersion[k] + 1]
           /\ r \notin RotDone /\ RotDone' = RotDone \cup {r}
           /\ rotVersion' \in [RotKeys -> Nat]
           /\ \A x \in RotKeys : rotVersion'[x] = 1 \/ rotVersion'[x] \in 2 .. RotMaxVersions
  <1>1. PICK n \in Nat : n = rotVersion[k]
    BY DEF RotInv, RotTyped
  <1>2. RotMaxVersions \in Nat /\ n >= 1 /\ n < RotMaxVersions
    BY <1>1 DEF RotConstants, RotInv, RotTyped
  <1>3. PICK r : r = [key |-> k, version |-> n + 1]
    OBVIOUS
  <1>4. r \in RotRecords /\ r.key = k /\ r.version = n + 1
    BY <1>1, <1>3 DEF RotRecords
  <1>5. rotVersion'[k] = n + 1 /\ \A x \in RotKeys : x # k => rotVersion'[x] = rotVersion[x]
    BY <1>1 DEF RotInv, RotTyped
  <1>6. rotVersion' \in [RotKeys -> Nat]
        /\ \A x \in RotKeys : rotVersion'[x] = 1 \/ rotVersion'[x] \in 2 .. RotMaxVersions
    <2>1. rotVersion' \in [RotKeys -> Nat]
      BY <1>1 DEF RotInv, RotTyped
    <2>2. n + 1 \in 2 .. RotMaxVersions
      BY <1>1, <1>2
    <2>3. QED
      BY <1>5, <2>1, <2>2 DEF RotInv, RotTyped
  <1>7. r \notin RotDone
    BY <1>1, <1>4 DEF RotDone
  <1>8. RotDone' = RotDone \cup {r}
    <2>1. ASSUME NEW x \in RotRecords
          PROVE  2 <= x.version /\ x.version <= rotVersion'[x.key]
                   <=> (2 <= x.version /\ x.version <= rotVersion[x.key]) \/ x = r
      <3>1. x.key \in RotKeys /\ x.version \in Nat /\ x = [key |-> x.key, version |-> x.version]
        BY DEF RotRecords
      <3>2. CASE x.key # k
        BY <1>4, <1>5, <3>1, <3>2
      <3>3. CASE x.key = k
        <4>1. x = r <=> x.version = n + 1
          BY <1>3, <1>4, <3>1, <3>3
        <4>2. QED
          BY <1>1, <1>2, <1>5, <3>1, <3>3, <4>1
      <3>4. QED
        BY <3>2, <3>3
    <2>2. QED
      BY <1>4, <2>1 DEF RotDone
  <1>9. QED
    BY <1>1, <1>3, <1>4, <1>6, <1>7, <1>8

\* A task rotates a key, or fails to.
LEMMA RotRotateKeeps ==
  ASSUME RotConstants, RotInv, NEW w \in RotWorkers, RotRotate(w)
  PROVE  RotInv'
  <1>1. rotWorker[w].at = "rotate" /\ UNCHANGED <<rotNow, rotNext, rotHist, rotHandle, rotCall, rotLost>>
    BY DEF RotRotate
  <1>2. rotWorker[w].made = {}
    BY <1>1, RotWorkerFields
  <1>3. ASSUME NEW k \in rotWorker[w].due, UNCHANGED rotVersion,
               rotWorker' = [rotWorker EXCEPT ![w] = [rotWorker[w] EXCEPT !.at = "reschedule", !.key = {k}]]
        PROVE  RotInv'
    <2>1. PICK task : task = [rotWorker[w] EXCEPT !.at = "reschedule", !.key = {k}]
      OBVIOUS
    <2>2. task \in [at : {"new", "tick", "rotate", "reschedule", "done"},
                    due : SUBSET RotKeys, key : SUBSET RotKeys, now : Nat, made : {{}}]
          /\ task.now <= rotNow
      <3>1. {k} \subseteq RotKeys
        BY RotWorkerFields
      <3>2. QED
        BY <1>2, <2>1, <3>1, RotWorkerFields
    <2>3. /\ rotHandle' \subseteq RotWorkers /\ DOMAIN rotNext' \subseteq RotKeys
          /\ \A x \in DOMAIN rotNext' : rotNext'[x] \in Nat /\ rotNext'[x] <= rotNow + RotInterval
      BY <1>1 DEF RotInv, RotTyped, RotScheduled
    <2>4. rotWorker' = [rotWorker EXCEPT ![w] = task]
      BY <1>3, <2>1
    <2>5. QED
      BY <1>1, <1>2, <1>3, <2>2, <2>3, <2>4, RotWorkerGoes
  <1>4. ASSUME NEW k \in rotWorker[w].due, rotVersion[k] < RotMaxVersions,
               rotVersion' = [rotVersion EXCEPT ![k] = @ + 1],
               rotWorker' = [rotWorker EXCEPT ![w] = [rotWorker[w] EXCEPT !.at = "record", !.key = {k},
                               !.made = {[key |-> k, version |-> rotVersion[k] + 1]}]]
        PROVE  RotInv'
    <2>1. k \in RotKeys
      BY RotWorkerFields
    <2>2. PICK r \in RotRecords :
            /\ r = [key |-> k, version |-> rotVersion[k] + 1]
            /\ r \notin RotDone /\ RotDone' = RotDone \cup {r}
            /\ rotVersion' \in [RotKeys -> Nat]
            /\ \A x \in RotKeys : rotVersion'[x] = 1 \/ rotVersion'[x] \in 2 .. RotMaxVersions
      BY <1>4, <2>1, RotVersionIsNew
    <2>3. PICK task : task = [rotWorker[w] EXCEPT !.at = "record", !.key = {k}, !.made = {r}]
      OBVIOUS
    <2>4. rotWorker' = [rotWorker EXCEPT ![w] = task]
      BY <1>4, <2>2, <2>3
    <2>5. /\ task \in [at : {"new", "tick", "rotate", "record", "reschedule", "done"},
                       due : SUBSET RotKeys, key : SUBSET RotKeys, now : Nat, made : SUBSET RotRecords]
          /\ task.at = "record" /\ task.made = {r} /\ task.now = rotWorker[w].now
      BY <2>1, <2>3, RotWorkerFields
    <2>6. rotWorker'[w] = task /\ \A u \in RotWorkers : u # w => rotWorker'[u] = rotWorker[u]
      BY <2>4 DEF RotInv, RotTyped
    <2>7. RotTyped'
      BY <1>1, <2>2, <2>4, <2>5 DEF RotInv, RotTyped
    <2>8. RotScheduled'
      BY <1>1, <2>5, <2>6 DEF RotInv, RotScheduled
    <2>9. RotHeld'
      BY <1>1, <2>5, <2>6 DEF RotInv, RotHeld
    <2>10. RotPlaces(RotKept, rotLost, RotByWorkers, RotByCallers, RotDone)'
      <3>1. RotPlaces(RotKept, rotLost, RotByWorkers, RotByCallers, RotDone)
        BY DEF RotInv
      <3>2. RotByWorkers'[w] = {r} /\ RotByWorkers[w] = {}
            /\ \A u \in RotWorkers : u # w => RotByWorkers'[u] = RotByWorkers[u]
        BY <1>2, <2>5, <2>6 DEF RotByWorkers
      <3>3. RotPlaces(RotKept, rotLost, RotByWorkers', RotByCallers, RotDone \cup {r})
        BY <2>2, <3>1, <3>2, RotNewByWorker
      <3>4. RotKept' = RotKept /\ RotByCallers' = RotByCallers /\ rotLost' = rotLost
        BY <1>1 DEF RotKept, RotByCallers
      <3>5. QED
        BY <2>2, <3>3, <3>4 DEF RotPlaces
    <2>11. RotRecordedOnce'
      BY <1>1 DEF RotInv, RotRecordedOnce
    <2>12. QED
      BY <2>7, <2>8, <2>9, <2>10, <2>11 DEF RotInv
  <1>5. QED
    BY <1>3, <1>4 DEF RotRotate

\* A rotation that was not recorded yet is appended to the history.
LEMMA RotAppends ==
  ASSUME RotInv, NEW r \in RotRecords, r \notin RotKept, rotHist' = Append(rotHist, r)
  PROVE  rotHist' \in Seq(RotRecords) /\ RotKept' = RotKept \cup {r} /\ RotRecordedOnce'
  <1>1. rotHist \in Seq(RotRecords)
    BY DEF RotInv, RotTyped
  <1>2. PICK n \in Nat : n = Len(rotHist)
    BY <1>1
  <1>3. DOMAIN rotHist = 1 .. n /\ DOMAIN rotHist' = 1 .. n + 1
    BY <1>1, <1>2
  <1>4. rotHist'[n + 1] = r /\ \A i \in 1 .. n : rotHist'[i] = rotHist[i]
    BY <1>1, <1>2
  <1>5. \A i \in 1 .. n : rotHist[i] # r
    BY <1>3 DEF RotKept
  <1>6. RotKept' = RotKept \cup {r}
    <2>1. \A i \in 1 .. n + 1 : i \in 1 .. n \/ i = n + 1
      BY <1>2
    <2>2. \A i \in 1 .. n : i \in 1 .. n + 1
      BY <1>2
    <2>3. n + 1 \in 1 .. n + 1
      BY <1>2
    <2>4. QED
      BY <1>3, <1>4, <2>1, <2>2, <2>3 DEF RotKept
  <1>7. RotRecordedOnce'
    <2>1. \A i \in 1 .. n + 1 : i \in 1 .. n \/ i = n + 1
      BY <1>2
    <2>2. QED
      BY <1>3, <1>4, <1>5, <2>1 DEF RotInv, RotRecordedOnce
  <1>8. rotHist' \in Seq(RotRecords)
    BY <1>1
  <1>9. QED
    BY <1>6, <1>7, <1>8

\* A task records what it holds.
LEMMA RotRecordKeeps ==
  ASSUME RotInv, NEW w \in RotWorkers, RotRecord(w)
  PROVE  RotInv'
  <1>1. rotWorker[w].at = "record" /\ UNCHANGED <<rotNow, rotVersion, rotNext, rotHandle, rotCall, rotLost>>
    BY DEF RotRecord
  <1>2. PICK r \in RotRecords : rotWorker[w].made = {r}
    BY <1>1, RotWorkerFields
  <1>3. rotHist' = Append(rotHist, r)
    BY <1>2 DEF RotRecord, RotRecordOf
  <1>4. RotPlaces(RotKept, rotLost, RotByWorkers, RotByCallers, RotDone)
    BY DEF RotInv
  <1>5. RotByWorkers[w] = {r}
    BY <1>2 DEF RotByWorkers
  <1>6. r \notin RotKept
    BY <1>4, <1>5 DEF RotPlaces
  <1>7. rotHist' \in Seq(RotRecords) /\ RotKept' = RotKept \cup {r} /\ RotRecordedOnce'
    BY <1>3, <1>6, RotAppends
  <1>8. PICK task : task = [rotWorker[w] EXCEPT !.at = "reschedule", !.made = {}]
    OBVIOUS
  <1>9. rotWorker' = [rotWorker EXCEPT ![w] = task]
    BY <1>8 DEF RotRecord
  <1>10. /\ task \in [at : {"new", "tick", "rotate", "record", "reschedule", "done"},
                      due : SUBSET RotKeys, key : SUBSET RotKeys, now : Nat, made : SUBSET RotRecords]
         /\ task.at = "reschedule" /\ task.made = {} /\ task.now = rotWorker[w].now
    BY <1>8, RotWorkerFields
  <1>11. rotWorker'[w] = task /\ \A u \in RotWorkers : u # w => rotWorker'[u] = rotWorker[u]
    BY <1>9 DEF RotInv, RotTyped
  <1>12. RotTyped'
    BY <1>1, <1>7, <1>9, <1>10 DEF RotInv, RotTyped
  <1>13. RotScheduled'
    BY <1>1, <1>10, <1>11 DEF RotInv, RotScheduled
  <1>14. RotHeld'
    BY <1>1, <1>10, <1>11 DEF RotInv, RotHeld
  <1>15. RotPlaces(RotKept, rotLost, RotByWorkers, RotByCallers, RotDone)'
    <2>1. RotByWorkers'[w] = {} /\ \A u \in RotWorkers : u # w => RotByWorkers'[u] = RotByWorkers[u]
      BY <1>10, <1>11 DEF RotByWorkers
    <2>2. RotPlaces(RotKept \cup RotByWorkers[w], rotLost, RotByWorkers', RotByCallers, RotDone)
      BY <1>4, <2>1, RotPlacedByWorker
    <2>3. rotLost' = rotLost /\ RotByCallers' = RotByCallers /\ RotDone' = RotDone
      BY <1>1 DEF RotByCallers, RotDone
    <2>4. QED
      BY <1>5, <1>7, <2>2, <2>3 DEF RotPlaces
  <1>16. QED
    BY <1>7, <1>12, <1>13, <1>14, <1>15 DEF RotInv

\* A step of a caller moves no task; what holds of tasks and dates stays.
LEMMA RotCallerGoes ==
  ASSUME RotInv, NEW c \in RotCallers,
         NEW call \in [at : {"idle", "reschedule", "record"}, made : SUBSET RotRecords],
         IF call.at # "idle" THEN \E r \in RotRecords : call.made = {r} ELSE call.made = {},
         rotCall' = [rotCall EXCEPT ![c] = call],
         UNCHANGED <<rotNow, rotWorker, rotHandle, rotLost>>,
         rotVersion' \in [RotKeys -> Nat],
         \A k \in RotKeys : rotVersion'[k] = 1 \/ rotVersion'[k] \in 2 .. RotMaxVersions,
         rotHist' \in Seq(RotRecords),
         DOMAIN rotNext' \subseteq RotKeys,
         \A k \in DOMAIN rotNext' : rotNext'[k] \in Nat /\ rotNext'[k] <= rotNow + RotInterval
  PROVE  /\ RotTyped' /\ RotScheduled' /\ RotHeld'
         /\ RotByWorkers' = RotByWorkers /\ RotByCallers'[c] = call.made
         /\ \A d \in RotCallers : d # c => RotByCallers'[d] = RotByCallers[d]
  <1>1. rotCall'[c] = call /\ \A d \in RotCallers : d # c => rotCall'[d] = rotCall[d]
    BY DEF RotInv, RotTyped
  <1>2. RotTyped'
    BY DEF RotInv, RotTyped
  <1>3. RotScheduled'
    BY DEF RotInv, RotScheduled
  <1>4. RotHeld'
    <2>1. RotHeld
      BY DEF RotInv
    <2>2. \A w \in RotWorkers : IF rotWorker'[w].at = "record" THEN \E r \in RotRecords : rotWorker'[w].made = {r}
                                                               ELSE rotWorker'[w].made = {}
      BY <2>1 DEF RotHeld
    <2>3. \A d \in RotCallers : IF rotCall'[d].at # "idle" THEN \E r \in RotRecords : rotCall'[d].made = {r}
                                                             ELSE rotCall'[d].made = {}
      <3> TAKE d \in RotCallers
      <3>1. CASE d = c
        BY <1>1, <3>1
      <3>2. CASE d # c
        BY <1>1, <2>1, <3>2 DEF RotHeld
      <3>3. QED
        BY <3>1, <3>2
    <2>4. QED
      BY ONLY <2>2, <2>3 DEF RotHeld
  <1>5. RotByWorkers' = RotByWorkers
    BY DEF RotByWorkers
  <1>6. RotByCallers'[c] = call.made /\ \A d \in RotCallers : d # c => RotByCallers'[d] = RotByCallers[d]
    BY <1>1 DEF RotByCallers
  <1>7. QED
    BY <1>2, <1>3, <1>4, <1>5, <1>6

\* What a caller holds has its type.
LEMMA RotCallerFields ==
  ASSUME RotInv, NEW c \in RotCallers
  PROVE  /\ rotCall[c] \in [at : {"idle", "reschedule", "record"}, made : SUBSET RotRecords]
         /\ rotCall[c].at = "idle" => rotCall[c].made = {}
         /\ rotCall[c].at # "idle" => \E r \in RotRecords : rotCall[c].made = {r}
         /\ RotByCallers[c] = rotCall[c].made
  BY DEF RotInv, RotTyped, RotHeld, RotByCallers

\* What the steps of callers leave alone keeps its type.
LEMMA RotRestTyped ==
  ASSUME RotInv
  PROVE  /\ rotVersion \in [RotKeys -> Nat]
         /\ \A k \in RotKeys : rotVersion[k] = 1 \/ rotVersion[k] \in 2 .. RotMaxVersions
         /\ rotHist \in Seq(RotRecords) /\ rotNow \in Nat
         /\ DOMAIN rotNext \subseteq RotKeys
         /\ \A k \in DOMAIN rotNext : rotNext[k] \in Nat /\ rotNext[k] <= rotNow + RotInterval
         /\ RotPlaces(RotKept, rotLost, RotByWorkers, RotByCallers, RotDone)
         /\ RotRecordedOnce
  BY DEF RotInv, RotTyped, RotScheduled

\* rotate_now asks the KMS for a new version.
LEMMA RotCallKeeps ==
  ASSUME RotConstants, RotInv, NEW c \in RotCallers, NEW k \in RotKeys, RotCall(c, k)
  PROVE  RotInv'
  <1>1. /\ rotCall[c].at = "idle" /\ rotVersion[k] < RotMaxVersions
        /\ rotVersion' = [rotVersion EXCEPT ![k] = @ + 1]
        /\ rotNow' = rotNow /\ rotNext' = rotNext /\ rotHist' = rotHist /\ rotWorker' = rotWorker
        /\ rotHandle' = rotHandle /\ rotLost' = rotLost
    BY DEF RotCall
  <1>2. PICK r \in RotRecords :
          /\ r = [key |-> k, version |-> rotVersion[k] + 1]
          /\ r \notin RotDone /\ RotDone' = RotDone \cup {r}
          /\ rotVersion' \in [RotKeys -> Nat]
          /\ \A x \in RotKeys : rotVersion'[x] = 1 \/ rotVersion'[x] \in 2 .. RotMaxVersions
    BY <1>1, RotVersionIsNew
  <1>3. PICK call : call = [at |-> "reschedule", made |-> {r}]
    OBVIOUS
  <1>4. rotCall' = [rotCall EXCEPT ![c] = call]
    BY <1>2, <1>3 DEF RotCall
  <1>5. call \in [at : {"idle", "reschedule", "record"}, made : SUBSET RotRecords]
        /\ call.at = "reschedule" /\ call.made = {r}
    BY <1>3
  <1>6. /\ RotTyped' /\ RotScheduled' /\ RotHeld'
        /\ RotByWorkers' = RotByWorkers /\ RotByCallers'[c] = {r}
        /\ \A d \in RotCallers : d # c => RotByCallers'[d] = RotByCallers[d]
    BY <1>1, <1>2, <1>4, <1>5, RotRestTyped, RotCallerGoes
  <1>7. RotPlaces(RotKept, rotLost, RotByWorkers, RotByCallers, RotDone)'
    <2>1. RotByCallers[c] = {}
      BY <1>1, RotCallerFields
    <2>2. RotPlaces(RotKept, rotLost, RotByWorkers, RotByCallers', RotDone \cup {r})
      BY <1>2, <1>6, <2>1, RotRestTyped, RotNewByCaller
    <2>3. RotKept' = RotKept
      BY <1>1 DEF RotKept
    <2>4. QED
      BY <1>1, <1>2, <1>6, <2>2, <2>3 DEF RotPlaces
  <1>8. RotRecordedOnce'
    BY <1>1, RotRestTyped DEF RotRecordedOnce
  <1>9. QED
    BY <1>6, <1>7, <1>8 DEF RotInv

\* rotate_now sets the key's next date.
LEMMA RotCallRescheduleKeeps ==
  ASSUME RotConstants, RotInv, NEW c \in RotCallers, RotCallReschedule(c)
  PROVE  RotInv'
  <1>1. /\ rotCall[c].at = "reschedule"
        /\ rotNow' = rotNow /\ rotVersion' = rotVersion /\ rotHist' = rotHist /\ rotWorker' = rotWorker
        /\ rotHandle' = rotHandle /\ rotLost' = rotLost
    BY DEF RotCallReschedule
  <1>2. PICK call : call = [rotCall[c] EXCEPT !.at = "record"]
    OBVIOUS
  <1>3. rotCall' = [rotCall EXCEPT ![c] = call]
    BY <1>2 DEF RotCallReschedule
  <1>4. call \in [at : {"idle", "reschedule", "record"}, made : SUBSET RotRecords]
        /\ call.at = "record" /\ call.made = rotCall[c].made
        /\ \E r \in RotRecords : call.made = {r}
    BY <1>1, <1>2, RotCallerFields
  <1>5. /\ DOMAIN rotNext' \subseteq RotKeys
        /\ \A x \in DOMAIN rotNext' : rotNext'[x] \in Nat /\ rotNext'[x] <= rotNow + RotInterval
    <2>1. PICK r \in rotCall[c].made : RotReschedule(r.key, rotNow)
      BY DEF RotCallReschedule
    <2>2. r.key \in RotKeys
      BY RotCallerFields DEF RotRecords
    <2>3. rotNow \in Nat /\ rotNow <= rotNow
      BY RotRestTyped
    <2>4. QED
      BY <1>1, <2>1, <2>2, <2>3, RotDates
  <1>6. /\ RotTyped' /\ RotScheduled' /\ RotHeld'
        /\ RotByWorkers' = RotByWorkers /\ RotByCallers'[c] = call.made
        /\ \A d \in RotCallers : d # c => RotByCallers'[d] = RotByCallers[d]
    BY <1>1, <1>3, <1>4, <1>5, RotRestTyped, RotCallerGoes
  <1>7. RotPlaces(RotKept, rotLost, RotByWorkers, RotByCallers, RotDone)'
    <2>1. \A d \in RotCallers : RotByCallers'[d] = RotByCallers[d]
      BY <1>4, <1>6, RotCallerFields
    <2>2. RotByCallers' = RotByCallers
      BY <2>1 DEF RotByCallers
    <2>3. RotKept' = RotKept /\ RotDone' = RotDone
      BY <1>1 DEF RotKept, RotDone
    <2>4. QED
      BY <1>1, <1>6, <2>2, <2>3, RotRestTyped DEF RotPlaces
  <1>8. RotRecordedOnce'
    BY <1>1, RotRestTyped DEF RotRecordedOnce
  <1>9. QED
    BY <1>6, <1>7, <1>8 DEF RotInv

\* rotate_now puts its rotation into the history.
LEMMA RotCallRecordKeeps ==
  ASSUME RotInv, NEW c \in RotCallers, RotCallRecord(c)
  PROVE  RotInv'
  <1>1. /\ rotCall[c].at = "record"
        /\ rotNow' = rotNow /\ rotVersion' = rotVersion /\ rotNext' = rotNext /\ rotWorker' = rotWorker
        /\ rotHandle' = rotHandle /\ rotLost' = rotLost
    BY DEF RotCallRecord
  <1>2. PICK r \in RotRecords : rotCall[c].made = {r}
    BY <1>1, RotCallerFields
  <1>3. rotHist' = Append(rotHist, r)
    BY <1>2 DEF RotCallRecord, RotRecordOf
  <1>4. RotByCallers[c] = {r}
    BY <1>2, RotCallerFields
  <1>5. r \notin RotKept
    BY <1>4, RotRestTyped DEF RotPlaces
  <1>6. rotHist' \in Seq(RotRecords) /\ RotKept' = RotKept \cup {r} /\ RotRecordedOnce'
    BY <1>3, <1>5, RotAppends
  <1>7. PICK call : call = [at |-> "idle", made |-> {}]
    OBVIOUS
  <1>8. rotCall' = [rotCall EXCEPT ![c] = call]
    BY <1>7 DEF RotCallRecord
  <1>9. call \in [at : {"idle", "reschedule", "record"}, made : SUBSET RotRecords]
        /\ call.at = "idle" /\ call.made = {}
    BY <1>7
  <1>10. /\ RotTyped' /\ RotScheduled' /\ RotHeld'
         /\ RotByWorkers' = RotByWorkers /\ RotByCallers'[c] = {}
         /\ \A d \in RotCallers : d # c => RotByCallers'[d] = RotByCallers[d]
    BY <1>1, <1>6, <1>8, <1>9, RotRestTyped, RotCallerGoes
  <1>11. RotPlaces(RotKept, rotLost, RotByWorkers, RotByCallers, RotDone)'
    <2>1. RotPlaces(RotKept \cup RotByCallers[c], rotLost, RotByWorkers, RotByCallers', RotDone)
      BY <1>10, RotRestTyped, RotPlacedByCaller
    <2>2. RotDone' = RotDone
      BY <1>1 DEF RotDone
    <2>3. QED
      BY <1>1, <1>4, <1>6, <1>10, <2>1, <2>2 DEF RotPlaces
  <1>12. QED
    BY <1>6, <1>10, <1>11 DEF RotInv

\* Time goes by, and keys are put on the schedule and taken off it.
LEMMA RotScheduleKeeps ==
  ASSUME RotConstants, RotInv, RotTime \/ \E k \in RotKeys : RotRegister(k) \/ RotUnregister(k)
  PROVE  RotInv'
  <1>1. UNCHANGED <<rotVersion, rotHist, rotWorker, rotHandle, rotCall, rotLost>>
    BY DEF RotTime, RotRegister, RotUnregister
  <1>2. rotNow \in Nat /\ rotNow' \in Nat /\ rotNow <= rotNow' /\ RotInterval \in Nat
    <2>1. rotNow \in Nat /\ RotInterval \in Nat
      BY RotRestTyped DEF RotConstants
    <2>2. rotNow' = rotNow \/ rotNow' = rotNow + 1
      BY DEF RotTime, RotRegister, RotUnregister
    <2>3. QED
      BY <2>1, <2>2
  <1>3. RotTyped'
    BY <1>1, <1>2 DEF RotInv, RotTyped
  <1>4. RotScheduled'
    <2>1. \A w \in RotWorkers : rotWorker'[w].now <= rotNow'
      BY <1>1, <1>2, RotWorkerFields
    <2>2. CASE RotTime
      BY <1>2, <2>1, <2>2, RotRestTyped DEF RotTime, RotScheduled
    <2>3. ASSUME NEW k \in RotKeys, RotRegister(k) PROVE RotScheduled'
      <3>1. rotNow' = rotNow /\ rotNow + RotInterval \in Nat
        BY <1>2, <2>3 DEF RotRegister
      <3>2. DOMAIN rotNext' = DOMAIN rotNext \cup {k}
            /\ \A x \in DOMAIN rotNext' : rotNext'[x] = rotNow + RotInterval \/ (x \in DOMAIN rotNext /\ rotNext'[x] = rotNext[x])
        BY <2>3 DEF RotRegister
      <3>3. QED
        BY <2>1, <3>1, <3>2, RotRestTyped DEF RotScheduled
    <2>4. ASSUME NEW k \in RotKeys, RotUnregister(k) PROVE RotScheduled'
      BY <2>1, <2>4, RotRestTyped DEF RotUnregister, RotScheduled
    <2>5. QED
      BY <2>2, <2>3, <2>4
  <1>5. RotHeld'
    BY <1>1 DEF RotInv, RotHeld
  <1>6. RotPlaces(RotKept, rotLost, RotByWorkers, RotByCallers, RotDone)'
    <2>1. /\ RotKept' = RotKept /\ RotByWorkers' = RotByWorkers /\ RotByCallers' = RotByCallers
          /\ RotDone' = RotDone /\ rotLost' = rotLost
      BY <1>1 DEF RotKept, RotByWorkers, RotByCallers, RotDone
    <2>2. QED
      BY <2>1, RotRestTyped DEF RotPlaces
  <1>7. RotRecordedOnce'
    BY <1>1, RotRestTyped DEF RotRecordedOnce
  <1>8. QED
    BY <1>3, <1>4, <1>5, <1>6, <1>7 DEF RotInv

\* A list without repetitions is as long as its set is large.
LEMMA RotCounted ==
  ASSUME RotInv
  PROVE  Cardinality(RotKept) = Len(rotHist)
  <1>1. rotHist \in Seq(RotRecords) /\ RotRecordedOnce
    BY RotRestTyped
  <1>2. PICK n \in Nat : n = Len(rotHist)
    BY <1>1
  <1>3. DOMAIN rotHist = 1 .. n /\ rotHist \in [1 .. n -> RotKept]
    BY <1>1, <1>2 DEF RotKept
  <1>4. rotHist \in Injection(1 .. n, RotKept)
    BY <1>1, <1>3 DEF Injection, IsInjective, RotRecordedOnce
  <1>5. rotHist \in Surjection(1 .. n, RotKept)
    BY <1>3 DEF Surjection, RotKept
  <1>6. IsFiniteSet(1 .. n) /\ Cardinality(1 .. n) = n
    <2>1. 1 \in Int /\ n \in Int
      BY <1>2
    <2>2. IsFiniteSet(1 .. n) /\ Cardinality(1 .. n) = IF 1 > n THEN 0 ELSE n - 1 + 1
      BY ONLY <2>1, FS_Interval
    <2>3. QED
      BY <1>2, <2>2
  <1>7. QED
    BY <1>2, <1>4, <1>5, <1>6, FS_Surjection

\* Every step keeps every rotation in its one place.
LEMMA RotInvHolds == RotSpec => []RotInv
  <1>1. ASSUME RotInv, [RotStep]_rotVars PROVE RotInv'
    <2>1. RotConstants
      BY RotConstants
    <2>2. CASE RotStep
      <3>1. ASSUME NEW w \in RotWorkers,
                   RotStart(w) \/ RotTick(w) \/ RotRotate(w) \/ RotRecord(w) \/ RotPostpone(w)
            PROVE  RotInv'
        BY <1>1, <2>1, <3>1, RotStartKeeps, RotTickKeeps, RotRotateKeeps, RotRecordKeeps, RotPostponeKeeps
      <3>2. ASSUME NEW c \in RotCallers,
                   RotCallReschedule(c) \/ RotCallRecord(c) \/ \E k \in RotKeys : RotCall(c, k)
            PROVE  RotInv'
        BY <1>1, <2>1, <3>2, RotCallRescheduleKeeps, RotCallRecordKeeps, RotCallKeeps
      <3>3. QED
        BY <1>1, <2>1, <2>2, <3>1, <3>2, RotStopKeeps, RotScheduleKeeps DEF RotStep
    <2>3. CASE UNCHANGED rotVars
      <3>1. UNCHANGED <<rotNow, rotVersion, rotNext, rotHist, rotWorker, rotHandle, rotCall, rotLost>>
        BY <2>3 DEF rotVars
      <3>2. RotTyped' /\ RotScheduled' /\ RotHeld'
        BY <1>1, <3>1 DEF RotInv, RotTyped, RotScheduled, RotHeld
      <3>3. RotPlaces(RotKept, rotLost, RotByWorkers, RotByCallers, RotDone)'
        <4>1. /\ RotKept' = RotKept /\ RotByWorkers' = RotByWorkers /\ RotByCallers' = RotByCallers
              /\ RotDone' = RotDone /\ rotLost' = rotLost
          BY <3>1 DEF RotKept, RotByWorkers, RotByCallers, RotDone
        <4>2. QED
          BY <1>1, <4>1, RotRestTyped DEF RotPlaces
      <3>4. RotRecordedOnce'
        BY <1>1, <3>1 DEF RotInv, RotRecordedOnce
      <3>5. QED
        BY <3>2, <3>3, <3>4 DEF RotInv
    <2>4. QED
      BY <1>1, <2>2, <2>3
  <1>2. QED
    BY <1>1, RotInitInv, PTL DEF RotSpec

\* The inductive invariant says what the history promises.
LEMMA RotInvIsExact ==
  ASSUME RotInv
  PROVE  RotHistoryExact
  <1> DEFINE made == {[key |-> k, version |-> v] : k \in RotKeys, v \in 2 .. RotMaxVersions}
             done == {r \in made : r.version <= rotVersion[r.key]}
  <1>1. done = RotDone
    <2>1. RotMaxVersions \in Nat
      BY RotConstants DEF RotConstants
    <2>2. ASSUME NEW r \in done PROVE r \in RotDone
      <3>1. PICK k \in RotKeys, v \in 2 .. RotMaxVersions : r = [key |-> k, version |-> v]
        OBVIOUS
      <3>2. v \in Nat /\ 2 <= v /\ v <= rotVersion[k]
        BY <2>1, <3>1
      <3>3. QED
        BY <3>1, <3>2 DEF RotDone, RotRecords
    <2>3. ASSUME NEW r \in RotDone PROVE r \in done
      <3>1. /\ r.key \in RotKeys /\ r.version \in Nat /\ r = [key |-> r.key, version |-> r.version]
            /\ 2 <= r.version /\ r.version <= rotVersion[r.key]
        BY DEF RotDone, RotRecords
      <3>2. r.version \in 2 .. RotMaxVersions
        BY <2>1, <3>1, RotRestTyped
      <3>3. QED
        BY <3>1, <3>2
    <2>4. QED
      BY <2>2, <2>3
  <1>2. RotPending = (UNION {RotByWorkers[w] : w \in RotWorkers}) \cup (UNION {RotByCallers[c] : c \in RotCallers})
    BY DEF RotPending, RotByWorkers, RotByCallers
  <1>3. RotKept \cup RotPending \cup rotLost = RotDone
    BY <1>2, RotRestTyped DEF RotPlaces
  <1>4. RotKept \cap (RotPending \cup rotLost) = {}
    BY <1>2, RotRestTyped DEF RotPlaces
  <1>5. \A k \in DOMAIN rotNext : rotNext[k] <= rotNow + RotInterval
    BY RotRestTyped
  <1>6. QED
    BY <1>1, <1>3, <1>4, <1>5, RotCounted DEF RotHistoryExact, RotKept

(***************************************************************************)
(* Envelope encryption                                                     *)
(***************************************************************************)

\* A function that satisfies the equation of flatten ends in what FlattenSeq gives.
LEMMA FlattenIs ==
  ASSUME NEW seqs, NEW n \in Nat \ {0}, Len(seqs) = n, NEW g \in [1 .. n -> Seq(Nat)],
         g[1] = seqs[1],
         \A i \in 2 .. n : g[i] = g[i - 1] \o seqs[i]
  PROVE  FlattenSeq(seqs) = g[n]
  <1> DEFINE Solves(f) == f = [i \in 1 .. n |-> IF i = 1 THEN seqs[i] ELSE f[i - 1] \o seqs[i]]
             flatten == CHOOSE f : Solves(f)
  <1>1. Solves(flatten)
    <2>1. \A i \in 1 .. n : g[i] = IF i = 1 THEN seqs[i] ELSE g[i - 1] \o seqs[i]
      <3>1. \A i \in 1 .. n : i = 1 \/ i \in 2 .. n
        OBVIOUS
      <3>2. QED
        BY <3>1
    <2>2. g = [i \in 1 .. n |-> g[i]]
      OBVIOUS
    <2>3. Solves(g)
      BY <2>1, <2>2
    <2>4. QED
      BY <2>3
  <1>2. FlattenSeq(seqs) = flatten[n]
    BY DEF FlattenSeq
  <1> HIDE DEF flatten
  <1>3. PICK wrong : wrong = {i \in 1 .. n : flatten[i] # g[i]}
    OBVIOUS
  <1>4. wrong = {}
    <2>1. SUFFICES ASSUME wrong # {} PROVE FALSE
      OBVIOUS
    <2>2. PICK i \in wrong : \A j \in wrong : i <= j
      <3>1. wrong \subseteq Nat
        BY <1>3
      <3>2. PICK i \in wrong : \A j \in wrong : ~ (<<j, i>> \in OpToRel(<, Nat))
        BY <2>1, <3>1, NatLessThanWellFounded, WFMin
      <3>3. \A j \in wrong : <<j, i>> \in Nat \X Nat /\ <<j, i>>[1] = j /\ <<j, i>>[2] = i
        BY <3>1
      <3>4. \A j \in wrong : ~ (j < i)
        BY <3>2, <3>3 DEF OpToRel
      <3>5. QED
        BY <3>1, <3>4
    <2>3. CASE i = 1
      BY <1>1, <1>3, <2>3
    <2>4. CASE i # 1
      <3>1. i - 1 \in 1 .. n /\ i \in 1 .. n
        BY <1>3, <2>4
      <3>2. flatten[i - 1] = g[i - 1]
        BY <1>3, <2>2, <3>1
      <3>3. flatten[i] = flatten[i - 1] \o seqs[i]
        BY <1>1, <2>4, <3>1
      <3>4. i \in 2 .. n
        BY <2>4, <3>1
      <3>5. QED
        BY <1>3, <3>2, <3>3, <3>4
    <2>5. QED
      BY <2>3, <2>4
  <1>5. QED
    <2>1. n \in 1 .. n
      OBVIOUS
    <2>2. QED
      BY <1>2, <1>3, <1>4, <2>1

EnvCut(n, a, b) == SubSeq(EnvData(n), a + 1, b)
EnvSpan(a, b) == [i \in 1 .. b - a |-> a + i]

\* What is cut out of the data are the letters from a to b, ...
LEMMA EnvCutIsSpan ==
  ASSUME NEW n \in Nat, NEW a \in Nat, NEW b \in Nat, a <= b, b <= n
  PROVE  EnvCut(n, a, b) = EnvSpan(a, b)
  <1>1. EnvData(n) \in Seq(Nat) /\ Len(EnvData(n)) = n /\ \A i \in 1 .. n : EnvData(n)[i] = i
    BY ONLY n \in Nat DEF EnvData
  <1>2. EnvCut(n, a, b) = [i \in 1 .. b - a |-> EnvData(n)[a + 1 + i - 1]]
    BY <1>1 DEF EnvCut
  <1>3. \A i \in 1 .. b - a : a + 1 + i - 1 \in 1 .. n /\ a + 1 + i - 1 = a + i
    OBVIOUS
  <1>4. \A i \in 1 .. b - a : EnvData(n)[a + 1 + i - 1] = a + i
    BY ONLY <1>1, <1>3
  <1>5. QED
    BY ONLY <1>2, <1>4 DEF EnvSpan

\* ... which the first a are put before.
LEMMA EnvDataJoins ==
  ASSUME NEW a \in Nat, NEW b \in Nat, a <= b
  PROVE  /\ EnvSpan(a, b) \in Seq(Nat)
         /\ EnvData(a) \o EnvSpan(a, b) = EnvData(b)
         /\ a = 0 => EnvSpan(a, b) = EnvData(b)
  <1>0. PICK s : s = EnvSpan(a, b)
    OBVIOUS
  <1>1. \A m \in Nat : EnvData(m) \in Seq(Nat) /\ Len(EnvData(m)) = m /\ \A i \in 1 .. m : EnvData(m)[i] = i
    BY DEF EnvData
  <1>2. PICK m \in Nat : m = b - a
    OBVIOUS
  <1>3. s \in Seq(Nat) /\ Len(s) = m /\ \A i \in 1 .. m : s[i] = a + i
    BY <1>0, <1>2 DEF EnvSpan
  <1>4. EnvData(a) \o s = EnvData(b)
    <2>1. EnvData(a) \o s \in Seq(Nat) /\ Len(EnvData(a) \o s) = b
      <3>1. PICK d \in Seq(Nat) : d = EnvData(a) /\ Len(d) = a
        BY <1>1
      <3>2. PICK r \in Seq(Nat) : r = s
        BY <1>3
      <3>3. d \o r \in Seq(Nat) /\ Len(d \o r) = Len(d) + Len(r)
        OBVIOUS
      <3>4. Len(d \o r) = a + m
        BY <1>3, <3>1, <3>2, <3>3
      <3>5. QED
        BY <1>2, <3>1, <3>2, <3>3, <3>4
    <2>2. ASSUME NEW i \in 1 .. b PROVE (EnvData(a) \o s)[i] = i
      <3>1. EnvData(a) \in Seq(Nat) /\ s \in Seq(Nat) /\ Len(EnvData(a)) = a /\ Len(s) = m
        BY <1>1, <1>3
      <3>2. CASE i <= a
        <4>1. i \in 1 .. a
          BY <3>2
        <4>2. (EnvData(a) \o s)[i] = EnvData(a)[i]
          BY <3>1, <4>1
        <4>3. QED
          BY <1>1, <4>1, <4>2
      <3>3. CASE i > a
        <4>1. PICK j \in 1 .. m : j = i - a /\ a + j = i
          BY <1>2, <3>3
        <4>2. (EnvData(a) \o s)[i] = s[j]
          BY <3>1, <3>3, <4>1
        <4>3. QED
          BY <1>3, <4>1, <4>2
      <3>4. i <= a \/ i > a
        OBVIOUS
      <3>5. QED
        BY ONLY <3>2, <3>3, <3>4
    <2>3. PICK t \in Seq(Nat) : t = EnvData(a) \o s
      BY <2>1
    <2>4. t = [i \in 1 .. b |-> i]
      <3>1. Len(t) = b /\ \A i \in 1 .. b : t[i] = i
        BY <2>1, <2>2, <2>3
      <3>2. QED
        BY ONLY <3>1, t \in Seq(Nat), b \in Nat
    <2>5. QED
      BY <2>3, <2>4 DEF EnvData
  <1>5. a = 0 => s = EnvData(b)
    BY <1>0 DEF EnvData, EnvSpan
  <1>6. QED
    BY <1>0, <1>3, <1>4, <1>5

\* The pieces of the data are sequences, at least one, and joined they are the data.
LEMMA EnvPiecesJoin ==
  ASSUME EnvConstants, NEW size \in Nat
  PROVE  /\ EnvPieces(EnvData(size)) \in Seq(Seq(Nat))
         /\ Len(EnvPieces(EnvData(size))) \in Nat \ {0}
         /\ FlattenSeq(EnvPieces(EnvData(size))) = EnvData(size)
  <1>1. EnvData(size) \in Seq(Nat) /\ Len(EnvData(size)) = size
    BY DEF EnvData
  <1>2. PICK p \in Nat \ {0} : p = EnvPiece
    BY DEF EnvConstants
  <1>3. PICK pieces : pieces = EnvPieces(EnvData(size))
    OBVIOUS
  <1>4. CASE size <= p
    <2>1. pieces = <<EnvData(size)>>
      BY <1>1, <1>2, <1>3, <1>4 DEF EnvPieces
    <2>2. pieces \in Seq(Seq(Nat)) /\ Len(pieces) = 1 /\ pieces[1] = EnvData(size)
      BY <1>1, <2>1
    <2>3. PICK g : g = [i \in 1 .. 1 |-> EnvData(size)]
      OBVIOUS
    <2>4. g \in [1 .. 1 -> Seq(Nat)] /\ g[1] = pieces[1] /\ \A i \in 2 .. 1 : g[i] = g[i - 1] \o pieces[i]
      BY <1>1, <2>2, <2>3
    <2>5. FlattenSeq(pieces) = g[1]
      <3>1. 1 \in Nat \ {0} /\ Len(pieces) = 1
        BY <2>2
      <3>2. QED
        BY ONLY <2>4, <3>1, FlattenIs
    <2>6. QED
      BY <1>3, <2>2, <2>3, <2>5
  <1>5. CASE size > p
    <2>1. PICK k \in Nat : k = (size + p - 1) \div p
      BY <1>2
    <2>2. k >= 1 /\ (k - 1) * p < size /\ size <= k * p
      <3>1. PICK a \in Nat : a = size + p - 1
        BY <1>2
      <3>2. p * k <= a /\ a < p * (k + 1)
        BY <1>2, <2>1, <3>1
      <3>3. p * (k + 1) = k * p + p /\ p * k = k * p /\ (k - 1) * p = k * p - p
        BY <1>2, <2>1
      <3>4. size <= k * p
        BY <1>2, <3>1, <3>2, <3>3
      <3>5. k # 0
        BY <1>2, <1>5, <3>4
      <3>6. QED
        BY <1>2, <2>1, <3>1, <3>2, <3>3, <3>4, <3>5
    <2>3. PICK upto : upto = [i \in 1 .. k |-> IF i * p < size THEN i * p ELSE size]
      OBVIOUS
    <2>4. pieces = [i \in 1 .. k |-> SubSeq(EnvData(size), (i - 1) * p + 1, upto[i])]
      <3>1. pieces = [i \in 1 .. k |-> SubSeq(EnvData(size), (i - 1) * p + 1, IF i * p < size THEN i * p ELSE size)]
        <4>1. ~ (Len(EnvData(size)) <= EnvPiece)
          BY <1>1, <1>2, <1>5
        <4>2. k = (Len(EnvData(size)) + EnvPiece - 1) \div EnvPiece
          BY <1>1, <1>2, <2>1
        <4>3. QED
          BY <1>1, <1>2, <1>3, <4>1, <4>2 DEF EnvPieces
      <3>2. \A i \in 1 .. k : upto[i] = IF i * p < size THEN i * p ELSE size
        BY <2>3
      <3>3. QED
        BY <3>1, <3>2
    <2>5. ASSUME NEW i \in 1 .. k
          PROVE  /\ upto[i] \in Nat /\ upto[i] <= size /\ (i - 1) * p \in Nat /\ (i - 1) * p <= upto[i]
                 /\ i > 1 => upto[i - 1] = (i - 1) * p
                 /\ i = 1 => (i - 1) * p = 0
      <3>1. PICK a \in Nat : a = (i - 1) * p
        BY <1>2
      <3>2. i * p = a + p
        BY <1>2, <3>1
      <3>3. a < size
        <4>1. i - 1 <= k - 1 /\ i - 1 \in Nat /\ k - 1 \in Nat
          BY <2>2
        <4>2. (i - 1) * p <= (k - 1) * p
          BY <1>2, <4>1
        <4>3. (k - 1) * p \in Nat
          BY <1>2, <4>1
        <4>4. QED
          BY <2>2, <3>1, <4>2, <4>3
      <3>4. upto[i] = IF a + p < size THEN a + p ELSE size
        BY <2>3, <3>2
      <3>5. i > 1 => i - 1 \in 1 .. k /\ upto[i - 1] = a
        BY <2>3, <3>1, <3>3
      <3>6. QED
        BY <1>2, <3>1, <3>3, <3>4, <3>5
    <2>6. \A i \in 1 .. k : pieces[i] \in Seq(Nat)
      <3>1. SUFFICES ASSUME NEW i \in 1 .. k PROVE pieces[i] \in Seq(Nat)
        OBVIOUS
      <3>2. PICK a \in Nat : a = (i - 1) * p
        BY <2>5
      <3>3. PICK b \in Nat : b = upto[i] /\ a <= b /\ b <= size
        BY <2>5, <3>2
      <3>4. pieces[i] = EnvCut(size, a, b)
        BY <2>4, <3>2, <3>3 DEF EnvCut
      <3>5. QED
        <4>1. a <= b /\ b <= size
          BY <3>3
        <4>2. EnvCut(size, a, b) = EnvSpan(a, b)
          BY <4>1, EnvCutIsSpan
        <4>3. EnvSpan(a, b) \in Seq(Nat)
          BY <4>1, EnvDataJoins
        <4>4. QED
          BY <3>4, <4>2, <4>3
    <2>7. pieces \in Seq(Seq(Nat)) /\ Len(pieces) = k
      BY <2>4, <2>6
    <2>8. PICK g : g = [i \in 1 .. k |-> EnvData(upto[i])]
      OBVIOUS
    <2>9. ASSUME NEW i \in 1 .. k
          PROVE  /\ i = 1 => g[i] = pieces[i]
                 /\ i # 1 => g[i] = g[i - 1] \o pieces[i]
      <3>1. PICK a \in Nat : a = (i - 1) * p
        BY <2>5
      <3>2. PICK b \in Nat : b = upto[i] /\ a <= b /\ b <= size
        BY <2>5, <3>1
      <3>3. pieces[i] = EnvCut(size, a, b) /\ g[i] = EnvData(b)
        BY <2>4, <2>8, <3>1, <3>2 DEF EnvCut
      <3>4. EnvData(a) \o pieces[i] = EnvData(b) /\ (a = 0 => pieces[i] = EnvData(b))
        <4>1. a <= b /\ b <= size
          BY <3>2
        <4>2. EnvCut(size, a, b) = EnvSpan(a, b)
          BY <4>1, EnvCutIsSpan
        <4>3. EnvData(a) \o EnvSpan(a, b) = EnvData(b) /\ (a = 0 => EnvSpan(a, b) = EnvData(b))
          BY <4>1, EnvDataJoins
        <4>4. QED
          BY <3>3, <4>2, <4>3
      <3>5. i = 1 => a = 0
        BY <2>5, <3>1
      <3>6. i # 1 => i - 1 \in 1 .. k /\ upto[i - 1] = a
        BY <2>5, <3>1
      <3>7. i # 1 => g[i - 1] = EnvData(a)
        BY <2>8, <3>6
      <3>8. QED
        BY <3>3, <3>4, <3>5, <3>7
    <2>10. FlattenSeq(pieces) = g[k]
      <3>1. k \in Nat \ {0}
        BY <2>2
      <3>2. g \in [1 .. k -> Seq(Nat)]
        <4>1. \A i \in 1 .. k : EnvData(upto[i]) \in Seq(Nat)
          BY <2>5 DEF EnvData
        <4>2. QED
          BY <2>8, <4>1
      <3>3. 1 \in 1 .. k /\ \A i \in 2 .. k : i \in 1 .. k /\ i # 1
        BY <3>1
      <3>4. g[1] = pieces[1] /\ \A i \in 2 .. k : g[i] = g[i - 1] \o pieces[i]
        BY <2>9, <3>3
      <3>5. QED
        BY ONLY <2>7, <3>1, <3>2, <3>4, FlattenIs
    <2>11. g[k] = EnvData(size)
      <3>1. k \in 1 .. k /\ upto[k] = size
        <4>1. k \in 1 .. k
          BY <2>2
        <4>2. k * p \in Nat
          BY <1>2
        <4>3. QED
          BY <2>2, <2>3, <4>1, <4>2
      <3>2. QED
        BY <2>8, <3>1
    <2>12. QED
      BY <1>3, <2>2, <2>7, <2>10, <2>11
  <1>6. QED
    BY <1>2, <1>4, <1>5

EnvPieceRecords == [dek : Nat, key : Nat, text : Seq(Nat)]
EnvTaskRecords ==
  [op : {"idle", "generate", "generated", "locked", "encrypt", "open", "ask"}, left : Seq(EnvPieceRecords),
   dek : Nat, done : Seq(EnvPieceRecords), data : Seq(Nat)]

EnvTyped ==
  /\ envTask \in [EnvTasks -> EnvTaskRecords]
  /\ envCache \in Seq([dek : Nat, key : Nat, expires : Nat])
  /\ envDeks \in Nat /\ envTime \in Nat

\* The pieces that are left follow those that are done: together they are the pieces
\* of the data.
EnvSplit(me, pieces) ==
  /\ Len(me.left) >= 1
  /\ Len(me.done) + Len(me.left) = Len(pieces)
  /\ \A i \in 1 .. Len(me.done) : me.done[i].text = pieces[i]
  /\ \A j \in 1 .. Len(me.left) : me.left[j].text = pieces[Len(me.done) + j]

EnvSealed(list) == \A i \in 1 .. Len(list) : list[i].key = list[i].dek

EnvTaskOK(me) ==
  /\ me.op # "idle" => \E size \in EnvSizes : me.data = EnvData(size) /\ EnvSplit(me, EnvPieces(EnvData(size)))
  /\ me.op \in {"generate", "generated", "locked", "encrypt"} => EnvSealed(me.done)
  /\ me.op \in {"open", "ask"} => EnvSealed(me.left)

EnvStoredOK(e) ==
  /\ e.pieces \in Seq(EnvPieceRecords) /\ EnvSealed(e.pieces)
  /\ \E size \in EnvSizes :
       /\ e.data = EnvData(size)
       /\ Len(e.pieces) = Len(EnvPieces(EnvData(size)))
       /\ \A i \in 1 .. Len(e.pieces) : e.pieces[i].text = EnvPieces(EnvData(size))[i]

EnvCacheOK ==
  /\ Len(envCache) <= EnvCapacity
  /\ \A i \in 1 .. Len(envCache) : envCache[i].key = envCache[i].dek /\ envCache[i].dek \in 1 .. envDeks
  /\ \A i, j \in 1 .. Len(envCache) : envCache[i].dek = envCache[j].dek => i = j

\* A DEK that was made and is not in the cache yet is nobody else's.
EnvNew(t) == envTask[t].op \in {"generated", "locked"}
EnvDeksNew ==
  /\ \A t \in EnvTasks : EnvNew(t) =>
       /\ envTask[t].dek \in 1 .. envDeks
       /\ \A i \in 1 .. Len(envCache) : envCache[i].dek # envTask[t].dek
  /\ \A t, u \in EnvTasks : EnvNew(t) /\ EnvNew(u) /\ t # u => envTask[t].dek # envTask[u].dek

EnvInv ==
  /\ EnvTyped
  /\ \A t \in EnvTasks : EnvTaskOK(envTask[t])
  /\ \A e \in envStored : EnvStoredOK(e)
  /\ EnvCacheOK /\ EnvDeksNew
  /\ ~envBroken
  /\ \A a \in envAnswers : a.got = a.want

\* The data is in its pieces, which have their type.
LEMMA EnvPiecesFit ==
  ASSUME NEW size \in EnvSizes
  PROVE  /\ EnvPieces(EnvData(size)) \in Seq(Seq(Nat))
         /\ Len(EnvPieces(EnvData(size))) \in Nat \ {0}
         /\ FlattenSeq(EnvPieces(EnvData(size))) = EnvData(size)
         /\ EnvData(size) \in Seq(Nat)
  <1>1. EnvConstants
    BY EnvConstants
  <1>2. size \in Nat
    BY <1>1 DEF EnvConstants
  <1>3. EnvData(size) \in Seq(Nat)
    BY <1>2 DEF EnvData
  <1>4. QED
    BY <1>1, <1>2, <1>3, EnvPiecesJoin

\* A task without a call holds nothing.
LEMMA EnvIdleFits == EnvIdle \in EnvTaskRecords /\ EnvIdle.op = "idle" /\ EnvTaskOK(EnvIdle)
  <1>1. EnvIdle \in EnvTaskRecords /\ EnvIdle.op = "idle"
    BY DEF EnvIdle, EnvCall, EnvTaskRecords
  <1>2. QED
    BY <1>1 DEF EnvTaskOK

\* At first nothing is cached, stored or under way.
LEMMA EnvInitInv == EnvInit => EnvInv
  <1> SUFFICES ASSUME EnvInit PROVE EnvInv
    OBVIOUS
  <1>1. \A t \in EnvTasks : envTask[t] = EnvIdle
    BY DEF EnvInit
  <1>2. EnvTyped
    BY EnvIdleFits DEF EnvInit, EnvTyped
  <1>3. \A t \in EnvTasks : EnvTaskOK(envTask[t])
    BY <1>1, EnvIdleFits
  <1>4. EnvCacheOK
    BY EnvConstants DEF EnvInit, EnvCacheOK, EnvConstants
  <1>5. EnvDeksNew
    BY <1>1, EnvIdleFits DEF EnvDeksNew, EnvNew
  <1>6. QED
    BY <1>2, <1>3, <1>4, <1>5 DEF EnvInit, EnvInv

\* A step of t that neither makes a DEK nor touches the cache.
LEMMA EnvTaskGoes ==
  ASSUME EnvInv, NEW t \in EnvTasks, NEW task \in EnvTaskRecords, EnvTaskOK(task),
         envTask' = [envTask EXCEPT ![t] = task],
         task.op \in {"generated", "locked"} => EnvNew(t) /\ task.dek = envTask[t].dek,
         UNCHANGED <<envCache, envDeks, envTime>>,
         \A e \in envStored' : EnvStoredOK(e), ~envBroken', \A a \in envAnswers' : a.got = a.want
  PROVE  EnvInv'
  <1>1. envTask' \in [EnvTasks -> EnvTaskRecords]
        /\ envTask'[t] = task /\ \A u \in EnvTasks : u # t => envTask'[u] = envTask[u]
    BY DEF EnvInv, EnvTyped
  <1>2. EnvTyped'
    BY <1>1 DEF EnvInv, EnvTyped
  <1>3. \A u \in EnvTasks : EnvTaskOK(envTask'[u])
    BY <1>1 DEF EnvInv
  <1>4. EnvCacheOK'
    BY DEF EnvInv, EnvCacheOK
  <1>5. EnvDeksNew'
    <2>1. \A u \in EnvTasks : EnvNew(u)' => EnvNew(u) /\ envTask'[u].dek = envTask[u].dek
      BY <1>1 DEF EnvNew
    <2>2. QED
      BY <2>1 DEF EnvInv, EnvDeksNew
  <1>6. EnvInv' = /\ EnvTyped' /\ EnvCacheOK' /\ EnvDeksNew' /\ ~envBroken'
                  /\ \A u \in EnvTasks : EnvTaskOK(envTask'[u])
                  /\ \A e \in envStored' : EnvStoredOK(e)
                  /\ \A a \in envAnswers' : a.got = a.want
    BY DEF EnvInv, EnvTaskOK, EnvStoredOK
  <1>7. QED
    BY <1>2, <1>3, <1>4, <1>5, <1>6

\* What a task holds has its type.
LEMMA EnvFields ==
  ASSUME EnvInv, NEW t \in EnvTasks
  PROVE  /\ envTask[t] \in EnvTaskRecords /\ EnvTaskOK(envTask[t])
         /\ \A e \in envStored : EnvStoredOK(e)
         /\ ~envBroken /\ \A a \in envAnswers : a.got = a.want
  BY DEF EnvInv, EnvTyped

\* A call that fails leaves what is stored as it is.
LEMMA EnvFailKeeps ==
  ASSUME EnvInv, NEW t \in EnvTasks, EnvFail(t)
  PROVE  EnvInv'
  <1>1. envTask' = [envTask EXCEPT ![t] = EnvIdle]
        /\ UNCHANGED <<envCache, envStored, envAnswers, envBroken, envDeks, envTime>>
    BY DEF EnvFail
  <1>2. QED
    BY <1>1, EnvFields, EnvIdleFits, EnvTaskGoes

\* A task takes the cache's lock with a DEK in hand.
LEMMA EnvTakeLockKeeps ==
  ASSUME EnvInv, NEW t \in EnvTasks, EnvTakeLock(t)
  PROVE  EnvInv'
  <1>1. PICK task : task = [envTask[t] EXCEPT !.op = "locked"]
    OBVIOUS
  <1>2. envTask' = [envTask EXCEPT ![t] = task] /\ envTask[t].op = "generated"
        /\ UNCHANGED <<envCache, envStored, envAnswers, envBroken, envDeks, envTime>>
    BY <1>1 DEF EnvTakeLock
  <1>3. /\ task \in EnvTaskRecords /\ task.op = "locked" /\ task.dek = envTask[t].dek
        /\ task.data = envTask[t].data /\ task.left = envTask[t].left /\ task.done = envTask[t].done
    BY <1>1, EnvFields DEF EnvTaskRecords
  <1>4. EnvTaskOK(task)
    BY <1>2, <1>3, EnvFields DEF EnvTaskOK, EnvSplit
  <1>5. EnvNew(t)
    BY <1>2 DEF EnvNew
  <1>6. QED
    BY <1>2, <1>3, <1>4, <1>5, EnvFields, EnvTaskGoes

\* A new DEK has a number no DEK had before.
LEMMA EnvGenerateKeeps ==
  ASSUME EnvInv, NEW t \in EnvTasks, EnvGenerate(t)
  PROVE  EnvInv'
  <1>1. PICK n \in Nat : n = envDeks
    BY DEF EnvInv, EnvTyped
  <1>2. PICK task : task = [envTask[t] EXCEPT !.op = "generated", !.dek = n + 1]
    OBVIOUS
  <1>3. /\ envTask' = [envTask EXCEPT ![t] = task] /\ envTask[t].op = "generate" /\ envDeks' = n + 1
        /\ envCache' = envCache /\ envStored' = envStored /\ envAnswers' = envAnswers
        /\ envBroken' = envBroken /\ envTime' = envTime
    BY <1>1, <1>2 DEF EnvGenerate
  <1>4. /\ task \in EnvTaskRecords /\ task.op = "generated" /\ task.dek = n + 1
        /\ task.data = envTask[t].data /\ task.left = envTask[t].left /\ task.done = envTask[t].done
    <2>1. n + 1 \in Nat /\ envTask[t] \in EnvTaskRecords
      BY <1>1, EnvFields
    <2>2. QED
      BY <1>2, <2>1 DEF EnvTaskRecords
  <1>5. EnvTaskOK(task)
    BY <1>3, <1>4, EnvFields DEF EnvTaskOK, EnvSplit
  <1>6. envTask' \in [EnvTasks -> EnvTaskRecords]
        /\ envTask'[t] = task /\ \A u \in EnvTasks : u # t => envTask'[u] = envTask[u]
    BY <1>3, <1>4 DEF EnvInv, EnvTyped
  <1>7. EnvTyped'
    BY <1>1, <1>3, <1>6 DEF EnvInv, EnvTyped
  <1>8. \A u \in EnvTasks : EnvTaskOK(envTask'[u])
    BY <1>5, <1>6 DEF EnvInv
  <1>9. EnvCacheOK'
    <2>1. \A d \in 1 .. n : d \in 1 .. n + 1
      BY <1>1
    <2>2. QED
      BY <1>1, <1>3, <2>1 DEF EnvInv, EnvCacheOK
  <1>10. EnvDeksNew'
    <2>1. /\ \A i \in 1 .. Len(envCache) : envCache[i].dek \in 1 .. n
          /\ \A u \in EnvTasks : EnvNew(u) => envTask[u].dek \in 1 .. n
      BY <1>1 DEF EnvInv, EnvCacheOK, EnvDeksNew
    <2>2. \A d \in 1 .. n : d # n + 1 /\ d \in 1 .. n + 1
      BY <1>1
    <2>3. n + 1 \in 1 .. n + 1
      BY <1>1
    <2>4. \A u \in EnvTasks : u # t /\ EnvNew(u)' => EnvNew(u) /\ envTask'[u].dek = envTask[u].dek
      BY <1>6 DEF EnvNew
    <2>5. envTask'[t].dek = n + 1
      BY <1>4, <1>6
    <2>6. ASSUME NEW u \in EnvTasks, EnvNew(u)'
          PROVE  /\ envTask'[u].dek \in 1 .. n + 1
                 /\ \A i \in 1 .. Len(envCache) : envCache[i].dek # envTask'[u].dek
      <3>1. CASE u = t
        BY <2>1, <2>2, <2>3, <2>5, <3>1
      <3>2. CASE u # t
        BY <2>1, <2>2, <2>4, <2>6, <3>2 DEF EnvInv, EnvDeksNew
      <3>3. QED
        BY <3>1, <3>2
    <2>7. ASSUME NEW u \in EnvTasks, NEW v \in EnvTasks, EnvNew(u)', EnvNew(v)', u # v
          PROVE  envTask'[u].dek # envTask'[v].dek
      BY <2>1, <2>2, <2>4, <2>5, <2>7 DEF EnvInv, EnvDeksNew
    <2>8. QED
      BY <1>3, <2>6, <2>7 DEF EnvDeksNew
  <1>11. EnvInv' = /\ EnvTyped' /\ EnvCacheOK' /\ EnvDeksNew' /\ ~envBroken'
                   /\ \A u \in EnvTasks : EnvTaskOK(envTask'[u])
                   /\ \A e \in envStored' : EnvStoredOK(e)
                   /\ \A a \in envAnswers' : a.got = a.want
    BY DEF EnvInv, EnvTaskOK, EnvStoredOK
  <1>12. QED
    BY <1>3, <1>7, <1>8, <1>9, <1>10, <1>11, EnvFields

EnvMoved(me, p, done, pieces) ==
  /\ done \in Seq(EnvPieceRecords) /\ Tail(me.left) \in Seq(EnvPieceRecords)
  /\ \A i \in 1 .. Len(done) : done[i].text = pieces[i]
  /\ Len(me.left) > 1 =>
       /\ Len(Tail(me.left)) >= 1 /\ Len(done) + Len(Tail(me.left)) = Len(pieces)
       /\ \A j \in 1 .. Len(Tail(me.left)) : Tail(me.left)[j].text = pieces[Len(done) + j]
  /\ ~(Len(me.left) > 1) => Len(done) = Len(pieces) /\ [i \in DOMAIN done |-> done[i].text] = pieces
  /\ EnvSealed(me.done) /\ p.key = p.dek => EnvSealed(done)
  /\ EnvSealed(me.left) => EnvSealed(Tail(me.left))

\* A piece goes from those left to those done, with its text.
LEMMA EnvPieceMoves ==
  ASSUME NEW me \in EnvTaskRecords, NEW pieces \in Seq(Seq(Nat)), EnvSplit(me, pieces),
         NEW p \in EnvPieceRecords, p.text = Head(me.left).text,
         NEW done, done = Append(me.done, p)
  PROVE  EnvMoved(me, p, done, pieces)
  <1>1. me.left \in Seq(EnvPieceRecords) /\ me.done \in Seq(EnvPieceRecords)
    BY DEF EnvTaskRecords
  <1>2. PICK left \in Seq(EnvPieceRecords) : left = me.left
    BY <1>1
  <1>3. PICK old \in Seq(EnvPieceRecords) : old = me.done
    BY <1>1
  <1>4. PICK n \in Nat : n = Len(left)
    OBVIOUS
  <1>5. PICK m \in Nat : m = Len(old)
    OBVIOUS
  <1>6. /\ n >= 1 /\ m + n = Len(pieces)
        /\ \A i \in 1 .. m : old[i].text = pieces[i]
        /\ \A j \in 1 .. n : left[j].text = pieces[m + j]
    BY <1>2, <1>3, <1>4, <1>5 DEF EnvSplit
  <1>7. /\ done \in Seq(EnvPieceRecords) /\ Len(done) = m + 1
        /\ done[m + 1] = p /\ \A i \in 1 .. m : done[i] = old[i]
    BY <1>3, <1>5
  <1>8. Head(left) = left[1] /\ 1 \in 1 .. n
    BY <1>4, <1>6
  <1>9. PICK tail \in Seq(EnvPieceRecords) : tail = Tail(left)
    <2>1. left # << >>
      BY <1>4, <1>6
    <2>2. Tail(left) \in Seq(EnvPieceRecords)
      BY ONLY <2>1, left \in Seq(EnvPieceRecords)
    <2>3. QED
      BY <2>2
  <1>10. Len(tail) = n - 1 /\ \A j \in 1 .. n - 1 : tail[j] = left[j + 1]
    BY <1>4, <1>6, <1>9
  <1>11. \A i \in 1 .. m + 1 : i \in 1 .. m \/ i = m + 1
    BY <1>5
  <1>12. p.text = pieces[m + 1]
    BY <1>2, <1>6, <1>8
  <1>13. \A i \in 1 .. Len(done) : done[i].text = pieces[i]
    BY <1>6, <1>7, <1>11, <1>12
  <1>14. ASSUME n > 1
         PROVE  /\ Len(tail) >= 1 /\ Len(done) + Len(tail) = Len(pieces)
                /\ \A j \in 1 .. Len(tail) : tail[j].text = pieces[Len(done) + j]
    <2>1. \A j \in 1 .. n - 1 : j + 1 \in 1 .. n /\ m + (j + 1) = m + 1 + j
      BY <1>4, <1>5
    <2>2. \A j \in 1 .. n - 1 : tail[j].text = pieces[m + 1 + j]
      BY <1>6, <1>10, <2>1
    <2>3. PICK long \in Nat : long = Len(pieces)
      OBVIOUS
    <2>4. m + n = long
      BY <1>4, <1>5, <1>6, <2>3
    <2>5. n - 1 >= 1 /\ (m + 1) + (n - 1) = long
      BY ONLY m \in Nat, n \in Nat, long \in Nat, <1>14, <2>4
    <2>6. Len(tail) >= 1 /\ Len(done) + Len(tail) = Len(pieces)
      BY <1>7, <1>10, <2>3, <2>5
    <2>7. QED
      BY <1>7, <1>10, <2>2, <2>6
  <1>15. ASSUME ~(n > 1) PROVE Len(done) = Len(pieces) /\ [i \in DOMAIN done |-> done[i].text] = pieces
    <2>1. n = 1 /\ Len(done) = Len(pieces)
      BY <1>4, <1>5, <1>6, <1>7, <1>15
    <2>2. DOMAIN done = 1 .. m + 1 /\ Len(pieces) = m + 1
      BY <1>7, <2>1
    <2>3. pieces = [i \in 1 .. m + 1 |-> pieces[i]]
      BY <1>5, <2>2
    <2>4. \A i \in 1 .. m + 1 : done[i].text = pieces[i]
      BY <1>7, <1>13
    <2>5. QED
      BY <2>1, <2>2, <2>3, <2>4
  <1>16. EnvSealed(old) /\ p.key = p.dek => EnvSealed(done)
    BY <1>5, <1>7, <1>11 DEF EnvSealed
  <1>17. EnvSealed(left) => EnvSealed(tail)
    <2>1. \A j \in 1 .. n - 1 : j + 1 \in 1 .. n
      BY <1>4
    <2>2. QED
      BY <1>4, <1>10, <2>1 DEF EnvSealed
  <1>18. QED
    BY <1>2, <1>3, <1>4, <1>7, <1>9, <1>13, <1>14, <1>15, <1>16, <1>17 DEF EnvMoved

\* An operation that is under way has its data in its pieces.
LEMMA EnvUnderWay ==
  ASSUME EnvInv, NEW t \in EnvTasks, envTask[t].op # "idle"
  PROVE  \E size \in EnvSizes :
           /\ envTask[t].data = EnvData(size) /\ EnvSplit(envTask[t], EnvPieces(EnvData(size)))
           /\ Head(envTask[t].left) \in EnvPieceRecords
  <1>1. PICK size \in EnvSizes :
          envTask[t].data = EnvData(size) /\ EnvSplit(envTask[t], EnvPieces(EnvData(size)))
    BY EnvFields DEF EnvTaskOK
  <1>2. envTask[t].left \in Seq(EnvPieceRecords) /\ Len(envTask[t].left) >= 1
    BY <1>1, EnvFields DEF EnvTaskRecords, EnvSplit
  <1>3. PICK left \in Seq(EnvPieceRecords) : left = envTask[t].left
    BY <1>2
  <1>4. Head(left) \in EnvPieceRecords
    BY <1>2, <1>3
  <1>5. QED
    BY <1>1, <1>3, <1>4

\* A piece is sealed with the DEK in hand; the last one completes what is stored.
LEMMA EnvEncryptKeeps ==
  ASSUME EnvInv, NEW t \in EnvTasks, EnvEncrypt(t)
  PROVE  EnvInv'
  <1>1. PICK me \in EnvTaskRecords : me = envTask[t]
    BY EnvFields
  <1>2. me.op = "encrypt" /\ UNCHANGED <<envCache, envAnswers, envBroken, envDeks, envTime>>
    BY <1>1 DEF EnvEncrypt
  <1>3. PICK size \in EnvSizes :
          /\ me.data = EnvData(size) /\ EnvSplit(me, EnvPieces(EnvData(size)))
          /\ Head(me.left) \in EnvPieceRecords
    BY <1>1, <1>2, EnvUnderWay
  <1>4. PICK p : p = [Head(me.left) EXCEPT !.dek = me.dek, !.key = me.dek]
    OBVIOUS
  <1>5. p \in EnvPieceRecords /\ p.text = Head(me.left).text /\ p.key = p.dek
    <2>1. me.dek \in Nat
      BY DEF EnvTaskRecords
    <2>2. QED
      BY <1>3, <1>4, <2>1 DEF EnvPieceRecords
  <1>6. PICK done : done = Append(me.done, p)
    OBVIOUS
  <1>7. PICK pieces \in Seq(Seq(Nat)) : pieces = EnvPieces(EnvData(size))
    BY EnvPiecesFit
  <1>8. EnvSplit(me, pieces)
    BY <1>3, <1>7
  <1>9. EnvMoved(me, p, done, pieces)
    BY <1>5, <1>6, <1>8, EnvPieceMoves
  <1>10. EnvSealed(me.done)
    BY <1>1, <1>2, EnvFields DEF EnvTaskOK
  <1>11. CASE Len(me.left) > 1
    <2>1. PICK task : task = [me EXCEPT !.op = "generate", !.left = Tail(me.left), !.done = done]
      OBVIOUS
    <2>2. envTask' = [envTask EXCEPT ![t] = task] /\ envStored' = envStored
      BY <1>1, <1>4, <1>6, <1>11, <2>1 DEF EnvEncrypt
    <2>3. /\ task \in EnvTaskRecords /\ task.op = "generate" /\ task.data = me.data
          /\ task.left = Tail(me.left) /\ task.done = done
      BY <1>9, <2>1 DEF EnvTaskRecords, EnvMoved
    <2>4. EnvTaskOK(task)
      <3>1. EnvSplit(task, pieces)
        BY <1>9, <1>11, <2>3 DEF EnvMoved, EnvSplit
      <3>2. EnvSealed(task.done)
        BY <1>5, <1>9, <1>10, <2>3 DEF EnvMoved
      <3>3. QED
        BY <1>3, <1>7, <2>3, <3>1, <3>2 DEF EnvTaskOK
    <2>5. QED
      BY <1>2, <2>2, <2>3, <2>4, EnvFields, EnvTaskGoes
  <1>12. CASE ~(Len(me.left) > 1)
    <2>1. PICK e : e = [data |-> me.data, pieces |-> done]
      OBVIOUS
    <2>2. envTask' = [envTask EXCEPT ![t] = EnvIdle] /\ envStored' = envStored \cup {e}
      BY <1>1, <1>4, <1>6, <1>12, <2>1 DEF EnvEncrypt
    <2>3. EnvStoredOK(e)
      BY <1>3, <1>5, <1>7, <1>9, <1>10, <1>12, <2>1 DEF EnvStoredOK, EnvMoved
    <2>4. \A x \in envStored' : EnvStoredOK(x)
      BY <2>2, <2>3, EnvFields
    <2>5. QED
      BY <1>2, <2>2, <2>4, EnvFields, EnvIdleFits, EnvTaskGoes
  <1>13. QED
    BY <1>11, <1>12

\* An opened piece; behind the last one the answer is the data.
LEMMA EnvOpenedKeeps ==
  ASSUME EnvInv, NEW t \in EnvTasks, envTask[t].op \in {"open", "ask"},
         EnvOpened(t, Head(envTask[t].left).text),
         UNCHANGED <<envCache, envStored, envBroken, envDeks, envTime>>
  PROVE  EnvInv'
  <1>1. PICK me \in EnvTaskRecords : me = envTask[t]
    BY EnvFields
  <1>2. me.op \in {"open", "ask"}
    BY <1>1
  <1>3. PICK size \in EnvSizes :
          /\ me.data = EnvData(size) /\ EnvSplit(me, EnvPieces(EnvData(size)))
          /\ Head(me.left) \in EnvPieceRecords
    BY <1>1, <1>2, EnvUnderWay
  <1>4. PICK p : p = EnvPlain(Head(me.left).text)
    OBVIOUS
  <1>5. p \in EnvPieceRecords /\ p.text = Head(me.left).text /\ p.key = p.dek
    BY <1>3, <1>4 DEF EnvPieceRecords, EnvPlain
  <1>6. PICK done : done = Append(me.done, p)
    OBVIOUS
  <1>7. PICK pieces \in Seq(Seq(Nat)) : pieces = EnvPieces(EnvData(size))
    BY EnvPiecesFit
  <1>8. EnvSplit(me, pieces)
    BY <1>3, <1>7
  <1>9. EnvMoved(me, p, done, pieces)
    BY <1>5, <1>6, <1>8, EnvPieceMoves
  <1>10. EnvSealed(me.left)
    BY <1>1, <1>2, EnvFields DEF EnvTaskOK
  <1>11. CASE Len(me.left) > 1
    <2>1. PICK task : task = [me EXCEPT !.op = "open", !.left = Tail(me.left), !.done = done]
      OBVIOUS
    <2>2. envTask' = [envTask EXCEPT ![t] = task] /\ envAnswers' = envAnswers
      BY <1>1, <1>4, <1>6, <1>11, <2>1 DEF EnvOpened
    <2>3. /\ task \in EnvTaskRecords /\ task.op = "open" /\ task.data = me.data
          /\ task.left = Tail(me.left) /\ task.done = done
      BY <1>9, <2>1 DEF EnvTaskRecords, EnvMoved
    <2>4. EnvTaskOK(task)
      <3>1. EnvSplit(task, pieces)
        BY <1>9, <1>11, <2>3 DEF EnvMoved, EnvSplit
      <3>2. EnvSealed(task.left)
        BY <1>9, <1>10, <2>3 DEF EnvMoved
      <3>3. QED
        BY <1>3, <1>7, <2>3, <3>1, <3>2 DEF EnvTaskOK
    <2>5. QED
      BY <2>2, <2>3, <2>4, EnvFields, EnvTaskGoes
  <1>12. CASE ~(Len(me.left) > 1)
    <2>1. PICK a : a = [want |-> me.data, got |-> FlattenSeq([i \in DOMAIN done |-> done[i].text])]
      OBVIOUS
    <2>2. envTask' = [envTask EXCEPT ![t] = EnvIdle] /\ envAnswers' = envAnswers \cup {a}
      BY <1>1, <1>4, <1>6, <1>12, <2>1 DEF EnvOpened
    <2>3. a.want = me.data /\ a.got = FlattenSeq(pieces)
      BY <1>9, <1>12, <2>1 DEF EnvMoved
    <2>4. a.got = a.want
      BY <1>3, <1>7, <2>3, EnvPiecesFit
    <2>5. \A x \in envAnswers' : x.got = x.want
      BY <2>2, <2>4, EnvFields
    <2>6. QED
      BY <2>2, <2>5, EnvFields, EnvIdleFits, EnvTaskGoes
  <1>13. QED
    BY <1>11, <1>12

\* What the cache holds under the id of a piece's DEK is the key that encrypted it.
LEMMA EnvTryCacheKeeps ==
  ASSUME EnvInv, NEW t \in EnvTasks, EnvTryCache(t)
  PROVE  EnvInv'
  <1>1. PICK piece : piece = Head(envTask[t].left)
    OBVIOUS
  <1>2. envTask[t].op = "open" /\ UNCHANGED <<envCache, envStored, envDeks, envTime>>
    BY DEF EnvTryCache
  <1>3. CASE EnvCached(piece.dek) = {}
    <2>1. PICK task : task = [envTask[t] EXCEPT !.op = "ask"]
      OBVIOUS
    <2>2. envTask' = [envTask EXCEPT ![t] = task] /\ UNCHANGED <<envAnswers, envBroken>>
      BY <1>1, <1>3, <2>1 DEF EnvTryCache
    <2>3. /\ task \in EnvTaskRecords /\ task.op = "ask"
          /\ task.data = envTask[t].data /\ task.left = envTask[t].left /\ task.done = envTask[t].done
      BY <2>1, EnvFields DEF EnvTaskRecords
    <2>4. EnvTaskOK(task)
      BY <1>2, <2>3, EnvFields DEF EnvTaskOK, EnvSplit
    <2>5. QED
      BY <1>2, <2>2, <2>3, <2>4, EnvFields, EnvTaskGoes
  <1>4. CASE EnvCached(piece.dek) # {}
    <2>1. piece.key = piece.dek
      <3>1. EnvSealed(envTask[t].left)
        BY <1>2, EnvFields DEF EnvTaskOK
      <3>2. envTask[t].left \in Seq(EnvPieceRecords) /\ Len(envTask[t].left) >= 1
        BY <1>2, EnvFields DEF EnvTaskOK, EnvSplit, EnvTaskRecords
      <3>3. Head(envTask[t].left) = envTask[t].left[1] /\ 1 \in 1 .. Len(envTask[t].left)
        BY <3>2
      <3>4. QED
        BY <1>1, <3>1, <3>3 DEF EnvSealed
    <2>2. \E i \in EnvCached(piece.dek) : envCache[i].key = piece.key
      <3>1. PICK i \in EnvCached(piece.dek) : TRUE
        BY <1>4
      <3>2. i \in 1 .. Len(envCache) /\ envCache[i].dek = piece.dek
        BY <3>1 DEF EnvCached
      <3>3. envCache[i].key = envCache[i].dek
        BY <3>2 DEF EnvInv, EnvCacheOK
      <3>4. QED
        BY <2>1, <3>2, <3>3
    <2>3. EnvOpened(t, piece.text) /\ UNCHANGED envBroken
      BY <1>1, <1>4, <2>2 DEF EnvTryCache
    <2>4. QED
      BY <1>1, <1>2, <2>3, EnvOpenedKeeps
  <1>5. QED
    BY <1>3, <1>4

\* A DEK that is not cached comes from the KMS.
LEMMA EnvAskKmsKeeps ==
  ASSUME EnvInv, NEW t \in EnvTasks, EnvAskKms(t)
  PROVE  EnvInv'
  BY EnvOpenedKeeps DEF EnvAskKms

\* A DEK that was opened goes into the cache, and the oldest entry out of it if it
\* would hold too many.
LEMMA EnvRememberKeeps ==
  ASSUME EnvInv, NEW t \in EnvTasks, EnvRemember(t)
  PROVE  EnvInv'
  <1>1. PICK dek \in Nat : dek = envTask[t].dek
    BY EnvFields DEF EnvTaskRecords
  <1>2. /\ envTask[t].op = "locked" /\ envCache' = EnvPut(envCache, dek)
        /\ UNCHANGED <<envStored, envAnswers, envBroken, envDeks, envTime>>
    BY <1>1 DEF EnvRemember
  <1>3. PICK task : task = [envTask[t] EXCEPT !.op = "encrypt"]
    OBVIOUS
  <1>4. envTask' = [envTask EXCEPT ![t] = task]
    BY <1>3 DEF EnvRemember
  <1>5. /\ task \in EnvTaskRecords /\ task.op = "encrypt" /\ task.dek = envTask[t].dek
        /\ task.data = envTask[t].data /\ task.left = envTask[t].left /\ task.done = envTask[t].done
    BY <1>3, EnvFields DEF EnvTaskRecords
  <1>6. EnvTaskOK(task)
    BY <1>2, <1>5, EnvFields DEF EnvTaskOK, EnvSplit
  <1>7. envTask' \in [EnvTasks -> EnvTaskRecords]
        /\ envTask'[t] = task /\ \A u \in EnvTasks : u # t => envTask'[u] = envTask[u]
    BY <1>4, <1>5 DEF EnvInv, EnvTyped
  <1>8. PICK new : new = [dek |-> dek, key |-> dek, expires |-> envTime + EnvTtl]
    OBVIOUS
  <1>9. new \in [dek : Nat, key : Nat, expires : Nat] /\ new.dek = dek /\ new.key = dek
    <2>1. envTime + EnvTtl \in Nat
      BY EnvConstants DEF EnvInv, EnvTyped, EnvConstants
    <2>2. QED
      BY <1>8, <2>1
  <1>10. PICK old \in Seq([dek : Nat, key : Nat, expires : Nat]) : old = envCache
    BY DEF EnvInv, EnvTyped
  <1>11. PICK n \in Nat : n = Len(old)
    OBVIOUS
  <1>12. PICK all \in Seq([dek : Nat, key : Nat, expires : Nat]) : all = Append(old, new)
    <2>1. Append(old, new) \in Seq([dek : Nat, key : Nat, expires : Nat])
      BY ONLY old \in Seq([dek : Nat, key : Nat, expires : Nat]), <1>9
    <2>2. QED
      BY <2>1
  <1>13. Len(all) = n + 1 /\ all[n + 1] = new /\ \A i \in 1 .. n : all[i] = old[i]
    BY <1>9, <1>11, <1>12
  <1>14. /\ EnvNew(t)
         /\ dek \in 1 .. envDeks
         /\ \A i \in 1 .. n : old[i].dek # dek
         /\ \A u \in EnvTasks : EnvNew(u) /\ u # t => envTask[u].dek # dek
    BY <1>1, <1>2, <1>10, <1>11 DEF EnvInv, EnvDeksNew, EnvNew
  <1>15. /\ n <= EnvCapacity
         /\ \A i \in 1 .. n : old[i].key = old[i].dek /\ old[i].dek \in 1 .. envDeks
         /\ \A i, j \in 1 .. n : old[i].dek = old[j].dek => i = j
    BY <1>10, <1>11 DEF EnvInv, EnvCacheOK
  <1>16. \A i \in 1 .. n + 1 : i \in 1 .. n \/ i = n + 1
    BY <1>11
  <1>17. /\ \A i \in 1 .. n + 1 : all[i].key = all[i].dek /\ all[i].dek \in 1 .. envDeks
         /\ \A i, j \in 1 .. n + 1 : all[i].dek = all[j].dek => i = j
         /\ \A u \in EnvTasks : EnvNew(u) /\ u # t =>
              envTask[u].dek \in 1 .. envDeks /\ \A i \in 1 .. n + 1 : all[i].dek # envTask[u].dek
    <2>1. \A i \in 1 .. n + 1 : all[i].key = all[i].dek /\ all[i].dek \in 1 .. envDeks
      BY <1>9, <1>13, <1>14, <1>15, <1>16
    <2>2. ASSUME NEW i \in 1 .. n + 1, NEW j \in 1 .. n + 1, all[i].dek = all[j].dek
          PROVE  i = j
      <3>1. CASE i \in 1 .. n /\ j \in 1 .. n
        BY <1>13, <1>15, <2>2, <3>1
      <3>2. CASE i = n + 1 /\ j \in 1 .. n
        BY <1>9, <1>13, <1>14, <2>2, <3>2
      <3>3. CASE i \in 1 .. n /\ j = n + 1
        BY <1>9, <1>13, <1>14, <2>2, <3>3
      <3>4. QED
        BY <1>16, <3>1, <3>2, <3>3
    <2>3. \A u \in EnvTasks : EnvNew(u) /\ u # t =>
            envTask[u].dek \in 1 .. envDeks /\ \A i \in 1 .. n : old[i].dek # envTask[u].dek
      BY <1>10, <1>11 DEF EnvInv, EnvDeksNew
    <2>4. \A u \in EnvTasks : EnvNew(u) /\ u # t => \A i \in 1 .. n + 1 : all[i].dek # envTask[u].dek
      BY <1>9, <1>13, <1>14, <1>16, <2>3
    <2>5. QED
      BY <2>1, <2>2, <2>3, <2>4
  <1>18. \E s \in Seq([dek : Nat, key : Nat, expires : Nat]), off \in {0, 1} :
           /\ envCache' = s /\ Len(s) <= EnvCapacity /\ Len(s) + off = n + 1
           /\ \A i \in 1 .. Len(s) : s[i] = all[i + off]
    <2>1. EnvCapacity \in Nat
      BY EnvConstants DEF EnvConstants
    <2>2. CASE n + 1 > EnvCapacity
      <3>1. envCache' = Tail(all)
        BY <1>2, <1>8, <1>10, <1>12, <1>13, <2>2 DEF EnvPut
      <3>2. all # << >>
        BY <1>11, <1>13
      <3>3. PICK s \in Seq([dek : Nat, key : Nat, expires : Nat]) : s = Tail(all)
        <4>1. Tail(all) \in Seq([dek : Nat, key : Nat, expires : Nat])
          BY ONLY <3>2, all \in Seq([dek : Nat, key : Nat, expires : Nat])
        <4>2. QED
          BY <4>1
      <3>4. Len(s) = n /\ \A i \in 1 .. n : s[i] = all[i + 1]
        BY <1>11, <1>13, <3>2, <3>3
      <3>5. QED
        BY <1>11, <1>15, <3>1, <3>3, <3>4
    <2>3. CASE ~(n + 1 > EnvCapacity)
      <3>1. envCache' = all
        BY <1>2, <1>8, <1>10, <1>12, <1>13, <2>3 DEF EnvPut
      <3>2. n + 1 <= EnvCapacity /\ Len(all) + 0 = n + 1
        BY <1>11, <1>13, <2>1, <2>3
      <3>3. \A i \in 1 .. Len(all) : i + 0 = i
        OBVIOUS
      <3>4. QED
        BY <1>13, <3>1, <3>2, <3>3
    <2>4. QED
      BY <2>2, <2>3
  <1>19. PICK s \in Seq([dek : Nat, key : Nat, expires : Nat]), off \in {0, 1} :
           /\ envCache' = s /\ Len(s) <= EnvCapacity /\ Len(s) + off = n + 1
           /\ \A i \in 1 .. Len(s) : s[i] = all[i + off]
    BY <1>18
  <1>20. /\ \A i \in 1 .. Len(s) : i + off \in 1 .. n + 1
         /\ \A i, j \in 1 .. Len(s) : i + off = j + off => i = j
    <2>1. PICK size \in Nat : size = Len(s)
      OBVIOUS
    <2>2. size + off = n + 1
      BY <1>19, <2>1
    <2>3. \A i \in 1 .. size : i + off \in 1 .. n + 1
      <3>1. CASE off = 0
        BY <2>2, <3>1
      <3>2. CASE off = 1
        BY <2>2, <3>2
      <3>3. QED
        BY <3>1, <3>2
    <2>4. \A i, j \in 1 .. size : i + off = j + off => i = j
      OBVIOUS
    <2>5. QED
      BY <2>1, <2>3, <2>4
  <1>21. EnvTyped'
    BY <1>2, <1>7, <1>19 DEF EnvInv, EnvTyped
  <1>22. \A u \in EnvTasks : EnvTaskOK(envTask'[u])
    BY <1>6, <1>7 DEF EnvInv
  <1>23. EnvCacheOK'
    <2>1. ASSUME NEW i \in 1 .. Len(s) PROVE s[i].key = s[i].dek /\ s[i].dek \in 1 .. envDeks
      <3>1. i + off \in 1 .. n + 1 /\ s[i] = all[i + off]
        BY <1>19, <1>20
      <3>2. QED
        BY <1>17, <3>1
    <2>2. ASSUME NEW i \in 1 .. Len(s), NEW j \in 1 .. Len(s), s[i].dek = s[j].dek PROVE i = j
      <3>1. all[i + off].dek = all[j + off].dek
        BY <1>19, <2>2
      <3>2. i + off = j + off
        BY <1>17, <1>20, <3>1
      <3>3. QED
        BY <1>20, <3>2
    <2>3. QED
      BY <1>2, <1>19, <2>1, <2>2 DEF EnvCacheOK
  <1>24. EnvDeksNew'
    <2>1. \A u \in EnvTasks : EnvNew(u)' => u # t /\ EnvNew(u) /\ envTask'[u].dek = envTask[u].dek
      BY <1>5, <1>7 DEF EnvNew
    <2>2. ASSUME NEW u \in EnvTasks, EnvNew(u), u # t
          PROVE  envTask[u].dek \in 1 .. envDeks /\ \A i \in 1 .. Len(s) : s[i].dek # envTask[u].dek
      <3>1. ASSUME NEW i \in 1 .. Len(s) PROVE s[i].dek # envTask[u].dek
        <4>1. i + off \in 1 .. n + 1 /\ s[i] = all[i + off]
          BY <1>19, <1>20
        <4>2. QED
          BY <1>17, <2>2, <4>1
      <3>2. QED
        BY <1>17, <2>2, <3>1
    <2>3. \A u, v \in EnvTasks : EnvNew(u) /\ EnvNew(v) /\ u # v => envTask[u].dek # envTask[v].dek
      BY DEF EnvInv, EnvDeksNew
    <2>4. QED
      BY <1>2, <1>19, <2>1, <2>2, <2>3 DEF EnvDeksNew
  <1>25. EnvInv' = /\ EnvTyped' /\ EnvCacheOK' /\ EnvDeksNew' /\ ~envBroken'
                   /\ \A u \in EnvTasks : EnvTaskOK(envTask'[u])
                   /\ \A e \in envStored' : EnvStoredOK(e)
                   /\ \A a \in envAnswers' : a.got = a.want
    BY DEF EnvInv, EnvTaskOK, EnvStoredOK
  <1>26. QED
    BY <1>2, <1>21, <1>22, <1>23, <1>24, <1>25, EnvFields

\* The data is taken to pieces.
LEMMA EnvBeginKeeps ==
  ASSUME EnvInv, NEW t \in EnvTasks, NEW size \in EnvSizes, EnvBegin(t, size)
  PROVE  EnvInv'
  <1>1. UNCHANGED <<envCache, envStored, envAnswers, envBroken, envDeks, envTime>>
    BY DEF EnvBegin
  <1>2. PICK pieces \in Seq(Seq(Nat)) : pieces = EnvPieces(EnvData(size)) /\ Len(pieces) \in Nat \ {0}
    BY EnvPiecesFit
  <1>3. PICK left : left = [i \in DOMAIN pieces |-> EnvPlain(pieces[i])]
    OBVIOUS
  <1>4. left \in Seq(EnvPieceRecords) /\ Len(left) = Len(pieces)
        /\ \A j \in 1 .. Len(left) : left[j].text = pieces[j]
    <2>1. DOMAIN pieces = 1 .. Len(pieces)
      BY <1>2
    <2>2. \A i \in 1 .. Len(pieces) : EnvPlain(pieces[i]) \in EnvPieceRecords /\ EnvPlain(pieces[i]).text = pieces[i]
      BY <1>2 DEF EnvPlain, EnvPieceRecords
    <2>3. QED
      BY <1>2, <1>3, <2>1, <2>2
  <1>5. PICK task : task = [op |-> "generate", left |-> left, dek |-> 0, done |-> << >>, data |-> EnvData(size)]
    OBVIOUS
  <1>6. envTask' = [envTask EXCEPT ![t] = task]
    BY <1>2, <1>3, <1>5 DEF EnvBegin, EnvCall
  <1>7. task \in EnvTaskRecords /\ task.op = "generate"
    BY <1>4, <1>5, EnvPiecesFit DEF EnvTaskRecords
  <1>8. EnvTaskOK(task)
    <2>1. EnvSplit(task, pieces)
      <3>1. Len(task.done) = 0 /\ task.left = left /\ Len(left) >= 1
        BY <1>2, <1>4, <1>5
      <3>2. \A j \in 1 .. Len(left) : 0 + j = j
        OBVIOUS
      <3>3. QED
        BY <1>4, <3>1, <3>2 DEF EnvSplit
    <2>2. EnvSealed(task.done)
      BY <1>5 DEF EnvSealed
    <2>3. QED
      BY <1>2, <1>5, <1>7, <2>1, <2>2 DEF EnvTaskOK
  <1>9. QED
    BY <1>1, <1>6, <1>7, <1>8, EnvFields, EnvTaskGoes

\* A decryption begins with all pieces of what is stored.
LEMMA EnvOpenKeeps ==
  ASSUME EnvInv, NEW t \in EnvTasks, NEW e \in envStored, EnvOpen(t, e)
  PROVE  EnvInv'
  <1>1. UNCHANGED <<envCache, envStored, envAnswers, envBroken, envDeks, envTime>>
    BY DEF EnvOpen
  <1>2. PICK size \in EnvSizes :
          /\ e.data = EnvData(size)
          /\ Len(e.pieces) = Len(EnvPieces(EnvData(size)))
          /\ \A i \in 1 .. Len(e.pieces) : e.pieces[i].text = EnvPieces(EnvData(size))[i]
    BY EnvFields DEF EnvStoredOK
  <1>3. e.pieces \in Seq(EnvPieceRecords) /\ EnvSealed(e.pieces)
    BY EnvFields DEF EnvStoredOK
  <1>4. PICK pieces \in Seq(Seq(Nat)) : pieces = EnvPieces(EnvData(size)) /\ Len(pieces) \in Nat \ {0}
    BY EnvPiecesFit
  <1>5. PICK task : task = [op |-> "open", left |-> e.pieces, dek |-> 0, done |-> << >>, data |-> e.data]
    OBVIOUS
  <1>6. envTask' = [envTask EXCEPT ![t] = task]
    BY <1>5 DEF EnvOpen, EnvCall
  <1>7. task \in EnvTaskRecords /\ task.op = "open"
    BY <1>2, <1>3, <1>5, EnvPiecesFit DEF EnvTaskRecords
  <1>8. EnvTaskOK(task)
    <2>1. EnvSplit(task, pieces)
      <3>1. Len(task.done) = 0 /\ task.left = e.pieces /\ Len(e.pieces) >= 1
        BY <1>2, <1>4, <1>5
      <3>2. \A j \in 1 .. Len(e.pieces) : 0 + j = j
        OBVIOUS
      <3>3. QED
        BY <1>2, <1>4, <3>1, <3>2 DEF EnvSplit
    <2>2. EnvSealed(task.left)
      BY <1>3, <1>5
    <2>3. QED
      BY <1>2, <1>4, <1>5, <1>7, <2>1, <2>2 DEF EnvTaskOK
  <1>9. QED
    BY <1>1, <1>6, <1>7, <1>8, EnvFields, EnvTaskGoes

\* The cache is emptied, or time goes by.
LEMMA EnvAroundKeeps ==
  ASSUME EnvInv, EnvClear \/ EnvTick
  PROVE  EnvInv'
  <1>1. UNCHANGED <<envTask, envStored, envAnswers, envBroken, envDeks>>
    BY DEF EnvClear, EnvTick
  <1>2. envCache' = envCache \/ envCache' = << >>
    BY DEF EnvClear, EnvTick
  <1>3. envTime' \in Nat
    BY DEF EnvClear, EnvTick, EnvInv, EnvTyped
  <1>4. EnvTyped'
    <2>1. envCache' \in Seq([dek : Nat, key : Nat, expires : Nat])
      <3>1. CASE envCache' = envCache
        BY <3>1 DEF EnvInv, EnvTyped
      <3>2. CASE envCache' = << >>
        BY <3>2
      <3>3. QED
        BY <1>2, <3>1, <3>2
    <2>2. QED
      BY <1>1, <1>3, <2>1 DEF EnvInv, EnvTyped
  <1>5. EnvCacheOK' /\ EnvDeksNew'
    <2>1. CASE envCache' = envCache
      BY <1>1, <2>1 DEF EnvInv, EnvCacheOK, EnvDeksNew, EnvNew
    <2>2. CASE envCache' = << >>
      <3>1. Len(envCache') = 0 /\ EnvCapacity >= 0
        BY <2>2, EnvConstants DEF EnvConstants
      <3>2. QED
        BY <1>1, <3>1 DEF EnvInv, EnvCacheOK, EnvDeksNew, EnvNew
    <2>3. QED
      BY <1>2, <2>1, <2>2
  <1>6. QED
    BY <1>1, <1>4, <1>5 DEF EnvInv, EnvTaskOK, EnvStoredOK

\* Every step keeps the pieces in order and sealed, and a fresh DEK nobody else's.
LEMMA EnvInvHolds == EnvSpec => []EnvInv
  <1>1. ASSUME EnvInv, [EnvNext]_envVars PROVE EnvInv'
    <2>1. CASE EnvNext
      <3>1. ASSUME NEW t \in EnvTasks, NEW size \in EnvSizes, EnvBegin(t, size) PROVE EnvInv'
        BY <1>1, <3>1, EnvBeginKeeps
      <3>2. ASSUME NEW t \in EnvTasks, NEW e \in envStored, EnvOpen(t, e) PROVE EnvInv'
        BY <1>1, <3>2, EnvOpenKeeps
      <3>3. ASSUME NEW t \in EnvTasks,
                   \/ EnvFail(t) \/ EnvGenerate(t) \/ EnvTakeLock(t) \/ EnvRemember(t) \/ EnvEncrypt(t)
                   \/ EnvTryCache(t) \/ EnvAskKms(t)
            PROVE  EnvInv'
        BY <1>1, <3>3, EnvFailKeeps, EnvGenerateKeeps, EnvTakeLockKeeps, EnvRememberKeeps, EnvEncryptKeeps,
           EnvTryCacheKeeps, EnvAskKmsKeeps
      <3>4. QED
        BY <1>1, <2>1, <3>1, <3>2, <3>3, EnvAroundKeeps DEF EnvNext
    <2>2. CASE UNCHANGED envVars
      <3>1. UNCHANGED <<envCache, envTask, envStored, envAnswers, envBroken, envDeks, envTime>>
        BY <2>2 DEF envVars
      <3>2. EnvTyped' /\ EnvCacheOK' /\ EnvDeksNew'
        BY <1>1, <3>1 DEF EnvInv, EnvTyped, EnvCacheOK, EnvDeksNew, EnvNew
      <3>3. QED
        BY <1>1, <3>1, <3>2 DEF EnvInv, EnvTaskOK, EnvStoredOK
    <2>3. QED
      BY <1>1, <2>1, <2>2
  <1>2. QED
    BY <1>1, EnvInitInv, PTL DEF EnvSpec

\* What the invariant says of the stored and answered data is that envelopes open.
LEMMA EnvInvOpens ==
  ASSUME EnvInv
  PROVE  EnvelopesOpen
  BY DEF EnvInv, EnvCacheOK, EnvelopesOpen

\* The history of the rotations is exact, in whatever order the schedulers'
\* tasks, stop(), rotate_now and the clock go (rotation.rs), and what envelope
\* encryption stored opens again to the data that was given, whichever DEKs the
\* cache has put out and in (envelope.rs).
THEOREM KeysAreSound == RotSpec /\ EnvSpec => []KeysSound
  <1>1. RotInv /\ EnvInv => KeysSound
    BY RotInvIsExact, EnvInvOpens DEF KeysSound
  <1>2. QED
    BY <1>1, RotInvHolds, EnvInvHolds, PTL

=============================================================================
