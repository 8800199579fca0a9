------------------------------- MODULE AuditLog -------------------------------
(***************************************************************************)
(* TamperProofAuditLog of knowledge-core over its FileAuditWriter          *)
(* (audit/tamper_proof.rs): log_event reads the last entry, links the new  *)
(* one to its hash and appends a line to the file, in separate awaits.     *)
(*                                                                         *)
(* The file is what was written to it: the JSON of an entry, the newline   *)
(* written after it by a second call, or the torn part of an entry.  The   *)
(* hash of an entry is its id, which is what a hash without collisions is. *)
(***************************************************************************)
EXTENDS Naturals, Sequences, FiniteSets

CONSTANTS
  Loggers,      \* tasks calling log_event
  Details,      \* sizes of action.details: subset of {"one", "many"}
  Window,       \* how far back read_last looks (365 days)
  NoHash,       \* previous_hash of an entry that follows none
  Newline, Torn,
  MaxEntries,   \* bound: calls of log_event
  MaxTime,      \* bound: clock
  MaxAborts     \* bound: calls that fail or whose task dies

ASSUME AuditConstants ==
  /\ Details \subseteq {"one", "many"}
  /\ Window \in Nat /\ MaxEntries \in Nat /\ MaxTime \in Nat /\ MaxAborts \in Nat
  /\ NoHash \notin Nat

VARIABLES
  file,     \* the log file
  now,      \* the clock
  started,  \* calls of log_event so far; the next entry's id is started + 1
  pc,       \* pc[l]: "idle", "read", "append" or "newline"
  entry,    \* entry[l]: the entry l is building
  acked,    \* history: ids of the entries log_event returned
  aborts,   \* history: calls that did not return one
  trouble,  \* history: which of Troubles the log has met
  report    \* verify_integrity's last answer: "none", "valid" or "invalid"

vars == <<file, now, started, pc, entry, acked, aborts, trouble, report>>

\* Two calls at a time; a pause longer than the window; an entry whose details
\* come back in another order.
Troubles == {"overlap", "pause", "order"}

AuditEntries == [id : 1 .. MaxEntries, time : 0 .. MaxTime, details : Details,
                 prev : 1 .. MaxEntries \cup {NoHash}]

ASSUME AuditMarks == {Newline, Torn} \cap AuditEntries = {}

IsEntry(x) == x \notin {Newline, Torn}

Blank == [id |-> 0, time |-> 0, details |-> "one", prev |-> NoHash]

Init ==
  /\ file    = << >>
  /\ now     = 0
  /\ started = 0
  /\ pc      = [l \in Loggers |-> "idle"]
  /\ entry   = [l \in Loggers |-> Blank]
  /\ acked   = {}
  /\ aborts  = 0
  /\ trouble = {}
  /\ report  = "none"

-----------------------------------------------------------------------------
(* Reading the file *)

\* read_all_lines and from_str: the positions of the entries alone on a line.
\* Any other line does not parse and is skipped in silence.
Readable ==
  {i \in DOMAIN file :
     /\ IsEntry(file[i])
     /\ i > 1 => file[i - 1] = Newline
     /\ i < Len(file) => file[i + 1] = Newline}

\* sort_by_key(timestamp), which is stable.
Before(i, j) == file[i].time < file[j].time \/ (file[i].time = file[j].time /\ i < j)

\* read_last reads what is not older than the window.
Recent == {i \in Readable : file[i].time + Window >= now}

IsLast(i, S) == i \in S /\ \A j \in S : j = i \/ Before(j, i)

Latest(S) == file[CHOOSE i \in S : IsLast(i, S)].id

\* Mistakes: the first entry's hash; the one of the last call, kept in memory.
FirstOfRecent ==
  IF Recent = {} THEN NoHash
  ELSE file[CHOOSE i \in Recent : \A j \in Recent : j = i \/ Before(i, j)].id
Remembered == IF started = 1 THEN NoHash ELSE started - 1

\* The hash log_event links to: the last entry's, if there is one.
Previous == IF Recent = {} THEN NoHash ELSE Latest(Recent)

\* windows(2) of the sorted entries: j comes right after i among those at S.
Follows(i, j, S) == Before(i, j) /\ \A m \in S : ~(Before(i, m) /\ Before(m, j))

\* Mistake: it is enough that the linked entry is somewhere in the file.
LinksExist(S) ==
  \A i, j \in S : Follows(i, j, S) => \E m \in Readable : file[m].id = file[j].prev

\* ChainValidator::verify_chain on the entries at S.
ChainOk(S) == \A i, j \in S : Follows(i, j, S) => file[j].prev = file[i].id

-----------------------------------------------------------------------------
(* log_event *)

Stamp(l, d) ==
  /\ pc[l] = "idle"
  /\ started < MaxEntries
  /\ started' = started + 1
  /\ entry'   = [entry EXCEPT ![l] = [id |-> started + 1, time |-> now, details |-> d, prev |-> NoHash]]
  /\ pc'      = [pc EXCEPT ![l] = "read"]
  /\ trouble' = trouble \cup (IF \E m \in Loggers : pc[m] # "idle" THEN {"overlap"} ELSE {})
                         \cup (IF d = "many" THEN {"order"} ELSE {})
  /\ UNCHANGED <<file, now, acked, aborts, report>>

ReadLast(l) ==
  /\ pc[l] = "read"
  /\ entry' = [entry EXCEPT ![l].prev = Previous]
  /\ pc'    = [pc EXCEPT ![l] = "append"]
  /\ trouble' = trouble \cup (IF Recent = {} /\ Readable # {} THEN {"pause"} ELSE {})
  /\ UNCHANGED <<file, now, started, acked, aborts, report>>

\* Mistake: the file is truncated when it is opened.
Truncated(e) == <<e>>

\* O_APPEND: what is written goes behind what is there.
Written(e) == Append(file, e)

WriteEntry(l) ==
  /\ pc[l] = "append"
  /\ file' = Written(entry[l])
  /\ pc'   = [pc EXCEPT ![l] = "newline"]
  /\ UNCHANGED <<now, started, entry, acked, aborts, trouble, report>>

WriteNewline(l) ==
  /\ pc[l] = "newline"
  /\ file'  = Append(file, Newline)
  /\ acked' = acked \cup {entry[l].id}
  /\ pc'    = [pc EXCEPT ![l] = "idle"]
  /\ UNCHANGED <<now, started, entry, aborts, trouble, report>>

\* An I/O error, a dropped future or a crash ends the call.  A write in progress
\* may leave a part of the entry behind, or come through all the same.
Abort(l) ==
  /\ pc[l] # "idle"
  /\ aborts < MaxAborts
  /\ aborts' = aborts + 1
  /\ pc'     = [pc EXCEPT ![l] = "idle"]
  /\ \/ UNCHANGED file
     \/ pc[l] = "append" /\ file' = Append(file, Torn)
     \/ pc[l] = "newline" /\ file' = Append(file, Newline)
  /\ UNCHANGED <<now, started, entry, acked, trouble, report>>

\* compute_hash serializes action.details, a HashMap: read back into another map,
\* several details may come in another order, and the recomputed hash differs.
HashMayDiffer == \E i \in Readable : file[i].details = "many"

\* verify_integrity.
Verify ==
  /\ \/ report' = IF ChainOk(Readable) THEN "valid" ELSE "invalid"
     \/ HashMayDiffer /\ report' = "invalid"
  /\ UNCHANGED <<file, now, started, pc, entry, acked, aborts, trouble>>

Tick ==
  /\ now < MaxTime
  /\ now' = now + 1
  /\ UNCHANGED <<file, started, pc, entry, acked, aborts, trouble, report>>

Next ==
  \/ \E l \in Loggers :
       \/ \E d \in Details : Stamp(l, d)
       \/ ReadLast(l) \/ WriteEntry(l) \/ WriteNewline(l) \/ Abort(l)
  \/ Verify
  \/ Tick

Spec == Init /\ [][Next]_vars
-----------------------------------------------------------------------------
(* Properties *)

TypeOK ==
  /\ file \in Seq(AuditEntries \cup {Newline, Torn})
  /\ now \in 0 .. MaxTime
  /\ started \in 0 .. MaxEntries
  /\ pc \in [Loggers -> {"idle", "read", "append", "newline"}]
  /\ entry \in [Loggers -> AuditEntries \cup {Blank}]
  /\ acked \subseteq 1 .. started
  /\ aborts \in 0 .. MaxAborts
  /\ trouble \subseteq Troubles
  /\ report \in {"none", "valid", "invalid"}

\* A log nobody tampered with passes verify_integrity, whatever calls broke off
\* and whatever they left in the file, unless it met one of Troubles.
UndisturbedLogVerifies == trouble = {} => report # "invalid"

\* The hash an entry links to is that of an entry written before it, whatever
\* fails and whoever else writes: links neither dangle nor point forward.
LinksPointBack ==
  \A i \in DOMAIN file : IsEntry(file[i]) /\ file[i].prev # NoHash =>
    \E j \in 1 .. i - 1 : IsEntry(file[j]) /\ file[j].id = file[i].prev

\* The chain is sound: the links point back, and an entry gone from between two
\* others breaks it.
ChainSound ==
  /\ TypeOK /\ LinksPointBack
  /\ ChainOk(Readable) =>
       \A m \in Readable :
         (\E i, j \in Readable : Before(i, m) /\ Before(m, j)) => ~ChainOk(Readable \ {m})

\* An entry whose logging succeeded is read from then on, as long as no two calls
\* overlapped and none broke off.
AcknowledgedStay ==
  aborts = 0 /\ "overlap" \notin trouble =>
    \A id \in acked : \E i \in Readable : file[i].id = id

-----------------------------------------------------------------------------
(* What the comment in log_event claims for read_last and the code does not keep. *)

\* A log nobody tampered with passes verify_integrity.
HonestLogVerifies == report # "invalid"
=============================================================================
