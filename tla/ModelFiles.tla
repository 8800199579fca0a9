------------------------------ MODULE ModelFiles -------------------------------
(***************************************************************************)
(* The downloader of model files (hf_downloader.rs): a file is written     *)
(* under a temporary name, renamed, and then compared with the checksum    *)
(* the caller expects, if any.  A file that is there is not fetched again, *)
(* unless a checksum is expected that it does not have.                    *)
(*                                                                         *)
(* Files have their own names, so there is one; a file is a row of pieces, *)
(* each of the edition of the model the server had when the request was    *)
(* made.  What a name stands for and what is written to are told apart,    *)
(* because a file that was renamed may still be open.  A checksum is       *)
(* computed at one moment.                                                 *)
(***************************************************************************)
EXTENDS Naturals, Sequences, FiniteSets, SequencesExt

CONSTANTS
  MdlTasks,     \* downloads that may run at the same time
  MdlPieces,    \* pieces of the file
  MdlEditions,  \* editions the server may send
  MdlMaxFiles,  \* bound: files created
  MdlMaxCalls   \* bound: calls of download_file

ASSUME MdlConstants ==
  MdlPieces \in Nat \ {0} /\ {MdlMaxFiles, MdlMaxCalls} \subseteq Nat /\ 0 \notin MdlEditions

VARIABLES
  mdlData,     \* the pieces of each file that was created, 0 for a hole
  mdlTemp,     \* the file with the temporary name, or 0
  mdlFinal,    \* the file with the final name, or 0
  mdlTask,     \* mdlTask[t]: where the call of t is and what it holds
  mdlCalls,    \* calls so far
  mdlOverlap   \* history: two downloads have been in their writing part at once

mdlVars == <<mdlData, mdlTemp, mdlFinal, mdlTask, mdlCalls, mdlOverlap>>
mdlDisk == <<mdlData, mdlTemp, mdlFinal>>

\* expected: 0 for no checksum, or the edition it belongs to; answer: what the last
\* call found, "none", "path" or "error", and given: the pieces of the file then.
MdlCall(at, expected, answer, given) ==
  [at |-> at, expected |-> expected, edition |-> 0, file |-> 0, written |-> 0,
   answer |-> answer, given |-> given]

MdlIdle == MdlCall("idle", 0, "none", << >>)

MdlInit ==
  /\ mdlData = << >> /\ mdlTemp = 0 /\ mdlFinal = 0
  /\ mdlTask = [t \in MdlTasks |-> MdlIdle]
  /\ mdlCalls = 0 /\ mdlOverlap = FALSE

MdlAt(t, at) == mdlTask[t].at = at
MdlGo(t, task) == mdlTask' = [mdlTask EXCEPT ![t] = task]
MdlWhole(e) == [i \in 1 .. MdlPieces |-> e]

MdlFails(t) == MdlGo(t, [mdlTask[t] EXCEPT !.at = "idle", !.answer = "error"])
MdlReturns(t) ==
  MdlGo(t, [mdlTask[t] EXCEPT !.at = "idle", !.answer = "path",
                              !.given = IF mdlFinal = 0 THEN << >> ELSE mdlData[mdlFinal]])

-----------------------------------------------------------------------------
(* download_file *)

\* A file that is there is taken, or compared with what is expected.
MdlBegin(t, expected) ==
  /\ MdlAt(t, "idle") /\ mdlCalls < MdlMaxCalls
  /\ mdlCalls' = mdlCalls + 1
  /\ IF mdlFinal # 0 /\ (expected = 0 \/ mdlData[mdlFinal] = MdlWhole(expected))
       THEN MdlGo(t, MdlCall("idle", expected, "path", mdlData[mdlFinal]))
       ELSE MdlGo(t, MdlCall("asking", expected, "none", << >>))
  /\ UNCHANGED <<mdlDisk, mdlOverlap>>

\* The server answers with the edition it has, or refuses.
MdlAsk(t) ==
  /\ MdlAt(t, "asking")
  /\ \/ MdlFails(t)
     \/ \E e \in MdlEditions : MdlGo(t, [mdlTask[t] EXCEPT !.at = "asked", !.edition = e])
  /\ UNCHANGED <<mdlDisk, mdlCalls, mdlOverlap>>

\* File::create: the file with the temporary name is emptied, or there is a new one.
MdlCreate(t) ==
  /\ MdlAt(t, "asked")
  /\ IF mdlTemp # 0
       THEN /\ mdlData' = [mdlData EXCEPT ![mdlTemp] = << >>]
            /\ UNCHANGED mdlTemp
       ELSE /\ Len(mdlData) < MdlMaxFiles
            /\ mdlData' = Append(mdlData, << >>)
            /\ mdlTemp' = Len(mdlData) + 1
  /\ MdlGo(t, [mdlTask[t] EXCEPT !.at = "writing", !.file = mdlTemp'])
  /\ mdlOverlap' = (mdlOverlap \/ \E u \in MdlTasks : mdlTask[u].at \in {"writing", "written", "left"})
  /\ UNCHANGED <<mdlFinal, mdlCalls>>

\* A piece goes where the ones before it ended; another download may have emptied
\* the file since.
MdlPut(t) ==
  LET at  == mdlTask[t].written + 1
      old == mdlData[mdlTask[t].file]
      len == IF Len(old) > at THEN Len(old) ELSE at
  IN  mdlData' = [mdlData EXCEPT ![mdlTask[t].file] =
        [i \in 1 .. len |-> IF i = at THEN mdlTask[t].edition ELSE IF i \in DOMAIN old THEN old[i] ELSE 0]]

MdlWrite(t) ==
  /\ MdlAt(t, "writing") /\ mdlTask[t].written < MdlPieces
  /\ MdlPut(t)
  /\ MdlGo(t, [mdlTask[t] EXCEPT !.written = @ + 1,
                                 !.at = IF mdlTask[t].written + 1 < MdlPieces THEN @ ELSE "written"])
  /\ UNCHANGED <<mdlTemp, mdlFinal, mdlCalls, mdlOverlap>>

\* Mistake: a body that ends early is taken for the whole.
MdlBreakUnseen(t) ==
  /\ MdlAt(t, "writing")
  /\ MdlGo(t, [mdlTask[t] EXCEPT !.at = "written"])
  /\ UNCHANGED <<mdlDisk, mdlCalls, mdlOverlap>>

\* The body breaks off, or a write fails: what was written stays.
MdlBreak(t) ==
  /\ MdlAt(t, "writing")
  /\ MdlFails(t)
  /\ UNCHANGED <<mdlDisk, mdlCalls, mdlOverlap>>

\* The file gets its final name, if the temporary one is still there.
MdlRename(t) ==
  /\ MdlAt(t, "written")
  /\ IF mdlTemp = 0
       THEN MdlFails(t) /\ UNCHANGED <<mdlTemp, mdlFinal>>
       ELSE /\ mdlFinal' = mdlTemp /\ mdlTemp' = 0
            /\ MdlGo(t, [mdlTask[t] EXCEPT !.at = "renamed"])
  /\ UNCHANGED <<mdlData, mdlCalls, mdlOverlap>>

\* Mistake: a file that is not the expected one is answered all the same.
MdlCheckNothing(t) ==
  /\ MdlAt(t, "renamed")
  /\ MdlReturns(t)
  /\ UNCHANGED <<mdlDisk, mdlCalls, mdlOverlap>>

\* A file that is not the expected one is removed.
MdlCheck(t) ==
  LET right == mdlTask[t].expected = 0
                 \/ (mdlFinal # 0 /\ mdlData[mdlFinal] = MdlWhole(mdlTask[t].expected))
  IN  /\ MdlAt(t, "renamed")
      /\ IF right THEN MdlReturns(t) ELSE MdlGo(t, [mdlTask[t] EXCEPT !.at = "wrong"])
      /\ UNCHANGED <<mdlDisk, mdlCalls, mdlOverlap>>

MdlRemove(t) ==
  /\ MdlAt(t, "wrong")
  /\ mdlFinal' = 0
  /\ MdlFails(t)
  /\ UNCHANGED <<mdlData, mdlTemp, mdlCalls, mdlOverlap>>

-----------------------------------------------------------------------------

\* The caller drops the call; a write that is under way is still made.
MdlDropped(t) ==
  /\ mdlTask[t].at \notin {"idle", "left"}
  /\ MdlGo(t, [mdlTask[t] EXCEPT !.at = IF MdlAt(t, "writing") /\ mdlTask[t].written < MdlPieces THEN "left" ELSE "idle",
                                 !.answer = "none"])
  /\ UNCHANGED <<mdlDisk, mdlCalls, mdlOverlap>>

MdlLateWrite(t) ==
  /\ MdlAt(t, "left")
  /\ \/ MdlPut(t)
     \/ UNCHANGED mdlData
  /\ MdlGo(t, [mdlTask[t] EXCEPT !.at = "idle"])
  /\ UNCHANGED <<mdlTemp, mdlFinal, mdlCalls, mdlOverlap>>

MdlCrash ==
  /\ \E t \in MdlTasks : ~MdlAt(t, "idle")
  /\ mdlTask' = [t \in MdlTasks |-> [mdlTask[t] EXCEPT !.at = "idle",
                                     !.answer = IF MdlAt(t, "idle") THEN @ ELSE "none"]]
  /\ UNCHANGED <<mdlDisk, mdlCalls, mdlOverlap>>

MdlNext ==
  \/ \E t \in MdlTasks :
       \/ \E e \in MdlEditions \cup {0} : MdlBegin(t, e)
       \/ MdlAsk(t) \/ MdlCreate(t) \/ MdlWrite(t) \/ MdlBreak(t) \/ MdlRename(t)
       \/ MdlCheck(t) \/ MdlRemove(t) \/ MdlDropped(t) \/ MdlLateWrite(t)
  \/ MdlCrash

MdlSpec == MdlInit /\ [][MdlNext]_mdlVars

-----------------------------------------------------------------------------
(* Properties *)

\* As long as no two downloads write the file at once: under the final name there
\* is a whole file of one edition or nothing, at every moment, whatever broke off,
\* was dropped or crashed before.
FinalIsWhole ==
  ~mdlOverlap /\ mdlFinal # 0 => \E e \in MdlEditions : mdlData[mdlFinal] = MdlWhole(e)

\* A call that expected a checksum and got a path has seen the file it belongs to,
\* even if other downloads of it overlapped.
CheckedIsRight ==
  \A t \in MdlTasks :
    mdlTask[t].answer = "path" /\ mdlTask[t].expected # 0 => mdlTask[t].given = MdlWhole(mdlTask[t].expected)

ModelFilesSound == FinalIsWhole /\ CheckedIsRight
=============================================================================
