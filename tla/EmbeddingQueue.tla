--------------------------- MODULE EmbeddingQueue ---------------------------
(***************************************************************************)
(* The embedding service of knowledge-api (embedding_service.rs): callers  *)
(* put texts on a bounded channel, one worker gathers them into batches,   *)
(* runs the model on a batch when it is full or after a pause, and answers *)
(* each text on a channel of its own; and the pool (embedding_worker.rs),  *)
(* whose workers take texts in turn and call the service one at a time.    *)
(*                                                                         *)
(* A vector is the text it was computed from.  The model fails (no key, no *)
(* weights, an inference error) a bounded number of times.  A call borrows *)
(* the service, so the service can only be dropped when nobody waits, and  *)
(* what the worker does then is not modelled; nor are the pool's channels  *)
(* when they are full (64 texts each).                                     *)
(***************************************************************************)
EXTENDS Naturals, Sequences, SequencesExt, FiniteSets

CONSTANTS
  EmbCallers,
  EmbWorkers,     \* workers of the pool
  EmbLists,       \* lists of texts asked for together; "" is an empty text
  EmbTexts,       \* texts given to the pool
  EmbCapacity,    \* channel_capacity
  EmbBatch,       \* batch_size
  EmbMaxTexts,    \* bound: texts submitted
  EmbMaxFailures  \* bound: failures of the model

EmbPool   == 1 .. EmbWorkers
EmbOwners == EmbCallers \cup EmbPool

ASSUME EmbConstants ==
  /\ {EmbWorkers, EmbCapacity, EmbBatch} \subseteq Nat \ {0}
  /\ {EmbMaxTexts, EmbMaxFailures} \subseteq Nat
  /\ EmbCallers \cap EmbPool = {}
  /\ EmbLists \subseteq Seq(STRING) /\ EmbTexts \subseteq STRING

VARIABLES
  embCall,     \* embCall[o]: o's texts [n, text, at, vector], << >> between calls;
               \*   o is a caller or a worker of the pool
  embTxs,     \* embTxs[w]: the channel of the pool's worker w
  embTurn,     \* next_worker
  embQueue,    \* the service's channel: texts sent, and those waiting for room
  embPending,  \* pending_tasks
  embRunning,  \* process_batch is under way
  embIssued,   \* texts submitted, which numbers them
  embFailures  \* failures so far

embVars == <<embCall, embTxs, embTurn, embQueue, embPending, embRunning, embIssued, embFailures>>

EmbInit ==
  /\ embCall = [o \in EmbOwners |-> << >>]
  /\ embTxs = [w \in EmbPool |-> << >>] /\ embTurn = 0
  /\ embQueue = << >> /\ embPending = << >> /\ embRunning = FALSE
  /\ embIssued = 0 /\ embFailures = 0

\* An empty text is replaced by the name of its block.
EmbText(block, text) == IF text = "" THEN block ELSE text

EmbSlot(n, text, at) == [n |-> n, text |-> text, at |-> at, vector |-> "none"]
EmbTask(slot)        == [n |-> slot.n, text |-> slot.text]

\* Tasks in the channel; the others wait for room.
EmbSent ==
  {k \in DOMAIN embQueue : ~\E o \in EmbOwners : \E i \in DOMAIN embCall[o] :
                              embCall[o][i].n = embQueue[k].n /\ embCall[o][i].at = "send"}

\* Answers [number -> vector] reach the slots that still wait "at".
EmbDelivered(calls, answers, at) ==
  [o \in EmbOwners |-> [i \in DOMAIN calls[o] |->
     LET s == calls[o][i] IN
     IF s.at = at /\ s.n \in DOMAIN answers THEN [s EXCEPT !.at = "done", !.vector = answers[s.n]] ELSE s]]

-----------------------------------------------------------------------------
(* Callers *)

\* embed_block, or embed_batch, which awaits its blocks together.
EmbAsk(c, texts) ==
  /\ embCall[c] = << >> /\ embIssued + Len(texts) <= EmbMaxTexts
  /\ LET slots == [i \in DOMAIN texts |-> EmbSlot(embIssued + i, EmbText("block", texts[i]), "send")]
     IN  /\ embCall' = [embCall EXCEPT ![c] = slots]
         /\ embQueue' = embQueue \o [i \in DOMAIN slots |-> EmbTask(slots[i])]
  /\ embIssued' = embIssued + Len(texts)
  /\ UNCHANGED <<embTxs, embTurn, embPending, embRunning, embFailures>>

\* There is room in the channel.
EmbSend(o) ==
  /\ \E i \in DOMAIN embCall[o] :
       /\ embCall[o][i].at = "send"
       /\ \E k \in DOMAIN embQueue : k <= EmbCapacity /\ embQueue[k].n = embCall[o][i].n
       /\ embCall' = [embCall EXCEPT ![o][i].at = "wait"]
  /\ UNCHANGED <<embTxs, embTurn, embQueue, embPending, embRunning, embIssued, embFailures>>

\* The pool's embed: the workers take turns.
EmbSubmit(c, text) ==
  /\ embCall[c] = << >> /\ embIssued < EmbMaxTexts
  /\ LET slot == EmbSlot(embIssued + 1, EmbText("worker_block", text), "pool")
         w    == (embTurn % EmbWorkers) + 1
     IN  /\ embCall' = [embCall EXCEPT ![c] = <<slot>>]
         /\ embTxs' = [embTxs EXCEPT ![w] = Append(@, EmbTask(slot))]
  /\ embTurn' = embTurn + 1 /\ embIssued' = embIssued + 1
  /\ UNCHANGED <<embQueue, embPending, embRunning, embFailures>>

\* A worker of the pool calls the service with its next text.
EmbTakes(w) ==
  /\ embCall[w] = << >> /\ embTxs[w] # << >>
  /\ LET t == Head(embTxs[w]) IN
     /\ embCall' = [embCall EXCEPT ![w] = <<EmbSlot(t.n, t.text, "send")>>]
     /\ embQueue' = Append(embQueue, t)
  /\ embTxs' = [embTxs EXCEPT ![w] = Tail(@)]
  /\ UNCHANGED <<embTurn, embPending, embRunning, embIssued, embFailures>>

\* A call has all its vectors; the pool's worker hands its own on.
EmbReturn(o) ==
  /\ embCall[o] # << >> /\ \A i \in DOMAIN embCall[o] : embCall[o][i].at = "done"
  /\ embCall' = LET rest == [embCall EXCEPT ![o] = << >>] IN
                IF o \notin EmbPool THEN rest
                ELSE EmbDelivered(rest, [n \in {embCall[o][1].n} |-> embCall[o][1].vector], "pool")
  /\ UNCHANGED <<embTxs, embTurn, embQueue, embPending, embRunning, embIssued, embFailures>>

\* A caller drops its call: what waited for room goes, what was sent stays.
EmbGiveUp(c) ==
  /\ embCall[c] # << >>
  /\ embCall' = [embCall EXCEPT ![c] = << >>]
  /\ LET gone == {s.n : s \in {x \in ToSet(embCall[c]) : x.at = "send"}}
     IN  embQueue' = FlattenSeq([k \in DOMAIN embQueue |->
                       IF embQueue[k].n \in gone THEN << >> ELSE <<embQueue[k]>>])
  /\ UNCHANGED <<embTxs, embTurn, embPending, embRunning, embIssued, embFailures>>

-----------------------------------------------------------------------------
(* The worker of the service *)

\* It receives a text; a full batch is run.
EmbReceive ==
  /\ ~embRunning
  /\ \E k \in EmbSent :
       /\ \A j \in EmbSent : k <= j
       /\ embQueue' = RemoveAt(embQueue, k)
       /\ embPending' = Append(embPending, embQueue[k])
  /\ embRunning' = (Len(embPending') >= EmbBatch)
  /\ UNCHANGED <<embCall, embTxs, embTurn, embIssued, embFailures>>

\* Mistake: only a full batch is run.
EmbDueFull == Len(embPending) >= EmbBatch

\* After 100 ms without a text, what is there is due.
EmbDue == embPending # << >>

EmbTick ==
  /\ ~embRunning /\ EmbDue
  /\ embRunning' = TRUE
  /\ UNCHANGED <<embCall, embTxs, embTurn, embQueue, embPending, embIssued, embFailures>>

\* The model answers, a vector for each text.
EmbCompute ==
  /\ embRunning
  /\ embCall' = EmbDelivered(embCall, [n \in {t.n : t \in ToSet(embPending)} |->
                  (CHOOSE t \in ToSet(embPending) : t.n = n).text], "wait")
  /\ embPending' = << >> /\ embRunning' = FALSE
  /\ UNCHANGED <<embTxs, embTurn, embQueue, embIssued, embFailures>>

\* Mistake: the tasks are drained before the model is called.
EmbFailDrained ==
  /\ embRunning /\ embFailures < EmbMaxFailures
  /\ embRunning' = FALSE /\ embFailures' = embFailures + 1
  /\ embPending' = << >>
  /\ UNCHANGED <<embCall, embTxs, embTurn, embQueue, embIssued>>

\* It fails: the texts stay and are tried again with the next batch.
EmbFail ==
  /\ embRunning /\ embFailures < EmbMaxFailures
  /\ embRunning' = FALSE /\ embFailures' = embFailures + 1
  /\ UNCHANGED <<embCall, embTxs, embTurn, embQueue, embPending, embIssued>>

EmbWork == EmbReceive \/ EmbTick \/ EmbCompute \/ EmbFail

EmbNext ==
  \/ \E c \in EmbCallers : \/ \E texts \in EmbLists : EmbAsk(c, texts)
                           \/ \E t \in EmbTexts : EmbSubmit(c, t)
                           \/ EmbGiveUp(c)
  \/ \E w \in EmbPool : EmbTakes(w)
  \/ \E o \in EmbOwners : EmbSend(o) \/ EmbReturn(o)
  \/ EmbWork

\* tokio polls the tasks it was given and a call that can go on.
EmbFairness ==
  /\ WF_embVars(EmbWork)
  /\ \A c \in EmbCallers : WF_embVars(EmbSend(c) \/ EmbReturn(c))
  /\ \A w \in EmbPool : WF_embVars(EmbTakes(w) \/ EmbSend(w) \/ EmbReturn(w))

EmbSpec == EmbInit /\ [][EmbNext]_embVars /\ EmbFairness

-----------------------------------------------------------------------------
(* Properties *)

EmbSlots(at) == UNION {{s \in ToSet(embCall[o]) : s.at = at} : o \in EmbOwners}
EmbNumbers(tasks) == {t.n : t \in ToSet(tasks)}

\* Whoever fails, drops out or shares a batch: a text gets its own vector, no
\* text is forgotten while someone waits for it, the channel holds no more than
\* its capacity, and a batch outgrows its size only by the failures before it.
EmbeddingsSound ==
  /\ \A s \in EmbSlots("done") : s.vector = s.text
  /\ \A s \in EmbSlots("wait") : s.n \in EmbNumbers(embQueue) \cup EmbNumbers(embPending)
  /\ \A s \in EmbSlots("pool") :
       \/ \E w \in EmbPool : s.n \in EmbNumbers(embTxs[w])
       \/ \E w \in EmbPool : \E x \in ToSet(embCall[w]) : x.n = s.n
  /\ Cardinality(EmbSent) <= EmbCapacity
  /\ Len(embPending) <= EmbBatch + embFailures

\* A call that is not dropped returns, if the model fails finitely often.
EmbCallsReturn == \A c \in EmbCallers : []<>(embCall[c] = << >>)
=============================================================================
