----------------------------- MODULE DeliveryProofs ----------------------------
(* Proofs about who gets what: the event bus (EventBus) with any handlers    *)
(* and publishers, the WebSocket hub (WsHub) with any connections and rooms, *)
(* whatever the capacities of their queues, the tables of the extraction     *)
(* (Extraction) with any blocks, answers of the model and duplicates, and    *)
(* the answers of the retrieval (Retrieval) with any documents and limits.   *)
EXTENDS CommonProofs, EventBus, WsHub, Retrieval, FiniteSetTheorems, WellFoundedInduction, TLAPS

(***************************************************************************)
(* The event bus                                                           *)
(***************************************************************************)

\* Lists over a set are lists over a larger one.
LEMMA WiderSeq ==
  ASSUME NEW S, NEW T, S \subseteq T
  PROVE  Seq(S) \subseteq Seq(T)
  OBVIOUS

\* The first position the task of h has not dealt with.
Reached(h) == IF task[h] = "handle" THEN pos[h] - 1 ELSE pos[h]

\* What lies before it is in one of three places, once.
HandlerInv(h) ==
  /\ task[h] = "none" => handled[h] = << >> /\ failed[h] = {} /\ lagged[h] = {}
  /\ task[h] = "handle" => pos[h] > 1 /\ pos[h] - 1 >= from[h]
  /\ from[h] <= pos[h]
  /\ \A k \in ToSet(handled[h]) \cup failed[h] \cup lagged[h] : k < Reached(h)
  /\ \A k \in from[h] .. Reached(h) - 1 : sent[k] \in Accepts[h] => k \in ToSet(handled[h]) \cup failed[h] \cup lagged[h]
  /\ ToSet(handled[h]) \cap (failed[h] \cup lagged[h]) = {} /\ failed[h] \cap lagged[h] = {}
  /\ \A i, j \in DOMAIN handled[h] : i < j => handled[h][i] < handled[h][j]

BusInv == BusTypeOK /\ \A h \in Handlers : HandlerInv(h)

\* Positions only grow in number.
LEMMA PositionsGrow ==
  ASSUME BusTypeOK, sent' \in Seq(Types), Len(sent) <= Len(sent')
  PROVE  /\ from \in [Handlers -> 1 .. Len(sent') + 1]
         /\ pos \in [Handlers -> 1 .. Len(sent') + 1]
         /\ handled \in [Handlers -> Seq(1 .. Len(sent'))]
         /\ failed \in [Handlers -> SUBSET (1 .. Len(sent'))]
         /\ lagged \in [Handlers -> SUBSET (1 .. Len(sent'))]
  <1>1. Len(sent) \in Nat /\ Len(sent') \in Nat
    BY DEF BusTypeOK
  <1>2. 1 .. Len(sent) \subseteq 1 .. Len(sent') /\ 1 .. Len(sent) + 1 \subseteq 1 .. Len(sent') + 1
    BY <1>1
  <1>3. Seq(1 .. Len(sent)) \subseteq Seq(1 .. Len(sent'))
    BY <1>2, WiderSeq
  <1>4. QED
    BY <1>2, <1>3 DEF BusTypeOK

\* A call of publish leaves the handlers alone; a step of a handler leaves sent alone.
PublishersTyped ==
  /\ busCall \in [Publishers -> {"idle", "send", "count", "sleep"}]
  /\ busAttempt \in [Publishers -> 0 .. RetryMax]
  /\ busEvent \in [Publishers -> Types]
  /\ busAnswer \in [Publishers -> {"none", "ok", "no_subscribers", "shutdown"}]
  /\ published \in 0 .. MaxPublishes

\* What the publishers do: at most one more event in the channel.
LEMMA CallKeepsTypes ==
  ASSUME BusTypeOK, NEW p \in Publishers, RunCall(p) \/ \E t \in Types : Publish(p, t)
  PROVE  BusTypeOK' /\ UNCHANGED receiving /\ (sent' = sent \/ \E t \in Types : sent' = Append(sent, t))
  <1>1. UNCHANGED receiving /\ open' = open /\ held' = held /\ running' = running
    BY DEF RunCall, Send, Count, Retry, Publish
  <1>2. sent' = sent \/ \E t \in Types : sent' = Append(sent, t)
    BY DEF RunCall, Send, Count, Retry, Publish, BusTypeOK
  <1>3. sent' \in Seq(Types) /\ Len(sent) <= Len(sent')
    <2>1. sent \in Seq(Types) /\ Len(sent) \in Nat
      BY DEF BusTypeOK
    <2>2. CASE sent' = sent
      BY <2>1, <2>2
    <2>3. ASSUME NEW t \in Types, sent' = Append(sent, t)
          PROVE  sent' \in Seq(Types) /\ Len(sent) <= Len(sent')
      BY <2>1, <2>3
    <2>4. QED
      BY <1>2, <2>2, <2>3
  <1>4. PublishersTyped'
    <2>0. PublishersTyped
      BY DEF BusTypeOK, PublishersTyped
    <2>1. CASE Send(p)
      BY <2>0, <2>1 DEF Send, Published, PublishersTyped
    <2>2. CASE Count(p)
      BY <2>0, <2>2 DEF Count, Published, PublishersTyped
    <2>3. CASE Retry(p)
      BY <2>0, <2>3, BusConstants DEF Retry, PublishersTyped
    <2>4. ASSUME NEW t \in Types, Publish(p, t)
          PROVE  PublishersTyped'
      BY <2>0, <2>4, BusConstants DEF Publish, PublishersTyped
    <2>5. QED
      BY <2>1, <2>2, <2>3, <2>4 DEF RunCall
  <1>5. QED
    BY <1>1, <1>2, <1>3, <1>4, PositionsGrow DEF BusTypeOK, PublishersTyped, receiving

\* What handler h keeps of its own.
Same(h) ==
  /\ task'[h] = task[h] /\ from'[h] = from[h] /\ pos'[h] = pos[h]
  /\ handled'[h] = handled[h] /\ failed'[h] = failed[h] /\ lagged'[h] = lagged[h]

\* A handler that does nothing keeps its accounts, whatever is sent.
LEMMA SameKeeps ==
  ASSUME BusInv, NEW h \in Handlers, Same(h), sent' = sent \/ \E t \in Types : sent' = Append(sent, t)
  PROVE  HandlerInv(h)'
  <1>1. HandlerInv(h) /\ BusTypeOK
    BY DEF BusInv
  <1>2. Reached(h)' = Reached(h) /\ Reached(h) \in Int /\ Reached(h) - 1 <= Len(sent) /\ from[h] \in Nat /\ from[h] >= 1
    BY <1>1 DEF Same, Reached, BusTypeOK
  <1>3. Len(sent) \in Nat
    BY <1>1 DEF BusTypeOK
  <1>4. \A k \in 1 .. Len(sent) : sent'[k] = sent[k]
    <2>1. sent \in Seq(Types)
      BY <1>1 DEF BusTypeOK
    <2>2. ASSUME NEW t \in Types, sent' = Append(sent, t)
          PROVE  \A k \in 1 .. Len(sent) : sent'[k] = sent[k]
      BY <1>3, <2>1, <2>2
    <2>3. QED
      BY <2>2
  <1>5. \A k \in from[h] .. Reached(h) - 1 : sent'[k] = sent[k]
    BY <1>2, <1>3, <1>4
  <1>6. QED
    BY <1>1, <1>2, <1>5 DEF Same, HandlerInv

\* A handler deals with the event it holds.
LEMMA HandleTyped ==
  ASSUME BusInv, NEW h \in Handlers, Handle(h)
  PROVE  BusTypeOK' /\ HandlerInv(h)' /\ \A g \in Handlers \ {h} : Same(g)
  <1>0. BusTypeOK /\ HandlerInv(h) /\ task[h] = "handle" /\ sent' = sent
    BY DEF BusInv, Handle
  <1>1. PICK k : k = pos[h] - 1
    OBVIOUS
  <1>2. k \in 1 .. Len(sent) /\ k = Reached(h) /\ k >= from[h] /\ from[h] \in Nat /\ Len(sent) \in Nat
    BY <1>0, <1>1 DEF HandlerInv, Reached, BusTypeOK
  <1>3. /\ task' = [task EXCEPT ![h] = "loop"] /\ from' = from /\ pos' = pos /\ lagged' = lagged
        /\ \/ handled' = [handled EXCEPT ![h] = Append(@, k)] /\ failed' = failed
           \/ failed' = [failed EXCEPT ![h] = @ \cup {k}] /\ handled' = handled
    BY <1>1 DEF Handle
  <1>4. PICK s \in Seq(1 .. Len(sent)) : s = handled[h]
    BY <1>0 DEF BusTypeOK
  <1>5. /\ Append(s, k) \in Seq(1 .. Len(sent)) /\ Len(s) \in Nat /\ DOMAIN s = 1 .. Len(s)
        /\ DOMAIN Append(s, k) = 1 .. Len(s) + 1
        /\ \A i \in DOMAIN s : Append(s, k)[i] = s[i] /\ s[i] \in 1 .. Len(sent)
        /\ Append(s, k)[Len(s) + 1] = k
    BY <1>2
  <1>6. ToSet(Append(s, k)) = ToSet(s) \cup {k}
    BY <1>5 DEF ToSet
  <1>7. /\ \A x \in ToSet(s) \cup failed[h] \cup lagged[h] : x < k /\ x \in Int
        /\ Reached(h)' = k + 1
    <2>1. pos[h] \in Nat
      BY <1>0 DEF BusTypeOK
    <2>2. Reached(h)' = pos[h]
      BY <1>0, <1>3 DEF Reached, BusTypeOK
    <2>3. \A x \in ToSet(s) : x \in Int
      BY <1>5 DEF ToSet
    <2>4. \A x \in failed[h] \cup lagged[h] : x \in Int
      BY <1>0 DEF BusTypeOK
    <2>5. QED
      BY <1>0, <1>1, <1>2, <1>4, <2>1, <2>2, <2>3, <2>4 DEF HandlerInv
  <1>8. BusTypeOK'
    <2>1. handled' \in [Handlers -> Seq(1 .. Len(sent))]
      BY <1>0, <1>3, <1>4, <1>5 DEF BusTypeOK
    <2>2. failed' \in [Handlers -> SUBSET (1 .. Len(sent))]
      <3>1. failed \in [Handlers -> SUBSET (1 .. Len(sent))]
        BY <1>0 DEF BusTypeOK
      <3>2. failed[h] \cup {k} \in SUBSET (1 .. Len(sent))
        BY <1>2, <3>1
      <3>3. failed' = failed \/ failed' = [failed EXCEPT ![h] = failed[h] \cup {k}]
        BY <1>3
      <3>4. QED
        BY <3>1, <3>2, <3>3
    <2>3. UNCHANGED <<open, held, running, busCall, busAttempt, busEvent, busAnswer, published>>
      BY DEF Handle, publishing
    <2>4. QED
      BY <1>0, <1>3, <2>1, <2>2, <2>3 DEF BusTypeOK, Tasks
  <1>9. HandlerInv(h)'
    <2>1. task'[h] = "loop" /\ from'[h] = from[h] /\ lagged'[h] = lagged[h]
      BY <1>0, <1>3 DEF BusTypeOK
    <2>2. /\ \/ handled'[h] = Append(s, k) /\ failed'[h] = failed[h]
             \/ handled'[h] = s /\ failed'[h] = failed[h] \cup {k}
      BY <1>0, <1>3, <1>4 DEF BusTypeOK
    <2>3. ToSet(handled'[h]) \cup failed'[h] \cup lagged'[h] = ToSet(s) \cup failed[h] \cup lagged[h] \cup {k}
      BY <1>6, <2>1, <2>2
    <2>4. \A x \in ToSet(s) \cup failed[h] \cup lagged[h] : x # k
      BY <1>2, <1>7
    <2>5. /\ ToSet(handled'[h]) \cap (failed'[h] \cup lagged'[h]) = {} /\ failed'[h] \cap lagged'[h] = {}
      <3>1. ToSet(s) \cap (failed[h] \cup lagged[h]) = {} /\ failed[h] \cap lagged[h] = {}
        BY <1>0, <1>4 DEF HandlerInv
      <3>2. QED
        BY <1>6, <2>1, <2>2, <2>4, <3>1
    <2>6. \A i, j \in DOMAIN handled'[h] : i < j => handled'[h][i] < handled'[h][j]
      <3>1. \A i, j \in DOMAIN s : i < j => s[i] < s[j]
        BY <1>0, <1>4 DEF HandlerInv
      <3>2. CASE handled'[h] = s
        BY <3>1, <3>2
      <3>3. CASE handled'[h] = Append(s, k)
        <4>1. \A i \in DOMAIN s : s[i] < k
          BY <1>7 DEF ToSet
        <4>2. \A i, j \in DOMAIN Append(s, k) : i < j => Append(s, k)[i] < Append(s, k)[j]
          BY <1>5, <3>1, <4>1
        <4>3. QED
          BY <3>3, <4>2
      <3>4. QED
        BY <2>2, <3>2, <3>3
    <2>7. \A x \in ToSet(handled'[h]) \cup failed'[h] \cup lagged'[h] : x < Reached(h)'
      <3>1. \A x \in ToSet(s) \cup failed[h] \cup lagged[h] \cup {k} : x < k + 1
        BY <1>2, <1>7
      <3>2. QED
        BY <1>7, <2>3, <3>1
    <2>8. \A x \in from'[h] .. Reached(h)' - 1 : sent'[x] \in Accepts[h] =>
            x \in ToSet(handled'[h]) \cup failed'[h] \cup lagged'[h]
      <3>1. \A x \in from[h] .. (k + 1) - 1 : x = k \/ x \in from[h] .. k - 1
        BY <1>2
      <3>2. \A x \in from[h] .. k - 1 : sent[x] \in Accepts[h] => x \in ToSet(s) \cup failed[h] \cup lagged[h]
        BY <1>0, <1>2, <1>4 DEF HandlerInv
      <3>3. QED
        BY <1>0, <1>7, <2>1, <2>3, <3>1, <3>2
    <2>9. from'[h] <= pos'[h]
      BY <1>0, <1>3 DEF HandlerInv
    <2>10. QED
      BY <2>1, <2>5, <2>6, <2>7, <2>8, <2>9 DEF HandlerInv
  <1>10. QED
    BY <1>0, <1>3, <1>8, <1>9 DEF Same, BusTypeOK

\* A handler's task takes an event, hears of lost ones, or ends.
LEMMA RecvTyped ==
  ASSUME BusInv, NEW h \in Handlers, Recv(h)
  PROVE  BusTypeOK' /\ HandlerInv(h)' /\ \A g \in Handlers \ {h} : Same(g)
  <1>0. /\ BusTypeOK /\ HandlerInv(h) /\ task[h] = "recv" /\ sent' = sent
        /\ from' = from /\ handled' = handled /\ failed' = failed
    BY DEF BusInv, Recv
  <1>1. PICK n \in Nat : n = Len(sent)
    BY <1>0 DEF BusTypeOK
  <1>2. Oldest \in 1 .. n + 1
    BY <1>1, BusConstants DEF Oldest
  <1>3. PICK p \in 1 .. n + 1 : p = pos[h]
    BY <1>0, <1>1 DEF BusTypeOK
  <1>4. Reached(h) = p /\ from[h] \in 1 .. n + 1
    BY <1>0, <1>1, <1>3 DEF Reached, BusTypeOK
  <1>5. /\ \A x \in ToSet(handled[h]) \cup failed[h] \cup lagged[h] : x < p
        /\ \A x \in from[h] .. p - 1 : sent[x] \in Accepts[h] => x \in ToSet(handled[h]) \cup failed[h] \cup lagged[h]
        /\ ToSet(handled[h]) \cap (failed[h] \cup lagged[h]) = {} /\ failed[h] \cap lagged[h] = {}
        /\ \A i, j \in DOMAIN handled[h] : i < j => handled[h][i] < handled[h][j]
    BY <1>0, <1>4 DEF HandlerInv
  <1>6. CASE p <= n /\ p < Oldest /\ task' = [task EXCEPT ![h] = "loop"]
             /\ lagged' = [lagged EXCEPT ![h] = @ \cup pos[h] .. Oldest - 1] /\ pos' = [pos EXCEPT ![h] = ResumeAt]
    <2>1. PICK lost : lost = lagged[h] \cup p .. Oldest - 1
      OBVIOUS
    <2>2. /\ lagged'[h] = lost /\ pos'[h] = Oldest /\ task'[h] = "loop"
          /\ lagged' = [lagged EXCEPT ![h] = lost]
      BY <1>0, <1>3, <1>6, <2>1 DEF BusTypeOK, ResumeAt
    <2>3. lost \in SUBSET (1 .. n)
      <3>1. lagged[h] \in SUBSET (1 .. n)
        BY <1>0, <1>1 DEF BusTypeOK
      <3>2. QED
        BY <1>2, <2>1, <3>1
    <2>4. BusTypeOK'
      <3>1. pos' \in [Handlers -> 1 .. n + 1]
        BY <1>0, <1>1, <1>2, <1>6 DEF BusTypeOK, ResumeAt
      <3>2. lagged' \in [Handlers -> SUBSET (1 .. n)]
        BY <1>0, <1>1, <2>2, <2>3 DEF BusTypeOK
      <3>3. UNCHANGED <<open, held, running, busCall, busAttempt, busEvent, busAnswer, published>>
        BY DEF Recv, publishing
      <3>4. QED
        BY <1>0, <1>1, <1>6, <3>1, <3>2, <3>3 DEF BusTypeOK, Tasks
    <2>5. Reached(h)' = Oldest
      BY <2>2 DEF Reached
    <2>6. \A x \in ToSet(handled[h]) \cup failed[h] \cup lost : x < Oldest
      <3>1. \A x \in lagged[h] \cup failed[h] \cup ToSet(handled[h]) : x < Oldest
        <4>1. \A x \in failed[h] \cup lagged[h] : x \in Nat
          BY <1>0, <1>1 DEF BusTypeOK
        <4>2. \A x \in ToSet(handled[h]) : x \in Nat
          BY <1>0, <1>1 DEF BusTypeOK, ToSet
        <4>3. QED
          BY <1>2, <1>5, <1>6, <4>1, <4>2
      <3>2. \A x \in p .. Oldest - 1 : x < Oldest
        BY <1>2
      <3>3. QED
        BY <2>1, <3>1, <3>2
    <2>7. \A x \in from[h] .. Oldest - 1 : sent[x] \in Accepts[h] => x \in ToSet(handled[h]) \cup failed[h] \cup lost
      <3>1. \A x \in from[h] .. Oldest - 1 : x \in from[h] .. p - 1 \/ x \in p .. Oldest - 1
        BY <1>2, <1>4
      <3>2. QED
        BY <1>5, <2>1, <3>1
    <2>8. ToSet(handled[h]) \cap (failed[h] \cup lost) = {} /\ failed[h] \cap lost = {}
      <3>1. \A x \in ToSet(handled[h]) \cup failed[h] : x \notin p .. Oldest - 1
        BY <1>2, <1>5
      <3>2. QED
        BY <1>5, <2>1, <3>1
    <2>9. from[h] <= Oldest
      BY <1>0, <1>2, <1>3, <1>4, <1>6 DEF HandlerInv
    <2>10. HandlerInv(h)'
      BY <1>0, <1>5, <2>2, <2>5, <2>6, <2>7, <2>8, <2>9 DEF HandlerInv
    <2>11. QED
      BY <1>0, <1>6, <2>2, <2>4, <2>10 DEF Same, BusTypeOK
  <1>7. CASE p <= n /\ pos' = [pos EXCEPT ![h] = Advanced(h)] /\ lagged' = lagged
             /\ task' = [task EXCEPT ![h] = IF sent[pos[h]] \in Accepts[h] THEN "handle" ELSE "loop"]
    <2>1. PICK b : b = IF sent[p] \in Accepts[h] THEN "handle" ELSE "loop"
      OBVIOUS
    <2>2. pos' = [pos EXCEPT ![h] = p + 1] /\ task' = [task EXCEPT ![h] = b]
      BY <1>3, <1>7, <2>1 DEF Advanced
    <2>3. pos'[h] = p + 1 /\ task'[h] = b /\ b \in {"handle", "loop"}
      BY <1>0, <2>1, <2>2 DEF BusTypeOK
    <2>4. BusTypeOK'
      <3>1. p + 1 \in 1 .. n + 1
        BY <1>7
      <3>2. pos' \in [Handlers -> 1 .. n + 1] /\ task' \in [Handlers -> Tasks \cup {"none", "stopped"}]
        BY <1>0, <1>1, <2>2, <2>3, <3>1 DEF BusTypeOK, Tasks
      <3>3. UNCHANGED <<open, held, running, busCall, busAttempt, busEvent, busAnswer, published>>
        BY DEF Recv, publishing
      <3>4. QED
        BY <1>0, <1>1, <1>7, <3>2, <3>3 DEF BusTypeOK
    <2>5. Reached(h)' = IF b = "handle" THEN p ELSE p + 1
      BY <2>3 DEF Reached
    <2>6. \A x \in ToSet(handled[h]) \cup failed[h] \cup lagged[h] : x < Reached(h)'
      <3>1. \A x \in ToSet(handled[h]) \cup failed[h] \cup lagged[h] : x \in Nat
        BY <1>0, <1>1 DEF BusTypeOK, ToSet
      <3>2. QED
        BY <1>5, <2>5, <3>1
    <2>7. \A x \in from[h] .. Reached(h)' - 1 : sent[x] \in Accepts[h] =>
            x \in ToSet(handled[h]) \cup failed[h] \cup lagged[h]
      <3>1. \A x \in from[h] .. Reached(h)' - 1 : x \in from[h] .. p - 1 \/ (x = p /\ b = "loop")
        BY <1>4, <2>3, <2>5
      <3>2. b = "loop" => sent[p] \notin Accepts[h]
        BY <2>1
      <3>3. QED
        BY <1>5, <3>1, <3>2
    <2>8. from[h] <= p
      BY <1>0, <1>3 DEF HandlerInv
    <2>9. HandlerInv(h)'
      BY <1>0, <1>4, <1>5, <1>7, <2>3, <2>6, <2>7, <2>8 DEF HandlerInv
    <2>10. QED
      BY <1>0, <1>7, <2>2, <2>4, <2>9 DEF Same, BusTypeOK
  <1>8. CASE task' = [task EXCEPT ![h] = "stopped"] /\ pos' = pos /\ lagged' = lagged
    <2>1. BusTypeOK'
      <3>1. UNCHANGED <<open, held, running, busCall, busAttempt, busEvent, busAnswer, published>>
        BY DEF Recv, publishing
      <3>2. QED
        BY <1>0, <1>8, <3>1 DEF BusTypeOK
    <2>2. task'[h] = "stopped" /\ Reached(h)' = p
      BY <1>0, <1>3, <1>8 DEF Reached, BusTypeOK
    <2>3. HandlerInv(h)'
      BY <1>0, <1>5, <1>8, <2>2 DEF HandlerInv
    <2>4. QED
      BY <1>0, <1>8, <2>1, <2>3 DEF Same, BusTypeOK
  <1>9. QED
    BY <1>1, <1>3, <1>6, <1>7, <1>8 DEF Recv

\* A task keeps its accounts through the steps that only move it, and starts with none.
LEMMA OtherStepsTyped ==
  ASSUME BusInv, NEW h \in Handlers,
         Loop(h) \/ NewHandler(h) \/ SpawnTask(h) \/ DropHandler(h) \/ Shutdown(h)
  PROVE  BusTypeOK' /\ HandlerInv(h)' /\ \A g \in Handlers \ {h} : Same(g)
  <1>0. BusTypeOK /\ HandlerInv(h) /\ sent' = sent /\ UNCHANGED <<open, handled, failed, lagged, publishing>>
    BY DEF BusInv, Loop, NewHandler, SpawnTask, DropHandler, Shutdown, receiving
  <1>1. PICK n \in Nat : n = Len(sent)
    BY <1>0 DEF BusTypeOK
  <1>2. CASE SpawnTask(h)
    <2>1. /\ from' = [from EXCEPT ![h] = n + 1] /\ pos' = [pos EXCEPT ![h] = n + 1] /\ task[h] = "none"
          /\ task' = [task EXCEPT ![h] = "loop"] /\ held' = held /\ running' = running
      BY <1>1, <1>2 DEF SpawnTask, NewPosition
    <2>2. BusTypeOK'
      BY <1>0, <1>1, <2>1 DEF BusTypeOK, publishing, Tasks
    <2>3. /\ from'[h] = n + 1 /\ pos'[h] = n + 1 /\ Reached(h)' = n + 1 /\ task'[h] = "loop"
          /\ handled'[h] = << >> /\ failed'[h] = {} /\ lagged'[h] = {}
      BY <1>0, <2>1 DEF HandlerInv, Reached, BusTypeOK
    <2>4. HandlerInv(h)'
      <3>1. ToSet(<< >>) = {}
        BY DEF ToSet
      <3>2. (n + 1) .. (n + 1) - 1 = {}
        OBVIOUS
      <3>3. QED
        BY <2>3, <3>1, <3>2 DEF HandlerInv
    <2>5. QED
      BY <1>0, <2>1, <2>2, <2>4 DEF Same, BusTypeOK
  <1>3. CASE Loop(h)
    <2>1. PICK b \in {"recv", "stopped"} : task' = [task EXCEPT ![h] = b]
      BY <1>3 DEF Loop
    <2>2. task[h] = "loop" /\ from' = from /\ pos' = pos /\ held' = held /\ running' = running
      BY <1>3 DEF Loop
    <2>3. BusTypeOK'
      BY <1>0, <2>1, <2>2 DEF BusTypeOK, publishing, Tasks
    <2>4. task'[h] = b /\ Reached(h)' = Reached(h)
      BY <1>0, <2>1, <2>2 DEF Reached, BusTypeOK
    <2>5. HandlerInv(h)'
      BY <1>0, <2>1, <2>2, <2>4 DEF HandlerInv
    <2>6. QED
      BY <1>0, <2>1, <2>2, <2>3, <2>5 DEF Same, BusTypeOK
  <1>4. CASE NewHandler(h) \/ DropHandler(h) \/ Shutdown(h)
    <2>1. task' = task /\ from' = from /\ pos' = pos
      BY <1>4 DEF NewHandler, DropHandler, Shutdown, receiving
    <2>2. held' \in [Handlers -> BOOLEAN] /\ running' \in [Handlers -> BOOLEAN]
      BY <1>0, <1>4 DEF NewHandler, DropHandler, Shutdown, BusTypeOK
    <2>3. BusTypeOK'
      BY <1>0, <2>1, <2>2 DEF BusTypeOK, publishing
    <2>4. HandlerInv(h)'
      BY <1>0, <2>1 DEF HandlerInv, Reached
    <2>5. QED
      BY <1>0, <2>1, <2>3, <2>4 DEF Same
  <1>5. QED
    BY <1>2, <1>3, <1>4

\* Every step keeps the account.
LEMMA BusStep == BusInv /\ [BusNext]_busVars => BusInv'
  <1> SUFFICES ASSUME BusInv, [BusNext]_busVars PROVE BusInv'
    OBVIOUS
  <1>1. ASSUME NEW h \in Handlers,
               RunTask(h) \/ NewHandler(h) \/ SpawnTask(h) \/ DropHandler(h) \/ Shutdown(h)
        PROVE  BusInv'
    <2>1. BusTypeOK' /\ HandlerInv(h)' /\ \A g \in Handlers \ {h} : Same(g)
      BY <1>1, HandleTyped, RecvTyped, OtherStepsTyped DEF RunTask
    <2>2. sent' = sent
      BY <1>1 DEF RunTask, Handle, Recv, Loop, NewHandler, SpawnTask, DropHandler, Shutdown
    <2>3. QED
      BY <2>1, <2>2, SameKeeps DEF BusInv
  <1>2. ASSUME NEW p \in Publishers, RunCall(p) \/ \E t \in Types : Publish(p, t)
        PROVE  BusInv'
    <2>1. BusTypeOK' /\ UNCHANGED receiving /\ (sent' = sent \/ \E t \in Types : sent' = Append(sent, t))
      BY <1>2, CallKeepsTypes DEF BusInv
    <2>2. \A h \in Handlers : Same(h)
      BY <2>1 DEF receiving, Same
    <2>3. QED
      BY <2>1, <2>2, SameKeeps DEF BusInv
  <1>3. CASE BusDropped \/ UNCHANGED busVars
    <2>1. UNCHANGED <<sent, held, running, receiving, publishing>> /\ open' \in BOOLEAN
      BY <1>3 DEF BusDropped, busVars, BusInv, BusTypeOK
    <2>2. BusTypeOK'
      BY <2>1 DEF BusInv, BusTypeOK, receiving, publishing
    <2>3. \A h \in Handlers : Same(h)
      BY <2>1 DEF receiving, Same
    <2>4. QED
      BY <2>1, <2>2, <2>3, SameKeeps DEF BusInv
  <1>4. QED
    BY <1>1, <1>2, <1>3 DEF BusNext

\* No event is lost in silence or counted twice, for every number of handlers,
\* publishers and kept events.
THEOREM EventsAccounted == BusSpec => []EveryEventAccounted
  <1>1. BusInit => BusInv
    <2> SUFFICES ASSUME BusInit PROVE BusInv
      OBVIOUS
    <2>1. AnyType \in Types
      BY BusConstants DEF AnyType
    <2>2. BusTypeOK
      BY <2>1, BusConstants DEF BusInit, BusTypeOK
    <2>3. ToSet(<< >>) = {} /\ 1 .. 0 = {}
      BY DEF ToSet
    <2>4. ASSUME NEW h \in Handlers PROVE HandlerInv(h)
      BY <2>3 DEF BusInit, HandlerInv, Reached
    <2>5. QED
      BY <2>2, <2>4 DEF BusInv
  <1>2. BusInv => EveryEventAccounted
    <2> SUFFICES ASSUME BusInv PROVE EveryEventAccounted
      OBVIOUS
    <2>1. BusTypeOK
      BY DEF BusInv
    <2>2. ASSUME NEW h \in Handlers
          PROVE  LET inHand == IF task[h] = "handle" THEN {pos[h] - 1} ELSE {}
                     wanted == {k \in from[h] .. pos[h] - 1 : sent[k] \in Accepts[h]}
                 IN  /\ wanted \subseteq ToSet(handled[h]) \cup failed[h] \cup lagged[h] \cup inHand
                     /\ ToSet(handled[h]) \cap (failed[h] \cup lagged[h] \cup inHand) = {}
                     /\ failed[h] \cap (lagged[h] \cup inHand) = {}
                     /\ lagged[h] \cap inHand = {}
                     /\ \A i, j \in DOMAIN handled[h] : i < j => handled[h][i] < handled[h][j]
      <3>1. PICK inHand : inHand = (IF task[h] = "handle" THEN {pos[h] - 1} ELSE {})
        OBVIOUS
      <3>2. PICK wanted : wanted = {k \in from[h] .. pos[h] - 1 : sent[k] \in Accepts[h]}
        OBVIOUS
      <3>3. /\ wanted \subseteq ToSet(handled[h]) \cup failed[h] \cup lagged[h] \cup inHand
            /\ ToSet(handled[h]) \cap (failed[h] \cup lagged[h] \cup inHand) = {}
            /\ failed[h] \cap (lagged[h] \cup inHand) = {}
            /\ lagged[h] \cap inHand = {}
            /\ \A i, j \in DOMAIN handled[h] : i < j => handled[h][i] < handled[h][j]
        <4>1. HandlerInv(h) /\ pos[h] \in Nat /\ from[h] \in Nat
          BY DEF BusInv, BusTypeOK
        <4>2. inHand = {} \/ inHand = {Reached(h)}
          BY <3>1 DEF Reached
        <4>3. Reached(h) \in Int
          BY <4>1 DEF Reached
        <4>4. \A x \in ToSet(handled[h]) \cup failed[h] \cup lagged[h] : x \notin inHand
          BY <4>1, <4>2, <4>3 DEF HandlerInv
        <4>5. \A k \in from[h] .. pos[h] - 1 : k \in from[h] .. Reached(h) - 1 \/ k \in inHand
          BY <3>1, <4>1 DEF Reached
        <4>6. QED
          BY <3>2, <4>1, <4>4, <4>5 DEF HandlerInv
      <3>4. QED
        BY <3>1, <3>2, <3>3, Zenon
    <2>3. QED
      BY <2>1, <2>2 DEF EveryEventAccounted
  <1>3. QED
    BY <1>1, <1>2, BusStep, PTL DEF BusSpec

-----------------------------------------------------------------------------
(***************************************************************************)
(* The WebSocket hub                                                       *)
(***************************************************************************)

\* Messages: those of a list come in order, those of one list before another's.
HubAscends(s) == \A i, j \in DOMAIN s : i < j /\ s[i].doc = s[j].doc => s[i].n < s[j].n
HubAhead(s, t) == \A m \in ToSet(s), x \in ToSet(t) : m.doc = x.doc => m.n < x.n

\* A list is its head and its tail.
LEMMA HeadAndTail ==
  ASSUME NEW S, NEW s \in Seq(S), s # << >>
  PROVE  /\ Head(s) \in S /\ Tail(s) \in Seq(S) /\ Head(s) = s[1] /\ Len(s) \in Nat /\ Len(s) >= 1
         /\ Len(Tail(s)) = Len(s) - 1 /\ DOMAIN Tail(s) = 1 .. Len(s) - 1 /\ DOMAIN s = 1 .. Len(s)
         /\ \A i \in 1 .. Len(s) - 1 : Tail(s)[i] = s[i + 1]
         /\ ToSet(s) = {Head(s)} \cup ToSet(Tail(s))
  <1>1. PICK n \in Nat : n = Len(s) /\ n >= 1
    OBVIOUS
  <1>2. /\ Head(s) \in S /\ Tail(s) \in Seq(S) /\ Head(s) = s[1]
        /\ Len(Tail(s)) = n - 1 /\ DOMAIN Tail(s) = 1 .. n - 1 /\ DOMAIN s = 1 .. n
        /\ \A i \in 1 .. n - 1 : Tail(s)[i] = s[i + 1]
    BY <1>1
  <1>3. ToSet(s) \subseteq {Head(s)} \cup ToSet(Tail(s))
    <2> SUFFICES ASSUME NEW i \in 1 .. n PROVE s[i] \in {Head(s)} \cup ToSet(Tail(s))
      BY <1>2 DEF ToSet
    <2>1. CASE i = 1
      BY <1>2, <2>1
    <2>2. CASE i # 1
      <3>1. i - 1 \in 1 .. n - 1 /\ Tail(s)[i - 1] = s[i]
        BY <1>2, <2>2
      <3>2. QED
        BY <1>2, <3>1 DEF ToSet
    <2>3. QED
      BY <2>1, <2>2
  <1>4. {Head(s)} \cup ToSet(Tail(s)) \subseteq ToSet(s)
    <2>1. \A i \in 1 .. n - 1 : i + 1 \in 1 .. n
      OBVIOUS
    <2>2. 1 \in 1 .. n
      BY <1>1
    <2>3. QED
      BY <1>2, <2>1, <2>2 DEF ToSet
  <1>5. QED
    BY <1>1, <1>2, <1>3, <1>4

\* A message behind a list extends it.
LEMMA AscendsAppend ==
  ASSUME NEW s \in Seq(HubMessages), HubAscends(s), NEW x \in HubMessages,
         \A m \in ToSet(s) : m.doc = x.doc => m.n < x.n
  PROVE  HubAscends(Append(s, x))
  <1>1. PICK n \in Nat : n = Len(s)
    OBVIOUS
  <1>2. /\ DOMAIN s = 1 .. n /\ DOMAIN Append(s, x) = 1 .. n + 1
        /\ \A i \in 1 .. n : Append(s, x)[i] = s[i]
        /\ Append(s, x)[n + 1] = x
    BY <1>1
  <1>3. \A i \in 1 .. n : s[i].doc = x.doc => s[i].n < x.n
    BY <1>2 DEF ToSet
  <1>4. ASSUME NEW i \in 1 .. n + 1, NEW j \in 1 .. n + 1, i < j, Append(s, x)[i].doc = Append(s, x)[j].doc
        PROVE  Append(s, x)[i].n < Append(s, x)[j].n
    <2>1. i \in 1 .. n /\ (j \in 1 .. n \/ j = n + 1)
      BY <1>4
    <2>2. QED
      BY <1>2, <1>3, <1>4, <2>1 DEF HubAscends
  <1>5. QED
    BY <1>2, <1>4 DEF HubAscends

\* The first message of a list, moved behind the list before it.
LEMMA AscendsMoved ==
  ASSUME NEW s \in Seq(HubMessages), NEW t \in Seq(HubMessages), t # << >>,
         HubAscends(s), HubAscends(t), HubAhead(s, t)
  PROVE  /\ HubAscends(Append(s, Head(t))) /\ HubAscends(Tail(t)) /\ HubAhead(Append(s, Head(t)), Tail(t))
         /\ Append(s, Head(t)) \in Seq(HubMessages) /\ Tail(t) \in Seq(HubMessages)
         /\ ToSet(Append(s, Head(t))) \cup ToSet(Tail(t)) = ToSet(s) \cup ToSet(t)
  <1>1. PICK n \in Nat : n = Len(t)
    OBVIOUS
  <1>2. /\ Head(t) \in HubMessages /\ Tail(t) \in Seq(HubMessages) /\ Head(t) = t[1] /\ n >= 1
        /\ DOMAIN Tail(t) = 1 .. n - 1 /\ DOMAIN t = 1 .. n
        /\ \A i \in 1 .. n - 1 : Tail(t)[i] = t[i + 1]
        /\ ToSet(t) = {Head(t)} \cup ToSet(Tail(t))
    BY <1>1, HeadAndTail
  <1>3. ToSet(Append(s, Head(t))) = ToSet(s) \cup {Head(t)}
    BY ToSetAppend
  <1>4. HubAscends(Append(s, Head(t)))
    BY <1>2, AscendsAppend DEF HubAhead
  <1>5. HubAscends(Tail(t))
    <2>1. \A i \in 1 .. n - 1 : i + 1 \in 1 .. n
      OBVIOUS
    <2>2. \A i, j \in 1 .. n - 1 : i < j => i + 1 < j + 1
      OBVIOUS
    <2>3. QED
      BY <1>2, <2>1, <2>2 DEF HubAscends
  <1>6. \A x \in ToSet(Tail(t)) : x.doc = Head(t).doc => Head(t).n < x.n
    <2>1. \A i \in 1 .. n - 1 : i + 1 \in 1 .. n /\ 1 < i + 1 /\ 1 \in 1 .. n
      OBVIOUS
    <2>2. QED
      BY <1>2, <2>1 DEF HubAscends, ToSet
  <1>7. HubAhead(Append(s, Head(t)), Tail(t))
    BY <1>2, <1>3, <1>6 DEF HubAhead
  <1>8. QED
    BY <1>2, <1>3, <1>4, <1>5, <1>7

\* What lists have in common with the one they are joined to.
LEMMA JoinedLists ==
  ASSUME NEW s \in Seq(HubMessages), NEW t \in Seq(HubMessages),
         HubAscends(s), HubAscends(t), HubAhead(s, t)
  PROVE  HubAscends(s \o t) /\ s \o t \in Seq(HubMessages) /\ ToSet(s \o t) = ToSet(s) \cup ToSet(t)
  <1>1. PICK n \in Nat : n = Len(s)
    OBVIOUS
  <1>2. PICK k \in Nat : k = Len(t)
    OBVIOUS
  <1>3. /\ s \o t \in Seq(HubMessages) /\ DOMAIN s = 1 .. n /\ DOMAIN t = 1 .. k /\ DOMAIN (s \o t) = 1 .. n + k
        /\ \A i \in 1 .. n + k : (s \o t)[i] = IF i <= n THEN s[i] ELSE t[i - n]
    BY <1>1, <1>2
  <1>4. \A i \in 1 .. n + k : i \in 1 .. n \/ (i - n \in 1 .. k /\ ~(i <= n))
    OBVIOUS
  <1>5. ASSUME NEW i \in 1 .. n + k, NEW j \in 1 .. n + k, i < j, (s \o t)[i].doc = (s \o t)[j].doc
        PROVE  (s \o t)[i].n < (s \o t)[j].n
    <2>1. CASE j \in 1 .. n
      <3>1. i \in 1 .. n /\ (s \o t)[i] = s[i] /\ (s \o t)[j] = s[j]
        BY <1>3, <1>5, <2>1
      <3>2. QED
        BY <1>3, <1>5, <2>1, <3>1 DEF HubAscends
    <2>2. CASE i \notin 1 .. n
      <3>1. i - n \in 1 .. k /\ j - n \in 1 .. k /\ i - n < j - n /\ (s \o t)[i] = t[i - n] /\ (s \o t)[j] = t[j - n]
        BY <1>3, <1>5, <2>2
      <3>2. QED
        BY <1>3, <1>5, <3>1 DEF HubAscends
    <2>3. CASE i \in 1 .. n /\ j \notin 1 .. n
      <3>1. j - n \in 1 .. k /\ (s \o t)[i] = s[i] /\ (s \o t)[j] = t[j - n]
        BY <1>3, <1>5, <2>3
      <3>2. s[i] \in ToSet(s) /\ t[j - n] \in ToSet(t)
        BY <1>3, <2>3, <3>1 DEF ToSet
      <3>3. QED
        BY <1>5, <3>1, <3>2 DEF HubAhead
    <2>4. QED
      BY <2>1, <2>2, <2>3
  <1>6. ToSet(s \o t) = ToSet(s) \cup ToSet(t)
    <2>1. \A i \in 1 .. n : i \in 1 .. n + k /\ (s \o t)[i] = s[i]
      BY <1>3
    <2>2. \A i \in 1 .. k : i + n \in 1 .. n + k /\ (s \o t)[i + n] = t[i]
      <3> TAKE i \in 1 .. k
      <3>1. i + n \in 1 .. n + k /\ ~(i + n <= n) /\ (i + n) - n = i
        OBVIOUS
      <3>2. QED
        BY <1>3, <3>1
    <2>3. \A i \in 1 .. n + k : (i \in 1 .. n /\ (s \o t)[i] = s[i]) \/ (i - n \in 1 .. k /\ (s \o t)[i] = t[i - n])
      BY <1>3
    <2>4. \A x \in ToSet(s \o t) : x \in ToSet(s) \cup ToSet(t)
      BY <1>3, <2>3 DEF ToSet
    <2>5. \A x \in ToSet(s) : x \in ToSet(s \o t)
      BY <1>3, <2>1 DEF ToSet
    <2>6. \A x \in ToSet(t) : x \in ToSet(s \o t)
      BY <1>3, <2>2 DEF ToSet
    <2>7. QED
      BY <2>4, <2>5, <2>6
  <1>7. QED
    BY <1>3, <1>5, <1>6 DEF HubAscends

-----------------------------------------------------------------------------
HubRxs == [ch : Nat, from : Nat, pos : Nat, lost : SUBSET Nat]
HubConnStates == [at : {"new", "select", "insert", "prune", "cleanup", "closing", "gone"}, left : SUBSET Docs]
HubTaskStates == [at : {"none", "receive", "listen", "done"}, seen : SUBSET Docs,
                  todo : SUBSET Docs, received : Seq(HubMessages)]
HubSubsOK(subs) == subs \in UNION {[known -> SUBSET Docs] : known \in SUBSET Conns}

\* The types, with names for the records.
LEMMA HubTypes ==
  HubTypeOK <=>
    /\ hubRoom \in [Docs -> Nat] /\ hubMade \in Nat /\ hubLog \in [Docs -> Seq(Nat)] /\ hubSent \in Nat
    /\ HubSubsOK(hubSubs) /\ hubConn \in [Conns -> HubConnStates] /\ hubTask \in [Conns -> HubTaskStates]
    /\ hubRx \in [Conns -> [Docs -> HubRxs]]
    /\ hubOut \in [Conns -> Seq(HubMessages)] /\ hubGot \in [Conns -> Seq(HubMessages)] /\ hubAsked \in Nat
  BY Zenon DEF HubTypeOK, HubRxs, HubConnStates, HubTaskStates, HubSubsOK

\* The subscriptions as a function of the open connections.
LEMMA HubSubsFacts ==
  ASSUME NEW subs
  PROVE  HubSubsOK(subs) <=> /\ DOMAIN subs \subseteq Conns /\ subs = [c \in DOMAIN subs |-> subs[c]]
                             /\ \A c \in DOMAIN subs : subs[c] \subseteq Docs
  <1>1. ASSUME HubSubsOK(subs)
        PROVE  /\ DOMAIN subs \subseteq Conns /\ subs = [c \in DOMAIN subs |-> subs[c]]
               /\ \A c \in DOMAIN subs : subs[c] \subseteq Docs
    <2>1. PICK known \in SUBSET Conns : subs \in [known -> SUBSET Docs]
      BY <1>1 DEF HubSubsOK
    <2>2. QED
      BY <2>1
  <1>2. ASSUME DOMAIN subs \subseteq Conns, subs = [c \in DOMAIN subs |-> subs[c]],
               \A c \in DOMAIN subs : subs[c] \subseteq Docs
        PROVE  HubSubsOK(subs)
    <2>1. subs \in [DOMAIN subs -> SUBSET Docs]
      BY <1>2
    <2>2. DOMAIN subs \in SUBSET Conns
      BY <1>2
    <2>3. QED
      BY <2>1, <2>2 DEF HubSubsOK
  <1>3. QED
    BY <1>1, <1>2

\* A connection on its way is among the open ones until it leaves; its task holds
\* receivers only while it runs.
HubStates ==
  \A c \in Conns :
    /\ hubConn[c].at \in {"select", "insert", "prune", "cleanup"} <=> c \in DOMAIN hubSubs
    /\ hubConn[c].at = "new" => hubTask[c].at = "none"
    /\ hubTask[c].at = "listen" => hubTask[c].received = << >>
    /\ hubTask[c].at \in {"none", "done"} => \A d \in Docs : hubRx[c][d].ch = 0

\* Rooms number their messages in order.
HubRoomOK(d) ==
  /\ \A i, j \in DOMAIN hubLog[d] : i < j => hubLog[d][i] < hubLog[d][j]
  /\ \A i \in DOMAIN hubLog[d] : hubLog[d][i] <= hubSent
  /\ hubRoom[d] = 0 => hubLog[d] = << >>

HubOnLine(c) == ToSet(hubGot[c]) \cup ToSet(hubOut[c]) \cup ToSet(hubTask[c].received)

HubLineOK(c) ==
  /\ HubAscends(hubGot[c]) /\ HubAscends(hubOut[c]) /\ HubAscends(hubTask[c].received)
  /\ HubAhead(hubGot[c], hubOut[c]) /\ HubAhead(hubGot[c], hubTask[c].received)
  /\ HubAhead(hubOut[c], hubTask[c].received)
  /\ \A m \in HubOnLine(c) : m.n <= hubSent

\* A receiver belongs to the room's present channel; it is ahead of everything on
\* the line, and what it went past is there or was reported as lost.
HubRxOK(c, d) ==
  LET rx == hubRx[c][d] IN
  /\ rx.pos >= 1 /\ rx.from >= 1
  /\ rx.ch # 0 =>
       /\ rx.ch = hubRoom[d] /\ rx.pos <= Len(hubLog[d]) + 1
       /\ \A m \in HubOnLine(c), k \in rx.pos .. Len(hubLog[d]) : m.doc = d => m.n < hubLog[d][k]
       /\ c \in DOMAIN hubSubs =>
            \A k \in rx.from .. rx.pos - 1 :
              k \in rx.lost \/ \E m \in HubOnLine(c) : m.doc = d /\ m.n = hubLog[d][k]

HubInv ==
  /\ HubTypeOK /\ HubStates
  /\ \A d \in Docs : HubRoomOK(d)
  /\ \A c \in Conns : HubLineOK(c)
  /\ \A c \in Conns, d \in Docs : HubRxOK(c, d)

\* The invariant gives what the hub promises.
LEMMA HubInvDelivers == HubInv => HubDelivers
  <1> SUFFICES ASSUME HubInv PROVE HubDelivers
    OBVIOUS
  <1>1. ASSUME NEW c \in Conns
        PROVE  HubAscends(HubLine(c)) /\ ToSet(HubLine(c)) = HubOnLine(c)
    <2>1. PICK got \in Seq(HubMessages) : got = hubGot[c]
      BY HubTypes DEF HubInv
    <2>2. PICK out \in Seq(HubMessages) : out = hubOut[c]
      BY HubTypes DEF HubInv
    <2>3. PICK rec \in Seq(HubMessages) : rec = hubTask[c].received
      BY HubTypes DEF HubInv, HubTaskStates
    <2>4. /\ HubAscends(got) /\ HubAscends(out) /\ HubAscends(rec)
          /\ HubAhead(got, out) /\ HubAhead(got, rec) /\ HubAhead(out, rec)
      BY <2>1, <2>2, <2>3 DEF HubInv, HubLineOK
    <2>5. HubAscends(got \o out) /\ got \o out \in Seq(HubMessages) /\ ToSet(got \o out) = ToSet(got) \cup ToSet(out)
      BY <2>4, JoinedLists
    <2>6. HubAhead(got \o out, rec)
      BY <2>4, <2>5 DEF HubAhead
    <2>7. HubAscends((got \o out) \o rec) /\ ToSet((got \o out) \o rec) = ToSet(got \o out) \cup ToSet(rec)
      BY <2>4, <2>5, <2>6, JoinedLists
    <2>8. HubLine(c) = (got \o out) \o rec
      BY <2>1, <2>2, <2>3 DEF HubLine
    <2>9. QED
      BY <2>1, <2>2, <2>3, <2>5, <2>7, <2>8 DEF HubOnLine
  <1>2. HubReceiversCurrent
    BY DEF HubInv, HubRxOK, HubReceiversCurrent
  <1>3. HubInOrder
    BY <1>1 DEF HubInOrder, HubAscends
  <1>4. HubNoneVanish
    BY <1>1 DEF HubInv, HubRxOK, HubNoneVanish
  <1>5. QED
    BY <1>2, <1>3, <1>4 DEF HubInv, HubDelivers

\* The invariant holds at the start.
LEMMA HubStarts == HubInit => HubInv
  <1> SUFFICES ASSUME HubInit PROVE HubInv
    OBVIOUS
  <1>1. HubSubsOK(hubSubs)
    <2>1. hubSubs = << >> /\ DOMAIN hubSubs = {}
      BY DEF HubInit
    <2>2. hubSubs = [c \in DOMAIN hubSubs |-> hubSubs[c]]
      BY <2>1
    <2>3. QED
      BY <2>1, <2>2, HubSubsFacts
  <1>2. HubNoRx \in HubRxs
    BY DEF HubNoRx, HubRxs
  <1>3. HubTypeOK
    BY <1>1, <1>2, HubTypes DEF HubInit, HubConnStates, HubTaskStates
  <1>4. HubStates
    BY DEF HubInit, HubStates, HubNoRx
  <1>5. \A d \in Docs : HubRoomOK(d)
    BY DEF HubInit, HubRoomOK
  <1>6. ToSet(<< >>) = {}
    BY DEF ToSet
  <1>7. \A c \in Conns : HubLineOK(c)
    BY <1>6 DEF HubInit, HubLineOK, HubAscends, HubAhead, HubOnLine
  <1>8. \A c \in Conns, d \in Docs : HubRxOK(c, d)
    BY DEF HubInit, HubRxOK, HubNoRx
  <1>9. QED
    BY <1>3, <1>4, <1>5, <1>7, <1>8 DEF HubInv

-----------------------------------------------------------------------------
\* A connection's line in a step that moves none of its messages.
LEMMA HubLineKept ==
  ASSUME HubInv, HubTypeOK', NEW c \in Conns, hubGot'[c] = hubGot[c], hubOut'[c] = hubOut[c],
         hubTask'[c].received = hubTask[c].received, hubSent' = hubSent \/ hubSent' = hubSent + 1
  PROVE  HubLineOK(c)' /\ HubOnLine(c)' = HubOnLine(c)
  <1>1. HubOnLine(c)' = HubOnLine(c)
    BY Zenon DEF HubOnLine
  <1>2. HubLineOK(c) /\ hubSent \in Nat
    BY DEF HubInv, HubTypeOK
  <1>3. \A m \in HubOnLine(c) : m.n \in Nat
    <2>1. hubGot[c] \in Seq(HubMessages) /\ hubOut[c] \in Seq(HubMessages) /\ hubTask[c].received \in Seq(HubMessages)
      BY HubTypes DEF HubInv, HubTaskStates
    <2>2. \A m \in HubOnLine(c) : m \in HubMessages
      BY <2>1 DEF HubOnLine, ToSet
    <2>3. QED
      BY <2>2 DEF HubMessages
  <1>4. \A m \in HubOnLine(c) : m.n <= hubSent'
    BY <1>2, <1>3 DEF HubLineOK
  <1>5. QED
    BY <1>1, <1>2, <1>4 DEF HubLineOK

\* A receiver that stays where it is while its room and its connection's line do.
LEMMA HubRxKept ==
  ASSUME HubInv, NEW c \in Conns, NEW d \in Docs, hubRx'[c][d] = hubRx[c][d], hubLog'[d] = hubLog[d],
         hubRoom'[d] = hubRoom[d] \/ hubRx[c][d].ch = 0, HubOnLine(c)' = HubOnLine(c),
         (c \in DOMAIN hubSubs)' => c \in DOMAIN hubSubs \/ hubRx[c][d].ch = 0
  PROVE  HubRxOK(c, d)'
  <1>1. HubRxOK(c, d)
    BY DEF HubInv
  <1>2. QED
    BY <1>1 DEF HubRxOK

\* A step that moves no message and no receiver.
LEMMA HubQuietStep ==
  ASSUME HubInv, HubTypeOK', HubStates', UNCHANGED <<hubLog, hubSent, hubRx, hubOut, hubGot>>,
         \A c \in Conns : hubTask'[c].received = hubTask[c].received,
         \A d \in Docs : hubRoom'[d] = hubRoom[d] \/ hubRoom[d] = 0,
         \A c \in Conns : (c \in DOMAIN hubSubs)' => c \in DOMAIN hubSubs \/ hubConn[c].at = "new"
  PROVE  HubInv'
  <1>1. \A c \in Conns : HubLineOK(c)' /\ HubOnLine(c)' = HubOnLine(c)
    BY HubLineKept
  <1>2. \A d \in Docs : HubRoomOK(d)'
    BY DEF HubInv, HubRoomOK
  <1>3. ASSUME NEW c \in Conns, NEW d \in Docs
        PROVE  HubRxOK(c, d)'
    <2>1. hubRoom'[d] = hubRoom[d] \/ hubRx[c][d].ch = 0
      BY DEF HubInv, HubRxOK
    <2>2. (c \in DOMAIN hubSubs)' => c \in DOMAIN hubSubs \/ hubRx[c][d].ch = 0
      BY DEF HubInv, HubStates
    <2>3. QED
      BY <1>1, <2>1, <2>2, HubRxKept
  <1>4. QED
    BY <1>1, <1>2, <1>3 DEF HubInv

\* A connection is let in.
LEMMA HubConnectStep ==
  ASSUME HubInv, NEW c \in Conns, HubConnect(c)
  PROVE  HubInv'
  <1>0. HubTypeOK /\ HubStates /\ hubConn[c].at = "new"
    BY DEF HubInv, HubConnect
  <1>1. /\ UNCHANGED <<hubRooms, hubRx, hubOut, hubGot, hubAsked>>
        /\ hubSubs' = [x \in DOMAIN hubSubs \cup {c} |-> IF x = c THEN {} ELSE hubSubs[x]]
        /\ hubConn' = [hubConn EXCEPT ![c].at = "select"]
        /\ hubTask' = [hubTask EXCEPT ![c].at = "receive"]
    BY DEF HubConnect
  <1>2. c \notin DOMAIN hubSubs
    BY <1>0 DEF HubStates
  <1>3. /\ DOMAIN hubSubs' = DOMAIN hubSubs \cup {c} /\ hubSubs'[c] = {}
        /\ \A x \in DOMAIN hubSubs : hubSubs'[x] = hubSubs[x]
        /\ hubSubs' = [x \in DOMAIN hubSubs' |-> hubSubs'[x]]
    BY <1>1, <1>2
  <1>4. HubSubsOK(hubSubs')
    <2>1. DOMAIN hubSubs \subseteq Conns /\ \A x \in DOMAIN hubSubs : hubSubs[x] \subseteq Docs
      BY <1>0, HubTypes, HubSubsFacts
    <2>2. QED
      BY <1>3, <2>1, HubSubsFacts
  <1>5. hubConn' \in [Conns -> HubConnStates] /\ hubTask' \in [Conns -> HubTaskStates]
    <2>1. hubConn[c] \in HubConnStates /\ hubTask[c] \in HubTaskStates
      BY <1>0, HubTypes
    <2>2. [hubConn[c] EXCEPT !.at = "select"] \in HubConnStates
      BY <2>1 DEF HubConnStates
    <2>3. [hubTask[c] EXCEPT !.at = "receive"] \in HubTaskStates
      BY <2>1 DEF HubTaskStates
    <2>4. QED
      BY <1>0, <1>1, <2>2, <2>3, HubTypes
  <1>6. HubTypeOK'
    BY <1>0, <1>1, <1>4, <1>5, HubTypes DEF hubRooms, HubTypeOK, HubSubsOK, HubConnStates, HubTaskStates
  <1>7. /\ hubConn'[c].at = "select" /\ hubTask'[c].at = "receive" /\ hubTask'[c].received = hubTask[c].received
        /\ \A x \in Conns \ {c} : hubConn'[x] = hubConn[x] /\ hubTask'[x] = hubTask[x]
    BY <1>0, <1>1 DEF HubTypeOK
  <1>8. HubStates'
    BY <1>0, <1>1, <1>3, <1>7 DEF HubStates
  <1>9. QED
    BY <1>0, <1>1, <1>3, <1>6, <1>7, <1>8, HubQuietStep DEF hubRooms

\* The steps of a connection that touch its requests and subscriptions only.
LEMMA HubRequestStep ==
  ASSUME HubInv, NEW c \in Conns, HubInsert(c) \/ \E d \in Docs : HubSubscribe(c, d) \/ HubUnsubscribe(c, d)
  PROVE  HubInv'
  <1>0. HubTypeOK /\ HubStates /\ hubConn[c].at \in {"select", "insert"} /\ c \in DOMAIN hubSubs
    BY DEF HubInv, HubInsert, HubSubscribe, HubUnsubscribe, HubStates
  <1>1. /\ UNCHANGED <<hubLog, hubSent, hubTask, hubRx, hubOut, hubGot>>
        /\ hubAsked' \in Nat /\ hubMade' \in Nat /\ hubRoom' \in [Docs -> Nat]
        /\ \A d \in Docs : hubRoom'[d] = hubRoom[d] \/ hubRoom[d] = 0
    <2>1. CASE HubInsert(c)
      BY <1>0, <2>1 DEF HubInsert, hubRooms, HubTypeOK
    <2>2. ASSUME NEW d \in Docs, HubUnsubscribe(c, d)
          PROVE  <<hubLog, hubSent, hubTask, hubRx, hubOut, hubGot>>' = <<hubLog, hubSent, hubTask, hubRx, hubOut, hubGot>>
                 /\ hubAsked' \in Nat /\ hubMade' \in Nat /\ hubRoom' \in [Docs -> Nat]
                 /\ \A e \in Docs : hubRoom'[e] = hubRoom[e] \/ hubRoom[e] = 0
      BY <1>0, <2>2 DEF HubUnsubscribe, hubRooms, HubTypeOK
    <2>3. ASSUME NEW d \in Docs, HubSubscribe(c, d)
          PROVE  <<hubLog, hubSent, hubTask, hubRx, hubOut, hubGot>>' = <<hubLog, hubSent, hubTask, hubRx, hubOut, hubGot>>
                 /\ hubAsked' \in Nat /\ hubMade' \in Nat /\ hubRoom' \in [Docs -> Nat]
                 /\ \A e \in Docs : hubRoom'[e] = hubRoom[e] \/ hubRoom[e] = 0
      <3>1. UNCHANGED <<hubLog, hubSent, hubTask, hubRx, hubOut, hubGot>> /\ hubAsked' = hubAsked + 1
        BY <2>3 DEF HubSubscribe
      <3>2. \/ hubRoom[d] = 0 /\ hubMade' = hubMade + 1 /\ hubRoom' = [hubRoom EXCEPT ![d] = hubMade + 1]
            \/ hubMade' = hubMade /\ hubRoom' = hubRoom
        BY <2>3 DEF HubSubscribe
      <3>3. hubAsked \in Nat /\ hubMade \in Nat /\ hubRoom \in [Docs -> Nat]
        BY <1>0 DEF HubTypeOK
      <3>4. hubAsked' \in Nat /\ hubMade' \in Nat
        BY <3>1, <3>2, <3>3
      <3>5. hubRoom' \in [Docs -> Nat] /\ \A e \in Docs : hubRoom'[e] = hubRoom[e] \/ hubRoom[e] = 0
        <4>1. hubMade + 1 \in Nat
          BY <3>3
        <4>2. QED
          BY <3>2, <3>3, <4>1
      <3>6. QED
        BY <3>1, <3>4, <3>5
    <2>4. QED
      BY <2>1, <2>2, <2>3
  <1>2. /\ hubConn' \in [Conns -> HubConnStates]
        /\ hubConn'[c].at \in {"select", "insert", "prune", "cleanup"}
        /\ \A x \in Conns \ {c} : hubConn'[x] = hubConn[x]
    <2>1. PICK k \in HubConnStates : hubConn' = [hubConn EXCEPT ![c] = k] /\ k.at \in {"select", "insert", "prune", "cleanup"}
      <3>1. ASSUME NEW b \in {"select", "insert", "prune", "cleanup"}, NEW L \in SUBSET Docs
            PROVE  [at |-> b, left |-> L] \in HubConnStates
        BY DEF HubConnStates
      <3>2. CASE HubInsert(c)
        <4>1. \E b \in {"select", "cleanup"} : hubConn' = [hubConn EXCEPT ![c] = [at |-> b, left |-> {}]]
          BY <3>2 DEF HubInsert
        <4>2. PICK b \in {"select", "cleanup"} : hubConn' = [hubConn EXCEPT ![c] = [at |-> b, left |-> {}]]
          BY <4>1
        <4>3. [at |-> b, left |-> {}] \in HubConnStates
          BY <3>1
        <4>4. QED
          BY <4>2, <4>3
      <3>3. ASSUME NEW d \in Docs, HubSubscribe(c, d) \/ HubUnsubscribe(c, d)
            PROVE  \E k \in HubConnStates : /\ hubConn' = [hubConn EXCEPT ![c] = k]
                                            /\ k.at \in {"select", "insert", "prune", "cleanup"}
        <4>1. PICK b \in {"insert", "prune"} : hubConn' = [hubConn EXCEPT ![c] = [at |-> b, left |-> {d}]]
          BY <3>3 DEF HubSubscribe, HubUnsubscribe
        <4>2. [at |-> b, left |-> {d}] \in HubConnStates
          BY <3>1
        <4>3. QED
          BY <4>1, <4>2
      <3>4. QED
        BY <3>2, <3>3
    <2>2. QED
      BY <1>0, <2>1, HubTypes
  <1>3. HubSubsOK(hubSubs') /\ DOMAIN hubSubs' = DOMAIN hubSubs
    <2>1. /\ DOMAIN hubSubs \subseteq Conns /\ hubSubs = [x \in DOMAIN hubSubs |-> hubSubs[x]]
          /\ \A x \in DOMAIN hubSubs : hubSubs[x] \subseteq Docs
      BY <1>0, HubTypes, HubSubsFacts
    <2>2. \E of \in SUBSET Docs : hubSubs' = [hubSubs EXCEPT ![c] = of] \/ hubSubs' = hubSubs
      <3>1. hubConn[c].left \subseteq Docs
        BY <1>0 DEF HubTypeOK
      <3>2. QED
        BY <1>0, <2>1, <3>1 DEF HubInsert, HubSubscribe, HubUnsubscribe
    <2>3. PICK of \in SUBSET Docs : hubSubs' = [hubSubs EXCEPT ![c] = of] \/ hubSubs' = hubSubs
      BY <2>2
    <2>4. /\ DOMAIN hubSubs' = DOMAIN hubSubs /\ hubSubs' = [x \in DOMAIN hubSubs' |-> hubSubs'[x]]
          /\ \A x \in DOMAIN hubSubs : hubSubs'[x] \subseteq Docs
      BY <1>0, <2>1, <2>3
    <2>5. QED
      BY <2>1, <2>4, HubSubsFacts
  <1>4. HubTypeOK'
    BY <1>0, <1>1, <1>2, <1>3 DEF HubTypeOK, HubSubsOK, HubConnStates
  <1>5. HubStates'
    BY <1>0, <1>1, <1>2, <1>3 DEF HubStates
  <1>6. QED
    BY <1>1, <1>3, <1>4, <1>5, HubQuietStep

\* What a step of one connection leaves alone holds for the others.
LEMMA HubOthersKept ==
  ASSUME HubInv, HubTypeOK', NEW x \in Conns, hubGot'[x] = hubGot[x], hubOut'[x] = hubOut[x],
         hubTask'[x].received = hubTask[x].received, hubRx'[x] = hubRx[x], UNCHANGED hubRooms,
         (x \in DOMAIN hubSubs)' => x \in DOMAIN hubSubs
  PROVE  HubLineOK(x)' /\ \A d \in Docs : HubRxOK(x, d)'
  <1>1. UNCHANGED <<hubRoom, hubLog, hubSent>>
    BY DEF hubRooms
  <1>2. HubLineOK(x)' /\ HubOnLine(x)' = HubOnLine(x)
    BY <1>1, HubLineKept
  <1>3. \A d \in Docs : HubRxOK(x, d)'
    BY <1>1, <1>2, HubRxKept
  <1>4. QED
    BY <1>2, <1>3

\* A receiver that is none promises nothing.
LEMMA HubSilentRx ==
  ASSUME NEW c \in Conns, NEW d \in Docs, hubRx'[c][d].ch = 0, hubRx'[c][d].pos >= 1, hubRx'[c][d].from >= 1
  PROVE  HubRxOK(c, d)'
  BY DEF HubRxOK

\* A message is written to the socket.
LEMMA HubDeliverStep ==
  ASSUME HubInv, NEW c \in Conns, HubDeliver(c)
  PROVE  HubInv'
  <1>0. HubTypeOK /\ HubStates /\ HubLineOK(c)
    BY DEF HubInv
  <1>1. /\ UNCHANGED <<hubRooms, hubSubs, hubConn, hubTask, hubRx, hubAsked>> /\ hubOut[c] # << >>
        /\ hubOut' = [hubOut EXCEPT ![c] = Tail(hubOut[c])]
        /\ hubGot' = [hubGot EXCEPT ![c] = Append(hubGot[c], Head(hubOut[c]))]
    BY DEF HubDeliver
  <1>2. PICK got \in Seq(HubMessages) : got = hubGot[c]
    BY <1>0, HubTypes
  <1>3. PICK out \in Seq(HubMessages) : out = hubOut[c]
    BY <1>0, HubTypes
  <1>4. /\ HubAscends(Append(got, Head(out))) /\ HubAscends(Tail(out)) /\ HubAhead(Append(got, Head(out)), Tail(out))
        /\ Append(got, Head(out)) \in Seq(HubMessages) /\ Tail(out) \in Seq(HubMessages)
        /\ ToSet(Append(got, Head(out))) \cup ToSet(Tail(out)) = ToSet(got) \cup ToSet(out)
    <2>1. HubAscends(got) /\ HubAscends(out) /\ HubAhead(got, out) /\ out # << >>
      BY <1>0, <1>1, <1>2, <1>3 DEF HubLineOK
    <2>2. QED
      BY <2>1, AscendsMoved
  <1>5. /\ hubOut'[c] = Tail(out) /\ hubGot'[c] = Append(got, Head(out))
        /\ hubOut' \in [Conns -> Seq(HubMessages)] /\ hubGot' \in [Conns -> Seq(HubMessages)]
        /\ \A x \in Conns \ {c} : hubOut'[x] = hubOut[x] /\ hubGot'[x] = hubGot[x]
    BY <1>0, <1>1, <1>2, <1>3, <1>4, HubTypes
  <1>6. HubTypeOK'
    BY <1>0, <1>1, <1>5, HubTypes DEF hubRooms, HubTypeOK, HubSubsOK, HubConnStates, HubTaskStates, HubRxs
  <1>7. HubStates'
    BY <1>0, <1>1 DEF HubStates
  <1>8. HubOnLine(c)' = HubOnLine(c)
    BY <1>1, <1>2, <1>3, <1>4, <1>5 DEF HubOnLine
  <1>9. HubLineOK(c)'
    <2>1. hubTask'[c].received = hubTask[c].received /\ hubSent' = hubSent
      BY <1>1 DEF hubRooms
    <2>2. /\ HubAscends(hubTask[c].received) /\ HubAhead(got, hubTask[c].received)
          /\ HubAhead(out, hubTask[c].received) /\ \A m \in HubOnLine(c) : m.n <= hubSent
      BY <1>0, <1>2, <1>3 DEF HubLineOK
    <2>3. HubAhead(Append(got, Head(out)), hubTask[c].received) /\ HubAhead(Tail(out), hubTask[c].received)
      BY <1>4, <2>2 DEF HubAhead
    <2>4. QED
      BY <1>4, <1>5, <1>8, <2>1, <2>2, <2>3 DEF HubLineOK
  <1>10. \A d \in Docs : HubRxOK(c, d)'
    BY <1>1, <1>8, HubRxKept DEF hubRooms
  <1>11. \A x \in Conns \ {c} : HubLineOK(x)' /\ \A d \in Docs : HubRxOK(x, d)'
    BY <1>1, <1>5, <1>6, HubOthersKept
  <1>12. \A d \in Docs : HubRoomOK(d)'
    BY <1>1 DEF HubInv, HubRoomOK, hubRooms
  <1>13. QED
    BY <1>6, <1>7, <1>9, <1>10, <1>11, <1>12 DEF HubInv

-----------------------------------------------------------------------------
\* Where a connection stands after pruning a room, and what is left in its queue.
LEMMA HubPrunedEffect ==
  ASSUME HubTypeOK, NEW c \in Conns, NEW left \in SUBSET Docs, HubPruned(c, left)
  PROVE  /\ hubConn' \in [Conns -> HubConnStates] /\ hubOut' \in [Conns -> Seq(HubMessages)]
         /\ \A x \in Conns \ {c} : hubConn'[x] = hubConn[x] /\ hubOut'[x] = hubOut[x]
         /\ hubConn[c].at = "prune" => hubConn'[c].at \in {"select", "prune"} /\ hubOut'[c] = hubOut[c]
         /\ hubConn[c].at # "prune" => hubConn'[c].at \in {"closing", "gone"} /\ hubOut'[c] \in {<< >>, hubOut[c]}
  <1>1. PICK k \in HubConnStates :
          /\ hubConn' = [hubConn EXCEPT ![c] = k]
          /\ hubConn[c].at = "prune" => k.at \in {"select", "prune"}
          /\ hubConn[c].at # "prune" => k.at \in {"closing", "gone"}
    <2>1. PICK b \in {"select", "prune", "closing", "gone"} :
            /\ hubConn' = [hubConn EXCEPT ![c] = [at |-> b, left |-> left]]
            /\ hubConn[c].at = "prune" => b \in {"select", "prune"}
            /\ hubConn[c].at # "prune" => b \in {"closing", "gone"}
      BY DEF HubPruned
    <2>2. [at |-> b, left |-> left] \in HubConnStates
      BY DEF HubConnStates
    <2>3. QED
      BY <2>1, <2>2
  <1>2. PICK out \in Seq(HubMessages) :
          /\ hubOut' = [hubOut EXCEPT ![c] = out]
          /\ hubConn[c].at = "prune" => out = hubOut[c]
          /\ out \in {<< >>, hubOut[c]}
    <2>1. hubOut[c] \in Seq(HubMessages) /\ << >> \in Seq(HubMessages)
      BY HubTypes
    <2>2. QED
      BY <2>1 DEF HubPruned
  <1>3. QED
    BY <1>1, <1>2, HubTypes

\* A connection that is no longer open may lose its queue.
LEMMA HubQueueDropped ==
  ASSUME HubInv, NEW c \in Conns, hubGot'[c] = hubGot[c], hubOut'[c] \in {<< >>, hubOut[c]},
         hubTask'[c].received = hubTask[c].received, hubSent' = hubSent
  PROVE  HubLineOK(c)' /\ HubOnLine(c)' \subseteq HubOnLine(c)
  <1>1. ToSet(<< >>) = {} /\ HubAscends(<< >>)
    BY DEF ToSet, HubAscends
  <1>2. HubOnLine(c)' \subseteq HubOnLine(c) /\ ToSet(hubOut'[c]) \subseteq ToSet(hubOut[c])
    BY <1>1 DEF HubOnLine
  <1>3. HubLineOK(c)
    BY DEF HubInv
  <1>4. QED
    BY <1>1, <1>2, <1>3 DEF HubLineOK, HubAhead

\* A receiver whose connection has left need account for nothing it went past.
LEMMA HubRxOfClosed ==
  ASSUME HubInv, NEW c \in Conns, NEW d \in Docs, hubRx'[c][d] = hubRx[c][d], hubLog'[d] = hubLog[d],
         hubRoom'[d] = hubRoom[d], HubOnLine(c)' \subseteq HubOnLine(c), (c \notin DOMAIN hubSubs)'
  PROVE  HubRxOK(c, d)'
  <1>1. HubRxOK(c, d)
    BY DEF HubInv
  <1>2. QED
    BY <1>1 DEF HubRxOK

\* The connection's loop ends.
LEMMA HubLeaveStep ==
  ASSUME HubInv, NEW c \in Conns, HubLeave(c)
  PROVE  HubInv'
  <1>0. HubTypeOK /\ HubStates /\ hubConn[c].at \in {"select", "cleanup"} /\ c \in DOMAIN hubSubs
    BY DEF HubInv, HubLeave, HubStates
  <1>1. /\ UNCHANGED <<hubRooms, hubTask, hubRx, hubGot, hubAsked>> /\ HubPruned(c, hubSubs[c])
        /\ hubSubs' = [x \in DOMAIN hubSubs \ {c} |-> hubSubs[x]]
    BY DEF HubLeave
  <1>2. /\ DOMAIN hubSubs \subseteq Conns /\ \A x \in DOMAIN hubSubs : hubSubs[x] \subseteq Docs
    BY <1>0, HubTypes, HubSubsFacts
  <1>3. /\ DOMAIN hubSubs' = DOMAIN hubSubs \ {c} /\ hubSubs' = [x \in DOMAIN hubSubs' |-> hubSubs'[x]]
        /\ \A x \in DOMAIN hubSubs' : hubSubs'[x] \subseteq Docs
    BY <1>1, <1>2
  <1>4. HubSubsOK(hubSubs')
    BY <1>2, <1>3, HubSubsFacts
  <1>5. /\ hubConn' \in [Conns -> HubConnStates] /\ hubOut' \in [Conns -> Seq(HubMessages)]
        /\ \A x \in Conns \ {c} : hubConn'[x] = hubConn[x] /\ hubOut'[x] = hubOut[x]
        /\ hubConn'[c].at \in {"closing", "gone"} /\ hubOut'[c] \in {<< >>, hubOut[c]}
    BY <1>0, <1>1, <1>2, HubPrunedEffect
  <1>6. HubTypeOK'
    BY <1>0, <1>1, <1>4, <1>5, HubTypes DEF hubRooms, HubTypeOK, HubSubsOK, HubConnStates, HubTaskStates, HubRxs
  <1>7. HubStates'
    BY <1>0, <1>1, <1>3, <1>5 DEF HubStates
  <1>8. HubLineOK(c)' /\ HubOnLine(c)' \subseteq HubOnLine(c)
    BY <1>1, <1>5, HubQueueDropped DEF hubRooms
  <1>9. \A d \in Docs : HubRxOK(c, d)'
    BY <1>1, <1>3, <1>8, HubRxOfClosed DEF hubRooms
  <1>10. \A x \in Conns \ {c} : HubLineOK(x)' /\ \A d \in Docs : HubRxOK(x, d)'
    BY <1>1, <1>3, <1>5, <1>6, HubOthersKept
  <1>11. \A d \in Docs : HubRoomOK(d)'
    BY <1>1 DEF HubInv, HubRoomOK, hubRooms
  <1>12. QED
    BY <1>6, <1>7, <1>8, <1>9, <1>10, <1>11 DEF HubInv

\* remove_room_if_empty: nobody listened to the room it removes.
LEMMA HubPruneStep ==
  ASSUME HubInv, NEW c \in Conns, HubPrune(c)
  PROVE  HubInv'
  <1>0. HubTypeOK /\ HubStates /\ hubConn[c].at \in {"prune", "closing"}
    BY DEF HubInv, HubPrune
  <1>1. PICK d \in hubConn[c].left :
          /\ HubPruned(c, hubConn[c].left \ {d})
          /\ \/ /\ hubRoom[d] # 0 /\ HubEmpty(d)
                /\ hubRoom' = [hubRoom EXCEPT ![d] = 0] /\ hubLog' = [hubLog EXCEPT ![d] = << >>]
             \/ UNCHANGED <<hubRoom, hubLog>>
    BY DEF HubPrune
  <1>2. UNCHANGED <<hubMade, hubSent, hubSubs, hubTask, hubRx, hubGot, hubAsked>>
    BY DEF HubPrune
  <1>3. hubConn[c].left \in SUBSET Docs /\ d \in Docs
    BY <1>0, <1>1 DEF HubTypeOK
  <1>4. /\ hubConn' \in [Conns -> HubConnStates] /\ hubOut' \in [Conns -> Seq(HubMessages)]
        /\ \A x \in Conns \ {c} : hubConn'[x] = hubConn[x] /\ hubOut'[x] = hubOut[x]
        /\ hubConn[c].at = "prune" => hubConn'[c].at \in {"select", "prune"} /\ hubOut'[c] = hubOut[c]
        /\ hubConn[c].at # "prune" => hubConn'[c].at \in {"closing", "gone"} /\ hubOut'[c] \in {<< >>, hubOut[c]}
    BY <1>0, <1>1, <1>3, HubPrunedEffect
  <1>5. /\ hubRoom' \in [Docs -> Nat] /\ hubLog' \in [Docs -> Seq(Nat)]
        /\ \A e \in Docs : \/ hubRoom'[e] = hubRoom[e] /\ hubLog'[e] = hubLog[e]
                           \/ /\ hubRoom'[e] = 0 /\ hubLog'[e] = << >>
                              /\ \A x \in Conns : hubRx[x][e].ch = 0
    <2>1. hubRoom \in [Docs -> Nat] /\ hubLog \in [Docs -> Seq(Nat)] /\ << >> \in Seq(Nat)
      BY <1>0 DEF HubTypeOK
    <2>2. HubEmpty(d) /\ hubRoom[d] # 0 => \A x \in Conns : hubRx[x][d].ch = 0
      BY <1>3 DEF HubEmpty, HubListeners, HubInv, HubRxOK
    <2>3. CASE UNCHANGED <<hubRoom, hubLog>>
      BY <2>1, <2>3
    <2>4. CASE /\ hubRoom[d] # 0 /\ HubEmpty(d)
               /\ hubRoom' = [hubRoom EXCEPT ![d] = 0] /\ hubLog' = [hubLog EXCEPT ![d] = << >>]
      <3>1. /\ hubRoom' \in [Docs -> Nat] /\ hubRoom'[d] = 0
            /\ \A e \in Docs : e # d => hubRoom'[e] = hubRoom[e]
        BY <1>3, <2>1, <2>4
      <3>2. /\ hubLog' \in [Docs -> Seq(Nat)] /\ hubLog'[d] = << >>
            /\ \A e \in Docs : e # d => hubLog'[e] = hubLog[e]
        BY <1>3, <2>1, <2>4, Zenon
      <3>3. QED
        BY <2>2, <2>4, <3>1, <3>2
    <2>5. QED
      BY <1>1, <2>3, <2>4
  <1>6. HubTypeOK'
    BY <1>0, <1>2, <1>4, <1>5, HubTypes DEF HubTypeOK, HubSubsOK, HubConnStates, HubTaskStates, HubRxs
  <1>7. HubStates'
    BY <1>0, <1>2, <1>4 DEF HubStates
  <1>8. \A e \in Docs : HubRoomOK(e)'
    BY <1>2, <1>5 DEF HubInv, HubRoomOK
  <1>9. \A x \in Conns : HubLineOK(x)' /\ HubOnLine(x)' \subseteq HubOnLine(x)
    <2> TAKE x \in Conns
    <2>1. hubOut'[x] \in {<< >>, hubOut[x]}
      BY <1>0, <1>4
    <2>2. QED
      BY <1>2, <2>1, HubQueueDropped
  <1>10. ASSUME NEW x \in Conns, x # c \/ hubConn[c].at = "prune"
         PROVE  HubOnLine(x)' = HubOnLine(x)
    BY <1>2, <1>4, <1>10 DEF HubOnLine
  <1>11. ASSUME NEW x \in Conns, NEW e \in Docs
         PROVE  HubRxOK(x, e)'
    <2>1. CASE hubRx[x][e].ch = 0
      BY <1>2, <2>1, HubSilentRx DEF HubInv, HubRxOK
    <2>2. CASE hubRx[x][e].ch # 0 /\ (x # c \/ hubConn[c].at = "prune")
      BY <1>2, <1>5, <1>10, <2>2, HubRxKept
    <2>3. CASE hubRx[x][e].ch # 0 /\ x = c /\ hubConn[c].at = "closing"
      <3>1. (c \notin DOMAIN hubSubs)'
        BY <1>0, <1>2, <2>3 DEF HubStates
      <3>2. hubRoom'[e] = hubRoom[e] /\ hubLog'[e] = hubLog[e]
        BY <1>5, <2>3
      <3>3. QED
        BY <1>2, <1>9, <2>3, <3>1, <3>2, HubRxOfClosed
    <2>4. QED
      BY <1>0, <2>1, <2>2, <2>3
  <1>12. QED
    BY <1>6, <1>7, <1>8, <1>9, <1>11 DEF HubInv

-----------------------------------------------------------------------------
\* A message is sent to a room that has listeners.
LEMMA HubBroadcastStep ==
  ASSUME HubInv, NEW d \in Docs, HubBroadcast(d)
  PROVE  HubInv'
  <1>0. HubTypeOK /\ HubStates /\ hubSent \in Nat /\ HubRoomOK(d)
    BY DEF HubInv, HubTypeOK
  <1>1. /\ UNCHANGED <<hubRoom, hubMade, hubSubs, hubConn, hubTask, hubRx, hubOut, hubGot, hubAsked>>
        /\ hubSent' = hubSent + 1 /\ hubLog' = [hubLog EXCEPT ![d] = Append(hubLog[d], hubSent + 1)]
        /\ hubRoom[d] # 0
    BY DEF HubBroadcast, HubListeners
  <1>2. PICK log \in Seq(Nat) : log = hubLog[d]
    BY <1>0 DEF HubTypeOK
  <1>3. PICK n \in Nat : n = Len(log)
    BY <1>2
  <1>4. hubSent + 1 \in Nat /\ Append(log, hubSent + 1) \in Seq(Nat)
    BY <1>0, <1>2
  <1>5. /\ hubLog' \in [Docs -> Seq(Nat)] /\ hubLog'[d] = Append(log, hubSent + 1)
        /\ \A e \in Docs : e # d => hubLog'[e] = hubLog[e]
    BY <1>0, <1>1, <1>2, <1>4, Zenon DEF HubTypeOK
  <1>6. /\ DOMAIN log = 1 .. n /\ DOMAIN hubLog'[d] = 1 .. n + 1 /\ Len(hubLog'[d]) = n + 1
        /\ \A i \in 1 .. n : hubLog'[d][i] = log[i] /\ log[i] \in Nat
        /\ hubLog'[d][n + 1] = hubSent + 1
    <2>1. PICK s \in Nat : s = hubSent + 1
      BY <1>4
    <2>2. PICK longer : longer = Append(log, s)
      OBVIOUS
    <2>3. /\ DOMAIN log = 1 .. n /\ DOMAIN longer = 1 .. n + 1 /\ Len(longer) = n + 1
          /\ \A i \in 1 .. n : longer[i] = log[i] /\ log[i] \in Nat
          /\ longer[n + 1] = s
      BY <1>3, <2>2
    <2>4. longer = hubLog'[d]
      BY <1>5, <2>1, <2>2
    <2>5. QED
      BY <2>1, <2>3, <2>4, Zenon
  <1>7. HubTypeOK'
    BY <1>0, <1>1, <1>4, <1>5, HubTypes DEF HubTypeOK, HubSubsOK, HubConnStates, HubTaskStates, HubRxs
  <1>8. HubStates'
    BY <1>0, <1>1 DEF HubStates
  <1>9. \A c \in Conns : HubLineOK(c)' /\ HubOnLine(c)' = HubOnLine(c)
    BY <1>1, <1>7, HubLineKept
  <1>10. ASSUME NEW e \in Docs
         PROVE  HubRoomOK(e)'
    <2>1. CASE e # d
      <3>1. HubRoomOK(e) /\ hubLog'[e] = hubLog[e] /\ hubRoom' = hubRoom
        BY <1>1, <1>5, <2>1 DEF HubInv
      <3>2. \A i \in DOMAIN hubLog[e] : hubLog[e][i] \in Nat
        BY <1>0 DEF HubTypeOK
      <3>3. \A i \in DOMAIN hubLog[e] : hubLog[e][i] <= hubSent + 1
        BY <1>0, <3>1, <3>2 DEF HubRoomOK
      <3>4. QED
        BY <1>1, <3>1, <3>3, Zenon DEF HubRoomOK
    <2>2. CASE e = d
      <3>1. /\ \A i, j \in 1 .. n : i < j => log[i] < log[j]
            /\ \A i \in 1 .. n : log[i] <= hubSent
        BY <1>0, <1>2, <1>6 DEF HubRoomOK
      <3>2. \A i \in 1 .. n + 1 : i \in 1 .. n \/ i = n + 1
        OBVIOUS
      <3>3. ASSUME NEW i \in 1 .. n + 1
            PROVE  hubLog'[d][i] <= hubSent + 1
        <4>1. hubSent \in Nat
          BY <1>0 DEF HubTypeOK
        <4>2. CASE i = n + 1
          BY <1>6, <4>1, <4>2
        <4>3. CASE i \in 1 .. n
          <5>1. PICK x \in Nat : x = hubLog'[d][i] /\ x = log[i]
            BY <1>6, <4>3
          <5>2. x <= hubSent
            BY <3>1, <4>3, <5>1
          <5>. QED  BY <4>1, <5>1, <5>2
        <4>4. QED
          BY <3>2, <4>2, <4>3
      <3>4. ASSUME NEW i \in 1 .. n + 1, NEW j \in 1 .. n + 1, i < j
            PROVE  hubLog'[d][i] < hubLog'[d][j]
        <4>1. i \in 1 .. n
          BY <3>4
        <4>2. CASE j = n + 1
          BY <1>0, <1>6, <3>1, <4>1, <4>2
        <4>3. CASE j \in 1 .. n
          BY <1>6, <3>1, <3>4, <4>1, <4>3
        <4>4. QED
          BY <3>2, <4>2, <4>3
      <3>5. QED
        BY <1>1, <1>6, <2>2, <3>3, <3>4 DEF HubRoomOK
    <2>3. QED
      BY <2>1, <2>2
  <1>11. ASSUME NEW c \in Conns, NEW e \in Docs
         PROVE  HubRxOK(c, e)'
    <2>1. CASE e # d
      BY <1>1, <1>5, <1>9, <2>1, HubRxKept
    <2>2. CASE hubRx[c][e].ch = 0
      BY <1>1, <2>2, HubSilentRx DEF HubInv, HubRxOK
    <2>3. CASE e = d /\ hubRx[c][d].ch # 0
      <3>1. PICK rx \in HubRxs : rx = hubRx[c][d]
        BY <1>0, HubTypes
      <3>2. rx.pos \in Nat /\ rx.from \in Nat
        BY <3>1 DEF HubRxs
      <3>3. /\ rx.pos >= 1 /\ rx.from >= 1 /\ rx.ch = hubRoom[d] /\ rx.pos <= n + 1
            /\ \A m \in HubOnLine(c), k \in rx.pos .. n : m.doc = d => m.n < log[k]
            /\ c \in DOMAIN hubSubs =>
                 \A k \in rx.from .. rx.pos - 1 :
                   k \in rx.lost \/ \E m \in HubOnLine(c) : m.doc = d /\ m.n = log[k]
        BY <1>2, <1>3, <2>3, <3>1 DEF HubInv, HubRxOK
      <3>4. \A m \in HubOnLine(c) : m.n \in Nat /\ m.n <= hubSent
        <4>1. hubGot[c] \in Seq(HubMessages) /\ hubOut[c] \in Seq(HubMessages) /\ hubTask[c].received \in Seq(HubMessages)
          BY <1>0, HubTypes DEF HubTaskStates
        <4>2. \A m \in HubOnLine(c) : m \in HubMessages
          BY <4>1 DEF HubOnLine, ToSet
        <4>3. QED
          BY <4>2 DEF HubMessages, HubInv, HubLineOK
      <3>5. ASSUME NEW m \in HubOnLine(c), NEW k \in rx.pos .. n + 1, m.doc = d
            PROVE  m.n < hubLog'[d][k]
        <4>1. CASE k = n + 1
          BY <1>0, <1>6, <3>4, <4>1
        <4>2. CASE k # n + 1
          <5>1. k \in rx.pos .. n /\ k \in 1 .. n
            BY <3>2, <3>3, <4>2
          <5>2. QED
            BY <1>6, <3>3, <3>5, <5>1
        <4>3. QED
          BY <4>1, <4>2
      <3>6. \A k \in rx.from .. rx.pos - 1 : k \in 1 .. n /\ hubLog'[d][k] = log[k]
        BY <1>6, <3>2, <3>3
      <3>7. rx.pos <= Len(hubLog'[d]) + 1 /\ Len(hubLog'[d]) = n + 1
        BY <1>6, <3>2, <3>3
      <3>8. hubRx' = hubRx /\ hubRoom' = hubRoom /\ hubSubs' = hubSubs
        BY <1>1
      <3>9. QED
        BY <1>9, <2>3, <3>1, <3>3, <3>5, <3>6, <3>7, <3>8 DEF HubRxOK
    <2>4. QED
      BY <2>1, <2>2, <2>3
  <1>12. QED
    BY <1>7, <1>8, <1>9, <1>10, <1>11 DEF HubInv

-----------------------------------------------------------------------------
\* The task reads the subscriptions.
LEMMA HubLookStep ==
  ASSUME HubInv, NEW c \in Conns, HubLook(c)
  PROVE  HubInv'
  <1>0. HubTypeOK /\ HubStates /\ hubTask[c].at = "receive" /\ hubTask[c].received = << >> /\ hubTask \in [Conns -> HubTaskStates]
    BY HubTypes DEF HubInv, HubLook
  <1>1. PICK seen : seen = HubSubsOf(c)
    OBVIOUS
  <1>2. seen \subseteq Docs
    BY <1>0, <1>1, HubTypes, HubSubsFacts DEF HubSubsOf
  <1>3. /\ UNCHANGED <<hubRooms, hubSubs, hubConn, hubGot, hubAsked, hubRx, hubOut>>
        /\ hubTask' = [hubTask EXCEPT ![c] = [at |-> "listen", seen |-> seen, todo |-> seen, received |-> << >>]]
    BY <1>1 DEF HubLook, HubToTask
  <1>4. [at |-> "listen", seen |-> seen, todo |-> seen, received |-> << >>] \in HubTaskStates
    BY <1>2 DEF HubTaskStates
  <1>5. hubTask' \in [Conns -> HubTaskStates]
    BY <1>0, <1>3, <1>4
  <1>6. /\ hubTask'[c].at = "listen" /\ hubTask'[c].received = << >>
        /\ \A x \in Conns \ {c} : hubTask'[x] = hubTask[x]
    BY <1>0, <1>3
  <1>7. HubTypeOK'
    BY <1>0, <1>3, <1>5 DEF HubTypeOK, hubRooms, HubTaskStates
  <1>8. HubStates'
    BY <1>0, <1>3, <1>6 DEF HubStates
  <1>9. \A x \in Conns : hubTask'[x].received = hubTask[x].received
    BY <1>0, <1>6
  <1>10. QED
    BY <1>3, <1>7, <1>8, <1>9, HubQuietStep DEF hubRooms

\* A receiver is made where there is a room and none yet, at the end of its messages.
LEMMA HubListenStep ==
  ASSUME HubInv, NEW c \in Conns, HubListen(c)
  PROVE  HubInv'
  <1>0. HubTypeOK /\ HubStates /\ hubTask[c].at = "listen" /\ hubTask \in [Conns -> HubTaskStates]
        /\ hubTask[c].received = << >> /\ hubRx \in [Conns -> [Docs -> HubRxs]]
    BY HubTypes DEF HubInv, HubListen, HubStates
  <1>1. PICK d \in hubTask[c].todo :
          /\ hubTask' = [hubTask EXCEPT ![c] = [hubTask[c] EXCEPT !.todo = @ \ {d}]]
          /\ hubRx' = [hubRx EXCEPT ![c][d] =
                         IF hubRx[c][d].ch = 0 /\ hubRoom[d] # 0
                           THEN [ch |-> hubRoom[d], from |-> Len(hubLog[d]) + 1,
                                 pos |-> Len(hubLog[d]) + 1, lost |-> {}]
                           ELSE hubRx[c][d]]
    BY DEF HubListen, HubToTask
  <1>2. UNCHANGED <<hubRooms, hubSubs, hubConn, hubGot, hubAsked, hubOut>>
    BY DEF HubListen, HubToTask
  <1>3. d \in Docs /\ [hubTask[c] EXCEPT !.todo = @ \ {d}] \in HubTaskStates
    BY <1>0, <1>1 DEF HubTaskStates
  <1>4. /\ hubTask' \in [Conns -> HubTaskStates] /\ hubTask'[c].at = "listen" /\ hubTask'[c].received = hubTask[c].received
        /\ \A x \in Conns \ {c} : hubTask'[x] = hubTask[x]
    BY <1>0, <1>1, <1>3 DEF HubTaskStates
  <1>5. PICK n \in Nat : n = Len(hubLog[d])
    <2>1. PICK log \in Seq(Nat) : log = hubLog[d]
      BY <1>0, <1>3 DEF HubTypeOK
    <2>2. QED
      BY <2>1
  <1>6. PICK rx \in HubRxs : /\ hubRx' = [hubRx EXCEPT ![c][d] = rx]
                            /\ \/ rx = hubRx[c][d]
                               \/ rx = [ch |-> hubRoom[d], from |-> n + 1, pos |-> n + 1, lost |-> {}]
    <2>1. hubRx[c][d] \in HubRxs
      BY <1>0, <1>3
    <2>2. hubRoom[d] \in Nat /\ n + 1 \in Nat
      BY <1>0, <1>3 DEF HubTypeOK
    <2>3. [ch |-> hubRoom[d], from |-> n + 1, pos |-> n + 1, lost |-> {}] \in HubRxs
      BY <2>2 DEF HubRxs
    <2>4. QED
      BY <1>1, <1>5, <2>1, <2>3
  <1>7. /\ hubRx' \in [Conns -> [Docs -> HubRxs]] /\ hubRx'[c][d] = rx
        /\ \A e \in Docs \ {d} : hubRx'[c][e] = hubRx[c][e]
        /\ \A x \in Conns \ {c} : hubRx'[x] = hubRx[x]
    BY <1>0, <1>3, <1>6
  <1>8. HubTypeOK'
    BY <1>0, <1>2, <1>4, <1>7, HubTypes DEF hubRooms, HubTypeOK, HubSubsOK, HubConnStates, HubTaskStates, HubRxs
  <1>9. HubStates'
    BY <1>0, <1>2, <1>4, <1>7 DEF HubStates
  <1>10. HubLineOK(c)' /\ HubOnLine(c)' = HubOnLine(c)
    BY <1>2, <1>4, <1>8, HubLineKept DEF hubRooms
  <1>11. ASSUME NEW e \in Docs PROVE HubRxOK(c, e)'
    <2>1. CASE hubRx'[c][e] = hubRx[c][e]
      BY <1>2, <1>10, <2>1, HubRxKept DEF hubRooms
    <2>2. CASE e = d /\ rx = [ch |-> hubRoom[d], from |-> n + 1, pos |-> n + 1, lost |-> {}]
      <3>1. /\ hubRx'[c][d] = rx /\ rx.ch = hubRoom'[d] /\ rx.from = n + 1 /\ rx.pos = n + 1
            /\ Len(hubLog'[d]) = n
        BY <1>2, <1>5, <1>7, <2>2 DEF hubRooms
      <3>2. n + 1 >= 1 /\ n + 1 <= n + 1 /\ (n + 1) .. n = {} /\ (n + 1) .. (n + 1) - 1 = {}
        OBVIOUS
      <3>3. QED
        BY <2>2, <3>1, <3>2 DEF HubRxOK
    <2>3. QED
      BY <1>6, <1>7, <2>1, <2>2
  <1>12. \A x \in Conns \ {c} : HubLineOK(x)' /\ \A e \in Docs : HubRxOK(x, e)'
    BY <1>2, <1>4, <1>7, <1>8, HubOthersKept
  <1>13. \A e \in Docs : HubRoomOK(e)'
    BY <1>2 DEF HubInv, HubRoomOK, hubRooms
  <1>14. QED
    BY <1>8, <1>9, <1>10, <1>11, <1>12, <1>13 DEF HubInv

\* Receivers are dropped, the others stay where they are.
LEMMA HubRetainStep ==
  ASSUME HubInv, NEW c \in Conns, HubRetain(c)
  PROVE  HubInv'
  <1>0. HubTypeOK /\ HubStates /\ hubTask[c].at = "listen" /\ hubTask \in [Conns -> HubTaskStates]
        /\ hubTask[c].received = << >> /\ hubRx \in [Conns -> [Docs -> HubRxs]]
    BY HubTypes DEF HubInv, HubRetain, HubStates
  <1>1. PICK left : left = {d \in hubTask[c].seen : hubRx[c][d].ch # 0}
    OBVIOUS
  <1>2. /\ UNCHANGED <<hubRooms, hubSubs, hubConn, hubGot, hubAsked, hubOut>>
        /\ hubTask' = [hubTask EXCEPT ![c] = [at |-> "receive", seen |-> {}, todo |-> left, received |-> << >>]]
        /\ hubRx' = [hubRx EXCEPT ![c] = [d \in Docs |-> IF d \in hubTask[c].seen THEN hubRx[c][d] ELSE HubNoRx]]
    BY <1>1 DEF HubRetain, HubToTask
  <1>3. left \subseteq Docs
    BY <1>0, <1>1 DEF HubTaskStates
  <1>4. [at |-> "receive", seen |-> {}, todo |-> left, received |-> << >>] \in HubTaskStates
    BY <1>3 DEF HubTaskStates
  <1>5. /\ hubTask' \in [Conns -> HubTaskStates] /\ hubTask'[c].at = "receive" /\ hubTask'[c].received = hubTask[c].received
        /\ \A x \in Conns \ {c} : hubTask'[x] = hubTask[x]
    BY <1>0, <1>2, <1>4
  <1>6. HubNoRx \in HubRxs
    BY DEF HubNoRx, HubRxs
  <1>7. /\ hubRx' \in [Conns -> [Docs -> HubRxs]]
        /\ \A d \in Docs : hubRx'[c][d] = hubRx[c][d] \/ hubRx'[c][d] = HubNoRx
        /\ \A x \in Conns \ {c} : hubRx'[x] = hubRx[x]
    BY <1>0, <1>2, <1>6
  <1>8. HubTypeOK'
    BY <1>0, <1>2, <1>5, <1>7, HubTypes DEF hubRooms, HubTypeOK, HubSubsOK, HubConnStates, HubTaskStates, HubRxs
  <1>9. HubStates'
    BY <1>0, <1>2, <1>5, <1>7 DEF HubStates
  <1>10. HubLineOK(c)' /\ HubOnLine(c)' = HubOnLine(c)
    BY <1>2, <1>5, <1>8, HubLineKept DEF hubRooms
  <1>11. ASSUME NEW d \in Docs PROVE HubRxOK(c, d)'
    <2>1. CASE hubRx'[c][d] = hubRx[c][d]
      BY <1>2, <1>10, <2>1, HubRxKept DEF hubRooms
    <2>2. CASE hubRx'[c][d] = HubNoRx
      BY <2>2, HubSilentRx DEF HubNoRx
    <2>3. QED
      BY <1>7, <2>1, <2>2
  <1>12. \A x \in Conns \ {c} : HubLineOK(x)' /\ \A d \in Docs : HubRxOK(x, d)'
    BY <1>2, <1>5, <1>7, <1>8, HubOthersKept
  <1>13. \A d \in Docs : HubRoomOK(d)'
    BY <1>2 DEF HubInv, HubRoomOK, hubRooms
  <1>14. QED
    BY <1>8, <1>9, <1>10, <1>11, <1>12, <1>13 DEF HubInv

-----------------------------------------------------------------------------
\* What try_recv does to the task and to the receiver it looks at.
LEMMA HubReceiveEffect ==
  ASSUME HubInv, NEW c \in Conns, HubReceive(c)
  PROVE  \E d \in Docs, after \in HubTaskStates, rx \in HubRxs :
           LET old == hubRx[c][d] IN
           /\ after.at = "receive"
           /\ hubTask' = [hubTask EXCEPT ![c] = after] /\ hubRx' = [hubRx EXCEPT ![c][d] = rx]
           /\ \/ rx = old /\ after.received = hubTask[c].received
              \/ /\ old.ch = hubRoom[d] /\ old.pos <= Len(hubLog[d]) /\ old.pos < HubOldest(d)
                 /\ rx = [ch |-> old.ch, from |-> old.from, pos |-> HubOldest(d),
                          lost |-> old.lost \cup old.pos .. HubOldest(d) - 1]
                 /\ after.received = hubTask[c].received
              \/ /\ old.ch = hubRoom[d] /\ old.pos \in 1 .. Len(hubLog[d])
                 /\ rx = [ch |-> old.ch, from |-> old.from, pos |-> old.pos + 1, lost |-> old.lost]
                 /\ after.received = Append(hubTask[c].received, [doc |-> d, n |-> hubLog[d][old.pos]])
  <1>0. HubTypeOK /\ hubTask[c].at = "receive" /\ hubTask[c] \in HubTaskStates /\ hubRx \in [Conns -> [Docs -> HubRxs]]
    BY HubTypes DEF HubInv, HubReceive
  <1>1. PICK d \in hubTask[c].todo :
          LET rx   == hubRx[c][d]
              live == rx.ch = hubRoom[d]
              rest == [hubTask[c] EXCEPT !.todo = @ \ {d}]
          IN  \/ /\ ~live \/ rx.pos > Len(hubLog[d])
                 /\ HubToTask(c, rest)
                 /\ UNCHANGED hubRx
              \/ /\ live /\ rx.pos <= Len(hubLog[d]) /\ rx.pos < HubOldest(d)
                 /\ HubToTask(c, rest)
                 /\ hubRx' = [hubRx EXCEPT ![c][d] = [ch |-> rx.ch, from |-> rx.from, pos |-> HubOldest(d),
                                                      lost |-> rx.lost \cup rx.pos .. HubOldest(d) - 1]]
              \/ /\ live /\ rx.pos \in HubOldest(d) .. Len(hubLog[d])
                 /\ HubToTask(c, [rest EXCEPT !.received = Append(@, [doc |-> d, n |-> hubLog[d][rx.pos]])])
                 /\ hubRx' = [hubRx EXCEPT ![c][d].pos = @ + 1]
    BY DEF HubReceive
  <1>2. d \in Docs
    BY <1>0, <1>1 DEF HubTaskStates
  <1>3. PICK old \in HubRxs : old = hubRx[c][d]
    BY <1>0, <1>2
  <1>4. PICK log \in Seq(Nat) : log = hubLog[d]
    BY <1>0, <1>2 DEF HubTypeOK
  <1>5. PICK n \in Nat : n = Len(log)
    BY <1>4
  <1>6. PICK o \in Nat : o = HubOldest(d) /\ o >= 1
    <2>1. PICK keeps \in Nat : keeps = HubRoomKeeps
      BY HubConstants
    <2>2. HubOldest(d) = IF n <= keeps THEN 1 ELSE n - keeps + 1
      BY <1>4, <1>5, <2>1 DEF HubOldest
    <2>3. PICK o : o = IF n <= keeps THEN 1 ELSE n - keeps + 1
      OBVIOUS
    <2>4. o \in Nat /\ o >= 1
      BY <2>3
    <2>5. QED
      BY <2>2, <2>3, <2>4
  <1>7. old.ch \in Nat /\ old.from \in Nat /\ old.pos \in Nat /\ old.lost \subseteq Nat
    BY <1>3 DEF HubRxs
  <1>8. PICK rest \in HubTaskStates : /\ rest = [hubTask[c] EXCEPT !.todo = @ \ {d}]
                                    /\ rest.at = "receive" /\ rest.received = hubTask[c].received
    <2>1. PICK after \in HubTaskStates : after = hubTask[c] /\ after.at = "receive"
      BY <1>0
    <2>2. PICK rest : rest = [after EXCEPT !.todo = @ \ {d}]
      OBVIOUS
    <2>3. rest \in HubTaskStates /\ rest.at = "receive" /\ rest.received = after.received
      BY <2>1, <2>2 DEF HubTaskStates
    <2>4. QED
      BY <2>1, <2>2, <2>3
  <1>9. CASE HubToTask(c, rest) /\ UNCHANGED hubRx
    <2>1. hubRx' = [hubRx EXCEPT ![c][d] = old]
      BY <1>0, <1>2, <1>3, <1>9
    <2>2. hubTask' = [hubTask EXCEPT ![c] = rest]
      BY <1>9 DEF HubToTask
    <2>3. QED
      BY <1>2, <1>3, <1>8, <2>1, <2>2
  <1>10. CASE /\ old.ch = hubRoom[d] /\ old.pos <= n /\ old.pos < o
              /\ HubToTask(c, rest)
              /\ hubRx' = [hubRx EXCEPT ![c][d] = [ch |-> old.ch, from |-> old.from, pos |-> o,
                                                   lost |-> old.lost \cup old.pos .. o - 1]]
    <2>1. PICK rx : rx = [ch |-> old.ch, from |-> old.from, pos |-> o, lost |-> old.lost \cup old.pos .. o - 1]
      OBVIOUS
    <2>2. rx \in HubRxs
      BY <1>6, <1>7, <2>1 DEF HubRxs
    <2>3. hubTask' = [hubTask EXCEPT ![c] = rest] /\ hubRx' = [hubRx EXCEPT ![c][d] = rx]
      BY <1>10, <2>1 DEF HubToTask
    <2>4. QED
      BY <1>2, <1>3, <1>4, <1>5, <1>6, <1>8, <1>10, <2>1, <2>2, <2>3
  <1>11. CASE /\ old.ch = hubRoom[d] /\ old.pos \in o .. n
              /\ HubToTask(c, [rest EXCEPT !.received = Append(@, [doc |-> d, n |-> log[old.pos]])])
              /\ hubRx' = [hubRx EXCEPT ![c][d].pos = @ + 1]
    <2>1. PICK rx : rx = [ch |-> old.ch, from |-> old.from, pos |-> old.pos + 1, lost |-> old.lost]
      OBVIOUS
    <2>2. rx \in HubRxs /\ rx = [old EXCEPT !.pos = @ + 1]
      BY <1>3, <1>7, <2>1 DEF HubRxs
    <2>3. hubRx' = [hubRx EXCEPT ![c][d] = rx]
      BY <1>0, <1>2, <1>3, <1>11, <2>2
    <2>4. old.pos \in 1 .. n /\ log[old.pos] \in Nat
      BY <1>4, <1>5, <1>6, <1>7, <1>11
    <2>5. PICK m \in HubMessages : m = [doc |-> d, n |-> log[old.pos]]
      BY <1>2, <2>4 DEF HubMessages
    <2>6. PICK after : after = [rest EXCEPT !.received = Append(@, m)]
      OBVIOUS
    <2>7. Append(rest.received, m) \in Seq(HubMessages)
      BY <1>8, <2>5 DEF HubTaskStates
    <2>8. after \in HubTaskStates /\ after.at = "receive" /\ after.received = Append(rest.received, m)
      BY <1>8, <2>6, <2>7 DEF HubTaskStates
    <2>9. hubTask' = [hubTask EXCEPT ![c] = after]
      BY <1>11, <2>5, <2>6 DEF HubToTask
    <2>10. /\ hubRx[c][d].ch = hubRoom[d] /\ hubRx[c][d].pos \in 1 .. Len(hubLog[d])
           /\ rx = [ch |-> hubRx[c][d].ch, from |-> hubRx[c][d].from, pos |-> hubRx[c][d].pos + 1,
                    lost |-> hubRx[c][d].lost]
      BY <1>3, <1>4, <1>5, <1>11, <2>1, <2>4
    <2>11. after.received = Append(hubTask[c].received, [doc |-> d, n |-> hubLog[d][hubRx[c][d].pos]])
      BY <1>3, <1>4, <1>8, <2>5, <2>8
    <2>12. QED
      BY <1>2, <2>2, <2>3, <2>8, <2>9, <2>10, <2>11, Zenon
  <1>12. QED
    BY <1>1, <1>3, <1>4, <1>5, <1>6, <1>8, <1>9, <1>10, <1>11

\* A receiver finds nothing, a message that goes on the line, or word of lost ones.
LEMMA HubReceiveStep ==
  ASSUME HubInv, NEW c \in Conns, HubReceive(c)
  PROVE  HubInv'
  <1>0. /\ HubTypeOK /\ HubStates /\ hubTask[c].at = "receive" /\ HubLineOK(c)
        /\ hubTask \in [Conns -> HubTaskStates] /\ hubRx \in [Conns -> [Docs -> HubRxs]]
    BY HubTypes DEF HubInv, HubReceive
  <1>1. UNCHANGED <<hubRooms, hubSubs, hubConn, hubGot, hubAsked, hubOut>>
    BY DEF HubReceive, HubToTask
  <1>2. PICK d \in Docs, after \in HubTaskStates, rx \in HubRxs :
           LET old == hubRx[c][d] IN
           /\ after.at = "receive"
           /\ hubTask' = [hubTask EXCEPT ![c] = after] /\ hubRx' = [hubRx EXCEPT ![c][d] = rx]
           /\ \/ rx = old /\ after.received = hubTask[c].received
              \/ /\ old.ch = hubRoom[d] /\ old.pos <= Len(hubLog[d]) /\ old.pos < HubOldest(d)
                 /\ rx = [ch |-> old.ch, from |-> old.from, pos |-> HubOldest(d),
                          lost |-> old.lost \cup old.pos .. HubOldest(d) - 1]
                 /\ after.received = hubTask[c].received
              \/ /\ old.ch = hubRoom[d] /\ old.pos \in 1 .. Len(hubLog[d])
                 /\ rx = [ch |-> old.ch, from |-> old.from, pos |-> old.pos + 1, lost |-> old.lost]
                 /\ after.received = Append(hubTask[c].received, [doc |-> d, n |-> hubLog[d][old.pos]])
    BY HubReceiveEffect
  <1>3. PICK old \in HubRxs : old = hubRx[c][d]
    BY <1>0
  <1>4. PICK log \in Seq(Nat) : log = hubLog[d]
    BY <1>0 DEF HubTypeOK
  <1>5. PICK n \in Nat : n = Len(log) /\ DOMAIN log = 1 .. n
    BY <1>4
  <1>6. old.ch \in Nat /\ old.from \in Nat /\ old.pos \in Nat /\ old.lost \subseteq Nat
    BY <1>3 DEF HubRxs
  <1>7. /\ hubTask' \in [Conns -> HubTaskStates] /\ hubTask'[c] = after /\ after.at = "receive"
        /\ \A x \in Conns \ {c} : hubTask'[x] = hubTask[x]
        /\ hubRx' \in [Conns -> [Docs -> HubRxs]] /\ hubRx'[c][d] = rx
        /\ \A e \in Docs \ {d} : hubRx'[c][e] = hubRx[c][e]
        /\ \A x \in Conns \ {c} : hubRx'[x] = hubRx[x]
    BY <1>0, <1>2
  <1>8. HubTypeOK'
    BY <1>0, <1>1, <1>7, HubTypes DEF hubRooms, HubTypeOK, HubSubsOK, HubConnStates, HubTaskStates, HubRxs
  <1>9. HubStates'
    <2>1. hubConn[c].at # "new"
      BY <1>0 DEF HubStates
    <2>2. \A x \in Conns \ {c} : hubTask'[x] = hubTask[x] /\ hubRx'[x] = hubRx[x]
      BY <1>7
    <2>3. hubTask'[c].at = "receive" /\ hubConn' = hubConn /\ hubSubs' = hubSubs
      BY <1>1, <1>7
    <2>4. QED
      BY <1>0, <2>1, <2>2, <2>3 DEF HubStates
  <1>10. /\ old.pos >= 1 /\ old.from >= 1
         /\ old.ch # 0 =>
              /\ old.ch = hubRoom[d] /\ old.pos <= n + 1
              /\ \A m \in HubOnLine(c), k \in old.pos .. n : m.doc = d => m.n < log[k]
              /\ c \in DOMAIN hubSubs =>
                   \A k \in old.from .. old.pos - 1 :
                     k \in old.lost \/ \E m \in HubOnLine(c) : m.doc = d /\ m.n = log[k]
    BY <1>3, <1>4, <1>5 DEF HubInv, HubRxOK
  <1>11. /\ \A i, j \in 1 .. n : i < j => log[i] < log[j]
         /\ \A i \in 1 .. n : log[i] <= hubSent
         /\ hubRoom[d] = 0 => n = 0
    BY <1>4, <1>5 DEF HubInv, HubRoomOK
  <1>12. \A x \in Conns \ {c} : HubLineOK(x)' /\ \A e \in Docs : HubRxOK(x, e)'
    BY <1>1, <1>7, <1>8, HubOthersKept
  <1>13. \A e \in Docs : HubRoomOK(e)'
    BY <1>1 DEF HubInv, HubRoomOK, hubRooms
  <1>14. CASE rx = old /\ after.received = hubTask[c].received
    <2>1. HubLineOK(c)' /\ HubOnLine(c)' = HubOnLine(c)
      BY <1>1, <1>7, <1>8, <1>14, HubLineKept DEF hubRooms
    <2>2. \A e \in Docs : HubRxOK(c, e)'
      BY <1>1, <1>3, <1>7, <1>14, <2>1, HubRxKept DEF hubRooms
    <2>3. QED
      BY <1>8, <1>9, <1>12, <1>13, <2>1, <2>2 DEF HubInv
  <1>15. CASE /\ old.ch = hubRoom[d] /\ old.pos <= n /\ old.pos < HubOldest(d)
              /\ rx = [ch |-> old.ch, from |-> old.from, pos |-> HubOldest(d),
                       lost |-> old.lost \cup old.pos .. HubOldest(d) - 1]
              /\ after.received = hubTask[c].received
    <2>1. HubLineOK(c)' /\ HubOnLine(c)' = HubOnLine(c)
      BY <1>1, <1>7, <1>8, <1>15, HubLineKept DEF hubRooms
    <2>2. PICK o \in Nat : o = HubOldest(d) /\ o <= n + 1 /\ o >= 1
      <3>1. PICK keeps \in Nat : keeps = HubRoomKeeps
        BY HubConstants
      <3>2. HubOldest(d) = IF n <= keeps THEN 1 ELSE n - keeps + 1
        BY <1>4, <1>5, <3>1 DEF HubOldest
      <3>3. PICK o : o = IF n <= keeps THEN 1 ELSE n - keeps + 1
        OBVIOUS
      <3>4. o \in Nat /\ o >= 1 /\ o <= n + 1
        BY <3>3
      <3>5. QED
        BY <3>2, <3>3, <3>4
    <2>3. /\ rx.ch = old.ch /\ rx.from = old.from /\ rx.pos = o /\ old.pos < o
          /\ rx.lost = old.lost \cup old.pos .. o - 1
      BY <1>15, <2>2
    <2>4. /\ hubRoom'[d] = hubRoom[d] /\ hubLog'[d] = log /\ Len(hubLog'[d]) = n
          /\ DOMAIN hubSubs' = DOMAIN hubSubs
      BY <1>1, <1>4, <1>5 DEF hubRooms
    <2>5. rx.pos >= 1 /\ rx.from >= 1 /\ rx.pos <= n + 1
      BY <1>10, <2>2, <2>3
    <2>6. old.ch # 0
      BY <1>6, <1>10, <1>11, <1>15
    <2>7. \A m \in HubOnLine(c), k \in rx.pos .. n : m.doc = d => m.n < log[k]
      <3>1. \A k \in o .. n : k \in old.pos .. n
        BY <1>6, <2>3
      <3>2. QED
        BY <1>10, <2>3, <2>6, <3>1
    <2>8. ASSUME c \in DOMAIN hubSubs, NEW k \in rx.from .. rx.pos - 1
          PROVE  k \in rx.lost \/ \E m \in HubOnLine(c) : m.doc = d /\ m.n = log[k]
      <3>1. k \in old.from .. old.pos - 1 \/ k \in old.pos .. o - 1
        BY <1>6, <2>3, <2>8
      <3>2. QED
        BY <1>10, <2>3, <2>6, <2>8, <3>1
    <2>9. HubRxOK(c, d)'
      BY <1>7, <1>10, <2>1, <2>3, <2>4, <2>5, <2>6, <2>7, <2>8 DEF HubRxOK
    <2>10. \A e \in Docs \ {d} : HubRxOK(c, e)'
      BY <1>1, <1>7, <2>1, HubRxKept DEF hubRooms
    <2>11. QED
      BY <1>8, <1>9, <1>12, <1>13, <2>1, <2>9, <2>10 DEF HubInv
  <1>16. CASE /\ old.ch = hubRoom[d] /\ old.pos \in 1 .. n
              /\ rx = [ch |-> old.ch, from |-> old.from, pos |-> old.pos + 1, lost |-> old.lost]
              /\ after.received = Append(hubTask[c].received, [doc |-> d, n |-> log[old.pos]])
    <2>1. old.ch # 0 /\ log[old.pos] \in Nat /\ old.pos <= n
      <3>1. old.pos <= n /\ n # 0
        BY <1>16
      <3>2. QED
        BY <1>4, <1>5, <1>11, <1>16, <3>1
    <2>2. PICK msg \in HubMessages : msg = [doc |-> d, n |-> log[old.pos]] /\ msg.doc = d /\ msg.n = log[old.pos]
      <3>1. PICK msg : msg = [doc |-> d, n |-> log[old.pos]]
        OBVIOUS
      <3>2. msg \in HubMessages /\ msg.doc = d /\ msg.n = log[old.pos]
        BY <2>1, <3>1 DEF HubMessages
      <3>3. QED
        BY <3>1, <3>2
    <2>3. PICK rec \in Seq(HubMessages) : rec = hubTask[c].received
      BY <1>0 DEF HubTaskStates
    <2>4. /\ HubAscends(hubGot[c]) /\ HubAscends(hubOut[c]) /\ HubAscends(rec)
          /\ HubAhead(hubGot[c], hubOut[c]) /\ HubAhead(hubGot[c], rec) /\ HubAhead(hubOut[c], rec)
          /\ \A m \in HubOnLine(c) : m.n <= hubSent
      BY <1>0, <2>3 DEF HubLineOK
    <2>5. \A m \in HubOnLine(c) : m.doc = d => m.n < msg.n
      <3>1. old.pos \in old.pos .. n
        BY <1>6, <2>1
      <3>2. QED
        BY <1>10, <2>1, <2>2, <3>1
    <2>6. ToSet(Append(rec, msg)) = ToSet(rec) \cup {msg}
      BY ToSetAppend
    <2>7. /\ UNCHANGED <<hubSent, hubGot, hubOut, hubRoom, hubLog>> /\ DOMAIN hubSubs' = DOMAIN hubSubs
          /\ hubTask'[c].received = Append(rec, msg)
      BY <1>1, <1>7, <1>16, <2>2, <2>3 DEF hubRooms
    <2>8. HubOnLine(c)' = HubOnLine(c) \cup {msg}
      BY <2>3, <2>6, <2>7 DEF HubOnLine
    <2>9. HubLineOK(c)'
      <3>1. HubAscends(Append(rec, msg))
        BY <2>2, <2>3, <2>4, <2>5, AscendsAppend DEF HubOnLine
      <3>2. HubAhead(hubGot[c], Append(rec, msg)) /\ HubAhead(hubOut[c], Append(rec, msg))
        BY <2>2, <2>4, <2>5, <2>6 DEF HubAhead, HubOnLine
      <3>3. msg.n <= hubSent
        BY <1>11, <1>16, <2>2
      <3>4. QED
        BY <2>4, <2>7, <2>8, <3>1, <3>2, <3>3 DEF HubLineOK
    <2>10. HubRxOK(c, d)'
      <3>1. rx.ch = old.ch /\ rx.from = old.from /\ rx.pos = old.pos + 1 /\ rx.lost = old.lost
        BY <1>16
      <3>2. rx.pos >= 1 /\ rx.from >= 1 /\ rx.pos <= n + 1
        BY <1>6, <1>10, <2>1, <3>1
      <3>3. ASSUME NEW m \in HubOnLine(c) \cup {msg}, NEW k \in rx.pos .. n, m.doc = d
            PROVE  m.n < log[k]
        <4>1. k \in old.pos .. n /\ k \in 1 .. n /\ old.pos \in 1 .. n /\ old.pos < k
          BY <1>6, <1>10, <1>16, <3>1, <3>3
        <4>2. CASE m = msg
          BY <1>11, <2>2, <4>1, <4>2
        <4>3. CASE m \in HubOnLine(c)
          BY <1>10, <2>1, <3>3, <4>1, <4>3
        <4>4. QED
          BY <4>2, <4>3
      <3>4. ASSUME c \in DOMAIN hubSubs, NEW k \in rx.from .. rx.pos - 1
            PROVE  k \in rx.lost \/ \E m \in HubOnLine(c) \cup {msg} : m.doc = d /\ m.n = log[k]
        <4>1. k \in old.from .. old.pos - 1 \/ k = old.pos
          BY <1>6, <3>1, <3>4
        <4>2. QED
          BY <1>10, <2>1, <2>2, <3>1, <3>4, <4>1
      <3>5. hubLog'[d] = log /\ Len(hubLog'[d]) = n /\ hubRoom'[d] = old.ch
        BY <1>4, <1>5, <1>16, <2>7
      <3>6. QED
        BY <1>7, <2>7, <2>8, <3>1, <3>2, <3>3, <3>4, <3>5 DEF HubRxOK
    <2>11. ASSUME NEW e \in Docs \ {d}
           PROVE  HubRxOK(c, e)'
      <3>1. HubRxOK(c, e) /\ hubRx'[c][e] = hubRx[c][e] /\ msg.doc # e
        BY <1>7, <2>2 DEF HubInv
      <3>2. QED
        BY <2>7, <2>8, <3>1 DEF HubRxOK
    <2>12. QED
      BY <1>8, <1>9, <1>12, <1>13, <2>9, <2>10, <2>11 DEF HubInv
  <1>17. QED
    BY <1>2, <1>3, <1>4, <1>5, <1>14, <1>15, <1>16

\* A message goes to the queue, or a task whose connection is gone ends.
LEMMA HubForwardStep ==
  ASSUME HubInv, NEW c \in Conns, HubForward(c)
  PROVE  HubInv'
  <1>0. /\ HubTypeOK /\ HubStates /\ hubTask[c].at = "receive" /\ HubLineOK(c)
        /\ hubTask \in [Conns -> HubTaskStates] /\ hubRx \in [Conns -> [Docs -> HubRxs]]
        /\ hubOut \in [Conns -> Seq(HubMessages)]
    BY HubTypes DEF HubInv, HubForward
  <1>1. UNCHANGED <<hubRooms, hubSubs, hubConn, hubGot, hubAsked>>
    BY DEF HubForward, HubToTask
  <1>2. PICK rec \in Seq(HubMessages) : rec = hubTask[c].received /\ rec # << >>
    BY <1>0 DEF HubTaskStates, HubForward
  <1>3. PICK out \in Seq(HubMessages) : out = hubOut[c]
    BY <1>0
  <1>4. \A d \in Docs : HubRoomOK(d)'
    BY <1>1 DEF HubInv, HubRoomOK, hubRooms
  <1>5. /\ HubAscends(hubGot[c]) /\ HubAscends(out) /\ HubAscends(rec)
        /\ HubAhead(hubGot[c], out) /\ HubAhead(hubGot[c], rec) /\ HubAhead(out, rec)
        /\ \A m \in HubOnLine(c) : m.n <= hubSent
    BY <1>0, <1>2, <1>3 DEF HubLineOK
  <1>6. CASE /\ hubOut' = [hubOut EXCEPT ![c] = Append(out, Head(rec))]
             /\ hubTask' = [hubTask EXCEPT ![c] = [hubTask[c] EXCEPT !.received = Tail(rec)]]
             /\ hubRx' = hubRx
    <2>1. /\ HubAscends(Append(out, Head(rec))) /\ HubAscends(Tail(rec)) /\ HubAhead(Append(out, Head(rec)), Tail(rec))
          /\ Append(out, Head(rec)) \in Seq(HubMessages) /\ Tail(rec) \in Seq(HubMessages)
          /\ ToSet(Append(out, Head(rec))) \cup ToSet(Tail(rec)) = ToSet(out) \cup ToSet(rec)
      BY <1>2, <1>5, AscendsMoved
    <2>2. PICK after \in HubTaskStates : /\ after = [hubTask[c] EXCEPT !.received = Tail(rec)]
                                      /\ after.at = "receive" /\ after.received = Tail(rec)
      <3>1. PICK old \in HubTaskStates : old = hubTask[c] /\ old.at = "receive"
        BY <1>0
      <3>2. PICK after : after = [old EXCEPT !.received = Tail(rec)]
        OBVIOUS
      <3>3. after \in HubTaskStates /\ after.at = "receive" /\ after.received = Tail(rec)
        BY <2>1, <3>1, <3>2 DEF HubTaskStates
      <3>4. QED
        BY <3>1, <3>2, <3>3
    <2>3. /\ hubTask' \in [Conns -> HubTaskStates] /\ hubTask'[c].at = "receive" /\ hubTask'[c].received = Tail(rec)
          /\ \A x \in Conns \ {c} : hubTask'[x] = hubTask[x]
      BY <1>0, <1>6, <2>2
    <2>4. /\ hubOut' \in [Conns -> Seq(HubMessages)] /\ hubOut'[c] = Append(out, Head(rec))
          /\ \A x \in Conns \ {c} : hubOut'[x] = hubOut[x]
      BY <1>0, <1>6, <2>1
    <2>5. HubTypeOK'
      BY <1>0, <1>1, <1>6, <2>3, <2>4, HubTypes DEF hubRooms, HubTypeOK, HubSubsOK, HubConnStates, HubTaskStates, HubRxs
    <2>6. HubStates'
      BY <1>0, <1>1, <1>6, <2>3 DEF HubStates
    <2>7. HubOnLine(c)' = HubOnLine(c)
      BY <1>1, <1>2, <1>3, <2>1, <2>3, <2>4 DEF HubOnLine
    <2>8. HubLineOK(c)'
      <3>1. \A m \in ToSet(Append(out, Head(rec))) : m \in ToSet(out) \cup ToSet(rec)
        BY <2>1
      <3>2. \A m \in ToSet(Tail(rec)) : m \in ToSet(rec)
        BY <1>2, HeadAndTail
      <3>3. HubAhead(hubGot[c], Append(out, Head(rec))) /\ HubAhead(hubGot[c], Tail(rec))
        BY <1>5, <3>1, <3>2 DEF HubAhead
      <3>4. QED
        BY <1>1, <1>5, <2>1, <2>3, <2>4, <2>7, <3>3 DEF HubLineOK, hubRooms
    <2>9. \A d \in Docs : HubRxOK(c, d)'
      BY <1>1, <1>6, <2>7, HubRxKept DEF hubRooms
    <2>10. \A x \in Conns \ {c} : HubLineOK(x)' /\ \A d \in Docs : HubRxOK(x, d)'
      BY <1>1, <1>6, <2>3, <2>4, <2>5, HubOthersKept
    <2>11. QED
      BY <1>4, <2>5, <2>6, <2>8, <2>9, <2>10 DEF HubInv
  <1>7. CASE /\ hubTask' = [hubTask EXCEPT ![c] = [at |-> "done", seen |-> {}, todo |-> {}, received |-> << >>]]
             /\ hubRx' = [hubRx EXCEPT ![c] = [d \in Docs |-> HubNoRx]]
             /\ hubOut' = hubOut
    <2>1. [at |-> "done", seen |-> {}, todo |-> {}, received |-> << >>] \in HubTaskStates
      BY DEF HubTaskStates
    <2>2. /\ hubTask' \in [Conns -> HubTaskStates] /\ hubTask'[c].at = "done" /\ hubTask'[c].received = << >>
          /\ \A x \in Conns \ {c} : hubTask'[x] = hubTask[x]
      BY <1>0, <1>7, <2>1
    <2>3. HubNoRx \in HubRxs /\ HubNoRx.ch = 0 /\ HubNoRx.pos >= 1 /\ HubNoRx.from >= 1
      BY DEF HubNoRx, HubRxs
    <2>4. /\ hubRx' \in [Conns -> [Docs -> HubRxs]] /\ \A d \in Docs : hubRx'[c][d] = HubNoRx
          /\ \A x \in Conns \ {c} : hubRx'[x] = hubRx[x]
      BY <1>0, <1>7, <2>3
    <2>5. HubTypeOK'
      BY <1>0, <1>1, <1>7, <2>2, <2>4, HubTypes DEF hubRooms, HubTypeOK, HubSubsOK, HubConnStates, HubTaskStates, HubRxs
    <2>6. hubConn[c].at # "new"
      BY <1>0 DEF HubStates
    <2>7. HubStates'
      BY <1>0, <1>1, <2>2, <2>3, <2>4, <2>6 DEF HubStates
    <2>8. ToSet(<< >>) = {} /\ HubAscends(<< >>)
      BY DEF ToSet, HubAscends
    <2>9. HubOnLine(c)' \subseteq HubOnLine(c)
      BY <1>1, <1>7, <2>2, <2>8 DEF HubOnLine
    <2>10. HubLineOK(c)'
      BY <1>1, <1>3, <1>5, <1>7, <2>2, <2>8, <2>9 DEF HubLineOK, HubAhead, hubRooms
    <2>11. \A d \in Docs : HubRxOK(c, d)'
      BY <2>3, <2>4, HubSilentRx
    <2>12. \A x \in Conns \ {c} : HubLineOK(x)' /\ \A d \in Docs : HubRxOK(x, d)'
      BY <1>1, <1>7, <2>2, <2>4, <2>5, HubOthersKept
    <2>13. QED
      BY <1>4, <2>5, <2>7, <2>10, <2>11, <2>12 DEF HubInv
  <1>8. QED
    BY <1>2, <1>3, <1>6, <1>7 DEF HubForward, HubToTask, HubQueue

-----------------------------------------------------------------------------
\* Every step keeps the invariant.
LEMMA HubStep == HubInv /\ [HubNext]_hubVars => HubInv'
  <1> SUFFICES ASSUME HubInv, [HubNext]_hubVars PROVE HubInv'
    OBVIOUS
  <1>1. CASE UNCHANGED hubVars
    <2>1. UNCHANGED <<hubRoom, hubMade, hubLog, hubSent, hubSubs, hubConn, hubTask, hubRx, hubOut, hubGot, hubAsked>>
      BY <1>1 DEF hubVars
    <2>2. HubTypeOK' /\ HubStates'
      BY <2>1 DEF HubInv, HubTypeOK, HubStates
    <2>3. \A c \in Conns : (c \in DOMAIN hubSubs)' => c \in DOMAIN hubSubs
      BY <2>1
    <2>4. QED
      BY <2>1, <2>2, <2>3, HubQuietStep
  <1>2. ASSUME NEW c \in Conns, HubConnect(c) \/ HubServe(c) \/ HubLeave(c) \/ HubCarry(c)
        PROVE  HubInv'
    BY <1>2, HubConnectStep, HubRequestStep, HubDeliverStep, HubLeaveStep, HubPruneStep, HubLookStep,
       HubListenStep, HubRetainStep, HubReceiveStep, HubForwardStep DEF HubServe, HubCarry
  <1>3. ASSUME NEW c \in Conns, NEW d \in Docs, HubSubscribe(c, d) \/ HubUnsubscribe(c, d)
        PROVE  HubInv'
    BY <1>3, HubRequestStep
  <1>4. ASSUME NEW d \in Docs, HubBroadcast(d)
        PROVE  HubInv'
    BY <1>4, HubBroadcastStep
  <1>5. QED
    BY <1>1, <1>2, <1>3, <1>4 DEF HubNext

\* What the hub promises holds of every number of connections, rooms and
\* messages and every size of the queues: a task listens to its room's present
\* channel, and a message goes to a connection once, in order, and is not lost
\* in silence (ws.rs).
THEOREM BroadcastsKeepOrder == HubSpec => []HubDelivers
  <1>1. HubInit => HubInv
    BY HubStarts
  <1>2. HubInv /\ [HubNext]_hubVars => HubInv'
    BY HubStep
  <1>3. HubInv => HubDelivers
    BY HubInvDelivers
  <1>4. QED
    BY <1>1, <1>2, <1>3, PTL DEF HubSpec

(***************************************************************************)
(* Extraction.  A row of the tables is by an attempt, and an attempt that  *)
(* has just begun has none; what a block holds tells which rows are its    *)
(* own.                                                                    *)
(***************************************************************************)

ExtPlaces == {"idle", "extract", "load", "entities", "ok", "failed"}
ExtWriters == [run : Nat, block : ExtPositions, attempt : Nat \ {0}]
ExtEntityRows == [name : ExtSayable, by : ExtWriters]
ExtRelationRows == [source : Nat, target : Nat, by : ExtWriters]
ExtHeld ==
  [at : ExtPlaces, attempt : Nat,
   answer : [entities : Seq(ExtSayable), relations : Seq(ExtSayable \X ExtSayable)],
   unique : Seq(ExtSayable), rows : Seq(Nat), related : Nat]

ExtTypes ==
  /\ extMode \in {"idle", "sequential", "concurrent"}
  /\ extBegun \in 0 .. Len(ExtBlocks) /\ extRuns \in Nat
  /\ extBlock \in [ExtPositions -> ExtHeld]
  /\ extEntities \in Seq(ExtEntityRows) /\ extRelations \in Seq(ExtRelationRows)

\* Before an attempt writes.
ExtNothing(b) ==
  /\ extBlock[b].rows = << >> /\ extBlock[b].related = 0
  /\ ExtOwn(extEntities, b) = {} /\ ExtOwn(extRelations, b) = {}

\* The entities: a row of its own for each of the first names.
ExtRowsHeld(b) ==
  LET rows == extBlock[b].rows IN
  /\ Len(rows) <= Len(extBlock[b].unique)
  /\ \A i \in DOMAIN rows :
       rows[i] \in DOMAIN extEntities /\ extEntities[rows[i]].name = extBlock[b].unique[i]
  /\ \A i, j \in DOMAIN rows : rows[i] = rows[j] => i = j
  /\ ExtOwn(extEntities, b) = {rows[i] : i \in DOMAIN rows}

\* The relations among the first that it could place, and those it wrote.
ExtPlacedSoFar(b) == {j \in 1 .. extBlock[b].related : ExtKeepsRow(b, extBlock[b].answer.relations[j])}

ExtLinksHeld(b) ==
  /\ extBlock[b].related <= Len(extBlock[b].answer.relations)
  /\ Len(extBlock[b].rows) < Len(extBlock[b].unique) => extBlock[b].related = 0
  /\ IsFiniteSet(ExtOwn(extRelations, b)) /\ IsFiniteSet(ExtPlacedSoFar(b))
  /\ Cardinality(ExtOwn(extRelations, b)) = Cardinality(ExtPlacedSoFar(b))
  /\ {ExtPairOf(k) : k \in ExtOwn(extRelations, b)} =
       {extBlock[b].answer.relations[j] : j \in ExtPlacedSoFar(b)}

ExtBlockInv(b) ==
  /\ b <= extBegun <=> extBlock[b].at # "idle"
  /\ extBlock[b].at = "idle" => extBlock[b].attempt = 0
  /\ extBlock[b].at # "idle" => extBlock[b].attempt \in 1 .. ExtRetries
  /\ extBlock[b].at \in {"idle", "extract", "load"} => ExtNothing(b)
  /\ extBlock[b].at \in {"entities", "ok"} => ExtRowsHeld(b) /\ ExtLinksHeld(b)
  /\ extBlock[b].at = "ok" =>
       /\ Len(extBlock[b].rows) = Len(extBlock[b].unique)
       /\ extBlock[b].related = Len(extBlock[b].answer.relations)
  /\ extBlock[b].at = "failed" => extBlock[b].attempt = ExtRetries

\* Rows are by attempts that have begun, and a relation is between rows of its own attempt.
ExtBefore(by) ==
  by.run <= extRuns /\ (by.run = extRuns => by.attempt <= extBlock[by.block].attempt)
ExtTablesInv ==
  /\ \A k \in DOMAIN extEntities : ExtBefore(extEntities[k].by)
  /\ \A k \in DOMAIN extRelations :
       /\ ExtBefore(extRelations[k].by)
       /\ {extRelations[k].source, extRelations[k].target} \subseteq DOMAIN extEntities
       /\ extEntities[extRelations[k].source].by = extRelations[k].by
       /\ extEntities[extRelations[k].target].by = extRelations[k].by

ExtBatchInv ==
  /\ Cardinality(ExtInFlight) <= ExtConcurrency
  /\ extAnswer = "ok" => extMode = "idle" /\ \A b \in ExtPositions : extBlock[b].at = "ok"

ExtInv == ExtTypes /\ (\A b \in ExtPositions : ExtBlockInv(b)) /\ ExtTablesInv /\ ExtBatchInv

\* The blocks and the bounds on attempts and on blocks in flight.
LEMMA ExtPositionsFacts ==
  /\ Len(ExtBlocks) \in Nat /\ ExtPositions = 1 .. Len(ExtBlocks) /\ IsFiniteSet(ExtPositions)
  /\ ExtRetries \in Nat /\ 1 <= ExtRetries /\ ExtConcurrency \in Nat /\ 1 <= ExtConcurrency
  <1>1. PICK n \in Nat : n = Len(ExtBlocks) /\ DOMAIN ExtBlocks = 1 .. n
    BY ExtConstants
  <1>2. IsFiniteSet(1 .. n)
    BY FS_Interval
  <1>. QED  BY <1>1, <1>2, ExtConstants DEF ExtPositions

\* The relations that are kept are pairs of names.
LEMMA ExtNamedFacts ==
  ASSUME NEW a \in ExtAnswers
  PROVE  ExtNamed(a) \in Seq(ExtSayable \X ExtSayable)
  <1>1. PICK S : S = ExtSayable \X ExtSayable
    OBVIOUS
  <1>2. PICK rs \in Seq(S) : rs = a.relations
    BY <1>1, ExtConstants
  <1>3. PICK seqs : seqs = [i \in 1 .. Len(rs) |-> LET r == rs[i] IN IF {r[1], r[2]} \subseteq ToSet(a.entities) THEN <<r>> ELSE << >>]
    OBVIOUS
  <1>4. \A i \in 1 .. Len(rs) : seqs[i] \in Seq(S)
    <2>1. \A i \in 1 .. Len(rs) : rs[i] \in S
      BY <1>2
    <2>2. \A r \in S : <<r>> \in Seq(S) /\ << >> \in Seq(S)
      OBVIOUS
    <2>. QED  BY <1>3, <2>1, <2>2
  <1>5. seqs \in Seq(Seq(S))
    <2>1. Len(rs) \in Nat /\ seqs \in [1 .. Len(rs) -> Seq(S)]
      BY <1>2, <1>3, <1>4
    <2>. QED  BY ONLY <2>1
  <1>6. FlattenSeq(seqs) \in Seq(S)
    BY <1>5, FlattenedSet
  <1>. QED  BY <1>1, <1>2, <1>3, <1>6 DEF ExtNamed

\* What is left of a list without its duplicates.
LEMMA ExtDedupFacts ==
  ASSUME NEW S, NEW names \in Seq(S)
  PROVE  ExtDedup(names) \in Seq(S)
  <1>0. PICK l \in Nat : l = Len(names)
    OBVIOUS
  <1> DEFINE Solves(f, n) == f = [k \in 0 .. n |-> IF k = 0 THEN << >> ELSE ExtDedupNext(f[k - 1], names[k])]
             unique == CHOOSE f : Solves(f, Len(names))
             unsolved == {n \in Nat : ~ \E f : Solves(f, n)}
  <1>. HIDE DEF Solves
  <1>1. unsolved = {}
    <2>1. SUFFICES ASSUME unsolved # {} PROVE FALSE
      OBVIOUS
    <2>2. PICK n \in unsolved : \A j \in unsolved : ~ (<<j, n>> \in OpToRel(<, Nat))
      <3>1. unsolved \subseteq Nat
        OBVIOUS
      <3>. QED  BY <2>1, <3>1, NatLessThanWellFounded, WFMin
    <2>3. CASE n = 0
      <3>1. PICK g : g = [k \in 0 .. 0 |-> << >>]
        OBVIOUS
      <3>2. g = [k \in 0 .. 0 |-> IF k = 0 THEN << >> ELSE ExtDedupNext(g[k - 1], names[k])]
        BY <3>1
      <3>3. Solves(g, 0)
        BY <3>2 DEF Solves
      <3>. QED  BY <2>2, <2>3, <3>3
    <2>4. CASE n # 0
      <3>1. n \in Nat /\ n - 1 \in Nat /\ n - 1 < n
        <4>1. n \in Nat
          BY <2>2
        <4>. HIDE DEF unsolved
        <4>. QED  BY <2>4, <4>1
      <3>2. <<n - 1, n>> \in OpToRel(<, Nat)
        BY <3>1 DEF OpToRel
      <3>3. PICK f : Solves(f, n - 1)
        BY <2>2, <3>1, <3>2
      <3>. HIDE DEF unsolved
      <3>4. PICK g : g = [k \in 0 .. n |-> IF k = n THEN ExtDedupNext(f[n - 1], names[n]) ELSE f[k]]
        OBVIOUS
      <3>5. ASSUME NEW k \in 0 .. n PROVE g[k] = IF k = 0 THEN << >> ELSE ExtDedupNext(g[k - 1], names[k])
        <4>1. CASE k = n
          <5>1. k # 0 /\ k - 1 \in 0 .. n /\ k - 1 # n /\ k - 1 = n - 1
            BY <2>4, <3>1, <4>1
          <5>2. g[k] = ExtDedupNext(f[n - 1], names[n]) /\ g[k - 1] = f[n - 1]
            BY <3>4, <4>1, <5>1
          <5>. QED  BY <4>1, <5>1, <5>2
        <4>2. CASE k # n
          <5>1. k \in 0 .. n - 1 /\ g[k] = f[k]
            BY <3>1, <3>4, <4>2
          <5>2. f[k] = IF k = 0 THEN << >> ELSE ExtDedupNext(f[k - 1], names[k])
            BY <3>3, <5>1 DEF Solves
          <5>3. k # 0 => g[k - 1] = f[k - 1]
            BY <3>1, <3>4, <5>1
          <5>. QED  BY <5>1, <5>2, <5>3
        <4>. QED  BY <4>1, <4>2
      <3>6. g = [k \in 0 .. n |-> g[k]]
        BY <3>4
      <3>7. Solves(g, n)
        BY <3>5, <3>6 DEF Solves
      <3>. QED  BY <2>2, <3>7 DEF unsolved
    <2>. QED  BY <2>3, <2>4
  <1>2. Solves(unique, l)
    <2>1. \E f : Solves(f, l)
      BY <1>1
    <2>. QED  BY <1>0, <2>1
  <1>3. PICK u : u = unique
    OBVIOUS
  <1>8. u = [k \in 0 .. l |-> IF k = 0 THEN << >> ELSE ExtDedupNext(u[k - 1], names[k])]
    <2>1. Solves(u, l)
      BY <1>2, <1>3
    <2>. QED  BY <2>1 DEF Solves
  <1>4. u[0] = << >> /\ \A k \in 1 .. l : u[k] = ExtDedupNext(u[k - 1], names[k])
    <2>1. 0 \in 0 .. l /\ \A k \in 1 .. l : k \in 0 .. l /\ k # 0
      BY <1>0
    <2>. QED  BY ONLY <1>8, <2>1
  <1>5. ASSUME NEW s \in Seq(S), NEW k \in 1 .. l
        PROVE  ExtDedupNext(s, names[k]) \in Seq(S)
    <2>1. names[k] \in S
      BY <1>0
    <2>. QED  BY <2>1 DEF ExtDedupNext
  <1> DEFINE wrong == {k \in 0 .. l : u[k] \notin Seq(S)}
  <1>6. wrong = {}
    <2>1. SUFFICES ASSUME wrong # {} PROVE FALSE
      OBVIOUS
    <2>2. PICK k \in wrong : \A j \in wrong : ~ (<<j, k>> \in OpToRel(<, Nat))
      <3>1. wrong \subseteq Nat
        OBVIOUS
      <3>. QED  BY <2>1, <3>1, NatLessThanWellFounded, WFMin
    <2>3. k \in 0 .. l /\ k \in Nat /\ u[k] \notin Seq(S)
      <3>1. k \in 0 .. l /\ u[k] \notin Seq(S)
        BY <2>2
      <3>. QED  BY ONLY <1>0, <3>1
    <2>4. k # 0
      <3>1. << >> \in Seq(S)
        OBVIOUS
      <3>. QED  BY ONLY <1>4, <2>3, <3>1
    <2>5. k - 1 \in 0 .. l /\ k - 1 \in Nat /\ k - 1 < k /\ k \in 1 .. l
      BY <2>3, <2>4
    <2>6. <<k - 1, k>> \in OpToRel(<, Nat)
      BY <2>3, <2>5 DEF OpToRel
    <2>7. u[k - 1] \in Seq(S)
      BY <2>2, <2>5, <2>6
    <2>. QED  BY <1>4, <1>5, <2>3, <2>5, <2>7
  <1>7. u[l] \in Seq(S)
    BY <1>6
  <1>. QED  BY <1>0, <1>3, <1>7 DEF ExtDedup, Solves

\* One row more: whose it is tells who gets it.
LEMMA ExtOneRowMore ==
  ASSUME NEW S, NEW t \in Seq(S), NEW e \in S, NEW by
  PROVE  {k \in DOMAIN Append(t, e) : Append(t, e)[k].by = by} =
           {k \in DOMAIN t : t[k].by = by} \cup (IF e.by = by THEN {Len(t) + 1} ELSE {})
  <1>1. PICK n \in Nat : n = Len(t) /\ DOMAIN t = 1 .. n
    OBVIOUS
  <1>6. Append(t, e) \in Seq(S)
    OBVIOUS
  <1>2. PICK u \in Seq(S) : u = Append(t, e)
    BY <1>6
  <1>3. DOMAIN u = 1 .. n + 1 /\ u[n + 1] = e /\ \A k \in 1 .. n : u[k] = t[k]
    BY <1>1, <1>2
  <1>4. 1 .. n + 1 = (1 .. n) \cup {n + 1} /\ n + 1 \notin 1 .. n
    BY <1>1
  <1>5. \A k : k \in 1 .. n + 1 /\ u[k].by = by <=>
               (k \in 1 .. n /\ t[k].by = by) \/ (k = n + 1 /\ e.by = by)
    BY <1>3, <1>4
  <1>. QED  BY <1>1, <1>2, <1>3, <1>5

\* What an attempt has of a table with one row more.
LEMMA ExtOwnEntities ==
  ASSUME ExtTypes, NEW b, NEW e \in ExtEntityRows, extEntities' = Append(extEntities, e),
         ExtBy(b)' = ExtBy(b)
  PROVE  ExtOwn(extEntities, b)' =
           ExtOwn(extEntities, b) \cup (IF e.by = ExtBy(b) THEN {Len(extEntities) + 1} ELSE {})
  <1>5. PICK t \in Seq(ExtEntityRows) : t = extEntities
    BY DEF ExtTypes
  <1>6. PICK by : by = ExtBy(b)
    OBVIOUS
  <1>1. t = extEntities /\ by = ExtBy(b)
    BY <1>5, <1>6
  <1>2. {k \in DOMAIN Append(t, e) : Append(t, e)[k].by = by} =
          {k \in DOMAIN t : t[k].by = by} \cup (IF e.by = by THEN {Len(t) + 1} ELSE {})
    BY ExtOneRowMore
  <1>3. ExtOwn(extEntities, b)' = {k \in DOMAIN Append(t, e) : Append(t, e)[k].by = by}
    BY <1>1 DEF ExtOwn
  <1>4. ExtOwn(extEntities, b) = {k \in DOMAIN t : t[k].by = by}
    BY <1>1 DEF ExtOwn
  <1>. QED  BY <1>1, <1>2, <1>3, <1>4

\* The same of the relations.
LEMMA ExtOwnRelations ==
  ASSUME ExtTypes, NEW b, NEW e \in ExtRelationRows, extRelations' = Append(extRelations, e),
         ExtBy(b)' = ExtBy(b)
  PROVE  ExtOwn(extRelations, b)' =
           ExtOwn(extRelations, b) \cup (IF e.by = ExtBy(b) THEN {Len(extRelations) + 1} ELSE {})
  <1>5. PICK t \in Seq(ExtRelationRows) : t = extRelations
    BY DEF ExtTypes
  <1>6. PICK by : by = ExtBy(b)
    OBVIOUS
  <1>1. t = extRelations /\ by = ExtBy(b)
    BY <1>5, <1>6
  <1>2. {k \in DOMAIN Append(t, e) : Append(t, e)[k].by = by} =
          {k \in DOMAIN t : t[k].by = by} \cup (IF e.by = by THEN {Len(t) + 1} ELSE {})
    BY ExtOneRowMore
  <1>3. ExtOwn(extRelations, b)' = {k \in DOMAIN Append(t, e) : Append(t, e)[k].by = by}
    BY <1>1 DEF ExtOwn
  <1>4. ExtOwn(extRelations, b) = {k \in DOMAIN t : t[k].by = by}
    BY <1>1 DEF ExtOwn
  <1>. QED  BY <1>1, <1>2, <1>3, <1>4

\* What one attempt may do to the tables: nothing, or a row of its own.
ExtWritesEntity(b) ==
  \/ UNCHANGED extEntities
  \/ \E e \in ExtEntityRows : e.by = ExtBy(b) /\ extEntities' = Append(extEntities, e)
ExtWritesRelation(b) ==
  \/ UNCHANGED extRelations
  \/ \E e \in ExtRelationRows :
       /\ e.by = ExtBy(b) /\ {e.source, e.target} \subseteq DOMAIN extEntities
       /\ extEntities[e.source].by = e.by /\ extEntities[e.target].by = e.by
       /\ extRelations' = Append(extRelations, e)

\* Rows that are there stay as they are.
LEMMA ExtTablesGrow ==
  ASSUME ExtTypes, NEW b \in ExtPositions, ExtWritesEntity(b), ExtWritesRelation(b)
  PROVE  /\ extEntities' \in Seq(ExtEntityRows) /\ extRelations' \in Seq(ExtRelationRows)
         /\ \A k \in DOMAIN extEntities : k \in DOMAIN extEntities' /\ extEntities'[k] = extEntities[k]
         /\ \A k \in DOMAIN extRelations : k \in DOMAIN extRelations' /\ extRelations'[k] = extRelations[k]
         /\ \A k \in DOMAIN extEntities' : k \in DOMAIN extEntities \/ extEntities'[k].by = ExtBy(b)
         /\ \A k \in DOMAIN extRelations' :
              \/ k \in DOMAIN extRelations
              \/ /\ extRelations'[k].by = ExtBy(b)
                 /\ {extRelations'[k].source, extRelations'[k].target} \subseteq DOMAIN extEntities
                 /\ extEntities[extRelations'[k].source].by = ExtBy(b)
                 /\ extEntities[extRelations'[k].target].by = ExtBy(b)
  <1>6. PICK t \in Seq(ExtEntityRows), u \in Seq(ExtRelationRows) : t = extEntities /\ u = extRelations
    BY DEF ExtTypes
  <1>7. PICK by : by = ExtBy(b)
    OBVIOUS
  <1>1. t = extEntities /\ u = extRelations /\ by = ExtBy(b)
    BY <1>6, <1>7
  <1>2. ASSUME NEW e \in ExtEntityRows, e.by = by
        PROVE  /\ Append(t, e) \in Seq(ExtEntityRows)
               /\ \A k \in DOMAIN t : k \in DOMAIN Append(t, e) /\ Append(t, e)[k] = t[k]
               /\ \A k \in DOMAIN Append(t, e) : k \in DOMAIN t \/ Append(t, e)[k].by = by
    <2>1. PICK v : v = Append(t, e)
      OBVIOUS
    <2>2. v \in Seq(ExtEntityRows) /\ Len(t) \in Nat /\ DOMAIN t = 1 .. Len(t) /\ DOMAIN v = 1 .. Len(t) + 1
          /\ v[Len(t) + 1] = e /\ \A k \in 1 .. Len(t) : v[k] = t[k]
      BY <2>1
    <2>. QED  BY <1>2, <2>1, <2>2
  <1>3. ASSUME NEW e \in ExtRelationRows
        PROVE  /\ Append(u, e) \in Seq(ExtRelationRows)
               /\ \A k \in DOMAIN u : k \in DOMAIN Append(u, e) /\ Append(u, e)[k] = u[k]
               /\ \A k \in DOMAIN Append(u, e) : k \in DOMAIN u \/ Append(u, e)[k] = e
    <2>1. PICK v : v = Append(u, e)
      OBVIOUS
    <2>2. v \in Seq(ExtRelationRows) /\ Len(u) \in Nat /\ DOMAIN u = 1 .. Len(u) /\ DOMAIN v = 1 .. Len(u) + 1
          /\ v[Len(u) + 1] = e /\ \A k \in 1 .. Len(u) : v[k] = u[k]
      BY <2>1
    <2>. QED  BY <2>1, <2>2
  <1>4. /\ extEntities' \in Seq(ExtEntityRows)
        /\ \A k \in DOMAIN extEntities : k \in DOMAIN extEntities' /\ extEntities'[k] = extEntities[k]
        /\ \A k \in DOMAIN extEntities' : k \in DOMAIN extEntities \/ extEntities'[k].by = ExtBy(b)
    <2>1. CASE UNCHANGED extEntities
      BY <1>1, <2>1
    <2>2. CASE \E e \in ExtEntityRows : e.by = ExtBy(b) /\ extEntities' = Append(extEntities, e)
      <3>1. PICK e \in ExtEntityRows : e.by = by /\ extEntities' = Append(t, e)
        BY <1>1, <2>2
      <3>. QED  BY <1>1, <1>2, <3>1
    <2>. QED  BY <2>1, <2>2 DEF ExtWritesEntity
  <1>5. /\ extRelations' \in Seq(ExtRelationRows)
        /\ \A k \in DOMAIN extRelations : k \in DOMAIN extRelations' /\ extRelations'[k] = extRelations[k]
        /\ \A k \in DOMAIN extRelations' :
                \/ k \in DOMAIN extRelations
                \/ /\ extRelations'[k].by = ExtBy(b)
                   /\ {extRelations'[k].source, extRelations'[k].target} \subseteq DOMAIN extEntities
                   /\ extEntities[extRelations'[k].source].by = ExtBy(b)
                   /\ extEntities[extRelations'[k].target].by = ExtBy(b)
    <2>1. CASE UNCHANGED extRelations
      BY <1>1, <2>1
    <2>2. CASE ~ UNCHANGED extRelations
      <3>1. PICK e \in ExtRelationRows :
               /\ e.by = ExtBy(b) /\ {e.source, e.target} \subseteq DOMAIN extEntities
               /\ extEntities[e.source].by = e.by /\ extEntities[e.target].by = e.by
               /\ extRelations' = Append(u, e)
        BY <1>1, <2>2 DEF ExtWritesRelation
      <3>. QED  BY <1>1, <1>3, <3>1
    <2>. QED  BY <2>1, <2>2
  <1>. QED  BY <1>4, <1>5

\* A block is not touched by what another one does.
LEMMA ExtOthersStay ==
  ASSUME ExtInv, NEW b \in ExtPositions, NEW c \in ExtPositions, b # c,
         ExtWritesEntity(b), ExtWritesRelation(b),
         extBlock'[c] = extBlock[c], UNCHANGED <<extBegun, extRuns>>
  PROVE  ExtBlockInv(c)'
  <1>1. ExtBlockInv(c) /\ ExtTypes /\ ExtTablesInv
    BY DEF ExtInv
  <1>2. ExtBy(c)' = ExtBy(c) /\ ExtBy(b) # ExtBy(c)
    BY DEF ExtBy
  <1>3. ExtOwn(extEntities, c)' = ExtOwn(extEntities, c)
    <2>1. CASE UNCHANGED extEntities
      BY <1>2, <2>1 DEF ExtOwn
    <2>2. CASE \E e \in ExtEntityRows : e.by = ExtBy(b) /\ extEntities' = Append(extEntities, e)
      <3>1. PICK e \in ExtEntityRows : e.by = ExtBy(b) /\ extEntities' = Append(extEntities, e)
        BY <2>2
      <3>2. e.by # ExtBy(c)
        BY <1>2, <3>1
      <3>. QED  BY <1>1, <1>2, <3>1, <3>2, ExtOwnEntities
    <2>. QED  BY <2>1, <2>2 DEF ExtWritesEntity
  <1>4. ExtOwn(extRelations, c)' = ExtOwn(extRelations, c)
    <2>1. CASE UNCHANGED extRelations
      BY <1>2, <2>1 DEF ExtOwn
    <2>2. CASE ~ UNCHANGED extRelations
      <3>1. PICK e \in ExtRelationRows : e.by = ExtBy(b) /\ extRelations' = Append(extRelations, e)
        BY <2>2 DEF ExtWritesRelation
      <3>2. e.by # ExtBy(c)
        BY <1>2, <3>1
      <3>. QED  BY <1>1, <1>2, <3>1, <3>2, ExtOwnRelations
    <2>. QED  BY <2>1, <2>2
  <1>5. /\ \A k \in DOMAIN extEntities : k \in DOMAIN extEntities' /\ extEntities'[k] = extEntities[k]
        /\ \A k \in DOMAIN extRelations : k \in DOMAIN extRelations' /\ extRelations'[k] = extRelations[k]
    BY <1>1, ExtTablesGrow
  <1>6. ASSUME NEW k \in ExtOwn(extRelations, c) PROVE ExtPairOf(k)' = ExtPairOf(k)
    <2>1. k \in DOMAIN extRelations /\ extRelations'[k] = extRelations[k]
      BY <1>5 DEF ExtOwn
    <2>2. extRelations[k].source \in DOMAIN extEntities /\ extRelations[k].target \in DOMAIN extEntities
      BY <1>1, <2>1 DEF ExtTablesInv
    <2>. QED  BY <1>5, <2>1, <2>2 DEF ExtPairOf
  <1>7. {ExtPairOf(k) : k \in ExtOwn(extRelations, c)}' = {ExtPairOf(k) : k \in ExtOwn(extRelations, c)}
    BY <1>4, <1>6
  <1>8. ExtPlacedSoFar(c)' = ExtPlacedSoFar(c)
    BY DEF ExtPlacedSoFar, ExtKeepsRow, ExtRow
  <1>9. ExtNothing(c) => ExtNothing(c)'
    BY <1>3, <1>4 DEF ExtNothing
  <1>10. ExtRowsHeld(c) => ExtRowsHeld(c)'
    <2>1. SUFFICES ASSUME ExtRowsHeld(c) PROVE ExtRowsHeld(c)'
      OBVIOUS
    <2>2. \A i \in DOMAIN extBlock[c].rows :
            /\ extBlock[c].rows[i] \in DOMAIN extEntities'
            /\ extEntities'[extBlock[c].rows[i]].name = extBlock[c].unique[i]
      BY <1>5, <2>1 DEF ExtRowsHeld
    <2>. QED  BY <1>3, <2>1, <2>2 DEF ExtRowsHeld
  <1>11. ExtLinksHeld(c) => ExtLinksHeld(c)'
    BY <1>4, <1>7, <1>8 DEF ExtLinksHeld
  <1>. QED  BY <1>1, <1>9, <1>10, <1>11 DEF ExtBlockInv

\* A list with one element more.
LEMMA OneMore ==
  ASSUME NEW S, NEW t \in Seq(S), NEW e \in S
  PROVE  /\ Append(t, e) \in Seq(S) /\ Len(t) \in Nat /\ Len(Append(t, e)) = Len(t) + 1
         /\ DOMAIN t = 1 .. Len(t) /\ DOMAIN Append(t, e) = 1 .. Len(t) + 1
         /\ Append(t, e)[Len(t) + 1] = e /\ \A k \in 1 .. Len(t) : Append(t, e)[k] = t[k]
  OBVIOUS

\* What a list over a set holds is in the set.
LEMMA ElementOf ==
  ASSUME NEW S, NEW t \in Seq(S), NEW k \in DOMAIN t
  PROVE  t[k] \in S
  OBVIOUS

\* A step of one block that keeps what is said of it keeps the rest.
LEMMA ExtStepKeeps ==
  ASSUME ExtInv, NEW b \in ExtPositions, extMode # "idle", b \in ExtInFlight,
         NEW s \in ExtHeld, extBlock' = [extBlock EXCEPT ![b] = s],
         extBlock[b].attempt <= s.attempt,
         UNCHANGED ExtBatch, ExtWritesEntity(b), ExtWritesRelation(b), ExtBlockInv(b)'
  PROVE  ExtInv'
  <1>1. ExtTypes /\ ExtTablesInv /\ ExtBatchInv /\ (\A c \in ExtPositions : ExtBlockInv(c))
    BY DEF ExtInv
  <1>2. UNCHANGED <<extMode, extBegun, extRuns, extAnswer>>
    BY DEF ExtBatch
  <1>3. /\ extBlock' \in [ExtPositions -> ExtHeld] /\ extBlock'[b] = s
        /\ \A c \in ExtPositions : c # b => extBlock'[c] = extBlock[c]
    BY <1>1 DEF ExtTypes
  <1>4. ExtTypes'
    BY <1>1, <1>2, <1>3, ExtTablesGrow DEF ExtTypes
  <1>5. ASSUME NEW c \in ExtPositions PROVE ExtBlockInv(c)'
    <2>1. CASE c = b
      BY <2>1
    <2>2. CASE c # b
      BY <1>2, <1>3, <2>2, ExtOthersStay
    <2>. QED  BY <2>1, <2>2
  <1>6. ASSUME NEW w \in ExtWriters, ExtBefore(w) PROVE ExtBefore(w)'
    <2>1. w.block \in ExtPositions /\ w.attempt \in Nat
      BY DEF ExtWriters
    <2>2. extBlock[w.block].attempt \in Nat /\ s.attempt \in Nat /\ extBlock[w.block].attempt <= extBlock'[w.block].attempt
      <3>1. \A c \in ExtPositions : extBlock[c].attempt \in Nat
        BY <1>1 DEF ExtTypes, ExtHeld
      <3>2. s.attempt \in Nat
        BY DEF ExtHeld
      <3>. QED  BY <1>3, <2>1, <3>1, <3>2
    <2>3. extBlock'[w.block].attempt \in Nat
      BY <1>3, <2>1 DEF ExtHeld
    <2>4. PICK x, y, z : x = w.attempt /\ y = extBlock[w.block].attempt /\ z = extBlock'[w.block].attempt
      OBVIOUS
    <2>5. x <= y => x <= z
      <3>1. x \in Nat /\ y \in Nat /\ z \in Nat /\ y <= z
        BY <2>1, <2>2, <2>3, <2>4
      <3>. QED  BY ONLY <3>1
    <2>6. w.run <= extRuns /\ (w.run = extRuns => x <= y)
      BY <1>6, <2>4 DEF ExtBefore
    <2>7. w.run <= extRuns' /\ (w.run = extRuns' => x <= z)
      BY <1>2, <2>5, <2>6
    <2>. QED  BY <2>4, <2>7 DEF ExtBefore
  <1>7. ExtBy(b) \in ExtWriters /\ ExtBefore(ExtBy(b))
    <2>1. extBlock[b].at # "idle"
      BY DEF ExtInFlight
    <2>2. extBlock[b].attempt \in 1 .. ExtRetries
      BY <1>1, <2>1 DEF ExtBlockInv
    <2>3. extBlock[b].attempt \in Nat \ {0} /\ extRuns \in Nat
      BY <1>1, <2>2, ExtPositionsFacts DEF ExtTypes
    <2>. QED  BY <2>3 DEF ExtBy, ExtWriters, ExtBefore
  <1>8. ExtTablesInv'
    <2>1. ASSUME NEW k \in DOMAIN extEntities' PROVE ExtBefore(extEntities[k].by)'
      <3>1. extEntities'[k].by \in ExtWriters
        <4>1. extEntities'[k] \in ExtEntityRows
          BY <1>4, ElementOf DEF ExtTypes
        <4>. QED  BY <4>1 DEF ExtEntityRows
      <3>2. ExtBefore(extEntities'[k].by)
        <4>1. CASE k \in DOMAIN extEntities
          <5>1. extEntities'[k] = extEntities[k]
            BY <1>1, <4>1, ExtTablesGrow
          <5>. QED  BY <1>1, <4>1, <5>1 DEF ExtTablesInv
        <4>2. CASE extEntities'[k].by = ExtBy(b)
          BY <1>7, <4>2
        <4>. QED  BY <1>1, <4>1, <4>2, ExtTablesGrow
      <3>3. PICK w \in ExtWriters : w = extEntities'[k].by
        BY <3>1
      <3>4. ExtBefore(w)'
        BY <1>6, <3>2, <3>3
      <3>. QED  BY <3>3, <3>4 DEF ExtBefore
    <2>2. ASSUME NEW k \in DOMAIN extRelations'
          PROVE  /\ ExtBefore(extRelations[k].by)'
                 /\ {extRelations'[k].source, extRelations'[k].target} \subseteq DOMAIN extEntities'
                 /\ extEntities'[extRelations'[k].source].by = extRelations'[k].by
                 /\ extEntities'[extRelations'[k].target].by = extRelations'[k].by
      <3>1. PICK w \in ExtWriters : w = extRelations'[k].by
        <4>1. extRelations'[k] \in ExtRelationRows
          BY <1>4, ElementOf DEF ExtTypes
        <4>. QED  BY <4>1 DEF ExtRelationRows
      <3>2. /\ ExtBefore(w)
            /\ {extRelations'[k].source, extRelations'[k].target} \subseteq DOMAIN extEntities
            /\ extEntities[extRelations'[k].source].by = w
            /\ extEntities[extRelations'[k].target].by = w
        <4>1. CASE k \in DOMAIN extRelations
          <5>1. extRelations'[k] = extRelations[k]
            BY <1>1, <4>1, ExtTablesGrow
          <5>. QED  BY <1>1, <3>1, <4>1, <5>1 DEF ExtTablesInv
        <4>2. CASE k \notin DOMAIN extRelations
          BY <1>1, <1>7, <3>1, <4>2, ExtTablesGrow
        <4>. QED  BY <4>1, <4>2
      <3>3. \A j \in DOMAIN extEntities : j \in DOMAIN extEntities' /\ extEntities'[j] = extEntities[j]
        BY <1>1, ExtTablesGrow
      <3>4. ExtBefore(w)'
        BY <1>6, <3>2
      <3>5. ExtBefore(extRelations[k].by)'
        BY <3>1, <3>4 DEF ExtBefore
      <3>. QED  BY <3>1, <3>2, <3>3, <3>5
    <2>. QED  BY <2>1, <2>2 DEF ExtTablesInv
  <1>9. ExtBatchInv'
    <2>1. ExtInFlight' \subseteq ExtInFlight
      BY <1>3 DEF ExtInFlight
    <2>2. IsFiniteSet(ExtInFlight)
      BY ExtPositionsFacts, FS_Subset DEF ExtInFlight
    <2>3. Cardinality(ExtInFlight') <= Cardinality(ExtInFlight) /\ Cardinality(ExtInFlight) \in Nat /\ Cardinality(ExtInFlight') \in Nat
      BY <2>1, <2>2, FS_Subset, FS_CardinalityType
    <2>4. Cardinality(ExtInFlight') <= ExtConcurrency
      BY <1>1, <2>3, ExtPositionsFacts DEF ExtBatchInv
    <2>5. extAnswer' # "ok"
      BY <1>1, <1>2 DEF ExtBatchInv
    <2>. QED  BY <2>4, <2>5 DEF ExtBatchInv
  <1>. QED  BY <1>4, <1>5, <1>8, <1>9 DEF ExtInv

\* Nothing of an attempt that has not begun is in the tables.
LEMMA ExtNoneYet ==
  ASSUME ExtTypes, ExtTablesInv, NEW b \in ExtPositions, UNCHANGED ExtTables,
         \/ extRuns' = extRuns + 1
         \/ extRuns' = extRuns /\ extBlock[b].attempt < extBlock'[b].attempt
  PROVE  ExtOwn(extEntities, b)' = {} /\ ExtOwn(extRelations, b)' = {}
  <1>1. \A c \in ExtPositions : extBlock[c].attempt \in Nat
    BY DEF ExtTypes, ExtHeld
  <1>2. ASSUME NEW w \in ExtWriters, ExtBefore(w), w = ExtBy(b)' PROVE FALSE
    <2>1. w.run = extRuns' /\ w.block = b /\ w.attempt = extBlock'[b].attempt
      BY <1>2 DEF ExtBy
    <2>2. w.run <= extRuns /\ (w.run = extRuns => w.attempt <= extBlock[b].attempt)
      BY <1>2, <2>1 DEF ExtBefore
    <2>3. w.attempt \in Nat /\ extRuns \in Nat
      BY DEF ExtWriters, ExtTypes
    <2>. QED  BY <1>1, <2>1, <2>2, <2>3
  <1>3. UNCHANGED <<extEntities, extRelations>>
    BY DEF ExtTables
  <1>4. \A k \in DOMAIN extEntities : extEntities[k].by \in ExtWriters /\ ExtBefore(extEntities[k].by)
    <2>1. \A k \in DOMAIN extEntities : extEntities[k] \in ExtEntityRows
      BY ElementOf DEF ExtTypes
    <2>. QED  BY <2>1 DEF ExtTablesInv, ExtEntityRows
  <1>5. \A k \in DOMAIN extRelations : extRelations[k].by \in ExtWriters /\ ExtBefore(extRelations[k].by)
    <2>1. \A k \in DOMAIN extRelations : extRelations[k] \in ExtRelationRows
      BY ElementOf DEF ExtTypes
    <2>. QED  BY <2>1 DEF ExtTablesInv, ExtRelationRows
  <1>6. ExtOwn(extEntities, b)' = {}
    BY <1>2, <1>3, <1>4 DEF ExtOwn
  <1>7. ExtOwn(extRelations, b)' = {}
    BY <1>2, <1>3, <1>5 DEF ExtOwn
  <1>. QED  BY <1>6, <1>7

\* The row that a name has.
LEMMA ExtRowFacts ==
  ASSUME ExtTypes, NEW b \in ExtPositions, ExtRowsHeld(b), NEW name, ExtRow(b, name) # 0
  PROVE  /\ ExtRow(b, name) \in DOMAIN extEntities /\ ExtRow(b, name) \in Nat
         /\ extEntities[ExtRow(b, name)].name = name /\ extEntities[ExtRow(b, name)].by = ExtBy(b)
  <1>1. name \in ToSet(extBlock[b].unique) /\ Len(extBlock[b].rows) = Len(extBlock[b].unique)
    BY DEF ExtRow
  <1>2. PICK i : i = ExtIndex(extBlock[b].unique, name)
    OBVIOUS
  <1>3. i \in DOMAIN extBlock[b].unique /\ extBlock[b].unique[i] = name
    BY <1>1, <1>2 DEF ToSet, ExtIndex
  <1>4. PICK rows \in Seq(Nat), unique \in Seq(ExtSayable) : rows = extBlock[b].rows /\ unique = extBlock[b].unique
    BY DEF ExtTypes, ExtHeld
  <1>5. DOMAIN rows = DOMAIN unique
    BY <1>1, <1>4
  <1>6. i \in DOMAIN rows /\ rows[i] \in Nat
    BY <1>3, <1>4, <1>5
  <1>7. ExtRow(b, name) = rows[i]
    BY <1>1, <1>2, <1>4 DEF ExtRow
  <1>8. rows[i] \in ExtOwn(extEntities, b) /\ extEntities[rows[i]].name = unique[i]
    BY <1>4, <1>6 DEF ExtRowsHeld
  <1>. QED  BY <1>3, <1>4, <1>6, <1>7, <1>8 DEF ExtOwn

\* A block in flight has had an attempt.
LEMMA ExtBlockAt ==
  ASSUME ExtInv, NEW b \in ExtPositions
  PROVE  /\ ExtTypes /\ ExtTablesInv /\ ExtBlockInv(b) /\ extBlock[b] \in ExtHeld
         /\ extBlock[b].attempt \in Nat /\ extBlock[b].at \in ExtPlaces
         /\ extBlock[b].answer.entities \in Seq(ExtSayable)
         /\ extBlock[b].answer.relations \in Seq(ExtSayable \X ExtSayable)
         /\ extBlock[b].unique \in Seq(ExtSayable) /\ extBlock[b].rows \in Seq(Nat)
         /\ extBlock[b].related \in Nat
  <1>1. ExtTypes /\ ExtTablesInv /\ ExtBlockInv(b)
    BY DEF ExtInv
  <1>2. extBlock[b] \in ExtHeld
    BY <1>1 DEF ExtTypes
  <1>. QED  BY <1>1, <1>2 DEF ExtHeld

\* ExtExtract writes nothing: it keeps an answer, or the attempt has failed.
LEMMA ExtExtractKeeps ==
  ASSUME ExtInv, NEW b \in ExtPositions, ExtExtract(b)
  PROVE  ExtInv'
  <1>1. PICK a \in ExtAnswers :
          extBlock' = [extBlock EXCEPT ![b].at = "load",
                         ![b].answer = [entities |-> a.entities, relations |-> ExtNamed(a)]]
    BY DEF ExtExtract
  <1>2. extMode # "idle" /\ extBlock[b].at = "extract" /\ b \in ExtInFlight
    BY DEF ExtExtract, ExtAt, ExtInFlight
  <1>3. PICK s : s = [extBlock[b] EXCEPT !.at = "load", !.answer = [entities |-> a.entities, relations |-> ExtNamed(a)]]
    OBVIOUS
  <1>4. a.entities \in Seq(ExtSayable) /\ ExtNamed(a) \in Seq(ExtSayable \X ExtSayable)
    BY ExtConstants, ExtNamedFacts
  <1>5. /\ s \in ExtHeld /\ s.at = "load" /\ s.attempt = extBlock[b].attempt
        /\ s.rows = extBlock[b].rows /\ s.related = extBlock[b].related
    BY <1>3, <1>4, ExtBlockAt DEF ExtHeld, ExtPlaces
  <1>6. extBlock' = [extBlock EXCEPT ![b] = s] /\ extBlock'[b] = s
    BY <1>1, <1>3, ExtBlockAt DEF ExtTypes
  <1>7. UNCHANGED <<ExtBatch, extMode, extBegun, extRuns, extEntities, extRelations>>
    BY DEF ExtExtract, ExtBatch, ExtTables
  <1>8. ExtBlockInv(b)'
    <2>1. ExtBy(b)' = ExtBy(b)
      BY <1>5, <1>6, <1>7 DEF ExtBy
    <2>2. ExtNothing(b)'
      <3>1. ExtNothing(b)
        BY <1>2, ExtBlockAt DEF ExtBlockInv
      <3>. QED  BY <1>5, <1>6, <1>7, <2>1, <3>1 DEF ExtNothing, ExtOwn
    <2>. QED  BY <1>2, <1>5, <1>6, <1>7, <2>2, ExtBlockAt DEF ExtBlockInv
  <1>9. ExtWritesEntity(b) /\ ExtWritesRelation(b)
    BY <1>7 DEF ExtWritesEntity, ExtWritesRelation
  <1>20. extBlock[b].attempt <= s.attempt
    BY <1>5, ExtBlockAt
  <1>. QED  BY <1>2, <1>5, <1>6, <1>7, <1>8, <1>9, <1>20, ExtStepKeeps

\* ExtLoad drops the duplicates of the answer and has written nothing yet.
LEMMA ExtLoadKeeps ==
  ASSUME ExtInv, NEW b \in ExtPositions, ExtLoad(b)
  PROVE  ExtInv'
  <1>1. PICK resolved \in [DOMAIN extBlock[b].answer.entities -> ToSet(extBlock[b].answer.entities)] :
          extBlock' = [extBlock EXCEPT ![b].at = "entities", ![b].unique = ExtDedup(resolved)]
    BY DEF ExtLoad
  <1>2. extMode # "idle" /\ extBlock[b].at = "load" /\ b \in ExtInFlight
    BY DEF ExtLoad, ExtAt, ExtInFlight
  <1>3. PICK s : s = [extBlock[b] EXCEPT !.at = "entities", !.unique = ExtDedup(resolved)]
    OBVIOUS
  <1>4. ExtDedup(resolved) \in Seq(ExtSayable)
    <2>1. PICK asked \in Seq(ExtSayable) : asked = extBlock[b].answer.entities
      BY ExtBlockAt
    <2>2. ToSet(asked) \subseteq ExtSayable /\ DOMAIN asked = 1 .. Len(asked) /\ Len(asked) \in Nat
      BY <2>1 DEF ToSet
    <2>3. resolved \in [1 .. Len(asked) -> ExtSayable]
      BY <1>1, <2>1, <2>2
    <2>4. resolved \in Seq(ExtSayable)
      BY ONLY <2>2, <2>3
    <2>. QED  BY <2>4, ExtDedupFacts
  <1>5. /\ s \in ExtHeld /\ s.at = "entities" /\ s.attempt = extBlock[b].attempt
        /\ s.rows = extBlock[b].rows /\ s.related = extBlock[b].related
    BY <1>3, <1>4, ExtBlockAt DEF ExtHeld, ExtPlaces
  <1>6. extBlock' = [extBlock EXCEPT ![b] = s] /\ extBlock'[b] = s
    BY <1>1, <1>3, ExtBlockAt DEF ExtTypes
  <1>7. UNCHANGED <<ExtBatch, extMode, extBegun, extRuns, extEntities, extRelations>>
    BY DEF ExtLoad, ExtBatch, ExtTables
  <1>8. ExtBlockInv(b)'
    <2>1. ExtBy(b)' = ExtBy(b)
      BY <1>5, <1>6, <1>7 DEF ExtBy
    <2>2. ExtOwn(extEntities, b)' = {} /\ ExtOwn(extRelations, b)' = {} /\ s.rows = << >> /\ s.related = 0
      <3>1. ExtNothing(b)
        BY <1>2, ExtBlockAt DEF ExtBlockInv
      <3>. QED  BY <1>5, <1>6, <1>7, <2>1, <3>1 DEF ExtNothing, ExtOwn
    <2>3. Len(s.unique) \in Nat /\ Len(s.answer.relations) \in Nat
      BY <1>5 DEF ExtHeld
    <2>4. ExtRowsHeld(b)'
      <3>1. Len(s.rows) = 0 /\ DOMAIN s.rows = {}
        BY <2>2
      <3>. QED  BY <1>6, <2>2, <2>3, <3>1 DEF ExtRowsHeld
    <2>5. ExtLinksHeld(b)'
      <3>1. ExtPlacedSoFar(b)' = {}
        BY <1>6, <2>2 DEF ExtPlacedSoFar
      <3>2. IsFiniteSet({})
        BY FS_EmptySet
      <3>. QED  BY <1>6, <2>2, <2>3, <3>1, <3>2 DEF ExtLinksHeld
    <2>. QED  BY <1>2, <1>5, <1>6, <1>7, <2>4, <2>5, ExtBlockAt DEF ExtBlockInv
  <1>9. ExtWritesEntity(b) /\ ExtWritesRelation(b)
    BY <1>7 DEF ExtWritesEntity, ExtWritesRelation
  <1>20. extBlock[b].attempt <= s.attempt
    BY <1>5, ExtBlockAt
  <1>. QED  BY <1>2, <1>5, <1>6, <1>7, <1>8, <1>9, <1>20, ExtStepKeeps

\* ExtEntity adds the row of the next name, which becomes its own.
LEMMA ExtEntityKeeps ==
  ASSUME ExtInv, NEW b \in ExtPositions, ExtEntity(b)
  PROVE  ExtInv'
  <1>1. /\ extMode # "idle" /\ extBlock[b].at = "entities" /\ b \in ExtInFlight
        /\ Len(extBlock[b].rows) < Len(extBlock[b].unique)
    BY DEF ExtEntity, ExtAt, ExtInFlight
  <1>2. PICK rows \in Seq(Nat), unique \in Seq(ExtSayable) : rows = extBlock[b].rows /\ unique = extBlock[b].unique
    BY ExtBlockAt
  <1>3. PICK n \in Nat, m \in Nat : n = Len(rows) /\ m = Len(extEntities)
    BY ExtBlockAt DEF ExtTypes
  <1>4. PICK e : e = [name |-> unique[n + 1], by |-> ExtBy(b)]
    OBVIOUS
  <1>5. extEntities' = Append(extEntities, e) /\ extBlock' = [extBlock EXCEPT ![b].rows = Append(rows, m + 1)]
    BY <1>2, <1>3, <1>4, ExtBlockAt DEF ExtEntity, ExtTypes
  <1>6. ExtRowsHeld(b) /\ ExtLinksHeld(b) /\ extBlock[b].attempt \in 1 .. ExtRetries
    BY <1>1, ExtBlockAt DEF ExtBlockInv
  <1>7. n + 1 \in 1 .. Len(unique) /\ n < Len(unique) /\ Len(unique) \in Nat
    BY <1>1, <1>2, <1>3
  <1>8. e \in ExtEntityRows /\ e.by = ExtBy(b) /\ e.name = unique[n + 1]
    <2>1. unique[n + 1] \in ExtSayable
      BY <1>7
    <2>2. ExtBy(b) \in ExtWriters
      <3>1. extBlock[b].attempt \in Nat \ {0} /\ extRuns \in Nat
        BY <1>6, ExtPositionsFacts, ExtBlockAt DEF ExtTypes
      <3>. QED  BY <3>1 DEF ExtBy, ExtWriters
    <2>. QED  BY <1>4, <2>1, <2>2 DEF ExtEntityRows
  <1>9. PICK s : s = [extBlock[b] EXCEPT !.rows = Append(rows, m + 1)]
    OBVIOUS
  <1>10. /\ s \in ExtHeld /\ s.at = "entities" /\ s.attempt = extBlock[b].attempt
         /\ s.rows = Append(rows, m + 1) /\ s.related = extBlock[b].related
         /\ s.unique = unique /\ s.answer = extBlock[b].answer
    <2>1. Append(rows, m + 1) \in Seq(Nat)
      BY <1>3
    <2>. QED  BY <1>1, <1>2, <1>9, <2>1, ExtBlockAt DEF ExtHeld
  <1>11. extBlock' = [extBlock EXCEPT ![b] = s] /\ extBlock'[b] = s
    BY <1>5, <1>9, ExtBlockAt DEF ExtTypes
  <1>12. UNCHANGED <<ExtBatch, extMode, extBegun, extRuns, extRelations>>
    BY DEF ExtEntity, ExtBatch
  <1>13. ExtWritesEntity(b) /\ ExtWritesRelation(b)
    BY <1>5, <1>8, <1>12 DEF ExtWritesEntity, ExtWritesRelation
  <1>14. ExtBy(b)' = ExtBy(b)
    BY <1>10, <1>11, <1>12 DEF ExtBy
  <1>15. ExtRowsHeld(b)'
    <2>1. PICK t \in Seq(ExtEntityRows) : t = extEntities
      BY ExtBlockAt DEF ExtTypes
    <2>2. PICK u : u = Append(t, e) /\ u = extEntities' /\ DOMAIN t = 1 .. m /\ DOMAIN u = 1 .. m + 1
                    /\ u[m + 1] = e /\ \A k \in 1 .. m : u[k] = t[k]
      <3>1. Len(t) = m
        BY <1>3, <2>1
      <3>2. /\ Append(t, e) \in Seq(ExtEntityRows) /\ DOMAIN t = 1 .. m /\ DOMAIN Append(t, e) = 1 .. m + 1
            /\ Append(t, e)[m + 1] = e /\ \A k \in 1 .. m : Append(t, e)[k] = t[k]
        BY <1>8, <3>1, OneMore
      <3>. QED  BY <1>5, <2>1, <3>2
    <2>3. PICK more : more = Append(rows, m + 1) /\ DOMAIN rows = 1 .. n /\ DOMAIN more = 1 .. n + 1 /\ Len(more) = n + 1
                    /\ more[n + 1] = m + 1 /\ \A k \in 1 .. n : more[k] = rows[k]
      <3>1. m + 1 \in Nat /\ Len(rows) = n
        BY <1>3
      <3>2. /\ Len(Append(rows, m + 1)) = n + 1 /\ DOMAIN rows = 1 .. n /\ DOMAIN Append(rows, m + 1) = 1 .. n + 1
            /\ Append(rows, m + 1)[n + 1] = m + 1 /\ \A k \in 1 .. n : Append(rows, m + 1)[k] = rows[k]
        BY <3>1, OneMore
      <3>. QED  BY <3>2
    <2>4. \A i \in 1 .. n : rows[i] \in 1 .. m /\ t[rows[i]].name = unique[i]
      BY <1>2, <1>6, <2>1, <2>2, <2>3 DEF ExtRowsHeld
    <2>5. \A i \in 1 .. n + 1 : more[i] \in 1 .. m + 1 /\ u[more[i]].name = unique[i]
      <3>1. SUFFICES ASSUME NEW i \in 1 .. n + 1 PROVE more[i] \in 1 .. m + 1 /\ u[more[i]].name = unique[i]
        OBVIOUS
      <3>2. CASE i = n + 1
        BY <1>3, <1>8, <2>2, <2>3, <3>2
      <3>3. CASE i # n + 1
        <4>1. i \in 1 .. n
          BY <1>3, <3>1, <3>3
        <4>2. more[i] = rows[i] /\ rows[i] \in 1 .. m /\ t[rows[i]].name = unique[i]
          BY <2>3, <2>4, <4>1
        <4>3. rows[i] \in 1 .. m + 1
          BY <1>3, <4>2
        <4>. QED  BY <2>2, <4>2, <4>3
      <3>. QED  BY <3>2, <3>3
    <2>6. \A i, j \in 1 .. n + 1 : more[i] = more[j] => i = j
      <3>1. \A i, j \in 1 .. n : rows[i] = rows[j] => i = j
        BY <1>2, <1>6, <2>3 DEF ExtRowsHeld
      <3>2. \A i \in 1 .. n : more[i] # m + 1 /\ more[i] = rows[i]
        BY <1>3, <2>3, <2>4
      <3>3. \A i \in 1 .. n + 1 : i = n + 1 \/ i \in 1 .. n
        BY <1>3
      <3>. QED  BY <2>3, <3>1, <3>2, <3>3
    <2>7. ExtOwn(extEntities, b)' = {more[i] : i \in 1 .. n + 1}
      <3>1. ExtOwn(extEntities, b)' = ExtOwn(extEntities, b) \cup {m + 1}
        BY <1>3, <1>5, <1>8, <1>14, ExtBlockAt, ExtOwnEntities
      <3>2. ExtOwn(extEntities, b) = {rows[i] : i \in 1 .. n}
        BY <1>2, <1>6, <2>3 DEF ExtRowsHeld
      <3>3. 1 .. n + 1 = (1 .. n) \cup {n + 1}
        BY <1>3
      <3>4. {more[i] : i \in 1 .. n + 1} = {rows[i] : i \in 1 .. n} \cup {m + 1}
        BY ONLY <2>3, <3>3
      <3>. QED  BY <3>1, <3>2, <3>4
    <2>8. Len(more) <= Len(unique)
      BY <1>3, <1>7, <2>3
    <2>9. s.rows = more /\ s.unique = unique
      BY <1>10, <2>3
    <2>10. /\ Len(more) <= Len(unique)
           /\ \A i \in DOMAIN more : more[i] \in DOMAIN extEntities' /\ extEntities'[more[i]].name = unique[i]
           /\ \A i, j \in DOMAIN more : more[i] = more[j] => i = j
           /\ ExtOwn(extEntities, b)' = {more[i] : i \in DOMAIN more}
      BY <2>2, <2>3, <2>5, <2>6, <2>7, <2>8
    <2>. QED  BY <1>11, <2>9, <2>10 DEF ExtRowsHeld
  <1>16. ExtLinksHeld(b)'
    <2>1. s.related = 0 /\ 0 <= Len(s.answer.relations)
      BY <1>1, <1>6, <1>10, ExtBlockAt DEF ExtLinksHeld
    <2>2. ExtPlacedSoFar(b) = {} /\ ExtPlacedSoFar(b)' = {}
      BY <1>10, <1>11, <2>1 DEF ExtPlacedSoFar
    <2>3. ExtOwn(extRelations, b) = {}
      BY <1>6, <2>2, FS_EmptySet DEF ExtLinksHeld
    <2>4. ExtOwn(extRelations, b)' = {}
      BY <1>12, <1>14, <2>3 DEF ExtOwn
    <2>5. IsFiniteSet({})
      BY FS_EmptySet
    <2>. QED  BY <1>11, <2>1, <2>2, <2>4, <2>5 DEF ExtLinksHeld
  <1>17. ExtBlockInv(b)'
    BY <1>1, <1>10, <1>11, <1>12, <1>15, <1>16, ExtBlockAt DEF ExtBlockInv
  <1>20. extBlock[b].attempt <= s.attempt
    BY <1>10, ExtBlockAt
  <1>. QED  BY <1>1, <1>10, <1>11, <1>12, <1>13, <1>17, <1>20, ExtStepKeeps

\* A row of the table is where it was when the table has grown.
LEMMA ExtRowStays ==
  ASSUME NEW b, extBlock'[b].rows = extBlock[b].rows, extBlock'[b].unique = extBlock[b].unique
  PROVE  \A name : ExtRow(b, name)' = ExtRow(b, name)
  BY DEF ExtRow

\* What an attempt begins with.
LEMMA ExtFreshFacts ==
  ASSUME NEW n \in Nat, NEW s, s = [ExtFresh EXCEPT !.at = "extract", !.attempt = n]
  PROVE  s \in ExtHeld /\ s.at = "extract" /\ s.attempt = n /\ s.rows = << >> /\ s.related = 0
  <1>1. s = [at |-> "extract", attempt |-> n, answer |-> [entities |-> << >>, relations |-> << >>],
             unique |-> << >>, rows |-> << >>, related |-> 0]
    BY DEF ExtFresh
  <1>2. << >> \in Seq(ExtSayable) /\ << >> \in Seq(ExtSayable \X ExtSayable) /\ << >> \in Seq(Nat)
    OBVIOUS
  <1>3. [entities |-> << >>, relations |-> << >>] \in [entities : Seq(ExtSayable), relations : Seq(ExtSayable \X ExtSayable)]
    BY <1>2
  <1>4. PICK a, u, r : a = [entities |-> << >>, relations |-> << >>] /\ u = << >> /\ r = << >>
    OBVIOUS
  <1>5. s = [at |-> "extract", attempt |-> n, answer |-> a, unique |-> u, rows |-> r, related |-> 0]
    BY <1>1, <1>4, Zenon
  <1>6. /\ a \in [entities : Seq(ExtSayable), relations : Seq(ExtSayable \X ExtSayable)]
        /\ u \in Seq(ExtSayable) /\ r \in Seq(Nat)
    BY <1>2, <1>3, <1>4, Zenon
  <1>7. s \in ExtHeld
    BY ONLY <1>5, <1>6, n \in Nat DEF ExtHeld, ExtPlaces
  <1>8. s.at = "extract" /\ s.attempt = n /\ s.rows = r /\ s.related = 0
    BY ONLY <1>5
  <1>. QED  BY <1>4, <1>7, <1>8

\* ExtRelation adds the row of the next relation between rows of its own, or skips it.
LEMMA ExtRelationKeeps ==
  ASSUME ExtInv, NEW b \in ExtPositions, ExtRelation(b)
  PROVE  ExtInv'
  <1>1. /\ extMode # "idle" /\ extBlock[b].at = "entities" /\ b \in ExtInFlight
        /\ Len(extBlock[b].rows) = Len(extBlock[b].unique)
        /\ extBlock[b].related < Len(extBlock[b].answer.relations)
    BY DEF ExtRelation, ExtAt, ExtInFlight
  <1>2. PICK n \in Nat : n = extBlock[b].related
    BY ExtBlockAt
  <1>3. PICK rs \in Seq(ExtSayable \X ExtSayable) : rs = extBlock[b].answer.relations
    BY ExtBlockAt
  <1>4. n + 1 \in 1 .. Len(rs) /\ n < Len(rs) /\ Len(rs) \in Nat
    BY <1>1, <1>2, <1>3
  <1>5. PICK r \in ExtSayable \X ExtSayable : r = rs[n + 1]
    BY <1>4
  <1>6. PICK s : s = [extBlock[b] EXCEPT !.related = n + 1]
    OBVIOUS
  <1>7. /\ s \in ExtHeld /\ s.at = "entities" /\ s.attempt = extBlock[b].attempt
        /\ s.rows = extBlock[b].rows /\ s.related = n + 1
        /\ s.unique = extBlock[b].unique /\ s.answer = extBlock[b].answer
    <2>1. n + 1 \in Nat
      BY <1>2
    <2>. QED  BY <1>1, <1>6, <2>1, ExtBlockAt DEF ExtHeld
  <1>8. extBlock' = [extBlock EXCEPT ![b] = s] /\ extBlock'[b] = s
    <2>1. extBlock' = [extBlock EXCEPT ![b].related = n + 1]
      BY <1>2, ExtBlockAt DEF ExtRelation, ExtTypes
    <2>. QED  BY <1>6, <2>1, ExtBlockAt DEF ExtTypes
  <1>9. UNCHANGED <<ExtBatch, extMode, extBegun, extRuns, extEntities>>
    BY DEF ExtRelation, ExtBatch
  <1>10. ExtRowsHeld(b) /\ ExtLinksHeld(b) /\ extBlock[b].attempt \in 1 .. ExtRetries
    BY <1>1, ExtBlockAt DEF ExtBlockInv
  <1>11. ExtBy(b)' = ExtBy(b) /\ ExtBy(b) \in ExtWriters
    <2>1. extBlock[b].attempt \in Nat \ {0} /\ extRuns \in Nat
      BY <1>10, ExtPositionsFacts, ExtBlockAt DEF ExtTypes
    <2>. QED  BY <1>7, <1>8, <1>9, <2>1 DEF ExtBy, ExtWriters
  <1>12. \A name : ExtRow(b, name)' = ExtRow(b, name)
    <2>1. extBlock'[b].rows = extBlock[b].rows /\ extBlock'[b].unique = extBlock[b].unique
      BY <1>7, <1>8
    <2>. QED  BY <2>1, ExtRowStays
  <1>13. ExtRowsHeld(b)'
    BY <1>7, <1>8, <1>9, <1>10, <1>11 DEF ExtRowsHeld, ExtOwn
  <1>14. PICK placed : placed = ExtPlacedSoFar(b)
    OBVIOUS
  <1>15. placed \subseteq 1 .. n /\ n + 1 \notin placed
    BY <1>2, <1>14 DEF ExtPlacedSoFar
  <1>16. ExtPlacedSoFar(b)' = placed \cup (IF ExtKeepsRow(b, r) THEN {n + 1} ELSE {})
    <2>1. 1 .. n + 1 = (1 .. n) \cup {n + 1}
      BY <1>2
    <2>2. ExtPlacedSoFar(b)' = {j \in 1 .. n + 1 : ExtKeepsRow(b, rs[j])}
      BY <1>3, <1>7, <1>8, <1>12 DEF ExtPlacedSoFar, ExtKeepsRow
    <2>3. placed = {j \in 1 .. n : ExtKeepsRow(b, rs[j])}
      BY <1>2, <1>3, <1>14 DEF ExtPlacedSoFar
    <2>. QED  BY <1>5, <2>1, <2>2, <2>3
  <1>17. PICK own : own = ExtOwn(extRelations, b)
    OBVIOUS
  <1>18. /\ IsFiniteSet(own) /\ IsFiniteSet(placed) /\ Cardinality(own) = Cardinality(placed)
         /\ {ExtPairOf(k) : k \in own} = {rs[j] : j \in placed}
    BY <1>3, <1>10, <1>14, <1>17 DEF ExtLinksHeld
  <1>19. extBlock[b].attempt <= s.attempt
    BY <1>7, ExtBlockAt
  <1>20. s.related <= Len(s.answer.relations) /\ ~ (Len(s.rows) < Len(s.unique))
    <2>1. Len(s.unique) \in Nat
      BY <1>7, ExtBlockAt
    <2>. QED  BY <1>1, <1>3, <1>4, <1>7, <2>1
  <1>21. CASE ExtKeepsRow(b, r)
    <2>1. PICK x, y : x = ExtRow(b, r[1]) /\ y = ExtRow(b, r[2])
      OBVIOUS
    <2>2. /\ {x, y} \subseteq DOMAIN extEntities /\ x \in Nat /\ y \in Nat
          /\ extEntities[x].name = r[1] /\ extEntities[y].name = r[2]
          /\ extEntities[x].by = ExtBy(b) /\ extEntities[y].by = ExtBy(b)
      BY <1>10, <1>21, <2>1, ExtBlockAt, ExtRowFacts DEF ExtKeepsRow
    <2>3. PICK e : e = [source |-> x, target |-> y, by |-> ExtBy(b)]
      OBVIOUS
    <2>4. e \in ExtRelationRows /\ e.by = ExtBy(b) /\ e.source = x /\ e.target = y
      BY <1>11, <2>2, <2>3 DEF ExtRelationRows
    <2>5. extRelations' = Append(extRelations, e)
      BY <1>2, <1>3, <1>5, <1>21, <2>1, <2>3 DEF ExtRelation
    <2>6. ExtWritesEntity(b) /\ ExtWritesRelation(b)
      BY <1>9, <2>2, <2>4, <2>5 DEF ExtWritesEntity, ExtWritesRelation
    <2>7. PICK m \in Nat, t \in Seq(ExtRelationRows) : t = extRelations /\ m = Len(t)
      BY ExtBlockAt DEF ExtTypes
    <2>8. ExtOwn(extRelations, b)' = own \cup {m + 1} /\ m + 1 \notin own
      <3>1. ExtOwn(extRelations, b)' = own \cup {m + 1}
        BY <1>11, <1>17, <2>4, <2>5, <2>7, ExtBlockAt, ExtOwnRelations
      <3>2. DOMAIN extRelations = 1 .. m
        BY <2>7
      <3>. QED  BY <1>17, <2>7, <3>1, <3>2 DEF ExtOwn
    <2>9. PICK u : /\ u = extRelations' /\ DOMAIN t = 1 .. m
                   /\ u[m + 1] = e /\ \A k \in 1 .. m : u[k] = t[k]
      <3>1. /\ DOMAIN t = 1 .. m /\ Append(t, e)[m + 1] = e /\ \A k \in 1 .. m : Append(t, e)[k] = t[k]
        BY <2>4, <2>7, OneMore
      <3>. QED  BY <2>5, <2>7, <3>1
    <2>10. ASSUME NEW k \in own PROVE ExtPairOf(k)' = ExtPairOf(k)
      <3>1. k \in 1 .. m
        BY <1>17, <2>7, <2>9, <2>10 DEF ExtOwn
      <3>. QED  BY <1>9, <2>7, <2>9, <3>1 DEF ExtPairOf
    <2>11. ExtPairOf(m + 1)' = r
      <3>1. r = <<r[1], r[2]>>
        OBVIOUS
      <3>. QED  BY <1>9, <2>2, <2>4, <2>9, <3>1 DEF ExtPairOf
    <2>12. {ExtPairOf(k) : k \in ExtOwn(extRelations, b)}' = {rs[j] : j \in placed \cup {n + 1}}
      <3>1. {ExtPairOf(k) : k \in ExtOwn(extRelations, b)}' = {ExtPairOf(k) : k \in own} \cup {r}
        BY <2>8, <2>10, <2>11
      <3>2. {rs[j] : j \in placed \cup {n + 1}} = {rs[j] : j \in placed} \cup {r}
        BY <1>5
      <3>. QED  BY <1>18, <3>1, <3>2
    <2>13. /\ IsFiniteSet(own \cup {m + 1}) /\ IsFiniteSet(placed \cup {n + 1})
           /\ Cardinality(own \cup {m + 1}) = Cardinality(placed \cup {n + 1})
      BY <1>15, <1>18, <2>8, FS_AddElement
    <2>14. ExtPlacedSoFar(b)' = placed \cup {n + 1}
      BY <1>16, <1>21
    <2>15. ExtLinksHeld(b)'
      BY <1>3, <1>7, <1>8, <1>20, <2>8, <2>12, <2>13, <2>14 DEF ExtLinksHeld
    <2>16. ExtBlockInv(b)'
      BY <1>1, <1>7, <1>8, <1>9, <1>13, <2>15, ExtBlockAt DEF ExtBlockInv
    <2>. QED  BY <1>1, <1>7, <1>8, <1>9, <1>19, <2>6, <2>16, ExtStepKeeps
  <1>22. CASE ~ ExtKeepsRow(b, r)
    <2>1. UNCHANGED extRelations
      BY <1>2, <1>3, <1>5, <1>22 DEF ExtRelation
    <2>2. ExtWritesEntity(b) /\ ExtWritesRelation(b)
      BY <1>9, <2>1 DEF ExtWritesEntity, ExtWritesRelation
    <2>3. ExtOwn(extRelations, b)' = own
      BY <1>11, <1>17, <2>1 DEF ExtOwn
    <2>4. \A k : ExtPairOf(k)' = ExtPairOf(k)
      BY <1>9, <2>1 DEF ExtPairOf
    <2>5. {ExtPairOf(k) : k \in ExtOwn(extRelations, b)}' = {rs[j] : j \in placed}
      BY <1>18, <2>3, <2>4
    <2>6. ExtPlacedSoFar(b)' = placed
      BY <1>16, <1>22
    <2>9. /\ IsFiniteSet(ExtOwn(extRelations, b)') /\ IsFiniteSet(ExtPlacedSoFar(b)')
          /\ Cardinality(ExtOwn(extRelations, b)') = Cardinality(ExtPlacedSoFar(b)')
          /\ {ExtPairOf(k) : k \in ExtOwn(extRelations, b)}' = {rs[j] : j \in ExtPlacedSoFar(b)'}
      BY <1>18, <2>3, <2>5, <2>6
    <2>10. extBlock'[b] = s /\ s.answer.relations = rs
      BY <1>3, <1>7, <1>8
    <2>7. ExtLinksHeld(b)'
      BY <1>20, <2>9, <2>10 DEF ExtLinksHeld
    <2>8. ExtBlockInv(b)'
      BY <1>1, <1>7, <1>8, <1>9, <1>13, <2>7, ExtBlockAt DEF ExtBlockInv
    <2>. QED  BY <1>1, <1>7, <1>8, <1>9, <1>19, <2>2, <2>8, ExtStepKeeps
  <1>. QED  BY <1>21, <1>22

\* A block is done when there is no name and no relation left.
LEMMA ExtWrittenKeeps ==
  ASSUME ExtInv, NEW b \in ExtPositions, ExtWritten(b)
  PROVE  ExtInv'
  <1>1. /\ extMode # "idle" /\ extBlock[b].at = "entities" /\ b \in ExtInFlight
        /\ Len(extBlock[b].rows) = Len(extBlock[b].unique)
        /\ extBlock[b].related = Len(extBlock[b].answer.relations)
    BY DEF ExtWritten, ExtAt, ExtInFlight
  <1>2. PICK s : s = [extBlock[b] EXCEPT !.at = "ok"]
    OBVIOUS
  <1>3. /\ s \in ExtHeld /\ s.at = "ok" /\ s.attempt = extBlock[b].attempt
        /\ s.rows = extBlock[b].rows /\ s.related = extBlock[b].related
        /\ s.unique = extBlock[b].unique /\ s.answer = extBlock[b].answer
    BY <1>2, ExtBlockAt DEF ExtHeld, ExtPlaces
  <1>4. extBlock' = [extBlock EXCEPT ![b] = s] /\ extBlock'[b] = s
    BY <1>2, ExtBlockAt DEF ExtTypes, ExtWritten
  <1>5. UNCHANGED <<ExtBatch, extMode, extBegun, extRuns, extEntities, extRelations>>
    BY DEF ExtWritten, ExtBatch, ExtTables
  <1>6. ExtRowsHeld(b) /\ ExtLinksHeld(b)
    BY <1>1, ExtBlockAt DEF ExtBlockInv
  <1>7. ExtBy(b)' = ExtBy(b)
    BY <1>3, <1>4, <1>5 DEF ExtBy
  <1>8. ExtRowsHeld(b)'
    BY <1>3, <1>4, <1>5, <1>6, <1>7 DEF ExtRowsHeld, ExtOwn
  <1>9. \A name : ExtRow(b, name)' = ExtRow(b, name)
    <2>1. extBlock'[b].rows = extBlock[b].rows /\ extBlock'[b].unique = extBlock[b].unique
      BY <1>3, <1>4
    <2>. QED  BY <2>1, ExtRowStays
  <1>10. ExtPlacedSoFar(b)' = ExtPlacedSoFar(b)
    BY <1>3, <1>4, <1>9 DEF ExtPlacedSoFar, ExtKeepsRow
  <1>11. ExtOwn(extRelations, b)' = ExtOwn(extRelations, b)
    BY <1>5, <1>7 DEF ExtOwn
  <1>12. \A k : ExtPairOf(k)' = ExtPairOf(k)
    BY <1>5 DEF ExtPairOf
  <1>13. {ExtPairOf(k) : k \in ExtOwn(extRelations, b)}' = {ExtPairOf(k) : k \in ExtOwn(extRelations, b)}
    BY <1>11, <1>12
  <1>14. ExtLinksHeld(b)'
    BY <1>3, <1>4, <1>6, <1>10, <1>11, <1>13 DEF ExtLinksHeld
  <1>15. ExtBlockInv(b)'
    BY <1>1, <1>3, <1>4, <1>5, <1>8, <1>14, ExtBlockAt DEF ExtBlockInv
  <1>16. extBlock[b].attempt <= s.attempt /\ ExtWritesEntity(b) /\ ExtWritesRelation(b)
    BY <1>3, <1>5, ExtBlockAt DEF ExtWritesEntity, ExtWritesRelation
  <1>. QED  BY <1>1, <1>3, <1>4, <1>5, <1>15, <1>16, ExtStepKeeps

\* What a failed attempt leaves is not of the next one.
LEMMA ExtFailKeeps ==
  ASSUME ExtInv, NEW b \in ExtPositions, ExtFail(b)
  PROVE  ExtInv'
  <1>1. extMode # "idle" /\ b \in ExtInFlight /\ extBlock[b].at \notin {"idle", "ok", "failed"}
    BY DEF ExtFail, ExtInFlight
  <1>2. UNCHANGED <<ExtBatch, ExtTables, extMode, extBegun, extRuns, extEntities, extRelations>>
    BY DEF ExtFail, ExtBatch, ExtTables
  <1>3. ExtWritesEntity(b) /\ ExtWritesRelation(b)
    BY <1>2 DEF ExtWritesEntity, ExtWritesRelation
  <1>4. PICK n \in Nat : n = extBlock[b].attempt /\ n \in 1 .. ExtRetries /\ b <= extBegun
    BY <1>1, ExtBlockAt DEF ExtBlockInv
  <1>5. CASE n < ExtRetries
    <2>1. PICK s : s = [ExtFresh EXCEPT !.at = "extract", !.attempt = n + 1]
      OBVIOUS
    <2>2. s \in ExtHeld /\ s.at = "extract" /\ s.attempt = n + 1 /\ s.rows = << >> /\ s.related = 0
      <3>1. n + 1 \in Nat
        BY <1>4
      <3>. QED  BY <2>1, <3>1, ExtFreshFacts
    <2>3. extBlock' = [extBlock EXCEPT ![b] = s] /\ extBlock'[b] = s
      BY <1>4, <1>5, <2>1, ExtBlockAt DEF ExtFail, ExtRetry, ExtTypes
    <2>4. ExtOwn(extEntities, b)' = {} /\ ExtOwn(extRelations, b)' = {}
      BY <1>2, <1>4, <2>2, <2>3, ExtBlockAt, ExtNoneYet
    <2>5. n + 1 \in 1 .. ExtRetries
      BY <1>4, <1>5, ExtPositionsFacts
    <2>6. ExtBlockInv(b)'
      BY <1>2, <1>4, <2>2, <2>3, <2>4, <2>5 DEF ExtBlockInv, ExtNothing
    <2>7. extBlock[b].attempt <= s.attempt
      BY <1>4, <2>2
    <2>. QED  BY <1>1, <1>2, <1>3, <2>2, <2>3, <2>6, <2>7, ExtStepKeeps
  <1>6. CASE ~ (n < ExtRetries)
    <2>1. PICK s : s = [extBlock[b] EXCEPT !.at = "failed"]
      OBVIOUS
    <2>2. s \in ExtHeld /\ s.at = "failed" /\ s.attempt = n
      BY <1>4, <2>1, ExtBlockAt DEF ExtHeld, ExtPlaces
    <2>3. extBlock' = [extBlock EXCEPT ![b] = s] /\ extBlock'[b] = s
      BY <1>4, <1>6, <2>1, ExtBlockAt DEF ExtFail, ExtRetry, ExtTypes
    <2>4. n = ExtRetries
      BY <1>4, <1>6, ExtPositionsFacts
    <2>5. ExtBlockInv(b)'
      BY <1>2, <1>4, <2>2, <2>3, <2>4 DEF ExtBlockInv
    <2>6. extBlock[b].attempt <= s.attempt
      BY <1>4, <2>2
    <2>. QED  BY <1>1, <1>2, <1>3, <2>2, <2>3, <2>5, <2>6, ExtStepKeeps
  <1>. QED  BY <1>5, <1>6

\* What a block begins with.
LEMMA ExtFreshHeld == ExtFresh \in ExtHeld
  <1>1. PICK a, u, r : a = [entities |-> << >>, relations |-> << >>] /\ u = << >> /\ r = << >>
    OBVIOUS
  <1>2. ExtFresh = [at |-> "idle", attempt |-> 0, answer |-> a, unique |-> u, rows |-> r, related |-> 0]
    BY <1>1, Zenon DEF ExtFresh
  <1>3. << >> \in Seq(ExtSayable) /\ << >> \in Seq(ExtSayable \X ExtSayable) /\ << >> \in Seq(Nat)
    OBVIOUS
  <1>4. [entities |-> << >>, relations |-> << >>] \in [entities : Seq(ExtSayable), relations : Seq(ExtSayable \X ExtSayable)]
    BY <1>3
  <1>5. /\ a \in [entities : Seq(ExtSayable), relations : Seq(ExtSayable \X ExtSayable)]
        /\ u \in Seq(ExtSayable) /\ r \in Seq(Nat)
    BY <1>1, <1>3, <1>4, Zenon
  <1>. QED  BY ONLY <1>2, <1>5 DEF ExtHeld, ExtPlaces

\* The tables are left alone, and what was before still is.
LEMMA ExtTablesFrame ==
  ASSUME ExtTypes, ExtTablesInv, UNCHANGED <<extEntities, extRelations>>,
         \A w \in ExtWriters : ExtBefore(w) => ExtBefore(w)'
  PROVE  ExtTablesInv'
  <1>1. \A k \in DOMAIN extEntities : ExtBefore(extEntities[k].by)'
    <2>1. SUFFICES ASSUME NEW k \in DOMAIN extEntities PROVE ExtBefore(extEntities[k].by)'
      OBVIOUS
    <2>2. extEntities[k] \in ExtEntityRows
      BY ElementOf DEF ExtTypes
    <2>3. PICK w \in ExtWriters : w = extEntities[k].by
      BY <2>2 DEF ExtEntityRows
    <2>4. ExtBefore(w)'
      BY <2>3 DEF ExtTablesInv
    <2>. QED  BY <2>3, <2>4 DEF ExtBefore
  <1>2. \A k \in DOMAIN extRelations : ExtBefore(extRelations[k].by)'
    <2>1. SUFFICES ASSUME NEW k \in DOMAIN extRelations PROVE ExtBefore(extRelations[k].by)'
      OBVIOUS
    <2>2. extRelations[k] \in ExtRelationRows
      BY ElementOf DEF ExtTypes
    <2>3. PICK w \in ExtWriters : w = extRelations[k].by
      BY <2>2 DEF ExtRelationRows
    <2>4. ExtBefore(w)'
      BY <2>3 DEF ExtTablesInv
    <2>. QED  BY <2>3, <2>4 DEF ExtBefore
  <1>. QED  BY <1>1, <1>2 DEF ExtTablesInv

\* Before the first batch nothing is written and no block has begun.
LEMMA ExtStarts == ExtInit => ExtInv
  <1>. SUFFICES ASSUME ExtInit PROVE ExtInv
    OBVIOUS
  <1>1. ExtTypes
    <2>1. ExtFresh \in ExtHeld
      BY ExtFreshHeld
    <2>2. << >> \in Seq(ExtEntityRows) /\ << >> \in Seq(ExtRelationRows)
      OBVIOUS
    <2>3. 0 \in 0 .. Len(ExtBlocks)
      BY ExtPositionsFacts
    <2>. QED  BY <2>1, <2>2, <2>3 DEF ExtInit, ExtTypes
  <1>2. ASSUME NEW b \in ExtPositions PROVE ExtBlockInv(b)
    <2>1. extBlock[b] = ExtFresh /\ ExtFresh.at = "idle" /\ ExtFresh.attempt = 0 /\ ExtFresh.rows = << >> /\ ExtFresh.related = 0
      BY DEF ExtInit, ExtFresh
    <2>2. ExtOwn(extEntities, b) = {} /\ ExtOwn(extRelations, b) = {}
      BY DEF ExtInit, ExtOwn
    <2>3. ~ (b <= extBegun)
      BY ExtPositionsFacts DEF ExtInit
    <2>. QED  BY <2>1, <2>2, <2>3 DEF ExtBlockInv, ExtNothing
  <1>3. ExtTablesInv
    BY DEF ExtInit, ExtTablesInv
  <1>4. ExtBatchInv
    <2>1. ExtInFlight = {}
      BY DEF ExtInit, ExtFresh, ExtInFlight
    <2>2. Cardinality({}) = 0
      BY FS_EmptySet
    <2>. QED  BY <2>1, <2>2, ExtPositionsFacts DEF ExtInit, ExtBatchInv
  <1>. QED  BY <1>1, <1>2, <1>3, <1>4 DEF ExtInv

\* A batch begins, and no block has done anything in it.
LEMMA ExtStartKeeps ==
  ASSUME ExtInv, NEW mode \in {"sequential", "concurrent"}, ExtStart(mode)
  PROVE  ExtInv'
  <1>1. /\ extMode' = mode /\ extRuns' = extRuns + 1 /\ extBegun' = 0 /\ extAnswer' = "none"
        /\ extBlock' = [b \in ExtPositions |-> ExtFresh] /\ UNCHANGED <<ExtTables, extEntities, extRelations>>
    BY DEF ExtStart, ExtTables
  <1>2. ExtTypes /\ ExtTablesInv
    BY DEF ExtInv
  <1>3. ExtFresh \in ExtHeld /\ ExtFresh.at = "idle" /\ ExtFresh.attempt = 0 /\ ExtFresh.rows = << >> /\ ExtFresh.related = 0
    BY ExtFreshHeld DEF ExtFresh
  <1>4. ExtTypes'
    <2>1. 0 \in 0 .. Len(ExtBlocks)
      BY ExtPositionsFacts
    <2>. QED  BY <1>1, <1>2, <1>3, <2>1 DEF ExtTypes
  <1>5. ASSUME NEW b \in ExtPositions PROVE ExtBlockInv(b)'
    <2>1. ExtOwn(extEntities, b)' = {} /\ ExtOwn(extRelations, b)' = {}
      BY <1>1, <1>2, ExtNoneYet
    <2>2. ~ (b <= 0)
      BY ExtPositionsFacts
    <2>. QED  BY <1>1, <1>3, <2>1, <2>2 DEF ExtBlockInv, ExtNothing
  <1>6. ExtTablesInv'
    <2>1. ASSUME NEW w \in ExtWriters, ExtBefore(w) PROVE ExtBefore(w)'
      <3>1. w.run <= extRuns /\ w.run \in Nat /\ extRuns \in Nat
        BY <1>2, <2>1 DEF ExtBefore, ExtWriters, ExtTypes
      <3>2. w.run <= extRuns' /\ w.run # extRuns'
        BY <1>1, <3>1
      <3>. QED  BY <3>2 DEF ExtBefore
    <2>. QED  BY <1>1, <1>2, <2>1, ExtTablesFrame
  <1>7. ExtBatchInv'
    <2>1. ExtInFlight' = {}
      BY <1>1, <1>3 DEF ExtInFlight
    <2>2. Cardinality({}) = 0
      BY FS_EmptySet
    <2>. QED  BY <1>1, <2>1, <2>2, ExtPositionsFacts DEF ExtBatchInv
  <1>. QED  BY <1>4, <1>5, <1>6, <1>7 DEF ExtInv

\* The next block begins; nothing of it is in the tables.
LEMMA ExtBeginKeeps ==
  ASSUME ExtInv, ExtBegin
  PROVE  ExtInv'
  <1>1. PICK n \in Nat, c \in Nat : n = extBegun /\ c = n + 1
    <2>1. extBegun \in Nat /\ extBegun + 1 \in Nat
      BY ExtPositionsFacts DEF ExtInv, ExtTypes
    <2>. QED  BY <2>1
  <1>2. /\ n < Len(ExtBlocks) /\ extBegun' = c /\ extMode # "idle" /\ c \in ExtPositions
        /\ UNCHANGED <<extMode, extRuns, extAnswer, ExtTables, extEntities, extRelations>>
    BY <1>1, ExtPositionsFacts DEF ExtBegin, ExtTables
  <1>3. ExtTypes /\ ExtTablesInv /\ ExtBatchInv /\ \A b \in ExtPositions : ExtBlockInv(b)
    BY DEF ExtInv
  <1>4. PICK s : s = [ExtFresh EXCEPT !.at = "extract", !.attempt = 1]
    OBVIOUS
  <1>5. s \in ExtHeld /\ s.at = "extract" /\ s.attempt = 1 /\ s.rows = << >> /\ s.related = 0
    BY <1>4, ExtFreshFacts
  <1>6. /\ extBlock' \in [ExtPositions -> ExtHeld] /\ extBlock'[c] = s
        /\ \A b \in ExtPositions : b # c => extBlock'[b] = extBlock[b]
    <2>1. extBlock' = [extBlock EXCEPT ![c] = s]
      BY <1>1, <1>4 DEF ExtBegin
    <2>. QED  BY <1>2, <1>3, <1>5, <2>1 DEF ExtTypes
  <1>7. extBlock[c].at = "idle" /\ extBlock[c].attempt = 0
    BY <1>1, <1>2, <1>3 DEF ExtBlockInv
  <1>8. ExtTypes'
    <2>1. c \in 0 .. Len(ExtBlocks)
      BY <1>1, <1>2, ExtPositionsFacts
    <2>. QED  BY <1>2, <1>3, <1>6, <2>1 DEF ExtTypes
  <1>9. ASSUME NEW b \in ExtPositions PROVE ExtBlockInv(b)'
    <2>1. CASE b = c
      <3>1. ExtOwn(extEntities, b)' = {} /\ ExtOwn(extRelations, b)' = {}
        <4>1. extBlock[b].attempt < extBlock'[b].attempt
          BY <1>5, <1>6, <1>7, <2>1
        <4>. QED  BY <1>2, <1>3, <4>1, ExtNoneYet
      <3>2. b <= extBegun' /\ 1 \in 1 .. ExtRetries
        BY <1>1, <1>2, <2>1, ExtPositionsFacts
      <3>. QED  BY <1>2, <1>5, <1>6, <2>1, <3>1, <3>2 DEF ExtBlockInv, ExtNothing
    <2>2. CASE b # c
      <3>1. b <= extBegun' <=> b <= extBegun
        BY <1>1, <1>2, <2>2, ExtPositionsFacts
      <3>2. extBlock'[b] = extBlock[b] /\ ExtBy(b)' = ExtBy(b)
        BY <1>2, <1>6, <2>2 DEF ExtBy
      <3>3. /\ ExtOwn(extEntities, b)' = ExtOwn(extEntities, b)
            /\ ExtOwn(extRelations, b)' = ExtOwn(extRelations, b)
        BY <1>2, <3>2 DEF ExtOwn
      <3>4. ExtNothing(b) => ExtNothing(b)'
        BY <3>2, <3>3 DEF ExtNothing
      <3>5. ExtRowsHeld(b) => ExtRowsHeld(b)'
        BY <1>2, <3>2, <3>3 DEF ExtRowsHeld
      <3>6. ExtLinksHeld(b) => ExtLinksHeld(b)'
        <4>1. \A k : ExtPairOf(k)' = ExtPairOf(k)
          BY <1>2 DEF ExtPairOf
        <4>2. \A name : ExtRow(b, name)' = ExtRow(b, name)
          BY <3>2, ExtRowStays
        <4>3. ExtPlacedSoFar(b)' = ExtPlacedSoFar(b)
          BY <3>2, <4>2 DEF ExtPlacedSoFar, ExtKeepsRow
        <4>4. {ExtPairOf(k) : k \in ExtOwn(extRelations, b)}' = {ExtPairOf(k) : k \in ExtOwn(extRelations, b)}
          BY <3>3, <4>1
        <4>. QED  BY <3>2, <3>3, <4>3, <4>4 DEF ExtLinksHeld
      <3>. QED  BY <1>3, <3>1, <3>2, <3>4, <3>5, <3>6 DEF ExtBlockInv
    <2>. QED  BY <2>1, <2>2
  <1>10. ExtTablesInv'
    <2>1. ASSUME NEW w \in ExtWriters, ExtBefore(w) PROVE ExtBefore(w)'
      <3>1. w.block \in ExtPositions /\ w.attempt \in Nat
        BY DEF ExtWriters
      <3>2. extBlock[w.block].attempt <= extBlock'[w.block].attempt /\ extBlock[w.block].attempt \in Nat
            /\ extBlock'[w.block].attempt \in Nat
        <4>1. \A b \in ExtPositions : extBlock[b].attempt \in Nat
          BY <1>3 DEF ExtTypes, ExtHeld
        <4>. QED  BY <1>5, <1>6, <1>7, <3>1, <4>1
      <3>3. PICK x, y, z : x = w.attempt /\ y = extBlock[w.block].attempt /\ z = extBlock'[w.block].attempt
        OBVIOUS
      <3>4. x <= y => x <= z
        <4>1. x \in Nat /\ y \in Nat /\ z \in Nat /\ y <= z
          BY <3>1, <3>2, <3>3
        <4>. QED  BY ONLY <4>1
      <3>5. w.run <= extRuns /\ (w.run = extRuns => x <= y)
        BY <2>1, <3>3 DEF ExtBefore
      <3>6. w.run <= extRuns' /\ (w.run = extRuns' => x <= z)
        BY <1>2, <3>4, <3>5
      <3>. QED  BY <3>3, <3>6 DEF ExtBefore
    <2>. QED  BY <1>2, <1>3, <2>1, ExtTablesFrame
  <1>11. ExtBatchInv'
    <2>1. ExtInFlight' = ExtInFlight \cup {c}
      BY <1>2, <1>5, <1>6 DEF ExtInFlight
    <2>2. IsFiniteSet(ExtInFlight) /\ c \notin ExtInFlight
      BY <1>7, ExtPositionsFacts, FS_Subset DEF ExtInFlight
    <2>3. Cardinality(ExtInFlight') = Cardinality(ExtInFlight) + 1 /\ Cardinality(ExtInFlight) \in Nat
      BY <2>1, <2>2, FS_AddElement, FS_CardinalityType
    <2>4. Cardinality(ExtInFlight) < ExtConcurrency
      <3>1. CASE \A b \in 1 .. extBegun : extBlock[b].at = "ok"
        <4>1. ASSUME NEW b \in ExtInFlight PROVE FALSE
          <5>1. b \in ExtPositions /\ extBlock[b].at # "idle" /\ extBlock[b].at # "ok"
            BY <4>1 DEF ExtInFlight
          <5>2. b <= extBegun
            BY <1>3, <5>1 DEF ExtBlockInv
          <5>3. b \in 1 .. extBegun
            BY <1>1, <5>1, <5>2, ExtPositionsFacts
          <5>. QED  BY <3>1, <5>1, <5>3
        <4>2. ExtInFlight = {}
          BY <4>1
        <4>. QED  BY <4>2, FS_EmptySet, ExtPositionsFacts
      <3>2. CASE Cardinality(ExtInFlight) < ExtConcurrency
        BY <3>2
      <3>. QED  BY <3>1, <3>2 DEF ExtBegin
    <2>5. extAnswer' # "ok"
      BY <1>2, <1>3 DEF ExtBatchInv
    <2>. QED  BY <2>3, <2>4, <2>5, ExtPositionsFacts DEF ExtBatchInv
  <1>. QED  BY <1>8, <1>9, <1>10, <1>11 DEF ExtInv

\* A batch ends or is dropped; blocks and tables stay.
LEMMA ExtRestKeeps ==
  ASSUME ExtInv, UNCHANGED <<extBegun, extBlock, extRuns, extEntities, extRelations>>,
         extMode' \in {"idle", "sequential", "concurrent"},
         extAnswer' = "ok" => extMode' = "idle" /\ \A b \in ExtPositions : extBlock[b].at = "ok"
  PROVE  ExtInv'
  <1>1. ExtTypes /\ ExtTablesInv /\ ExtBatchInv /\ \A b \in ExtPositions : ExtBlockInv(b)
    BY DEF ExtInv
  <1>2. ExtTypes'
    BY <1>1 DEF ExtTypes
  <1>3. ASSUME NEW b \in ExtPositions PROVE ExtBlockInv(b)'
    <2>1. ExtBy(b)' = ExtBy(b)
      BY DEF ExtBy
    <2>2. ExtOwn(extEntities, b)' = ExtOwn(extEntities, b) /\ ExtOwn(extRelations, b)' = ExtOwn(extRelations, b)
      BY <2>1 DEF ExtOwn
    <2>3. \A k : ExtPairOf(k)' = ExtPairOf(k)
      BY DEF ExtPairOf
    <2>4. \A name : ExtRow(b, name)' = ExtRow(b, name)
      BY ExtRowStays
    <2>5. ExtPlacedSoFar(b)' = ExtPlacedSoFar(b)
      BY <2>4 DEF ExtPlacedSoFar, ExtKeepsRow
    <2>6. {ExtPairOf(k) : k \in ExtOwn(extRelations, b)}' = {ExtPairOf(k) : k \in ExtOwn(extRelations, b)}
      BY <2>2, <2>3
    <2>7. ExtNothing(b) => ExtNothing(b)'
      BY <2>2 DEF ExtNothing
    <2>8. ExtRowsHeld(b) => ExtRowsHeld(b)'
      BY <2>2 DEF ExtRowsHeld
    <2>9. ExtLinksHeld(b) => ExtLinksHeld(b)'
      BY <2>2, <2>5, <2>6 DEF ExtLinksHeld
    <2>. QED  BY <1>1, <2>7, <2>8, <2>9 DEF ExtBlockInv
  <1>4. ExtTablesInv'
    <2>1. \A w : ExtBefore(w) => ExtBefore(w)'
      BY DEF ExtBefore
    <2>. QED  BY <1>1, <2>1, ExtTablesFrame
  <1>5. ExtBatchInv'
    BY <1>1 DEF ExtBatchInv, ExtInFlight
  <1>. QED  BY <1>2, <1>3, <1>4, <1>5 DEF ExtInv

\* Every step keeps what is said of blocks, tables and batch.
LEMMA ExtKeeps == ExtInv /\ [ExtNext]_extVars => ExtInv'
  <1>. SUFFICES ASSUME ExtInv, [ExtNext]_extVars PROVE ExtInv'
    OBVIOUS
  <1>1. CASE UNCHANGED extVars
    BY <1>1, ExtRestKeeps DEF extVars, ExtInv, ExtTypes, ExtBatchInv
  <1>2. CASE ExtFinish
    <2>1. extAnswer' = "ok" => \A b \in ExtPositions : extBlock[b].at = "ok"
      BY <1>2 DEF ExtFinish, ExtEnded
    <2>. QED  BY <1>2, <2>1, ExtRestKeeps DEF ExtFinish, ExtTables
  <1>3. CASE ExtDropped
    BY <1>3, ExtRestKeeps DEF ExtDropped, ExtTables
  <1>. QED  BY <1>1, <1>2, <1>3, ExtStartKeeps, ExtBeginKeeps, ExtExtractKeeps, ExtLoadKeeps, ExtEntityKeeps,
               ExtRelationKeeps, ExtWrittenKeeps, ExtFailKeeps DEF ExtNext

\* It says that what the tables have of an attempt is what the model said.
LEMMA ExtInvSound == ExtInv => ExtractionSound
  <1>. SUFFICES ASSUME ExtInv PROVE ExtractionSound
    OBVIOUS
  <1>1. ExtTypes /\ ExtTablesInv /\ ExtBatchInv /\ \A b \in ExtPositions : ExtBlockInv(b)
    BY DEF ExtInv
  <1>2. ASSUME NEW b \in ExtPositions, extBlock[b].at = "ok"
        PROVE  /\ {extEntities[k].name : k \in ExtOwn(extEntities, b)} = ToSet(extBlock[b].unique)
               /\ Cardinality(ExtOwn(extEntities, b)) = Len(extBlock[b].unique)
               /\ Cardinality(ExtOwn(extRelations, b)) = Cardinality(ExtPlaced(b))
               /\ {ExtPairOf(k) : k \in ExtOwn(extRelations, b)} =
                    {extBlock[b].answer.relations[j] : j \in ExtPlaced(b)}
    <2>1. /\ ExtRowsHeld(b) /\ ExtLinksHeld(b) /\ Len(extBlock[b].rows) = Len(extBlock[b].unique)
          /\ extBlock[b].related = Len(extBlock[b].answer.relations)
      BY <1>1, <1>2 DEF ExtBlockInv
    <2>2. PICK rows \in Seq(Nat), unique \in Seq(ExtSayable) : rows = extBlock[b].rows /\ unique = extBlock[b].unique
      BY ExtBlockAt
    <2>3. PICK n \in Nat : n = Len(rows) /\ n = Len(unique) /\ DOMAIN rows = 1 .. n /\ DOMAIN unique = 1 .. n
      BY <2>1, <2>2
    <2>4. /\ \A i \in 1 .. n : extEntities[rows[i]].name = unique[i]
          /\ \A i, j \in 1 .. n : rows[i] = rows[j] => i = j
          /\ ExtOwn(extEntities, b) = {rows[i] : i \in 1 .. n}
      BY <2>1, <2>2, <2>3 DEF ExtRowsHeld
    <2>5. {extEntities[k].name : k \in ExtOwn(extEntities, b)} = ToSet(extBlock[b].unique)
      BY <2>2, <2>3, <2>4 DEF ToSet
    <2>6. Cardinality(ExtOwn(extEntities, b)) = Len(extBlock[b].unique)
      <3>1. PICK own : own = ExtOwn(extEntities, b)
        OBVIOUS
      <3>2. rows \in Bijection(1 .. n, own)
        <4>1. rows \in [1 .. n -> own] /\ (\A i, j \in 1 .. n : rows[i] = rows[j] => i = j)
              /\ (\A k \in own : \E i \in 1 .. n : rows[i] = k)
          <5>1. rows = [i \in 1 .. n |-> rows[i]]
            BY <2>2, <2>3
          <5>. QED  BY <2>4, <3>1, <5>1
        <4>. QED  BY <4>1 DEF Bijection, Injection, Surjection, IsInjective
      <3>3. IsFiniteSet(1 .. n) /\ Cardinality(1 .. n) = n
        BY FS_Interval
      <3>4. Cardinality(own) = n
        BY <3>2, <3>3, FS_Bijection DEF ExistsBijection
      <3>. QED  BY <2>2, <2>3, <3>1, <3>4
    <2>7. ExtPlacedSoFar(b) = ExtPlaced(b)
      <3>1. DOMAIN extBlock[b].answer.relations = 1 .. Len(extBlock[b].answer.relations)
        BY ExtBlockAt
      <3>. QED  BY <2>1, <3>1 DEF ExtPlacedSoFar, ExtPlaced
    <2>. QED  BY <2>1, <2>5, <2>6, <2>7 DEF ExtLinksHeld
  <1>3. \A k \in DOMAIN extRelations :
          {extEntities[extRelations[k].source].by, extEntities[extRelations[k].target].by} = {extRelations[k].by}
    BY <1>1 DEF ExtTablesInv
  <1>4. \A b \in ExtPositions : extBlock[b].at = "failed" => extBlock[b].attempt = ExtRetries
    BY <1>1 DEF ExtBlockInv
  <1>. QED  BY <1>1, <1>2, <1>3, <1>4 DEF ExtractionSound, ExtBatchInv

\* However the blocks of a document overlap, fail and are tried again, and
\* whatever the model answers: a block that ended well has written one row for
\* each name it kept and one relation for each it could place, between its own
\* rows; a block that failed has used up its attempts; and a batch that answers ok
\* has done all its blocks.
THEOREM ExtractionIsSound == ExtSpec => []ExtractionSound
  BY ExtStarts, ExtKeeps, ExtInvSound, PTL DEF ExtSpec

(***************************************************************************)
(* Retrieval.  A list is cut and filtered after it was sorted, so whoever  *)
(* is before one that is left is left as well.                             *)
(***************************************************************************)

RetListed(list) == list \in Seq(RetDocs) /\ Len(list) <= Cardinality(RetDocs)

\* The best of docs, in order: who is before one of them is among those before it.
RetTop(list, docs, score) ==
  /\ list \in Seq(docs) /\ Len(list) <= Cardinality(RetDocs)
  /\ IsInjective(list)
  /\ \A j \in DOMAIN list, d \in docs :
       RetBefore(score, d, list[j]) => \E i \in DOMAIN list : i < j /\ list[i] = d

RetInv ==
  /\ retPhase \in {"idle", "fusing", "ranking", "judging", "filling", "searched", "reranked", "answered"}
  /\ retPhase = "fusing" =>
       /\ retWeights \in Nat \X Nat /\ retLevel \in Nat
       /\ \A i \in {1, 2} : RetListed(retLists[i])
  /\ retPhase \in {"ranking", "judging", "filling"} => RetListed(retLists[1])
  /\ retPhase = "judging" => RetListed(retResult) /\ ToSet(retResult) \subseteq ToSet(retLists[1])
  /\ RetrievalSound

\* How many documents there are.
LEMMA RetDocsFacts ==
  /\ IsFiniteSet(RetDocs) /\ Cardinality(RetDocs) \in Nat /\ RetDocs \subseteq Nat
  /\ \A S \in SUBSET RetDocs : IsFiniteSet(S) /\ Cardinality(S) \in Nat /\ Cardinality(S) <= Cardinality(RetDocs)
  BY RetConstants, FS_CardinalityType, FS_Subset

\* The least of some numbers.
LEMMA LeastOf ==
  ASSUME NEW S \in SUBSET Nat, S # {}
  PROVE  Min(S) \in S /\ \A y \in S : Min(S) <= y
  <1>1. PICK n \in S : \A m \in S : ~ (<<m, n>> \in OpToRel(<, Nat))
    BY NatLessThanWellFounded, WFMin
  <1>2. ASSUME NEW m \in S PROVE n <= m
    <2>1. m \in Nat /\ n \in Nat
      OBVIOUS
    <2>2. ~ (m < n)
      BY <1>1, <2>1 DEF OpToRel
    <2>. QED  BY ONLY <2>1, <2>2
  <1>. QED  BY <1>2 DEF Min

\* A document's place in a list is the first where it is.
LEMMA RetPlaceFacts ==
  ASSUME NEW list, RetListed(list), NEW d
  PROVE  /\ RetPlace(list, d) \in 1 .. Cardinality(RetDocs) + 1
         /\ RetPlace(list, d) <= Cardinality(RetDocs) <=> d \in ToSet(list)
         /\ d \in ToSet(list) => RetPlace(list, d) \in DOMAIN list /\ list[RetPlace(list, d)] = d
         /\ \A i \in DOMAIN list : list[i] = d => RetPlace(list, d) <= i
  <1>1. PICK n \in Nat : n = Cardinality(RetDocs)
    BY RetDocsFacts
  <1>2. PICK l \in Nat : l = Len(list) /\ DOMAIN list = 1 .. l /\ l <= n
    BY <1>1 DEF RetListed
  <1>3. PICK at : at = {i \in DOMAIN list : list[i] = d}
    OBVIOUS
  <1>4. at \subseteq 1 .. l /\ at \cup {n + 1} \in SUBSET Nat /\ at \cup {n + 1} # {}
    BY <1>2, <1>3
  <1>5. PICK p : p = RetPlace(list, d)
    OBVIOUS
  <1>6. p \in at \cup {n + 1} /\ \A y \in at \cup {n + 1} : p <= y
    BY <1>1, <1>3, <1>4, <1>5, LeastOf DEF RetPlace
  <1>7. d \in ToSet(list) <=> at # {}
    BY <1>3 DEF ToSet
  <1>8. p \in Nat /\ p \in 1 .. n + 1 /\ (p <= n <=> p \in at)
    BY <1>2, <1>4, <1>6
  <1>9. ASSUME NEW y \in at PROVE p \in at
    <2>1. y \in 1 .. l /\ p <= y
      BY <1>4, <1>6
    <2>. QED  BY <1>2, <1>8, <2>1
  <1>. QED  BY <1>1, <1>3, <1>5, <1>6, <1>7, <1>8, <1>9

\* Each rank's divisor divides the denominator.
LEMMA RetDenominatorFacts ==
  /\ RetDenominator \in Nat \ {0}
  /\ \A i \in 1 .. Cardinality(RetDocs) : \E q \in Nat : RetDenominator = q * (RetK + i)
  <1>0. PICK l \in Nat, K \in Nat : l = Cardinality(RetDocs) /\ K = RetK
    BY RetDocsFacts, RetConstants
  <1> DEFINE Solves(f, n) == f = [k \in 0 .. n |-> IF k = 0 THEN 1 ELSE f[k - 1] * (K + k)]
             product == CHOOSE f : Solves(f, l)
             unsolved == {n \in Nat : ~ \E f : Solves(f, n)}
  <1>. HIDE DEF Solves
  <1>1. unsolved = {}
    <2>1. SUFFICES ASSUME unsolved # {} PROVE FALSE
      OBVIOUS
    <2>2. PICK n \in unsolved : \A j \in unsolved : ~ (<<j, n>> \in OpToRel(<, Nat))
      <3>1. unsolved \subseteq Nat
        OBVIOUS
      <3>. QED  BY <2>1, <3>1, NatLessThanWellFounded, WFMin
    <2>3. CASE n = 0
      <3>1. PICK g : g = [k \in 0 .. 0 |-> 1]
        OBVIOUS
      <3>2. g = [k \in 0 .. 0 |-> IF k = 0 THEN 1 ELSE g[k - 1] * (K + k)]
        BY <3>1
      <3>3. Solves(g, 0)
        BY <3>2 DEF Solves
      <3>. QED  BY <2>2, <2>3, <3>3
    <2>4. CASE n # 0
      <3>1. n \in Nat /\ n - 1 \in Nat /\ n - 1 < n
        BY <2>4
      <3>2. n - 1 \notin unsolved
        BY <2>2, <3>1 DEF OpToRel
      <3>3. PICK f : Solves(f, n - 1)
        BY <3>1, <3>2
      <3>4. PICK g : g = [k \in 0 .. n |-> IF k = n THEN f[n - 1] * (K + n) ELSE f[k]]
        OBVIOUS
      <3>5. f = [k \in 0 .. n - 1 |-> IF k = 0 THEN 1 ELSE f[k - 1] * (K + k)]
        BY <3>3 DEF Solves
      <3>6. \A k \in 0 .. n : k # n /\ k # 0 => k \in 0 .. n - 1 /\ k - 1 \in 0 .. n /\ k - 1 # n
        BY <3>1
      <3>7. n - 1 \in 0 .. n /\ n - 1 # n /\ n \in 0 .. n
        BY <3>1
      <3>8. \A k \in 0 .. n : g[k] = IF k = 0 THEN 1 ELSE g[k - 1] * (K + k)
        <4>1. g[n] = g[n - 1] * (K + n)
          BY <3>4, <3>7
        <4>2. \A k \in 0 .. n : k # n => g[k] = f[k]
          BY <3>4
        <4>3. \A k \in 0 .. n : k # n => k \in 0 .. n - 1
          BY <3>1
        <4>4. \A k \in 0 .. n - 1 : f[k] = IF k = 0 THEN 1 ELSE f[k - 1] * (K + k)
          BY <3>5
        <4>. QED  BY <2>4, <3>6, <4>1, <4>2, <4>3, <4>4
      <3>9. g = [k \in 0 .. n |-> IF k = 0 THEN 1 ELSE g[k - 1] * (K + k)]
        BY <3>4, <3>8
      <3>10. Solves(g, n)
        BY <3>9 DEF Solves
      <3>. QED  BY <2>2, <3>10
    <2>. QED  BY <2>3, <2>4
  <1>2. Solves(product, l)
    <2>1. \E f : Solves(f, l)
      BY <1>0, <1>1
    <2>. QED  BY <2>1
  <1>3. PICK f : f = product
    OBVIOUS
  <1>4. f = [k \in 0 .. l |-> IF k = 0 THEN 1 ELSE f[k - 1] * (K + k)] /\ RetDenominator = f[l]
    BY <1>0, <1>2, <1>3 DEF Solves, RetDenominator
  <1>5. f[0] = 1 /\ \A n \in 0 .. l : n # 0 => f[n] = f[n - 1] * (K + n)
    BY <1>0, <1>4
  <1> DEFINE Divided(n) == f[n] \in Nat \ {0} /\ \A i \in 1 .. n : \E q \in Nat : f[n] = q * (K + i)
             wrong == {n \in 0 .. l : ~ Divided(n)}
  <1>. HIDE DEF Divided
  <1>6. wrong = {}
    <2>1. SUFFICES ASSUME wrong # {} PROVE FALSE
      OBVIOUS
    <2>2. wrong \subseteq Nat
      BY <1>0
    <2>3. PICK n \in wrong : \A j \in wrong : ~ (<<j, n>> \in OpToRel(<, Nat))
      BY <2>1, <2>2, NatLessThanWellFounded, WFMin
    <2>4. n # 0
      <3>1. Divided(0)
        BY <1>5 DEF Divided
      <3>. QED  BY <2>3, <3>1
    <2>5. n \in Nat \ {0} /\ n \in 0 .. l /\ n - 1 \in 0 .. l /\ n - 1 < n
      <3>1. n \in 0 .. l
        BY <2>3
      <3>. QED  BY ONLY <1>0, <2>4, <3>1
    <2>6. Divided(n - 1)
      <3>1. <<n - 1, n>> \in OpToRel(<, Nat)
        BY <2>5 DEF OpToRel
      <3>2. n - 1 \notin wrong
        BY <2>3, <3>1
      <3>. QED  BY <2>5, <3>2
    <2>7. PICK p \in Nat \ {0} : p = f[n - 1]
      BY <2>6 DEF Divided
    <2>8. f[n] = p * (K + n)
      BY <1>5, <2>5, <2>7
    <2>9. p * (K + n) \in Nat \ {0}
      <3>1. p \in Nat /\ p >= 1 /\ K + n \in Nat /\ K + n >= 1
        BY <1>0, <2>5, <2>7
      <3>. QED  BY ONLY <3>1
    <2>10. ASSUME NEW i \in 1 .. n PROVE \E q \in Nat : p * (K + n) = q * (K + i)
      <3>1. CASE i = n
        BY <2>7, <3>1
      <3>2. CASE i # n
        <4>1. i \in 1 .. n - 1 /\ i \in Nat
          BY <2>5, <3>2
        <4>2. PICK q \in Nat : p = q * (K + i)
          BY <2>6, <2>7, <4>1 DEF Divided
        <4>3. PICK r \in Nat : r = q * (K + n)
          BY <1>0, <2>5
        <4>4. (q * (K + i)) * (K + n) = (q * (K + n)) * (K + i)
          BY <1>0, <2>5, <4>1
        <4>. QED  BY <4>2, <4>3, <4>4
      <3>. QED  BY <3>1, <3>2
    <2>. QED  BY <2>3, <2>8, <2>9, <2>10 DEF Divided
  <1>7. Divided(l)
    BY <1>0, <1>6
  <1>. QED  BY <1>0, <1>4, <1>7 DEF Divided

\* What is divided by its divisor.
LEMMA DividedBy ==
  ASSUME NEW x \in Nat, NEW a \in Nat \ {0}
  PROVE  (x * a) \div a = x
  OBVIOUS

\* A lower place is a smaller share.
LEMMA RetShareFacts ==
  ASSUME NEW list, RetListed(list), NEW weight \in Nat,
         NEW d, NEW e, RetPlace(list, d) <= RetPlace(list, e)
  PROVE  /\ RetShare(list, d, weight) \in Nat /\ RetShare(list, e, weight) \in Nat
         /\ RetShare(list, e, weight) <= RetShare(list, d, weight)
         /\ d # e /\ e \in ToSet(list) /\ weight > 0 =>
              d \in ToSet(list) /\ RetShare(list, e, weight) < RetShare(list, d, weight)
  <1>1. PICK n \in Nat, K \in Nat, D \in Nat \ {0} : n = Cardinality(RetDocs) /\ K = RetK /\ D = RetDenominator
    BY RetDocsFacts, RetConstants, RetDenominatorFacts
  <1>2. PICK q : q = [i \in 1 .. n |-> CHOOSE x \in Nat : D = x * (K + i)]
    OBVIOUS
  <1>3. ASSUME NEW i \in 1 .. n PROVE q[i] \in Nat /\ D = q[i] * (K + i) /\ q[i] >= 1
    <2>1. \E x \in Nat : D = x * (K + i)
      BY <1>1, RetDenominatorFacts
    <2>2. q[i] \in Nat /\ D = q[i] * (K + i)
      BY <1>2, <2>1
    <2>3. PICK x \in Nat : x = q[i]
      BY <2>2
    <2>4. x # 0
      <3>1. K + i \in Nat
        BY <1>1
      <3>. QED  BY <1>1, <2>2, <2>3, <3>1
    <2>. QED  BY <2>2, <2>3, <2>4
  <1>4. ASSUME NEW i \in 1 .. n PROVE (weight * D) \div (K + i) = weight * q[i]
    <2>1. PICK x \in Nat, a \in Nat \ {0} : x = q[i] /\ a = K + i
      BY <1>1, <1>3
    <2>2. weight * D = (weight * x) * a
      <3>1. D = x * a
        BY <1>3, <2>1
      <3>. QED  BY <3>1
    <2>3. weight * x \in Nat
      OBVIOUS
    <2>4. ((weight * x) * a) \div a = weight * x
      BY <2>3, DividedBy
    <2>. QED  BY <2>1, <2>2, <2>4
  <1>5. ASSUME NEW i \in 1 .. n, NEW j \in 1 .. n, i < j PROVE q[j] < q[i]
    <2>1. PICK x \in Nat, y \in Nat : x = q[i] /\ y = q[j] /\ y >= 1
      BY <1>3
    <2>2. x * (K + i) = y * (K + j)
      BY <1>3, <2>1
    <2>3. PICK c \in Nat : c = j - i /\ c >= 1
      BY <1>1, <1>5
    <2>4. PICK a \in Nat : a = K + i /\ K + j = a + c
      BY <1>1, <2>3
    <2>5. x * a = y * a + y * c
      BY <2>2, <2>4
    <2>6. ASSUME x <= y PROVE FALSE
      <3>1. x * a <= y * a
        BY <2>6
      <3>2. y * c >= 1
        BY <2>1, <2>3
      <3>3. PICK xa \in Nat, ya \in Nat, yc \in Nat : xa = x * a /\ ya = y * a /\ yc = y * c
        OBVIOUS
      <3>. QED  BY <2>5, <3>1, <3>2, <3>3
    <2>. QED  BY <2>1, <2>6
  <1>6. PICK p, r : p = RetPlace(list, d) /\ r = RetPlace(list, e)
    OBVIOUS
  <1>7. /\ p \in 1 .. n + 1 /\ r \in 1 .. n + 1 /\ p <= r
        /\ (p <= n <=> d \in ToSet(list)) /\ (r <= n <=> e \in ToSet(list))
        /\ d \in ToSet(list) => list[p] = d
        /\ e \in ToSet(list) => list[r] = e
    <2>1. /\ p \in 1 .. n + 1 /\ (p <= n <=> d \in ToSet(list))
          /\ d \in ToSet(list) => list[p] = d
      BY <1>1, <1>6, RetPlaceFacts
    <2>2. /\ r \in 1 .. n + 1 /\ (r <= n <=> e \in ToSet(list))
          /\ e \in ToSet(list) => list[r] = e
      BY <1>1, <1>6, RetPlaceFacts
    <2>. QED  BY <1>6, <2>1, <2>2
  <1>8. PICK s, t : s = RetShare(list, d, weight) /\ t = RetShare(list, e, weight)
    OBVIOUS
  <1>9. /\ s = IF p <= n THEN weight * q[p] ELSE 0
        /\ t = IF r <= n THEN weight * q[r] ELSE 0
    <2>1. /\ s = IF p <= n THEN (weight * D) \div (K + p) ELSE 0
          /\ t = IF r <= n THEN (weight * D) \div (K + r) ELSE 0
      BY <1>1, <1>6, <1>7, <1>8 DEF RetShare
    <2>2. (p <= n => p \in 1 .. n) /\ (r <= n => r \in 1 .. n)
      BY <1>1, <1>7
    <2>. QED  BY <1>4, <2>1, <2>2
  <1>10. CASE r <= n
    <2>1. p \in 1 .. n /\ r \in 1 .. n /\ p <= n
      BY <1>1, <1>7, <1>10
    <2>2. PICK x \in Nat, y \in Nat : x = q[p] /\ y = q[r]
      BY <1>3, <2>1
    <2>3. s = weight * x /\ t = weight * y
      BY <1>9, <1>10, <2>1, <2>2
    <2>4. p = r \/ y < x
      BY <1>1, <1>5, <1>7, <2>1, <2>2
    <2>5. weight * y <= weight * x
      <3>1. y <= x
        BY <2>2, <2>4
      <3>. QED  BY <3>1
    <2>6. ASSUME y < x, weight > 0 PROVE weight * y < weight * x
      BY <2>6
    <2>7. d # e => p # r
      BY <1>7, <1>10, <2>1
    <2>. QED  BY <1>7, <1>8, <1>10, <2>1, <2>3, <2>4, <2>5, <2>6, <2>7
  <1>11. CASE ~ (r <= n)
    <2>1. t = 0 /\ e \notin ToSet(list)
      BY <1>7, <1>9, <1>11
    <2>2. s \in Nat
      <3>1. p <= n => q[p] \in Nat
        BY <1>1, <1>3, <1>7
      <3>. QED  BY <1>9, <3>1
    <2>. QED  BY <1>8, <2>1, <2>2
  <1>. QED  BY <1>10, <1>11

\* A list that is cut: what is left of it is where it was.
LEMMA RetCutFacts ==
  ASSUME NEW S, NEW list \in Seq(S), NEW n \in Nat
  PROVE  /\ RetCut(list, n) \in Seq(S) /\ Len(RetCut(list, n)) \in Nat
         /\ Len(RetCut(list, n)) <= n /\ Len(RetCut(list, n)) <= Len(list)
         /\ (n <= Len(list) => Len(RetCut(list, n)) = n)
         /\ \A i \in DOMAIN RetCut(list, n) : i \in DOMAIN list /\ RetCut(list, n)[i] = list[i]
  <1>1. PICK m \in 0 .. Len(list) : m = IF Len(list) < n THEN Len(list) ELSE n
    OBVIOUS
  <1>2. m <= n /\ m <= Len(list) /\ (n <= Len(list) => m = n)
    BY <1>1
  <1>3. PICK cut : cut = SubSeq(list, 1, m)
    OBVIOUS
  <1>4. cut \in Seq(S) /\ Len(cut) = m /\ \A i \in 1 .. m : cut[i] = list[i]
    BY <1>3
  <1>5. DOMAIN cut = 1 .. m /\ 1 .. m \subseteq DOMAIN list
    BY <1>4
  <1>6. RetCut(list, n) = cut
    BY <1>1, <1>3 DEF RetCut
  <1>. QED  BY <1>2, <1>4, <1>5, <1>6

\* Cutting leaves the best.
LEMMA RetTopCut ==
  ASSUME NEW docs, NEW score, NEW list, RetTop(list, docs, score), NEW n \in Nat
  PROVE  RetTop(RetCut(list, n), docs, score) /\ Len(RetCut(list, n)) <= n
         /\ ToSet(RetCut(list, n)) \subseteq ToSet(list)
  <1>1. list \in Seq(docs) /\ Len(list) <= Cardinality(RetDocs) /\ Len(list) \in Nat
        /\ Cardinality(RetDocs) \in Nat /\ IsInjective(list)
    BY RetDocsFacts DEF RetTop
  <1>2. PICK cut : cut = RetCut(list, n)
    OBVIOUS
  <1>3. /\ cut \in Seq(docs) /\ Len(cut) \in Nat /\ Len(cut) <= n /\ Len(cut) <= Len(list)
        /\ \A i \in DOMAIN cut : i \in DOMAIN list /\ cut[i] = list[i]
    BY <1>1, <1>2, RetCutFacts
  <1>4. DOMAIN cut = 1 .. Len(cut) /\ DOMAIN list = 1 .. Len(list)
    BY <1>1, <1>3
  <1>5. IsInjective(cut)
    BY <1>1, <1>3 DEF IsInjective
  <1>6. ASSUME NEW j \in DOMAIN cut, NEW d \in docs, RetBefore(score, d, cut[j])
        PROVE  \E i \in DOMAIN cut : i < j /\ cut[i] = d
    <2>1. PICK i \in DOMAIN list : i < j /\ list[i] = d
      BY <1>3, <1>6 DEF RetTop
    <2>2. i \in DOMAIN cut
      BY <1>1, <1>3, <1>4, <2>1
    <2>. QED  BY <1>3, <2>1, <2>2
  <1>7. Len(cut) <= Cardinality(RetDocs)
    BY <1>1, <1>3
  <1>8. ToSet(cut) \subseteq ToSet(list)
    BY <1>3 DEF ToSet
  <1>. QED  BY <1>2, <1>3, <1>5, <1>6, <1>7, <1>8 DEF RetTop

\* Sorting puts each document once, the best first.
LEMMA RetSortedTop ==
  ASSUME NEW docs \in SUBSET RetDocs, NEW score, \A d \in docs : score[d] \in Nat
  PROVE  RetTop(RetSorted(docs, score), docs, score)
         /\ \A d \in docs : d \in ToSet(RetSorted(docs, score))
  <1>1. /\ IsFiniteSet(docs) /\ Cardinality(docs) \in Nat /\ Cardinality(docs) <= Cardinality(RetDocs)
        /\ \A d \in docs : d \in Nat
    BY RetDocsFacts
  <1>2. PICK n \in Nat : n = Cardinality(docs)
    BY <1>1
  <1>3. PICK R : R = {p \in docs \X docs : RetBefore(score, p[1], p[2])}
    OBVIOUS
  <1>4. \A x, y \in docs : <<x, y>> \in R <=> RetBefore(score, x, y)
    BY <1>3
  <1>5. \A x, y \in docs : RetBefore(score, x, y) <=> score[x] > score[y] \/ (score[x] = score[y] /\ x < y)
    BY DEF RetBefore
  <1>6. \A x \in docs : <<x, x>> \notin R
    BY <1>1, <1>4, <1>5
  <1>7. \A x, y, z \in docs : <<x, y>> \in R /\ <<y, z>> \in R => <<x, z>> \in R
    BY <1>1, <1>4, <1>5
  <1>8. \A x, y \in docs : x # y => <<x, y>> \in R \/ <<y, x>> \in R
    BY <1>1, <1>4, <1>5
  <1>9. PICK place : place = [d \in docs |-> Cardinality({e \in docs : RetBefore(score, e, d)}) + 1]
    OBVIOUS
  <1>10. place = Places(docs, R)
    <2>1. \A x \in docs : {y \in docs : RetBefore(score, y, x)} = {y \in docs : <<y, x>> \in R}
      BY <1>4
    <2>. QED  BY <1>9, <2>1 DEF Places
  <1>11. /\ \A x \in docs : place[x] \in 1 .. n
         /\ \A x, y \in docs : <<x, y>> \in R => place[x] < place[y]
         /\ \A i \in 1 .. n : \E x \in docs : place[x] = i
    BY <1>1, <1>2, <1>6, <1>7, <1>8, <1>10, PlacesSort
  <1>12. PICK s : s = RetSorted(docs, score)
    OBVIOUS
  <1>13. s = [i \in 1 .. n |-> CHOOSE d \in docs : place[d] = i]
    BY <1>2, <1>9, <1>12 DEF RetSorted
  <1>14. \A i \in 1 .. n : s[i] \in docs /\ place[s[i]] = i
    BY <1>11, <1>13
  <1>15. s \in Seq(docs) /\ DOMAIN s = 1 .. n /\ Len(s) = n
    BY <1>13, <1>14
  <1>16. ASSUME NEW x \in docs, NEW y \in docs, place[x] = place[y] PROVE x = y
    <2>1. place[x] \in Nat /\ ~ (place[x] < place[y]) /\ ~ (place[y] < place[x])
      BY <1>11, <1>16
    <2>. QED  BY <1>8, <1>11, <2>1
  <1>17. \A d \in docs : s[place[d]] = d /\ place[d] \in DOMAIN s
    BY <1>11, <1>14, <1>15, <1>16
  <1>18. IsInjective(s)
    BY <1>14, <1>15 DEF IsInjective
  <1>19. ASSUME NEW j \in DOMAIN s, NEW d \in docs, RetBefore(score, d, s[j])
         PROVE  \E i \in DOMAIN s : i < j /\ s[i] = d
    <2>1. <<d, s[j]>> \in R /\ place[s[j]] = j /\ s[j] \in docs
      BY <1>4, <1>14, <1>15, <1>19
    <2>2. place[d] < j
      BY <1>11, <2>1
    <2>. QED  BY <1>17, <2>2
  <1>20. \A d \in docs : d \in ToSet(s)
    BY <1>17 DEF ToSet
  <1>. QED  BY <1>1, <1>2, <1>12, <1>15, <1>18, <1>19, <1>20 DEF RetTop

\* Which of a list reach the threshold, in their order.
LEMMA RetOverFacts ==
  ASSUME NEW S, NEW list \in Seq(S), NEW score, NEW level,
         NEW over, over = RetOver(list, score, level)
  PROVE  /\ over \in Seq(S)
         /\ \E origin \in [DOMAIN over -> DOMAIN list] :
              /\ \A k \in DOMAIN over : over[k] = list[origin[k]] /\ k <= origin[k]
              /\ \A k \in DOMAIN over, l \in DOMAIN over : l < k => origin[l] < origin[k]
              /\ \A i \in DOMAIN list : score[list[i]] >= level => \E k \in DOMAIN over : origin[k] = i
              /\ \A k \in DOMAIN over : score[over[k]] >= level
  <1>1. PICK n \in Nat : n = Len(list) /\ DOMAIN list = 1 .. n
    OBVIOUS
  <1>2. PICK pieces : pieces = [i \in 1 .. n |-> IF score[list[i]] >= level THEN <<list[i]>> ELSE << >>]
    OBVIOUS
  <1>3. ASSUME NEW i \in 1 .. n
        PROVE  /\ pieces[i] \in Seq(S)
               /\ score[list[i]] >= level => Len(pieces[i]) = 1 /\ pieces[i][1] = list[i]
               /\ ~ (score[list[i]] >= level) => Len(pieces[i]) # 1
               /\ Len(pieces[i]) <= 1
    <2>1. list[i] \in S
      BY <1>1
    <2>2. PICK x : x = list[i]
      OBVIOUS
    <2>3. <<x>> \in Seq(S) /\ << >> \in Seq(S) /\ Len(<<x>>) = 1 /\ <<x>>[1] = x
          /\ Len(<< >>) # 1 /\ Len(<< >>) <= 1 /\ Len(<<x>>) <= 1
      BY <2>1, <2>2
    <2>. QED  BY <1>2, <2>2, <2>3
  <1>4. pieces \in Seq(Seq(S)) /\ DOMAIN pieces = 1 .. n
    <2>1. pieces \in [1 .. n -> Seq(S)]
      BY <1>2, <1>3
    <2>. QED  BY ONLY <2>1
  <1>5. \A i \in DOMAIN pieces : Len(pieces[i]) <= 1
    BY <1>3, <1>4
  <1>6. over = FlattenSeq(pieces)
    BY <1>1, <1>2 DEF RetOver
  <1>7. over \in Seq(S) /\ InOrderOf(over, pieces)
    BY <1>4, <1>5, <1>6, FlattenedOrder
  <1>8. PICK origin \in [DOMAIN over -> DOMAIN pieces] :
          /\ \A k \in DOMAIN over :
               /\ Len(pieces[origin[k]]) = 1 /\ over[k] = pieces[origin[k]][1]
               /\ k <= origin[k] /\ \A l \in 1 .. k - 1 : origin[l] < origin[k]
          /\ \A i \in DOMAIN pieces : Len(pieces[i]) = 1 => \E k \in DOMAIN over : origin[k] = i
    BY <1>7 DEF InOrderOf
  <1>9. ASSUME NEW k \in DOMAIN over
        PROVE  over[k] = list[origin[k]] /\ k <= origin[k] /\ score[over[k]] >= level
    <2>1. origin[k] \in 1 .. n /\ Len(pieces[origin[k]]) = 1
      BY <1>4, <1>8
    <2>2. score[list[origin[k]]] >= level
      <3>1. PICK i \in 1 .. n : i = origin[k] /\ Len(pieces[i]) = 1
        BY <2>1
      <3>. QED  BY <1>3, <3>1
    <2>. QED  BY <1>3, <1>8, <2>1, <2>2
  <1>10. ASSUME NEW k \in DOMAIN over, NEW l \in DOMAIN over, l < k PROVE origin[l] < origin[k]
    <2>1. l \in 1 .. k - 1
      <3>1. DOMAIN over = 1 .. Len(over) /\ Len(over) \in Nat
        BY <1>7
      <3>. QED  BY <1>10, <3>1
    <2>. QED  BY <1>8, <2>1
  <1>11. \A i \in 1 .. n : score[list[i]] >= level => \E k \in DOMAIN over : origin[k] = i
    BY <1>3, <1>4, <1>8
  <1>12. origin \in [DOMAIN over -> DOMAIN list]
    BY <1>1, <1>4, <1>8
  <1>. QED  BY <1>1, <1>7, <1>9, <1>10, <1>11, <1>12

\* A threshold on the score leaves the best.
LEMMA RetTopOver ==
  ASSUME NEW docs, NEW score, \A d \in docs : score[d] \in Nat,
         NEW list, RetTop(list, docs, score),
         NEW scaled, \A d \in docs : scaled[d] = score[d] * 100, NEW level \in Nat,
         NEW over, over = RetOver(list, scaled, level)
  PROVE  RetTop(over, docs, score) /\ Len(over) <= Len(list)
  <1>1. list \in Seq(docs) /\ Len(list) <= Cardinality(RetDocs) /\ Len(list) \in Nat
        /\ Cardinality(RetDocs) \in Nat /\ IsInjective(list)
    BY RetDocsFacts DEF RetTop
  <1>2. PICK origin \in [DOMAIN over -> DOMAIN list] :
          /\ over \in Seq(docs)
          /\ \A k \in DOMAIN over : over[k] = list[origin[k]] /\ k <= origin[k]
          /\ \A k \in DOMAIN over, l \in DOMAIN over : l < k => origin[l] < origin[k]
          /\ \A i \in DOMAIN list : scaled[list[i]] >= level => \E k \in DOMAIN over : origin[k] = i
          /\ \A k \in DOMAIN over : scaled[over[k]] >= level
    BY <1>1, RetOverFacts
  <1>3. DOMAIN over = 1 .. Len(over) /\ Len(over) \in Nat /\ DOMAIN list = 1 .. Len(list)
    BY <1>1, <1>2
  <1>4. \A k \in DOMAIN over : origin[k] \in Nat /\ k \in Nat /\ origin[k] <= Len(list)
    BY <1>1, <1>2, <1>3
  <1>5. Len(over) <= Len(list)
    <2>1. CASE Len(over) = 0
      BY <1>1, <2>1
    <2>2. CASE Len(over) # 0
      <3>1. Len(over) \in DOMAIN over
        BY <1>3, <2>2
      <3>. QED  BY <1>1, <1>2, <1>3, <1>4, <3>1
    <2>. QED  BY <2>1, <2>2
  <1>6. ASSUME NEW k \in DOMAIN over, NEW l \in DOMAIN over, over[k] = over[l] PROVE k = l
    <2>1. origin[k] = origin[l]
      BY <1>1, <1>2, <1>6 DEF IsInjective
    <2>2. ~ (k < l) /\ ~ (l < k)
      BY <1>2, <1>4, <2>1
    <2>. QED  BY <1>4, <2>2
  <1>7. ASSUME NEW j \in DOMAIN over, NEW d \in docs, RetBefore(score, d, over[j])
        PROVE  \E i \in DOMAIN over : i < j /\ over[i] = d
    <2>1. origin[j] \in DOMAIN list /\ over[j] = list[origin[j]] /\ over[j] \in docs
      BY <1>2
    <2>2. PICK i \in DOMAIN list : i < origin[j] /\ list[i] = d
      BY <1>7, <2>1 DEF RetTop
    <2>3. scaled[d] >= level
      <3>1. PICK x \in Nat, y \in Nat : x = score[d] /\ y = score[over[j]]
        BY <2>1
      <3>2. x >= y
        BY <1>7, <3>1 DEF RetBefore
      <3>3. scaled[d] = x * 100 /\ scaled[over[j]] = y * 100 /\ scaled[over[j]] >= level
        BY <1>2, <2>1, <3>1
      <3>. QED  BY <3>2, <3>3
    <2>4. PICK k \in DOMAIN over : origin[k] = i
      BY <1>2, <2>2, <2>3
    <2>5. k < j
      <3>1. ~ (j < k) /\ j # k
        BY <1>2, <1>3, <1>4, <2>2, <2>4
      <3>. QED  BY <1>4, <3>1
    <2>. QED  BY <1>2, <2>2, <2>4, <2>5
  <1>8. IsInjective(over)
    BY <1>6 DEF IsInjective
  <1>9. Len(over) <= Cardinality(RetDocs)
    BY <1>1, <1>3, <1>5
  <1>. QED  BY <1>2, <1>5, <1>7, <1>8, <1>9 DEF RetTop

\* Who is before one that is answered is answered before it.
LEMMA RetTopPlaces ==
  ASSUME NEW docs \in SUBSET RetDocs, NEW score, NEW list, RetTop(list, docs, score),
         NEW d \in docs, NEW e \in ToSet(list), RetBefore(score, d, e)
  PROVE  RetPlace(list, d) < RetPlace(list, e)
  <1>1. RetListed(list)
    BY DEF RetTop, RetListed
  <1>2. Cardinality(RetDocs) \in Nat
    BY RetDocsFacts
  <1>3. PICK j : j = RetPlace(list, e)
    OBVIOUS
  <1>4. j \in DOMAIN list /\ list[j] = e /\ j \in Nat
    BY <1>1, <1>2, <1>3, RetPlaceFacts
  <1>5. PICK i \in DOMAIN list : i < j /\ list[i] = d
    BY <1>4 DEF RetTop
  <1>6. RetPlace(list, d) \in Nat /\ RetPlace(list, d) <= i
    BY <1>1, <1>2, <1>5, RetPlaceFacts
  <1>7. i \in Nat
    BY <1>1 DEF RetListed
  <1>. QED  BY <1>3, <1>4, <1>5, <1>6, <1>7

\* The bytes of the first entries, one after the other.
LEMMA RetBytesFacts ==
  ASSUME NEW entries \in Seq(Nat \X RetDocs)
  PROVE  /\ RetBytes(entries)[0] = 0
         /\ \A n \in 1 .. Len(entries) : RetBytes(entries)[n] = RetBytes(entries)[n - 1] + RetLength[entries[n][2]]
         /\ \A n \in 0 .. Len(entries) : RetBytes(entries)[n] \in Nat
  <1>0. PICK l \in Nat : l = Len(entries)
    OBVIOUS
  <1>1. PICK bytesOf : bytesOf = [n \in 1 .. l |-> RetLength[entries[n][2]]]
    OBVIOUS
  <1>2. \A n \in 1 .. l : bytesOf[n] = RetLength[entries[n][2]] /\ bytesOf[n] \in Nat
    <2>1. \A n \in 1 .. l : entries[n][2] \in RetDocs
      BY <1>0
    <2>. QED  BY <1>1, <2>1, RetConstants
  <1> DEFINE Solves(f, n) == f = [k \in 0 .. n |-> IF k = 0 THEN 0 ELSE f[k - 1] + RetLength[entries[k][2]]]
             bytes == CHOOSE f : Solves(f, l)
             unsolved == {n \in Nat : ~ \E f : Solves(f, n)}
  <1>. HIDE DEF Solves
  <1>3. unsolved = {}
    <2>1. SUFFICES ASSUME unsolved # {} PROVE FALSE
      OBVIOUS
    <2>2. PICK n \in unsolved : \A j \in unsolved : ~ (<<j, n>> \in OpToRel(<, Nat))
      <3>1. unsolved \subseteq Nat
        OBVIOUS
      <3>. QED  BY <2>1, <3>1, NatLessThanWellFounded, WFMin
    <2>3. CASE n = 0
      <3>1. PICK g : g = [k \in 0 .. 0 |-> 0]
        OBVIOUS
      <3>2. g = [k \in 0 .. 0 |-> IF k = 0 THEN 0 ELSE g[k - 1] + RetLength[entries[k][2]]]
        BY <3>1
      <3>3. Solves(g, 0)
        BY <3>2 DEF Solves
      <3>. QED  BY <2>2, <2>3, <3>3
    <2>4. CASE n # 0
      <3>1. n \in Nat /\ n - 1 \in Nat /\ n - 1 < n
        BY <2>4
      <3>2. n - 1 \notin unsolved
        BY <2>2, <3>1 DEF OpToRel
      <3>3. PICK f : Solves(f, n - 1)
        BY <3>1, <3>2
      <3>4. PICK g : g = [k \in 0 .. n |-> IF k = n THEN f[n - 1] + RetLength[entries[n][2]] ELSE f[k]]
        OBVIOUS
      <3>5. f = [k \in 0 .. n - 1 |-> IF k = 0 THEN 0 ELSE f[k - 1] + RetLength[entries[k][2]]]
        BY <3>3 DEF Solves
      <3>6. \A k \in 0 .. n : k # n /\ k # 0 => k \in 0 .. n - 1 /\ k - 1 \in 0 .. n /\ k - 1 # n
        BY <3>1
      <3>7. n - 1 \in 0 .. n /\ n - 1 # n /\ n \in 0 .. n
        BY <3>1
      <3>8. \A k \in 0 .. n : g[k] = IF k = 0 THEN 0 ELSE g[k - 1] + RetLength[entries[k][2]]
        <4>1. g[n] = g[n - 1] + RetLength[entries[n][2]]
          BY <3>4, <3>7
        <4>2. \A k \in 0 .. n : k # n => g[k] = f[k]
          BY <3>4
        <4>3. \A k \in 0 .. n : k # n => k \in 0 .. n - 1
          BY <3>1
        <4>4. \A k \in 0 .. n - 1 : f[k] = IF k = 0 THEN 0 ELSE f[k - 1] + RetLength[entries[k][2]]
          BY <3>5
        <4>. QED  BY <2>4, <3>6, <4>1, <4>2, <4>3, <4>4
      <3>9. g = [k \in 0 .. n |-> IF k = 0 THEN 0 ELSE g[k - 1] + RetLength[entries[k][2]]]
        BY <3>4, <3>8
      <3>10. Solves(g, n)
        BY <3>9 DEF Solves
      <3>. QED  BY <2>2, <3>10
    <2>. QED  BY <2>3, <2>4
  <1>4. Solves(bytes, l)
    <2>1. \E f : Solves(f, l)
      BY <1>0, <1>3
    <2>. QED  BY <2>1
  <1>5. PICK f : f = bytes
    OBVIOUS
  <1>6. f = [k \in 0 .. l |-> IF k = 0 THEN 0 ELSE f[k - 1] + RetLength[entries[k][2]]] /\ RetBytes(entries) = f
    BY <1>0, <1>4, <1>5 DEF Solves, RetBytes
  <1>7. f[0] = 0 /\ \A n \in 1 .. l : f[n] = f[n - 1] + bytesOf[n]
    <2>1. 0 \in 0 .. l /\ \A n \in 1 .. l : n \in 0 .. l /\ n # 0
      BY <1>0
    <2>2. f[0] = 0 /\ \A n \in 1 .. l : f[n] = f[n - 1] + RetLength[entries[n][2]]
      BY ONLY <1>6, <2>1
    <2>. QED  BY <1>2, <2>2
  <1> DEFINE wrong == {n \in 0 .. l : f[n] \notin Nat}
  <1>8. wrong = {}
    <2>1. SUFFICES ASSUME wrong # {} PROVE FALSE
      OBVIOUS
    <2>2. wrong \subseteq Nat
      BY <1>0
    <2>3. PICK n \in wrong : \A j \in wrong : ~ (<<j, n>> \in OpToRel(<, Nat))
      BY <2>1, <2>2, NatLessThanWellFounded, WFMin
    <2>4. n \in 0 .. l /\ f[n] \notin Nat
      BY <2>3
    <2>5. n # 0
      BY <1>7, <2>4
    <2>6. n - 1 \in 0 .. l /\ n - 1 \in Nat /\ n \in Nat /\ n - 1 < n /\ n \in 1 .. l
      BY ONLY <1>0, <2>4, <2>5
    <2>7. <<n - 1, n>> \in OpToRel(<, Nat)
      BY <2>6 DEF OpToRel
    <2>8. f[n - 1] \in Nat
      BY <2>3, <2>6, <2>7
    <2>9. f[n] = f[n - 1] + bytesOf[n] /\ bytesOf[n] \in Nat
      BY <1>2, <1>7, <2>6
    <2>. QED  BY ONLY <2>4, <2>8, <2>9
  <1>. QED  BY <1>0, <1>2, <1>6, <1>7, <1>8

\* More entries are more bytes.
LEMMA RetBytesGrow ==
  ASSUME NEW entries \in Seq(Nat \X RetDocs), NEW m \in 0 .. Len(entries), NEW n \in 0 .. m
  PROVE  RetBytes(entries)[n] <= RetBytes(entries)[m]
  <1>0. PICK l \in Nat : l = Len(entries)
    OBVIOUS
  <1>01. PICK f : f = RetBytes(entries)
    OBVIOUS
  <1>1. PICK len : len = [k \in 1 .. l |-> RetLength[entries[k][2]]]
    OBVIOUS
  <1>2. \A k \in 1 .. l : f[k] = f[k - 1] + len[k] /\ len[k] \in Nat
    <2>1. \A k \in 1 .. l : entries[k][2] \in RetDocs
      BY <1>0
    <2>. QED  BY <1>0, <1>01, <1>1, <2>1, RetBytesFacts, RetConstants
  <1>3. \A k \in 0 .. l : f[k] \in Nat
    BY <1>0, <1>01, RetBytesFacts
  <1> DEFINE wrong == {k \in n .. l : ~ (f[n] <= f[k])}
  <1>4. wrong = {}
    <2>1. SUFFICES ASSUME wrong # {} PROVE FALSE
      OBVIOUS
    <2>2. wrong \subseteq Nat
      BY <1>0
    <2>3. PICK k \in wrong : \A j \in wrong : ~ (<<j, k>> \in OpToRel(<, Nat))
      BY <2>1, <2>2, NatLessThanWellFounded, WFMin
    <2>4. k \in n .. l /\ ~ (f[n] <= f[k]) /\ n \in 0 .. l
      <3>1. k \in n .. l /\ ~ (f[n] <= f[k])
        BY <2>3
      <3>2. n \in 0 .. l
        BY ONLY <1>0, n \in 0 .. m, m \in 0 .. Len(entries)
      <3>. QED  BY <3>1, <3>2
    <2>5. k # n
      BY <1>3, <2>4
    <2>6. k - 1 \in n .. l /\ k - 1 \in Nat /\ k \in Nat /\ k - 1 < k /\ k \in 1 .. l
      BY ONLY <1>0, <2>4, <2>5
    <2>7. <<k - 1, k>> \in OpToRel(<, Nat)
      BY <2>6 DEF OpToRel
    <2>8. f[n] <= f[k - 1]
      BY <2>3, <2>6, <2>7
    <2>9. f[n] \in Nat /\ f[k - 1] \in Nat /\ f[k] = f[k - 1] + len[k] /\ len[k] \in Nat
      <3>1. k - 1 \in 0 .. l
        BY <1>0, <2>6
      <3>. QED  BY <1>2, <1>3, <2>4, <2>6, <3>1
    <2>. QED  BY ONLY <2>4, <2>8, <2>9
  <1>5. m \in n .. l
    BY <1>0
  <1>. QED  BY <1>0, <1>01, <1>4, <1>5

\* Equal entries are equal bytes.
LEMMA RetBytesSame ==
  ASSUME NEW entries \in Seq(Nat \X RetDocs), NEW cut \in Seq(Nat \X RetDocs), Len(cut) <= Len(entries),
         \A i \in DOMAIN cut : cut[i] = entries[i]
  PROVE  RetBytes(cut)[Len(cut)] = RetBytes(entries)[Len(cut)]
  <1>0. PICK l \in Nat : l = Len(cut)
    OBVIOUS
  <1>01. PICK f, g : f = RetBytes(entries) /\ g = RetBytes(cut)
    OBVIOUS
  <1>1. f[0] = 0 /\ g[0] = 0
    BY <1>0, <1>01, RetBytesFacts
  <1>2. ASSUME NEW k \in 1 .. l
        PROVE  f[k] = f[k - 1] + RetLength[entries[k][2]] /\ g[k] = g[k - 1] + RetLength[entries[k][2]]
    <2>1. k \in 1 .. Len(entries) /\ k \in 1 .. Len(cut) /\ cut[k] = entries[k]
      BY <1>0
    <2>. QED  BY <1>0, <1>01, <2>1, RetBytesFacts
  <1> DEFINE wrong == {k \in 0 .. l : f[k] # g[k]}
  <1>3. wrong = {}
    <2>1. SUFFICES ASSUME wrong # {} PROVE FALSE
      OBVIOUS
    <2>2. wrong \subseteq Nat
      BY <1>0
    <2>3. PICK k \in wrong : \A j \in wrong : ~ (<<j, k>> \in OpToRel(<, Nat))
      BY <2>1, <2>2, NatLessThanWellFounded, WFMin
    <2>4. k \in 0 .. l /\ f[k] # g[k]
      BY <2>3
    <2>5. k # 0
      BY <1>1, <2>4
    <2>6. k - 1 \in 0 .. l /\ k - 1 \in Nat /\ k \in Nat /\ k - 1 < k /\ k \in 1 .. l
      BY ONLY <1>0, <2>4, <2>5
    <2>7. <<k - 1, k>> \in OpToRel(<, Nat)
      BY <2>6 DEF OpToRel
    <2>8. f[k - 1] = g[k - 1]
      BY <2>3, <2>6, <2>7
    <2>. QED  BY <1>2, <2>4, <2>6, <2>8
  <1>. QED  BY <1>0, <1>01, <1>3

\* The context is as many entries from the front as fit, all of them if they fit.
LEMMA RetEntriesFacts ==
  ASSUME NEW docs \in Seq(RetDocs), NEW context, context = RetEntries(docs)
  PROVE  /\ \A i \in DOMAIN context : context[i][1] \in DOMAIN docs /\ docs[context[i][1]] = context[i][2]
         /\ RetBytes(context)[Len(context)] <= RetMaxContext
         /\ RetBytes([i \in DOMAIN docs |-> <<i, docs[i]>>])[Len(docs)] <= RetMaxContext
              => Len(context) = Len(docs)
  <1>1. PICK entries : entries = [i \in DOMAIN docs |-> <<i, docs[i]>>]
    OBVIOUS
  <1>2. PICK l \in Nat : l = Len(docs) /\ DOMAIN docs = 1 .. l
    OBVIOUS
  <1>3. /\ entries \in Seq(Nat \X RetDocs) /\ Len(entries) = l
        /\ \A i \in 1 .. l : entries[i][1] = i /\ entries[i][2] = docs[i]
    <2>1. \A i \in 1 .. l : entries[i] = <<i, docs[i]>> /\ i \in Nat /\ docs[i] \in RetDocs
      BY <1>1, <1>2
    <2>2. entries \in [1 .. l -> Nat \X RetDocs]
      BY <1>1, <1>2, <2>1
    <2>3. entries \in Seq(Nat \X RetDocs) /\ Len(entries) = l
      BY ONLY <2>2, <1>2
    <2>. QED  BY <2>1, <2>3
  <1>4. PICK f : f = RetBytes(entries)
    OBVIOUS
  <1>5. f[0] = 0 /\ \A n \in 0 .. l : f[n] \in Nat
    BY <1>3, <1>4, RetBytesFacts
  <1>6. PICK fitting : fitting = {n \in 0 .. l : \A m \in 0 .. n : f[m] <= RetMaxContext}
    OBVIOUS
  <1>7. 0 \in fitting
    <2>1. \A m \in 0 .. 0 : m = 0
      OBVIOUS
    <2>. QED  BY <1>2, <1>5, <1>6, <2>1, RetConstants
  <1>8. PICK n : n = Max(fitting)
    OBVIOUS
  <1>9. n \in fitting /\ \A y \in fitting : n >= y
    <2>1. PICK after : after = {l - y : y \in fitting}
      OBVIOUS
    <2>2. \A y \in fitting : y \in Nat /\ y <= l /\ l - y \in Nat
      BY <1>2, <1>6
    <2>3. after \in SUBSET Nat /\ after # {}
      BY <1>7, <2>1, <2>2
    <2>4. PICK a \in after : \A b \in after : a <= b
      BY <2>3, LeastOf
    <2>5. PICK x \in fitting : a = l - x
      BY <2>1
    <2>6. ASSUME NEW y \in fitting PROVE x >= y
      <3>1. l - x <= l - y
        BY <2>1, <2>4, <2>5
      <3>. QED  BY <1>2, <2>2, <3>1
    <2>. QED  BY <1>8, <2>5, <2>6 DEF Max
  <1>10. n \in Nat /\ n <= l /\ f[n] <= RetMaxContext
    <2>1. n \in 0 .. l /\ \A m \in 0 .. n : f[m] <= RetMaxContext
      BY <1>6, <1>9
    <2>. QED  BY <1>2, <2>1
  <1>11. context = RetCut(entries, n)
    <2>1. {k \in 0 .. Len(docs) : \A m \in 0 .. k : RetBytes(entries)[m] <= RetMaxContext} = fitting
      BY <1>2, <1>4, <1>6
    <2>. QED  BY <1>1, <1>8, <2>1 DEF RetEntries
  <1>12. /\ context \in Seq(Nat \X RetDocs) /\ Len(context) = n
         /\ \A i \in DOMAIN context : i \in DOMAIN entries /\ context[i] = entries[i]
    <2>1. PICK T : T = Nat \X RetDocs
      OBVIOUS
    <2>2. entries \in Seq(T) /\ n <= Len(entries)
      BY <1>3, <1>10, <2>1
    <2>3. /\ RetCut(entries, n) \in Seq(T)
          /\ Len(RetCut(entries, n)) = n
          /\ \A i \in DOMAIN RetCut(entries, n) : i \in DOMAIN entries /\ RetCut(entries, n)[i] = entries[i]
      BY <1>10, <2>2, RetCutFacts
    <2>. QED  BY <1>11, <2>1, <2>3
  <1>13. ASSUME NEW i \in DOMAIN context
         PROVE  context[i][1] \in DOMAIN docs /\ docs[context[i][1]] = context[i][2]
    <2>1. i \in 1 .. l
      BY <1>3, <1>12
    <2>. QED  BY <1>2, <1>3, <1>12, <2>1
  <1>14. RetBytes(context)[n] = f[n]
    BY <1>3, <1>4, <1>10, <1>12, RetBytesSame
  <1>15. ASSUME f[l] <= RetMaxContext PROVE n = l
    <2>1. ASSUME NEW m \in 0 .. l PROVE f[m] <= RetMaxContext
      <3>1. f[m] <= f[l]
        BY <1>2, <1>3, <1>4, RetBytesGrow
      <3>. QED  BY <1>2, <1>5, <1>15, <3>1, RetConstants
    <2>2. l \in fitting
      BY <1>2, <1>6, <2>1
    <2>. QED  BY <1>2, <1>9, <1>10, <2>2
  <1>. QED  BY <1>1, <1>2, <1>4, <1>10, <1>12, <1>13, <1>14, <1>15

\* What a search or a retriever gives is a list of documents.
LEMMA RetOrdersListed ==
  ASSUME NEW order \in RetOrders
  PROVE  RetListed(order)
  <1>1. PICK S \in SUBSET RetDocs : order \in SetToSeqs(S)
    BY DEF RetOrders
  <1>2. PICK n \in Nat : n = Cardinality(S) /\ n <= Cardinality(RetDocs)
    BY RetDocsFacts
  <1>3. order \in [1 .. n -> S]
    BY <1>1, <1>2 DEF SetToSeqs
  <1>4. order \in Seq(S) /\ Len(order) = n
    BY <1>3
  <1>. QED  BY <1>2, <1>4 DEF RetListed

\* A list of documents that is cut is one.
LEMMA RetCutListed ==
  ASSUME NEW list, RetListed(list), NEW n \in Nat
  PROVE  RetListed(RetCut(list, n))
  <1>1. list \in Seq(RetDocs) /\ Len(list) \in Nat /\ Len(list) <= Cardinality(RetDocs) /\ Cardinality(RetDocs) \in Nat
    BY RetDocsFacts DEF RetListed
  <1>2. RetCut(list, n) \in Seq(RetDocs) /\ Len(RetCut(list, n)) \in Nat /\ Len(RetCut(list, n)) <= Len(list)
    BY <1>1, RetCutFacts
  <1>. QED  BY <1>1, <1>2 DEF RetListed

\* Who is nowhere behind another and somewhere before it gets more.
LEMMA RetFusedFacts ==
  ASSUME NEW keywords, NEW vectors, RetListed(keywords), RetListed(vectors),
         NEW weights \in Nat \X Nat, NEW score, score = RetFused(keywords, vectors, weights)
  PROVE  /\ DOMAIN score = ToSet(keywords) \cup ToSet(vectors) /\ DOMAIN score \subseteq RetDocs
         /\ \A d \in DOMAIN score : score[d] \in Nat
         /\ \A d, e \in RetDocs :
              /\ d # e /\ e \in DOMAIN score /\ weights[1] # 0 /\ weights[2] # 0
              /\ RetPlace(keywords, d) <= RetPlace(keywords, e) /\ RetPlace(vectors, d) <= RetPlace(vectors, e)
              => d \in DOMAIN score /\ score[d] > score[e]
  <1>1. DOMAIN score = ToSet(keywords) \cup ToSet(vectors)
        /\ \A d \in DOMAIN score : score[d] = RetShare(keywords, d, weights[2]) + RetShare(vectors, d, weights[1])
    BY DEF RetFused
  <1>2. ToSet(keywords) \subseteq RetDocs /\ ToSet(vectors) \subseteq RetDocs
    BY DEF RetListed, ToSet
  <1>3. weights[1] \in Nat /\ weights[2] \in Nat
    OBVIOUS
  <1>4. ASSUME NEW d PROVE RetShare(keywords, d, weights[2]) \in Nat /\ RetShare(vectors, d, weights[1]) \in Nat
    <2>1. RetPlace(keywords, d) <= RetPlace(keywords, d) /\ RetPlace(vectors, d) <= RetPlace(vectors, d)
      <3>1. Cardinality(RetDocs) \in Nat /\ RetPlace(keywords, d) \in 1 .. Cardinality(RetDocs) + 1
            /\ RetPlace(vectors, d) \in 1 .. Cardinality(RetDocs) + 1
        BY RetPlaceFacts, RetDocsFacts
      <3>. QED  BY <3>1
    <2>. QED  BY <1>3, <2>1, RetShareFacts
  <1>5. \A d \in DOMAIN score : score[d] \in Nat
    BY <1>1, <1>4
  <1>6. ASSUME NEW d \in RetDocs, NEW e \in RetDocs, d # e, e \in DOMAIN score, weights[1] # 0, weights[2] # 0,
               RetPlace(keywords, d) <= RetPlace(keywords, e), RetPlace(vectors, d) <= RetPlace(vectors, e)
        PROVE  d \in DOMAIN score /\ score[d] > score[e]
    <2>1. weights[1] > 0 /\ weights[2] > 0
      BY <1>3, <1>6
    <2>2. PICK kd \in Nat, ke \in Nat : kd = RetShare(keywords, d, weights[2]) /\ ke = RetShare(keywords, e, weights[2])
      BY <1>4
    <2>3. PICK vd \in Nat, ve \in Nat : vd = RetShare(vectors, d, weights[1]) /\ ve = RetShare(vectors, e, weights[1])
      BY <1>4
    <2>4. ke <= kd /\ (e \in ToSet(keywords) => d \in ToSet(keywords) /\ ke < kd)
      BY <1>3, <1>6, <2>1, <2>2, RetShareFacts
    <2>5. ve <= vd /\ (e \in ToSet(vectors) => d \in ToSet(vectors) /\ ve < vd)
      BY <1>3, <1>6, <2>1, <2>3, RetShareFacts
    <2>6. d \in DOMAIN score /\ (ke < kd \/ ve < vd)
      BY <1>1, <1>6, <2>4, <2>5
    <2>7. score[d] = kd + vd /\ score[e] = ke + ve
      BY <1>1, <1>6, <2>2, <2>3, <2>6
    <2>. QED  BY <2>2, <2>3, <2>4, <2>5, <2>6, <2>7
  <1>. QED  BY <1>1, <1>2, <1>5, <1>6

\* RetSearch has two lists of documents.
LEMMA RetSearchKeeps == ASSUME RetInv, RetSearch PROVE RetInv'
  <1>1. PICK keywords \in RetOrders, vectors \in RetOrders :
          retLists' = <<RetCut(keywords, 2 * RetTopK), RetCut(vectors, RetTopK)>>
    BY DEF RetSearch
  <1>2. 2 * RetTopK \in Nat /\ RetTopK \in Nat
    BY RetConstants
  <1>3. RetListed(RetCut(keywords, 2 * RetTopK)) /\ RetListed(RetCut(vectors, RetTopK))
    BY <1>1, <1>2, RetOrdersListed, RetCutListed
  <1>4. \A i \in {1, 2} : RetListed(retLists'[i])
    BY <1>1, <1>3
  <1>5. retPhase' = "fusing" /\ retWeights' \in Nat \X Nat /\ retLevel' \in Nat
    BY RetConstants DEF RetSearch
  <1>6. RetrievalSound'
    BY <1>5 DEF RetrievalSound, FusionFair, RerankingSound, ContextCites
  <1>. QED  BY <1>4, <1>5, <1>6 DEF RetInv

\* RetFuse answers the best of both lists.
LEMMA RetFuseKeeps == ASSUME RetInv, RetFuse PROVE RetInv'
  <1>1. PICK score : score = RetFused(retLists[1], retLists[2], retWeights)
    OBVIOUS
  <1>2. PICK best : best = (retWeights[1] + retWeights[2]) * (RetDenominator \div (RetK + 1))
    OBVIOUS
  <1>3. PICK scaled : scaled = [d \in DOMAIN score |-> score[d] * 100]
    OBVIOUS
  <1>4. PICK level : level = retLevel * (IF best > 0 THEN best ELSE 1)
    OBVIOUS
  <1>5. /\ retPhase = "fusing" /\ retPhase' = "searched" /\ UNCHANGED <<retLists, retWeights>>
        /\ retResult' = RetOver(RetCut(RetSorted(DOMAIN score, score), RetTopK), scaled, level)
    BY <1>1, <1>2, <1>3, <1>4 DEF RetFuse
  <1>6. retWeights \in Nat \X Nat /\ retLevel \in Nat /\ RetListed(retLists[1]) /\ RetListed(retLists[2])
    BY <1>5 DEF RetInv
  <1>7. /\ DOMAIN score \subseteq RetDocs
        /\ \A d \in DOMAIN score : score[d] \in Nat
        /\ \A d, e \in RetDocs :
             /\ d # e /\ e \in DOMAIN score /\ retWeights[1] # 0 /\ retWeights[2] # 0
             /\ RetPlace(retLists[1], d) <= RetPlace(retLists[1], e) /\ RetPlace(retLists[2], d) <= RetPlace(retLists[2], e)
             => d \in DOMAIN score /\ score[d] > score[e]
    <2>1. PICK keywords, vectors : keywords = retLists[1] /\ vectors = retLists[2]
      OBVIOUS
    <2>2. PICK weights \in Nat \X Nat : weights = retWeights
      BY <1>6
    <2>3. RetListed(keywords) /\ RetListed(vectors) /\ score = RetFused(keywords, vectors, weights)
      BY <1>1, <1>6, <2>1, <2>2
    <2>4. /\ DOMAIN score \subseteq RetDocs
          /\ \A d \in DOMAIN score : score[d] \in Nat
          /\ \A d, e \in RetDocs :
               /\ d # e /\ e \in DOMAIN score /\ weights[1] # 0 /\ weights[2] # 0
               /\ RetPlace(keywords, d) <= RetPlace(keywords, e) /\ RetPlace(vectors, d) <= RetPlace(vectors, e)
               => d \in DOMAIN score /\ score[d] > score[e]
      <3>1. DOMAIN score = ToSet(keywords) \cup ToSet(vectors) /\ DOMAIN score \subseteq RetDocs
        BY <2>3, RetFusedFacts
      <3>2. \A d \in DOMAIN score : score[d] \in Nat
        BY <2>3, RetFusedFacts
      <3>3. ASSUME NEW d \in RetDocs, NEW e \in RetDocs, d # e, e \in DOMAIN score, weights[1] # 0, weights[2] # 0,
                   RetPlace(keywords, d) <= RetPlace(keywords, e), RetPlace(vectors, d) <= RetPlace(vectors, e)
            PROVE  d \in DOMAIN score /\ score[d] > score[e]
        BY <2>3, <3>3, RetFusedFacts
      <3>. QED  BY <3>1, <3>2, <3>3
    <2>. QED  BY <2>1, <2>2, <2>4
  <1>8. level \in Nat
    <2>1. PICK w \in Nat : w = retWeights[1] + retWeights[2]
      BY <1>6
    <2>2. PICK q \in Nat : q = RetDenominator \div (RetK + 1)
      <3>1. PICK n \in Nat, a \in Nat \ {0} : n = RetDenominator /\ a = RetK + 1
        BY RetDenominatorFacts, RetConstants
      <3>2. n \div a \in Nat
        OBVIOUS
      <3>. QED  BY <3>1, <3>2
    <2>3. best = w * q /\ w * q \in Nat
      BY <1>2, <2>1, <2>2
    <2>4. PICK b \in Nat : b = IF best > 0 THEN best ELSE 1
      BY <2>3
    <2>5. retLevel * b \in Nat
      BY <1>6
    <2>. QED  BY <1>4, <2>4, <2>5
  <1>9. PICK docs : docs = DOMAIN score
    OBVIOUS
  <1>10. PICK sorted : sorted = RetSorted(docs, score)
    OBVIOUS
  <1>11. RetTop(sorted, docs, score)
    BY <1>7, <1>9, <1>10, RetSortedTop
  <1>12. PICK cut : cut = RetCut(sorted, RetTopK)
    OBVIOUS
  <1>13. RetTop(cut, docs, score) /\ Len(cut) <= RetTopK /\ RetTopK \in Nat
    BY <1>11, <1>12, RetTopCut, RetConstants
  <1>14. PICK over : over = RetOver(cut, scaled, level)
    OBVIOUS
  <1>15. RetTop(over, docs, score) /\ Len(over) <= Len(cut)
    <2>1. \A d \in docs : scaled[d] = score[d] * 100
      BY <1>3, <1>9
    <2>2. \A d \in docs : score[d] \in Nat
      BY <1>7, <1>9
    <2>. QED  BY <1>8, <1>13, <1>14, <2>1, <2>2, RetTopOver
  <1>16. Len(over) <= RetTopK /\ IsInjective(over) /\ over \in Seq(docs)
    <2>1. over \in Seq(docs) /\ cut \in Seq(docs) /\ IsInjective(over)
      BY <1>13, <1>15 DEF RetTop
    <2>2. Len(over) \in Nat /\ Len(cut) \in Nat
      BY <2>1
    <2>. QED  BY <1>13, <1>15, <2>1, <2>2
  <1>17. retResult' = over
    BY <1>5, <1>9, <1>10, <1>12, <1>14
  <1>18. ASSUME NEW d \in RetDocs, NEW e \in RetDocs, d # e, e \in ToSet(over), retWeights[1] # 0, retWeights[2] # 0,
                RetPlace(retLists[1], d) <= RetPlace(retLists[1], e),
                RetPlace(retLists[2], d) <= RetPlace(retLists[2], e)
         PROVE  RetPlace(over, d) < RetPlace(over, e)
    <2>1. e \in docs
      BY <1>16, <1>18 DEF ToSet
    <2>2. d \in docs /\ score[d] > score[e]
      BY <1>7, <1>9, <1>18, <2>1
    <2>3. RetBefore(score, d, e)
      BY <2>2 DEF RetBefore
    <2>. QED  BY <1>7, <1>9, <1>15, <1>18, <2>2, <2>3, RetTopPlaces
  <1>19. FusionFair'
    <2>1. retPhase' = "searched" /\ retResult' = over /\ retLists' = retLists /\ retWeights' = retWeights
      BY <1>5, <1>17
    <2>2. \A d, e \in RetDocs :
            /\ d # e /\ (\A i \in {1, 2} : RetPlace(retLists[i], d) <= RetPlace(retLists[i], e))
            /\ 0 \notin {retWeights[1], retWeights[2]} /\ e \in ToSet(over)
            => RetPlace(over, d) < RetPlace(over, e)
      BY <1>18
    <2>. QED  BY <1>16, <2>1, <2>2 DEF FusionFair
  <1>20. RetrievalSound'
    BY <1>5, <1>19 DEF RetrievalSound, RerankingSound, ContextCites
  <1>. QED  BY <1>5, <1>20 DEF RetInv

\* RetRetrieve has the candidates.
LEMMA RetRetrieveKeeps == ASSUME RetInv, RetRetrieve PROVE RetInv'
  <1>1. PICK candidates \in RetOrders : retLists' = <<candidates>>
    BY DEF RetRetrieve
  <1>2. RetListed(retLists'[1])
    BY <1>1, RetOrdersListed
  <1>3. retPhase' = "ranking"
    BY DEF RetRetrieve
  <1>4. RetrievalSound'
    BY <1>3 DEF RetrievalSound, FusionFair, RerankingSound, ContextCites
  <1>. QED  BY <1>2, <1>3, <1>4 DEF RetInv

\* What is cut of the sorted candidates answers for all of them.
LEMMA RetTopSound ==
  ASSUME NEW docs \in SUBSET RetDocs, NEW score \in [docs -> Nat], NEW list, RetTop(list, docs, score)
  PROVE  /\ IsInjective(list) /\ ToSet(list) \subseteq docs /\ RetListed(list)
         /\ \A d, e \in DOMAIN score :
              e \in ToSet(list) /\ score[d] > score[e] => RetPlace(list, d) < RetPlace(list, e)
  <1>1. list \in Seq(docs) /\ IsInjective(list) /\ Len(list) <= Cardinality(RetDocs)
    BY DEF RetTop
  <1>2. ToSet(list) \subseteq docs
    BY <1>1 DEF ToSet
  <1>3. list \in Seq(RetDocs)
    BY <1>1
  <1>4. ASSUME NEW d \in docs, NEW e \in ToSet(list), score[d] > score[e]
        PROVE  RetPlace(list, d) < RetPlace(list, e)
    <2>1. RetBefore(score, d, e)
      BY <1>4 DEF RetBefore
    <2>. QED  BY <2>1, RetTopPlaces
  <1>5. DOMAIN score = docs
    OBVIOUS
  <1>. QED  BY <1>1, <1>2, <1>3, <1>4, <1>5 DEF RetListed

\* What a model says of a document is a number.
LEMMA RetScoresFacts == RetScores \subseteq Nat
  <1>1. 0 .. 100 \subseteq Nat
    OBVIOUS
  <1>. QED  BY <1>1, RetConstants

\* RetRank keeps the best of the candidates.
LEMMA RetRankKeeps == ASSUME RetInv, RetRank PROVE RetInv'
  <1>1. PICK docs : docs = ToSet(retLists[1])
    OBVIOUS
  <1>2. retPhase = "ranking" /\ RetListed(retLists[1]) /\ docs \in SUBSET RetDocs
    BY <1>1 DEF RetRank, RetInv, RetListed, ToSet
  <1>3. PICK score \in [docs -> RetScores] : score = retScore'
    BY <1>1 DEF RetRank
  <1>4. score \in [docs -> Nat] /\ \A d \in docs : score[d] \in Nat
    <2>1. RetScores \subseteq Nat
      BY RetScoresFacts
    <2>. QED  BY <2>1
  <1>5. RetTop(RetSorted(docs, score), docs, score)
    BY <1>2, <1>4, RetSortedTop
  <1>6. PICK sorted : sorted = RetSorted(docs, score)
    OBVIOUS
  <1>7. PICK kept : kept = RetCut(sorted, RetReranked)
    OBVIOUS
  <1>8. RetTop(kept, docs, score)
    BY <1>5, <1>6, <1>7, RetTopCut, RetConstants
  <1>9. PICK answer : answer = RetCut(kept, RetFinal)
    OBVIOUS
  <1>10. RetTop(answer, docs, score)
    BY <1>8, <1>9, RetTopCut, RetConstants
  <1>11. /\ retLists' = retLists
         /\ \/ retPhase' = "reranked" /\ retResult' = answer
            \/ retPhase' = "judging" /\ retResult' = kept
    BY <1>1, <1>3, <1>6, <1>7, <1>9 DEF RetRank
  <1>12. CASE retPhase' = "reranked" /\ retResult' = answer
    <2>1. /\ IsInjective(answer) /\ ToSet(answer) \subseteq docs
          /\ \A d, e \in DOMAIN score :
               e \in ToSet(answer) /\ score[d] > score[e] => RetPlace(answer, d) < RetPlace(answer, e)
      BY <1>2, <1>4, <1>10, RetTopSound
    <2>2. RerankingSound'
      BY <1>1, <1>3, <1>11, <1>12, <2>1 DEF RerankingSound
    <2>3. RetrievalSound'
      BY <1>12, <2>2 DEF RetrievalSound, FusionFair, ContextCites
    <2>. QED  BY <1>12, <2>3 DEF RetInv
  <1>13. CASE retPhase' = "judging" /\ retResult' = kept
    <2>1. RetListed(kept) /\ ToSet(kept) \subseteq docs
      BY <1>2, <1>4, <1>8, RetTopSound
    <2>2. RetrievalSound'
      BY <1>13 DEF RetrievalSound, FusionFair, RerankingSound, ContextCites
    <2>. QED  BY <1>1, <1>2, <1>11, <1>13, <2>1, <2>2 DEF RetInv
  <1>. QED  BY <1>11, <1>12, <1>13

\* Each document that was kept is rated by the judge, or by its place.
LEMMA RetJudgedFacts ==
  ASSUME NEW docs, RetListed(docs), NEW answer \in BoundedSeq((DOMAIN docs) \X RetScores, Len(docs))
  PROVE  RetJudged(docs, answer) \in [ToSet(docs) -> Nat]
  <1>1. PICK n \in Nat : n = Len(docs) /\ DOMAIN docs = 1 .. n
    BY DEF RetListed
  <1>2. PICK m \in 0 .. n : answer \in [1 .. m -> (DOMAIN docs) \X RetScores]
    BY <1>1 DEF BoundedSeq, SeqOf
  <1>3. Len(answer) = m
    BY <1>2
  <1>4. \A i \in 1 .. m : answer[i][2] \in Nat
    <2>1. \A i \in 1 .. m : answer[i] \in (DOMAIN docs) \X RetScores
      BY <1>2
    <2>2. \A i \in 1 .. m : answer[i][2] \in RetScores
      BY <2>1
    <2>. QED  BY <2>2, RetScoresFacts
  <1>5. ASSUME NEW d \in ToSet(docs)
        PROVE  RetJudged(docs, answer)[d] \in Nat
    <2>1. PICK i : i = CHOOSE j \in DOMAIN docs : docs[j] = d
      OBVIOUS
    <2>2. i \in 1 .. n
      BY <1>1, <2>1 DEF ToSet
    <2>3. PICK r : r = IF Len(answer) = Len(docs) THEN answer[i][2] ELSE IF i > 20 THEN 0 ELSE 105 - 5 * i
      OBVIOUS
    <2>4. r \in Nat
      <3>1. CASE m = n
        BY <1>1, <1>3, <1>4, <2>2, <2>3, <3>1
      <3>2. CASE m # n
        <4>1. r = IF i > 20 THEN 0 ELSE 105 - 5 * i
          BY <1>1, <1>3, <2>3, <3>2
        <4>2. i \in Nat
          BY <2>2
        <4>. QED  BY ONLY <4>1, <4>2
      <3>. QED  BY <3>1, <3>2
    <2>5. RetJudged(docs, answer)[d] = r
      BY <2>1, <2>3 DEF RetJudged
    <2>. QED  BY <2>4, <2>5
  <1>6. RetJudged(docs, answer) = [d \in ToSet(docs) |-> RetJudged(docs, answer)[d]]
    BY DEF RetJudged
  <1>. QED  BY <1>5, <1>6

\* RetJudge orders those that were kept anew.
LEMMA RetJudgeKeeps == ASSUME RetInv, RetJudge PROVE RetInv'
  <1>1. retPhase = "judging" /\ RetListed(retResult) /\ ToSet(retResult) \subseteq ToSet(retLists[1])
    BY DEF RetJudge, RetInv
  <1>2. PICK docs : docs = ToSet(retResult)
    OBVIOUS
  <1>3. docs \in SUBSET RetDocs
    BY <1>1, <1>2 DEF RetListed, ToSet
  <1>4. PICK score : score = RetJudged(retResult, retAnswer')
    OBVIOUS
  <1>5. /\ retPhase' = "reranked" /\ retLists' = retLists /\ retScore' = score
        /\ retResult' = RetCut(RetSorted(docs, score), RetFinal)
    BY <1>2, <1>4 DEF RetJudge
  <1>6. score \in [docs -> Nat]
    <2>1. PICK answer : answer = retAnswer'
      OBVIOUS
    <2>2. answer \in BoundedSeq((DOMAIN retResult) \X RetScores, Len(retResult))
      BY <2>1 DEF RetJudge
    <2>. QED  BY <1>1, <1>2, <1>4, <2>1, <2>2, RetJudgedFacts
  <1>7. PICK sorted : sorted = RetSorted(docs, score)
    OBVIOUS
  <1>8. RetTop(sorted, docs, score)
    BY <1>3, <1>6, <1>7, RetSortedTop
  <1>9. PICK answer : answer = RetCut(sorted, RetFinal)
    OBVIOUS
  <1>10. RetTop(answer, docs, score)
    BY <1>8, <1>9, RetTopCut, RetConstants
  <1>11. /\ IsInjective(answer) /\ ToSet(answer) \subseteq docs
         /\ \A d, e \in DOMAIN score :
              e \in ToSet(answer) /\ score[d] > score[e] => RetPlace(answer, d) < RetPlace(answer, e)
    BY <1>3, <1>6, <1>10, RetTopSound
  <1>12. retResult' = answer /\ docs \subseteq ToSet(retLists[1])
    BY <1>1, <1>2, <1>5, <1>7, <1>9
  <1>13. RerankingSound'
    <2>1. ToSet(answer) \subseteq ToSet(retLists[1])
      BY <1>11, <1>12
    <2>. QED  BY <1>5, <1>11, <1>12, <2>1 DEF RerankingSound
  <1>14. RetrievalSound'
    BY <1>5, <1>13 DEF RetrievalSound, FusionFair, ContextCites
  <1>. QED  BY <1>5, <1>14 DEF RetInv

\* RetAsk has the candidates of a question.
LEMMA RetAskKeeps == ASSUME RetInv, RetAsk PROVE RetInv'
  <1>1. PICK candidates \in RetOrders : retLists' = <<candidates>>
    BY DEF RetAsk
  <1>2. RetListed(retLists'[1])
    BY <1>1, RetOrdersListed
  <1>3. retPhase' = "filling"
    BY DEF RetAsk
  <1>4. RetrievalSound'
    BY <1>3 DEF RetrievalSound, FusionFair, RerankingSound, ContextCites
  <1>. QED  BY <1>2, <1>3, <1>4 DEF RetInv

\* RetAnswer cites from what it names.
LEMMA RetAnswerKeeps == ASSUME RetInv, RetAnswer PROVE RetInv'
  <1>1. PICK docs : docs = RetOver(retLists[1], retScore, retLevel)
    OBVIOUS
  <1>2. /\ retPhase = "filling" /\ retPhase' = "answered"
        /\ retResult' = docs /\ retContext' = RetEntries(docs)
    BY <1>1 DEF RetAnswer
  <1>3. retLists[1] \in Seq(RetDocs)
    BY <1>2 DEF RetInv, RetListed
  <1>4. docs \in Seq(RetDocs)
    BY <1>1, <1>3, RetOverFacts
  <1>5. PICK context : context = RetEntries(docs)
    OBVIOUS
  <1>6. /\ \A i \in DOMAIN context : context[i][1] \in DOMAIN docs /\ docs[context[i][1]] = context[i][2]
        /\ RetBytes(context)[Len(context)] <= RetMaxContext
        /\ RetBytes([i \in DOMAIN docs |-> <<i, docs[i]>>])[Len(docs)] <= RetMaxContext
             => Len(context) = Len(docs)
    BY <1>4, <1>5, RetEntriesFacts
  <1>7. ContextCites'
    BY <1>2, <1>5, <1>6 DEF ContextCites
  <1>8. RetrievalSound'
    BY <1>2, <1>7 DEF RetrievalSound, FusionFair, RerankingSound
  <1>. QED  BY <1>2, <1>8 DEF RetInv

\* Nothing is answered at first.
LEMMA RetStarts == RetInit => RetInv
  BY DEF RetInit, RetInv, RetrievalSound, FusionFair, RerankingSound, ContextCites

\* Every step keeps what is said of the lists.
LEMMA RetKeeps == RetInv /\ [RetNext]_retVars => RetInv'
  <1>1. SUFFICES ASSUME RetInv, [RetNext]_retVars PROVE RetInv'
    OBVIOUS
  <1>2. CASE UNCHANGED retVars
    BY <1>1, <1>2 DEF retVars, RetInv, RetrievalSound, FusionFair, RerankingSound, ContextCites
  <1>3. CASE RetNext
    BY <1>1, <1>3, RetSearchKeeps, RetFuseKeeps, RetRetrieveKeeps, RetRankKeeps, RetJudgeKeeps, RetAskKeeps,
       RetAnswerKeeps DEF RetNext
  <1>. QED  BY <1>1, <1>2, <1>3

\* RetrievalSound (search/hybrid.rs, reranker/*.rs, rag/engine.rs): for any
\* documents, lists, weights, thresholds and limits, a document that no list puts
\* behind another is never answered behind it; nobody left out was rated better
\* than one who was answered; and the numbers in a context are those of its sources.
THEOREM RetrievalIsSound == RetSpec => []RetrievalSound
  <1>1. RetInv => RetrievalSound
    BY DEF RetInv
  <1>. QED  BY <1>1, RetStarts, RetKeeps, PTL DEF RetSpec

\* KnowledgeSound: the extraction of any blocks, and what a query gets back.
THEOREM KnowledgeIsSound == ExtSpec /\ RetSpec => []KnowledgeSound
  <1>1. ExtractionSound /\ RetrievalSound => KnowledgeSound
    BY DEF KnowledgeSound
  <1>. QED  BY <1>1, ExtractionIsSound, RetrievalIsSound, PTL
================================================================================
