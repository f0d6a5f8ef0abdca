---------------------------- MODULE RpcClientProofs ---------------------------
(***************************************************************************)
(* Safety of the asking side, for every size of its tables and of the      *)
(* window, any peer of its kind and any outcome of sends, while its        *)
(* question ids have not wrapped around.  Each step either posts messages  *)
(* to the peer, or is the peer receiving one, answering one, or its Return *)
(* arriving; the invariant is shown for each of the four.                  *)
(***************************************************************************)
EXTENDS RpcClient, RpcTableFacts, FiniteSetTheorems, SequenceTheorems

Messages ==
  [kind: {"ask", "finish", "release"}, id: Ids \cup {NoId}, n: Serials \cup {0}]

-----------------------------------------------------------------------------
\* The helpers.

\* The Finish messages sent go behind the outbox, in the order of the calls.
LEMMA FinishesAre ==
  ASSUME TypeOK, NEW k \in 0..Len(stream.qids), NEW sent \in Sendings(k)
  PROVE  \E n \in 0..k :
           /\ sent \in [1..n -> 1..k]
           /\ \A x, y \in 1..n : x < y => sent[x] < sent[y]
           /\ Finishes(sent) \in Seq(Messages)
           /\ Len(Finishes(sent)) = Len(outbox) + n
           /\ \A x \in 1..Len(outbox) : Finishes(sent)[x] = outbox[x]
           /\ \A x \in 1..n : Finishes(sent)[Len(outbox) + x] =
                                Message("finish", stream.qids[sent[x]], 0)
  <1>1. PICK n \in 0..k : sent \in [1..n -> 1..k]
    BY DEF Sendings
  <1>2. \A x, y \in 1..n : x < y => sent[x] < sent[y]
    BY <1>1 DEF Sendings
  <1> DEFINE new == [x \in DOMAIN sent |-> Message("finish", stream.qids[sent[x]], 0)]
  <1>3. stream.qids \in Seq(Ids) /\ k \in Nat /\ outbox \in Seq(Messages)
    BY DEF TypeOK, Streams, Messages
  <1>4. \A x \in 1..n : Message("finish", stream.qids[sent[x]], 0) \in Messages
    <2>1. \A x \in 1..n : stream.qids[sent[x]] \in Ids
      BY <1>1, <1>3
    <2> QED
      BY <2>1 DEF Message, Messages
  <1>5. new \in Seq(Messages) /\ Len(new) = n
        /\ \A x \in 1..n : new[x] = Message("finish", stream.qids[sent[x]], 0)
    BY <1>1, <1>3, <1>4
  <1> HIDE DEF new
  <1>6. Finishes(sent) = outbox \o new
    BY DEF Finishes, new
  <1>7. /\ outbox \o new \in Seq(Messages)
        /\ Len(outbox \o new) = Len(outbox) + n
        /\ \A x \in 1..(Len(outbox) + n) :
              (outbox \o new)[x] = IF x <= Len(outbox) THEN outbox[x] ELSE new[x - Len(outbox)]
    BY <1>3, <1>5, ConcatProperties
  <1>8. Len(outbox) \in Nat /\ n \in Nat
    BY <1>3
  <1>9. \A x \in 1..Len(outbox) : Finishes(sent)[x] = outbox[x]
    BY <1>6, <1>7, <1>8
  <1>10. ASSUME NEW x \in 1..n
         PROVE  Finishes(sent)[Len(outbox) + x] = Message("finish", stream.qids[sent[x]], 0)
    <2>1. Len(outbox) + x \in 1..(Len(outbox) + n) /\ ~(Len(outbox) + x <= Len(outbox))
          /\ Len(outbox) + x - Len(outbox) = x
      BY <1>8
    <2> QED
      BY <1>5, <1>6, <1>7, <2>1
  <1> QED
    BY <1>1, <1>2, <1>6, <1>7, <1>9, <1>10

LEMMA FinishedType ==
  ASSUME TypeOK, NEW gone PROVE Finished(gone) \in [QuestionSlots -> Questions]
  BY DEF Finished, TypeOK, Questions

\* Asking, in a free slot of a table of questions.
LEMMA AskedType ==
  ASSUME TypeOK, NEW table \in [QuestionSlots -> Questions],
         NEW queue \in Seq(Messages), NEW i \in First(FreeSlots(table)),
         NEW ok \in BOOLEAN, Asked(table, queue, i, ok)
  PROVE  /\ questions' \in [QuestionSlots -> Questions] /\ next_question_id' \in Ids
         /\ outbox' \in Seq(Messages) /\ serial' \in Serials
  <1>1. serial + 1 \in Serials /\ next_question_id \in Ids
    BY ClientAssumption DEF Asked, TypeOK, Serials
  <1>2. Claimed(table[i], next_question_id, serial + 1) \in Questions
    BY <1>1 DEF Claimed, Questions
  <1>3. Free \in Questions
    BY DEF Questions
  <1>4. questions' \in [QuestionSlots -> Questions]
    BY <1>2, <1>3, PutType DEF Asked, Unsent
  <1>5. Message("ask", next_question_id, serial + 1) \in Messages
    BY <1>1 DEF Message, Messages
  <1>6. outbox' \in Seq(Messages)
    BY <1>5, AppendProperties DEF Asked
  <1>7. next_question_id' \in Ids
    BY <1>1, ClientAssumption DEF Asked, Next_question_id, Ids
  <1> QED
    BY <1>1, <1>4, <1>6, <1>7 DEF Asked

\* What is left of a stream after its k oldest calls.
LEMMA RetiredType ==
  ASSUME TypeOK, NEW k \in 0..Len(stream.qids)
  PROVE  /\ Retired(k) \in Streams
         /\ Len(Retired(k).qids) = Len(stream.qids) - k
         /\ Retired(k).window = stream.window
         /\ \A j \in 1..(Len(stream.qids) - k) : Retired(k).qids[j] = stream.qids[k + j]
  <1> DEFINE bad == {j \in 1..k : Bad(stream.qids[j])}
             left == SubSeq(stream.qids, k + 1, Len(stream.qids))
             ff == IF stream.have_failure \/ bad = {} THEN stream.first_failure
                   ELSE stream.qids[CHOOSE j \in First(bad) : TRUE]
             f == stream.failed \/ bad # {}
             h == stream.have_failure \/ bad # {}
  <1>1. /\ stream \in Streams /\ stream.qids \in Seq(Ids) /\ Len(stream.qids) \in Nat
        /\ k \in Nat
    BY DEF TypeOK, Streams
  <1>2. /\ left \in Seq(Ids) /\ Len(left) = Len(stream.qids) - k
        /\ \A j \in 1..(Len(stream.qids) - k) : left[j] = stream.qids[k + j]
    <2>1. \A j \in (k + 1)..Len(stream.qids) : stream.qids[j] \in Ids
      BY <1>1
    <2>2. /\ left \in Seq(Ids)
          /\ Len(left) = IF k + 1 <= Len(stream.qids) THEN Len(stream.qids) - (k + 1) + 1 ELSE 0
          /\ \A j \in 1..(Len(stream.qids) - (k + 1) + 1) : left[j] = stream.qids[k + 1 + j - 1]
      BY <1>1, <2>1, SubSeqProperties
    <2> HIDE DEF left
    <2> QED
      BY <1>1, <2>2
  <1>3. ff \in Ids \cup {NoId}
    <2>1. CASE stream.have_failure \/ bad = {}
      BY <1>1, <2>1 DEF Streams
    <2>2. CASE ~(stream.have_failure \/ bad = {})
      <3>1. \E j \in bad : First(bad) = {j}
        <4>1. bad \subseteq Nat /\ bad # {}
          BY <1>1, <2>2
        <4> HIDE DEF bad
        <4> QED
          BY <4>1, FirstExists
      <3>2. (CHOOSE j \in First(bad) : TRUE) \in 1..k
        BY <3>1
      <3> HIDE DEF bad
      <3> QED
        BY <1>1, <2>2, <3>2
    <2> QED
      BY <2>1, <2>2
  <1>4. f \in BOOLEAN /\ h \in BOOLEAN
    OBVIOUS
  <1> HIDE DEF bad, left, ff, f, h
  <1>5. Retired(k) = [stream EXCEPT !.qids = left, !.failed = f, !.have_failure = h,
                                    !.first_failure = ff]
    BY DEF Retired, bad, left, ff, f, h
  <1>6. /\ Retired(k) \in Streams /\ Retired(k).qids = left
        /\ Retired(k).window = stream.window
    BY <1>1, <1>2, <1>3, <1>4, <1>5 DEF Streams
  <1> QED
    BY <1>2, <1>6

LEMMA RetiringCount ==
  ASSUME TypeOK PROVE Retiring \in 0..Len(stream.qids)
  BY DEF Retiring, TypeOK, Streams

-----------------------------------------------------------------------------
\* Type correctness.

LEMMA MessagesAre ==
  TypeOK <=>
    /\ questions \in [QuestionSlots -> Questions]
    /\ next_question_id \in Ids
    /\ introductions \in [0..(MAX_INTRODUCTIONS - 1) -> Introductions]
    /\ stream \in Streams /\ Len(stream.qids) <= MAX_WINDOW
    /\ outbox \in Seq(Messages)
    /\ inbox \in Seq([id: Ids, n: Serials, reply: Replies, nonce: Nonces \cup {NoNonce}])
    /\ peer \in [Ids -> [st: PeerStates, n: Serials \cup {0}]]
    /\ held \subseteq Ids /\ calls \subseteq Serials
    /\ serial \in Serials \cup {0}
    /\ replied \in [Serials -> Replies \cup {"none"}]
  BY DEF TypeOK, Messages

LEMMA Numbers ==
  ASSUME TypeOK
  PROVE  /\ serial \in Nat /\ Ids \subseteq Nat /\ IdSpace \in Nat
         /\ Serials \subseteq Nat /\ Len(outbox) \in Nat /\ Len(inbox) \in Nat
         /\ \A j \in Used(questions) :
              /\ questions[j].n \in Serials /\ questions[j].from \in Serials \cup {0}
              /\ questions[j].question_id \in Ids /\ questions[j].answered \in BOOLEAN
  BY ClientAssumption DEF TypeOK, Serials, Ids, Used, Questions, Free

LEMMA SendQuestionType ==
  ASSUME TypeOK, NEW ok \in BOOLEAN, send_question(ok) PROVE TypeOK'
  <1>1. PICK i \in First(FreeSlots(questions)) : Asked(questions, outbox, i, ok)
    BY DEF send_question
  <1>2. /\ questions' \in [QuestionSlots -> Questions] /\ next_question_id' \in Ids
        /\ outbox' \in Seq(Messages) /\ serial' \in Serials
    BY <1>1, MessagesAre, AskedType
  <1>3. held' \subseteq Ids
    BY DEF send_question, TypeOK
  <1> QED
    BY <1>2, <1>3 DEF send_question, TypeOK, Messages

LEMMA SendFinishType ==
  ASSUME TypeOK, NEW q \in held, NEW ok, capn_rpc_send_finish(q, ok) PROVE TypeOK'
  <1>1. questions' \in [QuestionSlots -> Questions] /\ held' \subseteq Ids
    BY FinishedType DEF capn_rpc_send_finish, TypeOK
  <1>2. outbox' \in Seq(Messages)
    <2>1. Message("finish", q, 0) \in Messages
      BY DEF Message, Messages, TypeOK
    <2> QED
      BY <2>1, MessagesAre, AppendProperties DEF capn_rpc_send_finish
  <1> QED
    BY <1>1, <1>2 DEF capn_rpc_send_finish, TypeOK, Messages

LEMMA IntroductionDoneType ==
  ASSUME TypeOK, NEW n, NEW ok, capn_rpc_introduction_done(n, ok) PROVE TypeOK'
  <1>1. introductions' \in [0..(MAX_INTRODUCTIONS - 1) -> Introductions]
    <2>1. Free \in Introductions
      BY DEF Introductions
    <2>2. PICK i : introductions' = Put(introductions, {i}, Free)
      BY DEF capn_rpc_introduction_done
    <2> QED
      BY <2>1, <2>2, PutType DEF TypeOK
  <1>2. outbox' \in Seq(Messages)
    <2>1. Message("release", NoId, 0) \in Messages
      BY DEF Message, Messages
    <2> QED
      BY <2>1, MessagesAre, AppendProperties DEF capn_rpc_introduction_done
  <1> QED
    BY <1>1, <1>2 DEF capn_rpc_introduction_done, TypeOK, Messages

LEMMA StreamInitType ==
  ASSUME TypeOK, NEW w \in Windows, capn_rpc_stream_init(w) PROVE TypeOK'
  <1> DEFINE window == IF w < 1 THEN 1 ELSE IF w > MAX_WINDOW THEN MAX_WINDOW ELSE w
  <1>1. window \in 1..MAX_WINDOW
    BY ClientAssumption
  <1>2. stream' \in Streams /\ Len(stream'.qids) = 0
    <2> HIDE DEF window
    <2>1. stream' = [window |-> window, qids |-> <<>>, failed |-> FALSE,
                     have_failure |-> FALSE, first_failure |-> NoId]
      BY DEF capn_rpc_stream_init, window
    <2> QED
      BY <1>1, <2>1 DEF Streams
  <1> QED
    BY <1>2, ClientAssumption DEF capn_rpc_stream_init, TypeOK

LEMMA StreamSendType ==
  ASSUME TypeOK, NEW sent \in Sendings(Retiring), NEW ok \in BOOLEAN,
         capn_rpc_stream_send(sent, ok)
  PROVE  TypeOK'
  <1> DEFINE k == Retiring
             table == Finished(Gone(k))
             s == Retired(k)
  <1>1. /\ Finishes(sent) \in Seq(Messages) /\ table \in [QuestionSlots -> Questions]
    BY FinishesAre, FinishedType, RetiringCount
  <1>2. /\ s \in Streams /\ Len(s.qids) = Len(stream.qids) - k /\ s.window = stream.window
    BY RetiredType, RetiringCount
  <1>3. /\ Len(stream.qids) \in Nat /\ Len(stream.qids) <= MAX_WINDOW
        /\ k \in {0, 1} /\ MAX_WINDOW \in Nat
        /\ k = 0 => Len(stream.qids) < MAX_WINDOW
    BY ClientAssumption DEF TypeOK, Streams, Retiring
  <1> HIDE DEF k, table, s
  <1>4. CASE stream' = s /\ questions' = table /\ outbox' = Finishes(sent)
               /\ UNCHANGED <<next_question_id, serial, calls>>
    BY <1>1, <1>2, <1>3, <1>4 DEF capn_rpc_stream_send, TypeOK, Messages
  <1>5. ASSUME NEW i \in First(FreeSlots(table)), Asked(table, Finishes(sent), i, ok),
               stream' = IF ok /\ next_question_id # Failure
                         THEN [s EXCEPT !.qids = Append(@, next_question_id)] ELSE s,
               calls' = IF ok THEN calls \cup {serial + 1} ELSE calls
        PROVE  TypeOK'
    <2>1. /\ questions' \in [QuestionSlots -> Questions] /\ next_question_id' \in Ids
          /\ outbox' \in Seq(Messages) /\ serial' \in Serials
      BY <1>1, <1>5, AskedType
    <2>2. calls' \subseteq Serials
      BY <1>5, <2>1 DEF Asked, TypeOK
    <2>3. stream' \in Streams /\ Len(stream'.qids) <= MAX_WINDOW
      <3>1. next_question_id \in Ids /\ s.qids \in Seq(Ids)
        BY <1>2 DEF TypeOK, Streams
      <3>2. /\ Append(s.qids, next_question_id) \in Seq(Ids)
            /\ Len(Append(s.qids, next_question_id)) = Len(s.qids) + 1
        BY <3>1, AppendProperties
      <3>3. /\ [s EXCEPT !.qids = Append(@, next_question_id)] \in Streams
            /\ [s EXCEPT !.qids = Append(@, next_question_id)].qids =
                 Append(s.qids, next_question_id)
        BY <1>2, <3>2 DEF Streams
      <3> QED
        BY <1>2, <1>3, <1>5, <3>2, <3>3
    <2> QED
      BY <2>1, <2>2, <2>3 DEF capn_rpc_stream_send, TypeOK, Messages
  <1> QED
    BY <1>4, <1>5 DEF capn_rpc_stream_send, k, table, s

LEMMA StreamFinishType ==
  ASSUME TypeOK, NEW sent \in Sendings(Len(stream.qids)), capn_rpc_stream_finish(sent)
  PROVE  TypeOK'
  <1>1. Len(stream.qids) \in 0..Len(stream.qids) /\ Len(stream.qids) \in Nat
    BY DEF TypeOK, Streams
  <1>2. Finishes(sent) \in Seq(Messages)
    BY <1>1, FinishesAre
  <1>3. stream' \in Streams /\ Len(stream'.qids) = 0
    BY <1>1, RetiredType DEF capn_rpc_stream_finish
  <1> QED
    BY <1>2, <1>3, FinishedType, ClientAssumption DEF capn_rpc_stream_finish, TypeOK, Messages

LEMMA ReturnType ==
  ASSUME TypeOK, handle_return PROVE TypeOK'
  <1> DEFINE r == Head(inbox)
  <1>1. /\ r \in [id: Ids, n: Serials, reply: Replies, nonce: Nonces \cup {NoNonce}]
        /\ inbox' \in Seq([id: Ids, n: Serials, reply: Replies,
                           nonce: Nonces \cup {NoNonce}])
    BY HeadTailProperties DEF handle_return, TypeOK
  <1> HIDE DEF r
  <1>2. questions' \in [QuestionSlots -> Questions]
    <2>1. ASSUME NEW i \in question_find(r.id) PROVE Recorded(r, i) \in Questions
      <3>1. questions[i] \in Questions /\ questions[i].used = 1
        BY FirstIn DEF question_find, Used, TypeOK
      <3> QED
        BY <1>1, <3>1 DEF Recorded, Questions, Free
    <2> QED
      BY <2>1 DEF handle_return, r, TypeOK
  <1>3. introductions' \in [0..(MAX_INTRODUCTIONS - 1) -> Introductions]
    <2>1. ASSUME r.nonce # NoNonce PROVE [used |-> 1, nonce |-> r.nonce] \in Introductions
      BY <1>1, <2>1 DEF Introductions
    <2>2. Noted(introductions, r.nonce) \in [0..(MAX_INTRODUCTIONS - 1) -> Introductions]
      BY <2>1, PutType DEF Noted, TypeOK
    <2> QED
      BY <2>2 DEF handle_return, r, TypeOK
  <1> QED
    BY <1>1, <1>2, <1>3 DEF handle_return, TypeOK

LEMMA ReceiveType ==
  ASSUME TypeOK, peer_receive PROVE TypeOK'
  <1> DEFINE msg == Head(outbox)
  <1>1. msg \in Messages /\ outbox' \in Seq(Messages)
    BY MessagesAre, HeadTailProperties DEF peer_receive
  <1>2. peer' \in [Ids -> [st: PeerStates, n: Serials \cup {0}]]
    <2> HIDE DEF msg
    <2>0. peer \in [Ids -> [st: PeerStates, n: Serials \cup {0}]]
          /\ msg.n \in Serials \cup {0}
          /\ {"waiting", "cancelled", "idle", "confused"} \subseteq PeerStates
      BY <1>1 DEF TypeOK, Messages, PeerStates
    <2>1. CASE msg.kind = "ask"
      <3>1. peer' = [peer EXCEPT ![msg.id] =
                       IF @.st = "idle" THEN [st |-> "waiting", n |-> msg.n]
                                        ELSE [@ EXCEPT !.st = "confused"]]
        BY <2>1 DEF peer_receive, msg
      <3> QED
        BY <2>0, <3>1
    <2>2. CASE msg.kind = "finish"
      <3>1. peer' = [peer EXCEPT ![msg.id] =
                       CASE @.st = "waiting" -> [@ EXCEPT !.st = "cancelled"]
                         [] @.st = "answered" -> [@ EXCEPT !.st = "idle"]
                         [] OTHER -> [@ EXCEPT !.st = "confused"]]
        BY <2>2 DEF peer_receive, msg
      <3> QED
        BY <2>0, <3>1
    <2>3. CASE msg.kind \notin {"ask", "finish"}
      <3>1. peer' = peer
        BY <2>3 DEF peer_receive, msg
      <3> QED
        BY <2>0, <3>1
    <2> QED
      BY <2>1, <2>2, <2>3
  <1> QED
    BY <1>1, <1>2 DEF peer_receive, TypeOK, Messages

LEMMA AnswerType ==
  ASSUME TypeOK, NEW q \in Ids, peer_answer(q), peer[q].n \in Serials PROVE TypeOK'
  <1>1. peer' \in [Ids -> [st: PeerStates, n: Serials \cup {0}]]
    BY DEF peer_answer, TypeOK, PeerStates
  <1>2. PICK reply \in Replies, nonce \in Nonces \cup {NoNonce} :
          /\ inbox' = Append(inbox, [id |-> q, n |-> peer[q].n, reply |-> reply,
                                     nonce |-> nonce])
          /\ replied' = [replied EXCEPT ![peer[q].n] = reply]
    BY DEF peer_answer
  <1>3. inbox' \in Seq([id: Ids, n: Serials, reply: Replies, nonce: Nonces \cup {NoNonce}])
    BY <1>2, AppendProperties DEF TypeOK
  <1>4. replied' \in [Serials -> Replies \cup {"none"}]
    BY <1>2 DEF TypeOK
  <1> QED
    BY <1>1, <1>3, <1>4 DEF peer_answer, TypeOK

-----------------------------------------------------------------------------
\* The inductive invariant, while the ids have not wrapped around.

\* Fewer questions are asked than there are ids: 2^32 of them.
NoWrap == MaxAsks < IdSpace

InTable(table, q) == \E i \in Used(table) : table[i].question_id = q

AskAt(box, x, q) == x \in 1..Len(box) /\ box[x].kind = "ask" /\ box[x].id = q
FinishAt(box, x, q) == x \in 1..Len(box) /\ box[x].kind = "finish" /\ box[x].id = q

Streamed(s, q) == \E j \in 1..Len(s.qids) : s.qids[j] = q

\* The number of an ask and its question id go together.
Numbered ==
  /\ next_question_id = serial
  /\ \A i \in Used(questions) :
        questions[i].question_id = questions[i].n - 1 /\ questions[i].n <= serial
  /\ \A i, j \in Used(questions) : questions[i].n = questions[j].n => i = j
  /\ \A x, q : AskAt(outbox, x, q) => outbox[x].n = q + 1 /\ q < serial
  /\ \A x, q : FinishAt(outbox, x, q) => q \in Ids /\ q < serial
  /\ \A x \in 1..Len(inbox) : inbox[x].n = inbox[x].id + 1
  /\ \A q \in Ids : peer[q].st \in {"waiting", "answered", "cancelled"} =>
        peer[q].n = q + 1 /\ q < serial

\* Each question in the table is held by the application or by its stream.
Holders ==
  /\ \A q \in Ids : InTable(questions, q) <=> q \in held \/ Streamed(stream, q)
  /\ \A q \in held : ~Streamed(stream, q)
  /\ \A j, k \in 1..Len(stream.qids) : stream.qids[j] = stream.qids[k] => j = k

\* The peer holds question q, or will once it has received the outbox.
AtPeer(q) == peer[q].st \in {"waiting", "answered"}

\* A question reaches the peer before it is finished there, and each once.
OrderAt(q) ==
  /\ peer[q].st # "confused"
  /\ q >= serial => peer[q].st = "idle"
  /\ \A x : AskAt(outbox, x, q) => peer[q].st = "idle"
  /\ \A x, y : AskAt(outbox, x, q) /\ AskAt(outbox, y, q) => x = y
  /\ \A x, y : FinishAt(outbox, x, q) /\ FinishAt(outbox, y, q) => x = y
  /\ \A x : FinishAt(outbox, x, q) =>
       /\ ~InTable(questions, q)
       /\ AtPeer(q) \/ \E y : AskAt(outbox, y, q) /\ y < x
  /\ InTable(questions, q) => AtPeer(q) \/ \E y : AskAt(outbox, y, q)

InOrder == \A q \in Ids : OrderAt(q)

\* The peer has not answered question q.
Pending(q) ==
  \/ q >= serial
  \/ \E x : AskAt(outbox, x, q)
  \/ peer[q].st \in {"waiting", "cancelled"}

\* The Returns on their way and the replies recorded are the peer's.
Replied ==
  /\ \A q \in Ids : q + 1 \in Serials /\ Pending(q) => replied[q + 1] = "none"
  /\ \A x \in 1..Len(inbox) : replied[inbox[x].n] = inbox[x].reply
  /\ \A i \in Used(questions) : questions[i].answered =>
       /\ questions[i].from = questions[i].n
       /\ replied[questions[i].n] \in {"results", "exception"}
       /\ questions[i].failed <=> replied[questions[i].n] = "exception"

\* A stream that has seen no failure has seen the results of every call that
\* is not outstanding.
Succeeded ==
  ~stream.have_failure =>
     \A n \in calls : replied[n] = "results" \/ Streamed(stream, n - 1)

LinkInv == Numbered /\ InOrder /\ Replied
ClientInv == LinkInv /\ Holders /\ Succeeded

-----------------------------------------------------------------------------
\* What an application's step does to the table and the outbox: the questions
\* in `gone` are finished, and if `fresh` one is asked, in slot i.

Posts(gone, fresh, i) ==
  /\ UNCHANGED <<inbox, peer, replied>>
  /\ serial' \in {serial, serial + 1} /\ next_question_id' = serial'
  /\ fresh => serial' = serial + 1
  /\ \A q \in gone : q \in Ids /\ InTable(questions, q)
  /\ \A j \in Used(questions') :
       \/ /\ j \in Used(questions) /\ questions'[j] = questions[j]
          /\ questions[j].question_id \notin gone
       \/ /\ fresh /\ j = i
          /\ questions'[j] = Claimed(questions[j], serial, serial + 1)
  /\ \A j \in Used(questions) :
       questions[j].question_id \notin gone =>
         j \in Used(questions') /\ questions'[j] = questions[j]
  /\ fresh => i \in Used(questions') /\ questions'[i] = Claimed(questions[i], serial, serial + 1)
  /\ \A x \in 1..Len(outbox) : x <= Len(outbox') /\ outbox'[x] = outbox[x]
  /\ \A x, q : AskAt(outbox', x, q) /\ x > Len(outbox) =>
       fresh /\ x = Len(outbox') /\ q = serial /\ outbox'[x].n = serial + 1
  /\ fresh => Len(outbox') > Len(outbox) /\ AskAt(outbox', Len(outbox'), serial)
  /\ \A x, q : FinishAt(outbox', x, q) /\ x > Len(outbox) => q \in gone
  /\ \A x, y, q : FinishAt(outbox', x, q) /\ FinishAt(outbox', y, q) =>
       x <= Len(outbox) \/ y <= Len(outbox) \/ x = y

LEMMA Finding ==
  ASSUME TypeOK, Numbered, NEW q, NEW i
  PROVE  i \in question_find(q) <=> i \in Used(questions) /\ questions[i].question_id = q
  <1>1. ASSUME NEW j \in Used(questions), i \in Used(questions),
               questions[i].question_id = questions[j].question_id
        PROVE  i = j
    <2>1. questions[i].n \in Int /\ questions[j].n \in Int
      BY <1>1 DEF TypeOK, Used, Questions, Free, Serials
    <2> QED
      BY <1>1, <2>1 DEF Numbered
  <1>2. \A j \in Used(questions) : j \in Int
    BY ClientAssumption DEF Used, TypeOK, QuestionSlots
  <1> QED
    BY <1>1, <1>2 DEF question_find, First

LEMMA FinishedIs ==
  ASSUME TypeOK, Numbered, NEW gone, NEW i \in QuestionSlots
  PROVE  Finished(gone)[i] = IF i \in Used(questions) /\ questions[i].question_id \in gone
                             THEN Free ELSE questions[i]
  BY Finding DEF Finished

\* The queue is the outbox and Finish messages of the questions in `gone`.
Finishing(queue, gone) ==
  /\ queue \in Seq(Messages) /\ Len(outbox) <= Len(queue)
  /\ \A x \in 1..Len(outbox) : queue[x] = outbox[x]
  /\ \A x, q : ~(AskAt(queue, x, q) /\ x > Len(outbox))
  /\ \A x, q : FinishAt(queue, x, q) /\ x > Len(outbox) => q \in gone
  /\ \A x, y, q : FinishAt(queue, x, q) /\ FinishAt(queue, y, q) =>
       x <= Len(outbox) \/ y <= Len(outbox) \/ x = y

LEMMA FinishedPosts ==
  ASSUME TypeOK, Numbered, NEW gone,
         \A q \in gone : q \in Ids /\ InTable(questions, q),
         questions' = Finished(gone), Finishing(outbox', gone),
         UNCHANGED <<inbox, peer, replied, serial, next_question_id>>
  PROVE  Posts(gone, FALSE, 0)
  <1>1. outbox \in Seq(Messages)
    BY MessagesAre
  <1>2. \A j : j \in Used(questions') <=>
          j \in Used(questions) /\ questions[j].question_id \notin gone
    BY FinishedIs, FinishedType DEF Used, Free, TypeOK
  <1>3. \A j \in Used(questions') : questions'[j] = questions[j]
    BY <1>2, FinishedIs DEF Used, TypeOK
  <1>4. \A x \in 1..Len(outbox) : x <= Len(outbox') /\ outbox'[x] = outbox[x]
    BY <1>1 DEF Finishing
  <1> QED
    BY <1>2, <1>3, <1>4 DEF Posts, Finishing, Numbered

LEMMA NextId ==
  ASSUME TypeOK, Numbered, NoWrap, serial < MaxAsks
  PROVE  /\ Next_question_id(next_question_id) = serial + 1
         /\ next_question_id # Failure /\ serial \in Ids /\ serial \in Nat
  <1>1. serial \in Nat /\ serial + 1 < IdSpace /\ IdSpace \in Nat
    BY ClientAssumption DEF TypeOK, NoWrap, Serials
  <1>2. (serial + 1) % IdSpace = serial + 1
    BY <1>1
  <1> QED
    BY <1>1, <1>2 DEF Next_question_id, Numbered, Failure, Ids

LEMMA AskedPosts ==
  ASSUME TypeOK, Numbered, NoWrap, NEW gone, NEW queue, NEW ok \in BOOLEAN,
         NEW i \in First(FreeSlots(Finished(gone))),
         \A q \in gone : q \in Ids /\ InTable(questions, q),
         Finishing(queue, gone), Asked(Finished(gone), queue, i, ok),
         UNCHANGED <<inbox, peer, replied>>
  PROVE  Posts(gone, ok, i)
  <1> DEFINE table == Finished(gone)
             new == Claimed(questions[i], serial, serial + 1)
             msg == Message("ask", serial, serial + 1)
  <1>1. /\ serial < MaxAsks /\ serial' = serial + 1 /\ next_question_id' = serial + 1
        /\ next_question_id = serial
    BY NextId DEF Asked, Numbered
  <1>2. /\ i \in QuestionSlots /\ table[i].used = 0
        /\ table \in [QuestionSlots -> Questions]
    BY FinishedType, FirstIn DEF FreeSlots
  <1>3. \A j \in QuestionSlots : questions'[j] = IF ok /\ j = i THEN new ELSE table[j]
    <2>1. table[i] = Free
      BY <1>2 DEF Questions
    <2>2. questions' = IF ok THEN Put(table, {i}, new) ELSE Put(table, {i}, Free)
      BY <1>1 DEF Asked, Unsent, Claimed
    <2> HIDE DEF table, new
    <2> QED
      BY <1>2, <2>1, <2>2 DEF Put
  <1>4. new.used = 1
    BY DEF Claimed
  <1>5. DOMAIN questions' = QuestionSlots /\ DOMAIN questions = QuestionSlots
    BY <1>2 DEF Asked, Unsent, Put, TypeOK
  <1>6. \A j \in QuestionSlots :
          table[j] = IF j \in Used(questions) /\ questions[j].question_id \in gone
                     THEN Free ELSE questions[j]
    BY FinishedIs
  <1>7. Free.used = 0 /\ ~(i \in Used(questions) /\ questions[i].question_id \notin gone)
    BY <1>2, <1>6 DEF Free, Used
  <1> HIDE DEF table, new
  <1>8. /\ \A j \in Used(questions') :
             \/ /\ j \in Used(questions) /\ questions'[j] = questions[j]
                /\ questions[j].question_id \notin gone
             \/ ok /\ j = i /\ questions'[j] = new
        /\ \A j \in Used(questions) :
             questions[j].question_id \notin gone =>
               j \in Used(questions') /\ questions'[j] = questions[j]
        /\ ok => i \in Used(questions') /\ questions'[i] = new
    BY <1>2, <1>3, <1>4, <1>5, <1>6, <1>7 DEF Used
  <1>9. /\ Len(queue) \in Nat /\ Len(outbox) \in Nat /\ Len(outbox) <= Len(queue)
        /\ ok => /\ Len(outbox') = Len(queue) + 1 /\ outbox'[Len(queue) + 1] = msg
                 /\ \A x \in 1..Len(queue) : outbox'[x] = queue[x]
        /\ ~ok => outbox' = queue
    <2>1. msg \in Messages
      <3>1. serial \in Ids /\ serial + 1 \in Serials
        BY <1>1, NextId, ClientAssumption DEF Serials
      <3> QED
        BY <3>1 DEF Message, Messages
    <2>2. queue \in Seq(Messages) /\ outbox \in Seq(Messages) /\ Len(outbox) <= Len(queue)
      BY MessagesAre DEF Finishing
    <2>3. outbox' = IF ok THEN Append(queue, msg) ELSE queue
      BY <1>1 DEF Asked
    <2> HIDE DEF msg
    <2> QED
      BY <2>1, <2>2, <2>3, AppendProperties
  <1>10. msg.kind = "ask" /\ msg.id = serial /\ msg.n = serial + 1
    BY DEF Message
  <1> HIDE DEF msg
  <1>11. \A x \in 1..Len(outbox) : x <= Len(outbox') /\ outbox'[x] = outbox[x]
    BY <1>9 DEF Finishing
  <1>12. \A x, q : /\ x <= Len(queue) => (AskAt(outbox', x, q) <=> AskAt(queue, x, q))
                   /\ FinishAt(outbox', x, q) <=> FinishAt(queue, x, q)
    BY <1>9, <1>10 DEF AskAt, FinishAt
  <1>13. \A x, q : AskAt(outbox', x, q) /\ x > Len(outbox) =>
           ok /\ x = Len(outbox') /\ q = serial /\ outbox'[x].n = serial + 1
    <2> SUFFICES ASSUME NEW x, NEW q, AskAt(outbox', x, q), x > Len(outbox)
                 PROVE  ok /\ x = Len(outbox') /\ q = serial /\ outbox'[x].n = serial + 1
      OBVIOUS
    <2>1. ~(x <= Len(queue))
      BY <1>12 DEF Finishing
    <2> QED
      BY <1>9, <1>10, <2>1 DEF AskAt
  <1>14. ok => Len(outbox') > Len(outbox) /\ AskAt(outbox', Len(outbox'), serial)
    BY <1>9, <1>10 DEF AskAt
  <1>15. \A x, q : FinishAt(outbox', x, q) /\ x > Len(outbox) => q \in gone
    BY <1>12 DEF Finishing
  <1>16. \A x, y, q : FinishAt(outbox', x, q) /\ FinishAt(outbox', y, q) =>
           x <= Len(outbox) \/ y <= Len(outbox) \/ x = y
    BY <1>12 DEF Finishing
  <1> QED
    BY <1>1, <1>8, <1>11, <1>13, <1>14, <1>15, <1>16 DEF Posts, new

\* One message that asks nothing behind the outbox, or none.
LEMMA OneFinishing ==
  ASSUME TypeOK, NEW q, NEW kind \in {"finish", "release"}, NEW gone, NEW ok,
         q \in Ids \cup {NoId}, kind = "finish" => q \in gone,
         outbox' = IF ok THEN Append(outbox, Message(kind, q, 0)) ELSE outbox
  PROVE  Finishing(outbox', gone)
  <1> DEFINE msg == Message(kind, q, 0)
  <1>1. msg \in Messages /\ msg.kind = kind /\ msg.id = q
    BY DEF Message, Messages
  <1>2. outbox \in Seq(Messages) /\ Len(outbox) \in Nat
    BY MessagesAre
  <1> HIDE DEF msg
  <1>3. CASE ok
    <2>1. /\ outbox' \in Seq(Messages) /\ Len(outbox') = Len(outbox) + 1
          /\ \A x \in 1..Len(outbox) : outbox'[x] = outbox[x]
          /\ outbox'[Len(outbox) + 1] = msg
      BY <1>1, <1>2, <1>3, AppendProperties DEF msg
    <2>2. \A x \in 1..Len(outbox') : x > Len(outbox) => x = Len(outbox) + 1
      BY <1>2, <2>1
    <2> QED
      BY <1>1, <1>2, <2>1, <2>2 DEF Finishing, AskAt, FinishAt
  <1>4. CASE ~ok
    BY <1>2, <1>4 DEF Finishing, AskAt, FinishAt
  <1> QED
    BY <1>3, <1>4

\* The Finish messages of the k oldest calls of a stream.
LEMMA FinishesFinishing ==
  ASSUME TypeOK, Holders, NEW k \in 0..Len(stream.qids), NEW sent \in Sendings(k)
  PROVE  Finishing(Finishes(sent), Gone(k))
  <1> DEFINE queue == Finishes(sent)
  <1>1. PICK n \in 0..k :
          /\ sent \in [1..n -> 1..k]
          /\ \A x, y \in 1..n : x < y => sent[x] < sent[y]
          /\ queue \in Seq(Messages)
          /\ Len(queue) = Len(outbox) + n
          /\ \A x \in 1..Len(outbox) : queue[x] = outbox[x]
          /\ \A x \in 1..n : queue[Len(outbox) + x] =
                               Message("finish", stream.qids[sent[x]], 0)
    BY FinishesAre
  <1>2. Len(outbox) \in Nat /\ Len(stream.qids) \in Nat /\ k \in Nat /\ n \in Nat
    BY DEF TypeOK, Streams
  <1> HIDE DEF queue
  <1>3. ASSUME NEW x \in 1..Len(queue), x > Len(outbox)
        PROVE  /\ x - Len(outbox) \in 1..n /\ sent[x - Len(outbox)] \in 1..k
               /\ queue[x].kind = "finish"
               /\ queue[x].id = stream.qids[sent[x - Len(outbox)]]
    <2>1. x - Len(outbox) \in 1..n /\ Len(outbox) + (x - Len(outbox)) = x
      BY <1>1, <1>2, <1>3
    <2>2. queue[x] = Message("finish", stream.qids[sent[x - Len(outbox)]], 0)
      BY <1>1, <2>1
    <2> QED
      BY <1>1, <2>1, <2>2 DEF Message
  <1>4. \A x, q : ~(AskAt(queue, x, q) /\ x > Len(outbox))
    BY <1>3 DEF AskAt
  <1>5. \A x, q : FinishAt(queue, x, q) /\ x > Len(outbox) => q \in Gone(k)
    BY <1>3 DEF FinishAt, Gone
  <1>6. ASSUME NEW x, NEW y, NEW q, FinishAt(queue, x, q), FinishAt(queue, y, q),
               x > Len(outbox), y > Len(outbox)
        PROVE  x = y
    <2> DEFINE a == x - Len(outbox)
               b == y - Len(outbox)
    <2>1. /\ x \in 1..Len(queue) /\ y \in 1..Len(queue)
          /\ queue[x].id = queue[y].id
      BY <1>6 DEF FinishAt
    <2>2. /\ a \in 1..n /\ b \in 1..n /\ sent[a] \in 1..k /\ sent[b] \in 1..k
          /\ stream.qids[sent[a]] = stream.qids[sent[b]]
      BY <1>3, <1>6, <2>1
    <2>3. sent[a] = sent[b]
      BY <1>2, <2>2, SMTT(60) DEF Holders
    <2>4. a = b
      <3>1. ~(a < b) /\ ~(b < a)
        BY <1>1, <1>2, <2>2, <2>3
      <3> QED
        BY <1>2, <2>2, <3>1
    <2> QED
      BY <1>2, <2>1, <2>4, <1>1
  <1> QED
    BY <1>1, <1>2, <1>4, <1>5, <1>6 DEF Finishing, queue, FinishAt

\* The table after an application's step.
LEMMA PostedTable ==
  ASSUME TypeOK, Numbered, NEW gone, NEW fresh, NEW i, Posts(gone, fresh, i), NEW q
  PROVE  /\ InTable(questions', q) <=>
              (InTable(questions, q) /\ q \notin gone) \/ (fresh /\ q = serial)
         /\ InTable(questions, q) => q < serial /\ q # serial
  <1>1. Claimed(questions[i], serial, serial + 1).question_id = serial
    BY DEF Claimed
  <1>2. InTable(questions', q) <=>
          (InTable(questions, q) /\ q \notin gone) \/ (fresh /\ q = serial)
    BY <1>1 DEF InTable, Posts
  <1>3. ASSUME NEW j \in Used(questions)
        PROVE  questions[j].question_id < serial /\ questions[j].question_id # serial
    <2>1. questions[j].n \in Nat /\ serial \in Nat
      BY ClientAssumption DEF TypeOK, Used, Questions, Free, Serials
    <2> QED
      BY <2>1 DEF Numbered
  <1> QED
    BY <1>2, <1>3 DEF InTable

Posted == \E gone \in SUBSET Ids, fresh \in BOOLEAN, i \in Int : Posts(gone, fresh, i)

LEMMA PostedBy ==
  ASSUME NEW gone \in SUBSET Ids, NEW fresh \in BOOLEAN, NEW i \in Int,
         Posts(gone, fresh, i)
  PROVE  Posted
  BY DEF Posted

LEMMA FinishedPosted ==
  ASSUME NEW gone \in SUBSET Ids, Posts(gone, FALSE, 0) PROVE Posted
  <1>1. SUFFICES \E g \in SUBSET Ids, fresh \in BOOLEAN, i \in Int : Posts(g, fresh, i)
    BY DEF Posted
  <1> WITNESS gone \in SUBSET Ids, FALSE \in BOOLEAN, 0 \in Int
  <1> QED
    OBVIOUS

LEMMA SendQuestionPosts ==
  ASSUME TypeOK, NoWrap, Numbered, Holders, NEW ok \in BOOLEAN, send_question(ok)
  PROVE  Posted /\ Holders'
  <1>1. PICK i \in First(FreeSlots(questions)) : Asked(questions, outbox, i, ok)
    BY DEF send_question
  <1>2. Finished({}) = questions
    BY DEF Finished, TypeOK
  <1>3. Finishing(outbox, {})
    BY MessagesAre DEF Finishing, AskAt, FinishAt
  <1>4. Posts({}, ok, i)
    BY <1>1, <1>2, <1>3, AskedPosts DEF send_question
  <1>5. serial < MaxAsks
    BY <1>1 DEF Asked
  <1>6. held' = (IF ok THEN held \cup {serial} ELSE held) /\ stream' = stream
    BY <1>5, NextId DEF send_question, Numbered
  <1>7. Holders'
    <2>1. ~Streamed(stream, serial)
      BY <1>4, <1>5, NextId, PostedTable DEF Holders
    <2>2. \A q \in Ids : InTable(questions', q) <=> InTable(questions, q) \/ (ok /\ q = serial)
      BY <1>4, PostedTable
    <2>3. \A q : Streamed(stream', q) <=> Streamed(stream, q)
      BY <1>6
    <2> QED
      BY <1>6, <2>1, <2>2, <2>3 DEF Holders
  <1>8. i \in Int
    BY <1>1, <1>2, FirstIn, ClientAssumption DEF FreeSlots, QuestionSlots, TypeOK
  <1>9. {} \in SUBSET Ids
    OBVIOUS
  <1>10. Posted
    BY <1>4, <1>8, <1>9, PostedBy
  <1> QED
    BY <1>7, <1>10

LEMMA SendFinishPosts ==
  ASSUME TypeOK, Numbered, Holders, NEW q \in held, NEW ok, capn_rpc_send_finish(q, ok)
  PROVE  Posted /\ Holders'
  <1>1. q \in Ids /\ InTable(questions, q)
    BY DEF TypeOK, Holders
  <1>2. Finishing(outbox', {q})
    BY <1>1, OneFinishing DEF capn_rpc_send_finish
  <1>3. Posts({q}, FALSE, 0)
    BY <1>1, <1>2, FinishedPosts DEF capn_rpc_send_finish
  <1>4. Holders'
    <2>1. \A x \in Ids : InTable(questions', x) <=> InTable(questions, x) /\ x # q
      BY <1>3, PostedTable
    <2>2. stream' = stream /\ held' = held \ {q}
      BY DEF capn_rpc_send_finish
    <2>3. \A x : Streamed(stream', x) <=> Streamed(stream, x)
      BY <2>2
    <2> QED
      BY <2>1, <2>2, <2>3 DEF Holders
  <1>5. {q} \in SUBSET Ids
    BY <1>1
  <1>6. Posted
    BY <1>3, <1>5, FinishedPosted
  <1> QED
    BY <1>4, <1>6

LEMMA IntroductionDonePosts ==
  ASSUME TypeOK, Numbered, Holders, NEW n, NEW ok, capn_rpc_introduction_done(n, ok)
  PROVE  Posted /\ Holders'
  <1>1. Finishing(outbox', {})
    BY OneFinishing DEF capn_rpc_introduction_done
  <1>2. questions' = Finished({})
    BY DEF capn_rpc_introduction_done, Finished, TypeOK
  <1>3. Posts({}, FALSE, 0)
    BY <1>1, <1>2, FinishedPosts DEF capn_rpc_introduction_done
  <1>4. Holders'
    <2>1. stream' = stream /\ held' = held /\ questions' = questions
      BY DEF capn_rpc_introduction_done
    <2>2. \A q : Streamed(stream', q) <=> Streamed(stream, q)
      BY <2>1
    <2>3. \A q : InTable(questions', q) <=> InTable(questions, q)
      BY <2>1
    <2> QED
      BY <2>1, <2>2, <2>3 DEF Holders
  <1>5. {} \in SUBSET Ids
    OBVIOUS
  <1>6. Posted
    BY <1>3, <1>5, FinishedPosted
  <1> QED
    BY <1>4, <1>6

LEMMA StreamInitPosts ==
  ASSUME TypeOK, Numbered, Holders, NEW w, capn_rpc_stream_init(w)
  PROVE  Posted /\ Holders' /\ Succeeded'
  <1>1. Finishing(outbox', {})
    BY MessagesAre DEF capn_rpc_stream_init, Finishing, AskAt, FinishAt
  <1>2. questions' = Finished({})
    BY DEF capn_rpc_stream_init, Finished, TypeOK
  <1>3. Posts({}, FALSE, 0)
    BY <1>1, <1>2, FinishedPosts DEF capn_rpc_stream_init
  <1>4. stream'.qids = <<>> /\ stream.qids = <<>>
    BY DEF capn_rpc_stream_init
  <1>5. \A q : ~Streamed(stream, q) /\ ~Streamed(stream', q)
    BY <1>4 DEF Streamed
  <1>6. Holders'
    <2>1. held' = held /\ questions' = questions
      BY DEF capn_rpc_stream_init
    <2>2. \A q : InTable(questions', q) <=> InTable(questions, q)
      BY <2>1
    <2>3. \A j, k \in 1..Len(stream'.qids) : j = k
      BY <1>4
    <2> QED
      BY <1>5, <2>1, <2>2, <2>3 DEF Holders
  <1>7. Succeeded'
    BY DEF capn_rpc_stream_init, Succeeded
  <1>8. {} \in SUBSET Ids
    OBVIOUS
  <1>9. Posted
    BY <1>3, <1>8, FinishedPosted
  <1> QED
    BY <1>6, <1>7, <1>9

\* Steps that leave the stream alone.
LEMMA StreamKept ==
  ASSUME Succeeded, UNCHANGED <<stream, calls, replied>> PROVE Succeeded'
  BY DEF Succeeded, Streamed

\* What retiring k calls leaves to the stream.
LEMMA RetiredHolders ==
  ASSUME TypeOK, Holders, NEW k \in 0..Len(stream.qids)
  PROVE  /\ \A q : Streamed(Retired(k), q) <=> Streamed(stream, q) /\ q \notin Gone(k)
         /\ \A q \in held : q \notin Gone(k)
         /\ Gone(k) \subseteq Ids /\ \A q \in Gone(k) : InTable(questions, q)
         /\ \A a, b \in 1..Len(Retired(k).qids) :
              Retired(k).qids[a] = Retired(k).qids[b] => a = b
  <1> DEFINE s == Retired(k)
             len == Len(stream.qids)
  <1>1. /\ Len(s.qids) = len - k
        /\ \A j \in 1..(len - k) : s.qids[j] = stream.qids[k + j]
    BY RetiredType
  <1>2. len \in Nat /\ k \in Nat /\ k <= len /\ \A j \in 1..len : stream.qids[j] \in Ids
    BY DEF TypeOK, Streams
  <1>3. \A a, b \in 1..len : stream.qids[a] = stream.qids[b] => a = b
    BY DEF Holders
  <1>4. \A q : q \in Gone(k) <=> \E j \in 1..k : stream.qids[j] = q
    BY DEF Gone
  <1> HIDE DEF s, len
  <1>5. ASSUME NEW q, Streamed(s, q) PROVE Streamed(stream, q) /\ q \notin Gone(k)
    <2>1. PICK j \in 1..(len - k) : s.qids[j] = q
      BY <1>1, <1>5 DEF Streamed
    <2>2. k + j \in 1..len /\ stream.qids[k + j] = q /\ k + j > k
      BY <1>1, <1>2, <2>1
    <2>3. ASSUME NEW x \in 1..k, stream.qids[x] = q PROVE FALSE
      <3>1. x \in 1..len /\ x # k + j
        BY <1>2, <2>2
      <3> QED
        BY <1>3, <2>2, <2>3, <3>1
    <2> QED
      BY <1>4, <2>2, <2>3 DEF Streamed, len
  <1>6. ASSUME NEW q, Streamed(stream, q), q \notin Gone(k) PROVE Streamed(s, q)
    <2>1. PICK j \in 1..len : stream.qids[j] = q
      BY <1>6 DEF Streamed, len
    <2>2. ~(j \in 1..k)
      BY <1>4, <1>6, <2>1
    <2>3. j - k \in 1..(len - k) /\ k + (j - k) = j
      BY <1>2, <2>1, <2>2
    <2>4. s.qids[j - k] = q
      BY <1>1, <2>1, <2>3
    <2> QED
      BY <1>1, <2>3, <2>4 DEF Streamed
  <1>7. ASSUME NEW q \in Gone(k) PROVE q \in Ids /\ Streamed(stream, q)
    <2>1. PICK j \in 1..k : stream.qids[j] = q
      BY <1>4, <1>7
    <2>2. j \in 1..len
      BY <1>2
    <2> QED
      BY <1>2, <2>1, <2>2 DEF Streamed, len
  <1>8. \A a, b \in 1..(len - k) : s.qids[a] = s.qids[b] => a = b
    <2> TAKE a, b \in 1..(len - k)
    <2>1. k + a \in 1..len /\ k + b \in 1..len
      BY <1>2
    <2>2. s.qids[a] = s.qids[b] => k + a = k + b
      BY <1>1, <1>3, <2>1
    <2> QED
      BY <1>2, <2>2
  <1>9. \A q \in held : q \notin Gone(k)
    BY <1>7 DEF Holders
  <1>10. \A q \in Gone(k) : InTable(questions, q)
    BY <1>7 DEF Holders
  <1> QED
    BY <1>1, <1>5, <1>6, <1>7, <1>8, <1>9, <1>10 DEF s

\* Calls retired without a failure were answered with results.
LEMMA RetiredSucceeded ==
  ASSUME TypeOK, Numbered, Replied, Succeeded, NEW k \in 0..Len(stream.qids),
         ~Retired(k).have_failure, NEW n \in calls
  PROVE  \/ replied[n] = "results"
         \/ Streamed(stream, n - 1) /\ n - 1 \notin Gone(k)
  <1>1. ~stream.have_failure /\ \A j \in 1..k : ~Bad(stream.qids[j])
    BY DEF Retired, TypeOK, Streams
  <1>2. n \in Int
    BY DEF TypeOK, Serials
  <1>3. ASSUME NEW j \in 1..k, stream.qids[j] = n - 1 PROVE replied[n] = "results"
    <2>1. PICK i \in question_find(n - 1) : questions[i].answered
      BY <1>1, <1>3 DEF Bad, is_answered
    <2>2. ~questions[i].failed
      BY <1>1, <1>3, <2>1 DEF Bad, is_failed
    <2>3. i \in Used(questions) /\ questions[i].question_id = n - 1
      BY <2>1, Finding
    <2>4. questions[i].n = n
      <3>1. questions[i].n \in Int
        BY <2>3 DEF TypeOK, Used, Questions, Free, Serials
      <3> QED
        BY <1>2, <2>3, <3>1 DEF Numbered
    <2> QED
      BY <2>1, <2>2, <2>3, <2>4 DEF Replied
  <1> QED
    BY <1>1, <1>3 DEF Succeeded, Gone

\* Retiring calls without asking another.
LEMMA RetirePosts ==
  ASSUME TypeOK, Numbered, Holders, Replied, Succeeded,
         NEW k \in 0..Len(stream.qids), NEW sent \in Sendings(k),
         stream' = Retired(k), questions' = Finished(Gone(k)), outbox' = Finishes(sent),
         UNCHANGED <<next_question_id, inbox, peer, held, calls, serial, replied>>
  PROVE  Posted /\ Holders' /\ Succeeded'
  <1>1. /\ \A q : Streamed(Retired(k), q) <=> Streamed(stream, q) /\ q \notin Gone(k)
        /\ \A q \in held : q \notin Gone(k)
        /\ Gone(k) \subseteq Ids /\ \A q \in Gone(k) : InTable(questions, q)
        /\ \A a, b \in 1..Len(Retired(k).qids) :
             Retired(k).qids[a] = Retired(k).qids[b] => a = b
    BY RetiredHolders
  <1>2. Finishing(outbox', Gone(k))
    BY FinishesFinishing
  <1>3. Posts(Gone(k), FALSE, 0)
    BY <1>1, <1>2, FinishedPosts
  <1>4. Gone(k) \in SUBSET Ids
    BY <1>1
  <1>5. Posted
    BY <1>3, <1>4, FinishedPosted
  <1>6. \A q : Streamed(stream', q) <=> Streamed(stream, q) /\ q \notin Gone(k)
    BY <1>1
  <1>7. Holders'
    <2>1. \A q \in Ids : InTable(questions', q) <=> InTable(questions, q) /\ q \notin Gone(k)
      BY <1>3, PostedTable
    <2>2. \A q \in Ids : InTable(questions', q) <=> q \in held' \/ Streamed(stream', q)
      BY <1>1, <1>6, <2>1 DEF Holders
    <2>3. \A q \in held' : ~Streamed(stream', q)
      BY <1>6 DEF Holders
    <2> QED
      BY <1>1, <2>2, <2>3 DEF Holders
  <1>8. Succeeded'
    <2>1. ASSUME ~stream'.have_failure, NEW n \in calls'
          PROVE  replied'[n] = "results" \/ Streamed(stream', n - 1)
      <3>1. ~Retired(k).have_failure /\ n \in calls
        BY <2>1
      <3>2. replied[n] = "results" \/ (Streamed(stream, n - 1) /\ n - 1 \notin Gone(k))
        BY <3>1, RetiredSucceeded
      <3> QED
        BY <1>6, <3>2
    <2> QED
      BY <2>1 DEF Succeeded
  <1> QED
    BY <1>5, <1>7, <1>8

LEMMA StreamFinishPosts ==
  ASSUME TypeOK, Numbered, Holders, Replied, Succeeded,
         NEW sent \in Sendings(Len(stream.qids)), capn_rpc_stream_finish(sent)
  PROVE  Posted /\ Holders' /\ Succeeded'
  <1>1. Len(stream.qids) \in 0..Len(stream.qids)
    BY DEF TypeOK, Streams
  <1> QED
    BY <1>1, RetirePosts DEF capn_rpc_stream_finish

LEMMA StreamSendPosts ==
  ASSUME TypeOK, NoWrap, Numbered, Holders, Replied, Succeeded,
         NEW sent \in Sendings(Retiring), NEW ok \in BOOLEAN, capn_rpc_stream_send(sent, ok)
  PROVE  Posted /\ Holders' /\ Succeeded'
  <1> DEFINE k == Retiring
             s == Retired(k)
  <1>1. k \in 0..Len(stream.qids)
    BY RetiringCount
  <1>2. CASE /\ stream' = s /\ questions' = Finished(Gone(k)) /\ outbox' = Finishes(sent)
             /\ UNCHANGED <<next_question_id, serial, calls>>
    BY <1>1, <1>2, RetirePosts DEF capn_rpc_stream_send
  <1>3. ASSUME NEW i \in First(FreeSlots(Finished(Gone(k)))),
               Asked(Finished(Gone(k)), Finishes(sent), i, ok),
               stream' = IF ok /\ next_question_id # Failure
                         THEN [s EXCEPT !.qids = Append(@, next_question_id)] ELSE s,
               calls' = IF ok THEN calls \cup {serial + 1} ELSE calls,
               UNCHANGED <<inbox, peer, held, replied>>
        PROVE  Posted /\ Holders' /\ Succeeded'
    <2>1. /\ \A q : Streamed(s, q) <=> Streamed(stream, q) /\ q \notin Gone(k)
          /\ \A q \in held : q \notin Gone(k)
          /\ Gone(k) \subseteq Ids /\ \A q \in Gone(k) : InTable(questions, q)
          /\ \A a, b \in 1..Len(s.qids) : s.qids[a] = s.qids[b] => a = b
      BY <1>1, RetiredHolders
    <2>2. Finishing(Finishes(sent), Gone(k))
      BY <1>1, FinishesFinishing
    <2>3. Posts(Gone(k), ok, i)
      BY <1>3, <2>1, <2>2, AskedPosts
    <2>4. i \in Int
      BY <1>3, FirstIn, FinishedType, ClientAssumption DEF FreeSlots, QuestionSlots
    <2>5. Posted
      BY <2>1, <2>3, <2>4, PostedBy
    <2>6. next_question_id = serial /\ serial # Failure /\ serial \in Ids /\ serial \in Nat
      BY <1>3, NextId DEF Asked, Numbered
    <2>7. s \in Streams /\ s.qids \in Seq(Ids) /\ Len(s.qids) \in Nat
      BY <1>1, RetiredType DEF Streams
    <2> HIDE DEF s, k
    <2>8. /\ ~ok => stream' = s
          /\ ok => /\ stream'.qids = Append(s.qids, serial)
                   /\ stream'.have_failure = s.have_failure
      BY <1>3, <2>6, <2>7 DEF Streams
    <2>9. /\ Len(Append(s.qids, serial)) = Len(s.qids) + 1
          /\ Append(s.qids, serial)[Len(s.qids) + 1] = serial
          /\ \A a \in 1..Len(s.qids) : Append(s.qids, serial)[a] = s.qids[a]
      BY <2>6, <2>7, AppendProperties
    <2>10. \A q : Streamed(stream', q) <=> Streamed(s, q) \/ (ok /\ q = serial)
      BY <2>7, <2>8, <2>9, SMTT(60) DEF Streamed
    <2>11. ~InTable(questions, serial) /\ ~Streamed(s, serial) /\ serial \notin held
      BY <2>1, <2>3, <2>6, PostedTable DEF Holders
    <2>12. Holders'
      <3>1. \A q \in Ids : InTable(questions', q) <=>
              (InTable(questions, q) /\ q \notin Gone(k)) \/ (ok /\ q = serial)
        BY <2>3, PostedTable
      <3>2. \A q \in Ids : InTable(questions', q) <=> q \in held' \/ Streamed(stream', q)
        BY <1>3, <2>1, <2>10, <3>1 DEF Holders
      <3>3. \A q \in held' : ~Streamed(stream', q)
        BY <1>3, <2>1, <2>10, <2>11 DEF Holders
      <3>4. \A a, b \in 1..Len(stream'.qids) : stream'.qids[a] = stream'.qids[b] => a = b
        <4>1. CASE ~ok
          BY <2>1, <2>8, <4>1
        <4>2. CASE ok
          <5> DEFINE len == Len(s.qids)
          <5>1. \A a \in 1..len : s.qids[a] # serial
            BY <2>11 DEF Streamed
          <5>2. len \in Nat
            BY <2>7
          <5>3. /\ Len(stream'.qids) = len + 1 /\ stream'.qids[len + 1] = serial
                /\ \A a \in 1..len : stream'.qids[a] = s.qids[a]
            BY <2>8, <2>9, <4>2
          <5>4. \A a, b \in 1..len : s.qids[a] = s.qids[b] => a = b
            BY <2>1
          <5> HIDE DEF len
          <5> QED
            BY <5>1, <5>2, <5>3, <5>4
        <4> QED
          BY <4>1, <4>2
      <3> QED
        BY <3>2, <3>3, <3>4 DEF Holders
    <2>13. Succeeded'
      <3>1. ASSUME ~stream'.have_failure, NEW n \in calls'
            PROVE  replied'[n] = "results" \/ Streamed(stream', n - 1)
        <4>1. ~s.have_failure
          BY <2>8, <3>1
        <4>2. CASE n \in calls
          <5>1. replied[n] = "results" \/ (Streamed(stream, n - 1) /\ n - 1 \notin Gone(k))
            BY <1>1, <4>1, <4>2, RetiredSucceeded DEF s
          <5> QED
            BY <1>3, <2>1, <2>10, <5>1
        <4>3. CASE ok /\ n = serial + 1
          <5>1. n - 1 = serial
            BY <2>6, <4>3
          <5> QED
            BY <2>10, <4>3, <5>1
        <4> QED
          BY <1>3, <3>1, <4>2, <4>3
      <3> QED
        BY <3>1 DEF Succeeded
    <2> QED
      BY <2>5, <2>12, <2>13
  <1> QED
    BY <1>2, <1>3 DEF capn_rpc_stream_send

-----------------------------------------------------------------------------
\* An application's step keeps the two links in order.

LEMMA PostedBoxes ==
  ASSUME TypeOK, TypeOK', Numbered, NEW gone \in SUBSET Ids, NEW fresh \in BOOLEAN,
         NEW i \in Int, Posts(gone, fresh, i), NEW x, NEW q
  PROVE  /\ AskAt(outbox', x, q) <=>
              AskAt(outbox, x, q) \/ (fresh /\ x = Len(outbox') /\ q = serial)
         /\ FinishAt(outbox, x, q) <=> FinishAt(outbox', x, q) /\ x <= Len(outbox)
         /\ FinishAt(outbox', x, q) /\ x > Len(outbox) => q \in gone
         /\ FinishAt(outbox', x, q) => x \in Nat
         /\ AskAt(outbox', x, q) => x \in Nat
  <1>1. outbox \in Seq(Messages) /\ outbox' \in Seq(Messages)
    BY MessagesAre DEF TypeOK, Messages
  <1>2. Len(outbox) \in Nat /\ Len(outbox') \in Nat
    BY <1>1
  <1>3. \A y \in 1..Len(outbox) : y \in 1..Len(outbox') /\ outbox'[y] = outbox[y]
    BY <1>2 DEF Posts
  <1>4. \A y \in 1..Len(outbox') : y \in 1..Len(outbox) \/ y > Len(outbox)
    BY <1>2
  <1>5. fresh => AskAt(outbox', Len(outbox'), serial)
    BY DEF Posts
  <1>6. AskAt(outbox', x, q) /\ x > Len(outbox) => fresh /\ x = Len(outbox') /\ q = serial
    BY DEF Posts
  <1>7. FinishAt(outbox', x, q) /\ x > Len(outbox) => q \in gone
    BY DEF Posts
  <1> QED
    BY <1>2, <1>3, <1>4, <1>5, <1>6, <1>7 DEF AskAt, FinishAt

LEMMA PostsNumbered ==
  ASSUME TypeOK, TypeOK', Numbered, NEW gone \in SUBSET Ids, NEW fresh \in BOOLEAN,
         NEW i \in Int, Posts(gone, fresh, i)
  PROVE  Numbered'
  <1>1. /\ next_question_id' = serial' /\ serial' \in {serial, serial + 1}
        /\ serial \in Nat
        /\ fresh => serial' = serial + 1
    BY Numbers DEF Posts
  <1>2. \A j \in Used(questions) : questions[j].n \in Nat
    BY Numbers
  <1>3. \A j \in Used(questions') :
          \/ j \in Used(questions) /\ questions'[j] = questions[j]
          \/ /\ fresh /\ j = i /\ questions'[j].n = serial + 1
             /\ questions'[j].question_id = serial
    BY DEF Posts, Claimed
  <1>4. \A j \in Used(questions') :
          questions'[j].question_id = questions'[j].n - 1 /\ questions'[j].n <= serial'
    BY <1>1, <1>2, <1>3 DEF Numbered
  <1>5. \A j, k \in Used(questions') : questions'[j].n = questions'[k].n => j = k
    BY <1>1, <1>2, <1>3 DEF Numbered
  <1>6. \A x, q : AskAt(outbox', x, q) => outbox'[x].n = q + 1 /\ q < serial'
    <2> SUFFICES ASSUME NEW x, NEW q, AskAt(outbox', x, q)
                 PROVE  outbox'[x].n = q + 1 /\ q < serial'
      OBVIOUS
    <2>1. CASE x > Len(outbox)
      BY <1>1, <2>1 DEF Posts
    <2>2. CASE ~(x > Len(outbox))
      <3>1. x \in 1..Len(outbox)
        <4>1. x \in Nat /\ x >= 1
          BY DEF AskAt
        <4> QED
          BY <2>2, <4>1, Numbers
      <3>2. outbox'[x] = outbox[x]
        BY <3>1 DEF Posts
      <3>3. AskAt(outbox, x, q)
        BY <3>1, <3>2 DEF AskAt
      <3>4. outbox[x].n = q + 1 /\ q < serial /\ q \in Int
        <4>1. outbox \in Seq(Messages)
          BY MessagesAre
        <4>2. outbox[x].id \in Int
          <5>1. outbox[x] \in Messages
            BY <3>1, <4>1
          <5>2. outbox[x].id \in Ids \cup {NoId}
            BY <5>1 DEF Messages
          <5> QED
            BY <5>2, Numbers DEF NoId
        <4> QED
          BY <3>3, <4>2 DEF Numbered, AskAt
      <3> QED
        BY <1>1, <3>2, <3>4
    <2> QED
      BY <2>1, <2>2
  <1>7. \A x, q : FinishAt(outbox', x, q) => q \in Ids /\ q < serial'
    <2> SUFFICES ASSUME NEW x, NEW q, FinishAt(outbox', x, q)
                 PROVE  q \in Ids /\ q < serial'
      OBVIOUS
    <2>1. FinishAt(outbox, x, q) \/ q \in gone
      <3>1. /\ FinishAt(outbox, x, q) <=> FinishAt(outbox', x, q) /\ x <= Len(outbox)
            /\ FinishAt(outbox', x, q) /\ x > Len(outbox) => q \in gone
            /\ FinishAt(outbox', x, q) => x \in Nat
        BY PostedBoxes
      <3> QED
        BY <3>1, Numbers
    <2>2. CASE q \in gone
      <3>1. InTable(questions, q) => q < serial
        BY PostedTable
      <3>2. q \in Ids /\ InTable(questions, q)
        BY <2>2 DEF Posts
      <3> QED
        BY <1>1, <3>1, <3>2, Numbers
    <2>3. CASE FinishAt(outbox, x, q)
      <3>1. q \in Ids /\ q < serial
        BY <2>3 DEF Numbered
      <3> QED
        BY <1>1, <3>1, Numbers
    <2> QED
      BY <2>1, <2>2, <2>3
  <1>8. /\ \A x \in 1..Len(inbox') : inbox'[x].n = inbox'[x].id + 1
        /\ \A q \in Ids : peer'[q].st \in {"waiting", "answered", "cancelled"} =>
              peer'[q].n = q + 1 /\ q < serial'
    <2>1. inbox' = inbox /\ peer' = peer
      BY DEF Posts
    <2>2. \A q \in Ids : q < serial => q < serial'
      BY <1>1, Numbers
    <2> QED
      BY <2>1, <2>2 DEF Numbered
  <1> QED
    BY <1>1, <1>4, <1>5, <1>6, <1>7, <1>8 DEF Numbered

LEMMA PostsInOrder ==
  ASSUME TypeOK, TypeOK', Numbered, InOrder, NEW gone \in SUBSET Ids, NEW fresh \in BOOLEAN,
         NEW i \in Int, Posts(gone, fresh, i)
  PROVE  InOrder'
  <1> SUFFICES ASSUME NEW q \in Ids PROVE OrderAt(q)'
    BY DEF InOrder
  <1>1. /\ peer' = peer /\ serial \in Nat /\ serial' >= serial /\ q \in Nat
        /\ serial' \in Nat
    BY Numbers DEF Posts
  <1>2. /\ InTable(questions', q) <=>
              (InTable(questions, q) /\ q \notin gone) \/ (fresh /\ q = serial)
        /\ InTable(questions, q) => q < serial /\ q # serial
        /\ q \in gone => InTable(questions, q)
    <2>1. q \in gone => InTable(questions, q)
      BY DEF Posts
    <2>2. /\ InTable(questions', q) <=>
                (InTable(questions, q) /\ q \notin gone) \/ (fresh /\ q = serial)
          /\ InTable(questions, q) => q < serial /\ q # serial
      BY PostedTable
    <2> QED
      BY <2>1, <2>2
  <1>3. \A x : /\ AskAt(outbox', x, q) <=>
                    AskAt(outbox, x, q) \/ (fresh /\ x = Len(outbox') /\ q = serial)
               /\ FinishAt(outbox, x, q) <=> FinishAt(outbox', x, q) /\ x <= Len(outbox)
               /\ FinishAt(outbox', x, q) /\ x > Len(outbox) => q \in gone
               /\ FinishAt(outbox', x, q) => x \in Nat
    BY PostedBoxes
  <1>4. AtPeer(q)' <=> AtPeer(q)
    BY <1>1 DEF AtPeer
  <1>5. Len(outbox) \in Nat
    BY DEF TypeOK
  <1>6. /\ peer[q].st # "confused"
        /\ q >= serial => peer[q].st = "idle"
        /\ \A x : AskAt(outbox, x, q) => peer[q].st = "idle"
        /\ \A x, y : AskAt(outbox, x, q) /\ AskAt(outbox, y, q) => x = y
        /\ \A x, y : FinishAt(outbox, x, q) /\ FinishAt(outbox, y, q) => x = y
        /\ \A x : FinishAt(outbox, x, q) =>
             /\ ~InTable(questions, q)
             /\ AtPeer(q) \/ \E y : AskAt(outbox, y, q) /\ y < x
        /\ InTable(questions, q) => AtPeer(q) \/ \E y : AskAt(outbox, y, q)
    BY DEF InOrder, OrderAt
  <1>7. /\ \A x : AskAt(outbox, x, q) => x \in Nat /\ x <= Len(outbox) /\ q < serial
        /\ \A x : FinishAt(outbox, x, q) => q < serial
    BY <1>5 DEF AskAt, Numbered
  <1>8. q >= serial' => peer'[q].st = "idle"
    BY <1>1, <1>6, ClientAssumption DEF TypeOK, Serials
  <1>9. \A x : AskAt(outbox', x, q) => peer'[q].st = "idle"
    BY <1>1, <1>3, <1>6
  <1>10. \A x, y : AskAt(outbox', x, q) /\ AskAt(outbox', y, q) => x = y
    BY <1>1, <1>3, <1>6, <1>7
  <1>11. \A x, y : FinishAt(outbox', x, q) /\ FinishAt(outbox', y, q) => x = y
    <2> SUFFICES ASSUME NEW x, NEW y, FinishAt(outbox', x, q), FinishAt(outbox', y, q)
                 PROVE  x = y
      OBVIOUS
    <2>1. x \in Nat /\ y \in Nat
      BY <1>3
    <2>2. CASE x > Len(outbox) /\ y > Len(outbox)
      BY <1>5, <2>1, <2>2 DEF Posts
    <2>3. CASE x <= Len(outbox) /\ y <= Len(outbox)
      BY <1>3, <1>6, <2>3
    <2>4. CASE \/ x > Len(outbox) /\ y <= Len(outbox)
               \/ y > Len(outbox) /\ x <= Len(outbox)
      BY <1>2, <1>3, <1>6, <2>4
    <2> QED
      BY <1>5, <2>1, <2>2, <2>3, <2>4
  <1>12. ASSUME NEW x, FinishAt(outbox', x, q)
         PROVE  /\ ~InTable(questions', q)
                /\ AtPeer(q)' \/ \E y : AskAt(outbox', y, q) /\ y < x
    <2>1. x \in Nat
      BY <1>3, <1>12
    <2>2. CASE x <= Len(outbox)
      <3>1. FinishAt(outbox, x, q)
        BY <1>3, <1>12, <2>2
      <3> QED
        BY <1>1, <1>2, <1>3, <1>4, <1>6, <1>7, <3>1
    <2>3. CASE x > Len(outbox)
      <3>1. q \in gone
        BY <1>3, <1>12, <2>3
      <3>2. \A y : AskAt(outbox, y, q) => y < x
        BY <1>5, <1>7, <2>1, <2>3
      <3> QED
        BY <1>2, <1>3, <1>4, <1>6, <3>1, <3>2
    <2> QED
      BY <1>5, <2>1, <2>2, <2>3
  <1>13. InTable(questions', q) => AtPeer(q)' \/ \E y : AskAt(outbox', y, q)
    BY <1>2, <1>3, <1>4, <1>6
  <1> QED
    BY <1>1, <1>6, <1>8, <1>9, <1>10, <1>11, <1>12, <1>13 DEF OrderAt

LEMMA PostsReplied ==
  ASSUME TypeOK, TypeOK', Numbered, Replied, NEW gone \in SUBSET Ids, NEW fresh \in BOOLEAN,
         NEW i \in Int, Posts(gone, fresh, i)
  PROVE  Replied'
  <1>1. /\ peer' = peer /\ replied' = replied /\ inbox' = inbox
        /\ serial \in Nat /\ serial' \in Nat /\ serial' >= serial
    BY Numbers DEF Posts
  <1>2. ASSUME NEW q \in Ids, Pending(q)' PROVE Pending(q)
    <2>1. ASSUME NEW x, AskAt(outbox', x, q)
          PROVE  AskAt(outbox, x, q) \/ q >= serial
      <3>1. AskAt(outbox', x, q) <=>
              AskAt(outbox, x, q) \/ (fresh /\ x = Len(outbox') /\ q = serial)
        BY PostedBoxes
      <3>2. AskAt(outbox, x, q) \/ q = serial
        BY <2>1, <3>1
      <3> QED
        BY <1>1, <3>2
    <2>2. q >= serial' => q >= serial
      BY <1>1, Numbers
    <2> QED
      BY <1>1, <1>2, <2>1, <2>2 DEF Pending
  <1>3. \A j \in Used(questions') : questions'[j].answered =>
          j \in Used(questions) /\ questions'[j] = questions[j]
    BY DEF Posts, Claimed
  <1> QED
    BY <1>1, <1>2, <1>3 DEF Replied

\* Whatever the application does, the links stay in order.
LEMMA PostedLinks ==
  ASSUME TypeOK, TypeOK', LinkInv, Posted PROVE LinkInv'
  <1>1. PICK gone \in SUBSET Ids, fresh \in BOOLEAN, i \in Int : Posts(gone, fresh, i)
    BY DEF Posted
  <1> QED
    BY <1>1, PostsNumbered, PostsInOrder, PostsReplied DEF LinkInv

-----------------------------------------------------------------------------
\* The peer receives.

LEMMA TailAt ==
  ASSUME NEW S, NEW box \in Seq(S), box # <<>>
  PROVE  /\ \A x, q : AskAt(Tail(box), x, q) <=>
               x \in Nat /\ x # 0 /\ AskAt(box, x + 1, q)
         /\ \A x, q : FinishAt(Tail(box), x, q) <=>
               x \in Nat /\ x # 0 /\ FinishAt(box, x + 1, q)
         /\ \A x \in 1..Len(Tail(box)) : x + 1 \in 1..Len(box) /\ Tail(box)[x] = box[x + 1]
         /\ 1 \in 1..Len(box) /\ Head(box) = box[1] /\ Head(box) \in S
  <1>1. /\ Len(Tail(box)) = Len(box) - 1 /\ Len(box) \in Nat /\ Len(box) # 0
        /\ Tail(box) \in Seq(S) /\ Head(box) \in S /\ Head(box) = box[1]
        /\ \A x \in 1..Len(Tail(box)) : Tail(box)[x] = box[x + 1]
    BY HeadTailProperties
  <1>2. \A x : x \in 1..Len(Tail(box)) <=> x \in Nat /\ x # 0 /\ x + 1 \in 1..Len(box)
    BY <1>1
  <1> QED
    BY <1>1, <1>2 DEF AskAt, FinishAt

LEMMA Receiving ==
  ASSUME TypeOK, TypeOK', LinkInv, peer_receive PROVE LinkInv'
  <1> DEFINE msg == Head(outbox)
  <1>1. outbox # <<>> /\ outbox' = Tail(outbox) /\ outbox \in Seq(Messages)
    BY MessagesAre DEF peer_receive
  <1>2. /\ \A x, q : AskAt(outbox', x, q) <=> x \in Nat /\ x # 0 /\ AskAt(outbox, x + 1, q)
        /\ \A x, q : FinishAt(outbox', x, q) <=> x \in Nat /\ x # 0 /\ FinishAt(outbox, x + 1, q)
        /\ \A x \in 1..Len(outbox') : x + 1 \in 1..Len(outbox) /\ outbox'[x] = outbox[x + 1]
        /\ 1 \in 1..Len(outbox) /\ msg = outbox[1] /\ msg \in Messages
    BY <1>1, TailAt
  <1>3. /\ UNCHANGED <<questions, next_question_id, stream, inbox, held, calls, serial, replied>>
        /\ peer \in [Ids -> [st: PeerStates, n: Serials \cup {0}]]
        /\ serial \in Nat /\ Ids \subseteq Nat
    BY Numbers DEF peer_receive, TypeOK
  <1> HIDE DEF msg
  <1>4. \A q \in Ids :
          \/ msg.kind = "ask" /\ msg.id = q
          \/ msg.kind = "finish" /\ msg.id = q
          \/ peer'[q] = peer[q] /\ ~AskAt(outbox, 1, q) /\ ~FinishAt(outbox, 1, q)
    <2> SUFFICES ASSUME NEW q \in Ids, ~(msg.kind \in {"ask", "finish"} /\ msg.id = q)
                 PROVE  peer'[q] = peer[q] /\ ~AskAt(outbox, 1, q) /\ ~FinishAt(outbox, 1, q)
      OBVIOUS
    <2>1. ~AskAt(outbox, 1, q) /\ ~FinishAt(outbox, 1, q)
      BY <1>2 DEF AskAt, FinishAt
    <2>2. peer'[q] = peer[q]
      BY <1>3 DEF peer_receive, msg
    <2> QED
      BY <2>1, <2>2
  <1>5. ASSUME NEW q \in Ids, msg.kind = "ask", msg.id = q
        PROVE  /\ AskAt(outbox, 1, q) /\ peer[q].st = "idle" /\ q < serial
               /\ peer'[q].st = "waiting" /\ peer'[q].n = q + 1
    <2>1. AskAt(outbox, 1, q)
      BY <1>2, <1>5 DEF AskAt
    <2>2. peer[q].st = "idle"
      BY <2>1 DEF LinkInv, InOrder, OrderAt
    <2>3. msg.n = q + 1 /\ q < serial
      BY <1>2, <2>1 DEF LinkInv, Numbered
    <2>4. peer' = [peer EXCEPT ![msg.id] =
                     IF @.st = "idle" THEN [st |-> "waiting", n |-> msg.n]
                                      ELSE [@ EXCEPT !.st = "confused"]]
      BY <1>5 DEF peer_receive, msg
    <2> QED
      BY <1>3, <1>5, <2>1, <2>2, <2>3, <2>4
  <1>6. ASSUME NEW q \in Ids, msg.kind = "finish", msg.id = q
        PROVE  /\ FinishAt(outbox, 1, q) /\ AtPeer(q) /\ ~InTable(questions, q) /\ q < serial
               /\ peer'[q].st = IF peer[q].st = "waiting" THEN "cancelled" ELSE "idle"
               /\ peer'[q].n = peer[q].n
    <2>1. FinishAt(outbox, 1, q)
      BY <1>2, <1>6 DEF FinishAt
    <2>2. AtPeer(q) /\ ~InTable(questions, q)
      <3>1. \A y : ~(AskAt(outbox, y, q) /\ y < 1)
        BY DEF AskAt
      <3> QED
        BY <2>1, <3>1 DEF LinkInv, InOrder, OrderAt
    <2>3. q < serial
      BY <2>1 DEF LinkInv, Numbered
    <2>4. peer' = [peer EXCEPT ![msg.id] =
                     CASE @.st = "waiting" -> [@ EXCEPT !.st = "cancelled"]
                       [] @.st = "answered" -> [@ EXCEPT !.st = "idle"]
                       [] OTHER -> [@ EXCEPT !.st = "confused"]]
      BY <1>6 DEF peer_receive, msg
    <2> QED
      BY <1>3, <1>6, <2>1, <2>2, <2>3, <2>4 DEF AtPeer
  <1>7. Numbered'
    <2>1. \A q \in Ids : peer'[q].st \in {"waiting", "answered", "cancelled"} =>
            peer'[q].n = q + 1 /\ q < serial
      BY <1>4, <1>5, <1>6 DEF LinkInv, Numbered, AtPeer
    <2>2. \A x, q : AskAt(outbox', x, q) => outbox'[x].n = q + 1 /\ q < serial
      BY <1>2 DEF LinkInv, Numbered, AskAt
    <2>3. \A x, q : FinishAt(outbox', x, q) => q \in Ids /\ q < serial
      BY <1>2 DEF LinkInv, Numbered
    <2> QED
      BY <1>3, <2>1, <2>2, <2>3 DEF LinkInv, Numbered
  <1>8. InOrder'
    <2> SUFFICES ASSUME NEW q \in Ids PROVE OrderAt(q)'
      BY DEF InOrder
    <2>1. OrderAt(q)
      BY DEF LinkInv, InOrder
    <2>2. InTable(questions', q) <=> InTable(questions, q)
      BY <1>3
    <2>3. /\ \A x : AskAt(outbox, x, q) => x \in Nat /\ x # 0
          /\ \A x : FinishAt(outbox, x, q) => x \in Nat /\ x # 0
      BY DEF AskAt, FinishAt
    <2>4. /\ \A x, y : AskAt(outbox', x, q) /\ AskAt(outbox', y, q) => x = y
          /\ \A x, y : FinishAt(outbox', x, q) /\ FinishAt(outbox', y, q) => x = y
      <3>1. \A x, y \in Nat : x + 1 = y + 1 => x = y
        OBVIOUS
      <3> QED
        BY <1>2, <2>1, <3>1 DEF OrderAt
    <2>5. CASE msg.kind = "ask" /\ msg.id = q
      <3>1. \A x : ~AskAt(outbox', x, q)
        <4>1. \A x \in Nat : x # 0 => x + 1 # 1
          OBVIOUS
        <4> QED
          BY <1>2, <1>5, <2>1, <2>5, <4>1 DEF OrderAt
      <3>2. \A x : FinishAt(outbox', x, q) => ~InTable(questions', q)
        BY <1>2, <2>1, <2>2 DEF OrderAt
      <3> QED
        BY <1>3, <1>5, <2>4, <2>5, <3>1, <3>2 DEF OrderAt, AtPeer
    <2>6. CASE msg.kind = "finish" /\ msg.id = q
      <3>1. \A x : ~FinishAt(outbox', x, q)
        <4>1. \A x \in Nat : x # 0 => x + 1 # 1
          OBVIOUS
        <4> QED
          BY <1>2, <1>6, <2>1, <2>6, <4>1 DEF OrderAt
      <3>2. \A x : ~AskAt(outbox', x, q)
        BY <1>2, <1>6, <2>1, <2>6 DEF OrderAt, AtPeer
      <3> QED
        BY <1>3, <1>6, <2>2, <2>4, <2>6, <3>1, <3>2 DEF OrderAt
    <2>7. CASE peer'[q] = peer[q] /\ ~AskAt(outbox, 1, q) /\ ~FinishAt(outbox, 1, q)
      <3>1. \A y : AskAt(outbox, y, q) => y - 1 \in Nat /\ AskAt(outbox', y - 1, q)
        <4> SUFFICES ASSUME NEW y, AskAt(outbox, y, q)
                     PROVE  y - 1 \in Nat /\ AskAt(outbox', y - 1, q)
          OBVIOUS
        <4>1. y \in Nat /\ y # 0 /\ y # 1
          BY <2>3, <2>7
        <4>2. y - 1 \in Nat /\ y - 1 # 0 /\ (y - 1) + 1 = y
          BY <4>1
        <4> QED
          BY <1>2, <4>2
      <3>2. AtPeer(q)' <=> AtPeer(q)
        BY <2>7 DEF AtPeer
      <3>3. ASSUME NEW x, FinishAt(outbox', x, q)
            PROVE  ~InTable(questions', q) /\ (AtPeer(q)' \/ \E y : AskAt(outbox', y, q) /\ y < x)
        <4>1. x \in Nat /\ FinishAt(outbox, x + 1, q)
          BY <1>2, <3>3
        <4>2. /\ ~InTable(questions, q)
              /\ AtPeer(q) \/ \E y : AskAt(outbox, y, q) /\ y < x + 1
          BY <2>1, <4>1 DEF OrderAt
        <4>3. ASSUME NEW y, AskAt(outbox, y, q), y < x + 1
              PROVE  \E z : AskAt(outbox', z, q) /\ z < x
          <5>1. y - 1 < x /\ AskAt(outbox', y - 1, q)
            BY <2>3, <3>1, <4>1, <4>3
          <5> QED
            BY <5>1
        <4> QED
          BY <2>2, <3>2, <4>2, <4>3
      <3>4. InTable(questions', q) => AtPeer(q)' \/ \E y : AskAt(outbox', y, q)
        BY <2>1, <2>2, <3>1, <3>2 DEF OrderAt
      <3> QED
        BY <1>2, <1>3, <2>1, <2>4, <2>7, <3>3, <3>4 DEF OrderAt
    <2> QED
      BY <1>4, <2>5, <2>6, <2>7
  <1>9. Replied'
    <2>1. ASSUME NEW q \in Ids, Pending(q)' PROVE Pending(q)
      <3>1. CASE msg.kind = "ask" /\ msg.id = q
        BY <1>5, <3>1 DEF Pending
      <3>2. CASE ~(msg.kind = "ask" /\ msg.id = q)
        BY <1>2, <1>3, <1>4, <1>6, <2>1, <3>2 DEF Pending
      <3> QED
        BY <3>1, <3>2
    <2> QED
      BY <1>3, <2>1 DEF LinkInv, Replied
  <1> QED
    BY <1>7, <1>8, <1>9 DEF LinkInv

-----------------------------------------------------------------------------
\* The peer answers.

LEMMA Answering ==
  ASSUME TypeOK, TypeOK', LinkInv, NEW p \in Ids, peer_answer(p)
  PROVE  /\ LinkInv' /\ \A n \in calls : replied[n] = "results" => replied'[n] = "results"
  <1>1. PICK reply \in Replies, nonce \in Nonces \cup {NoNonce} :
          /\ inbox' = Append(inbox, [id |-> p, n |-> peer[p].n, reply |-> reply,
                                     nonce |-> nonce])
          /\ replied' = [replied EXCEPT ![peer[p].n] = reply]
    BY DEF peer_answer
  <1>2. /\ UNCHANGED <<questions, next_question_id, stream, outbox, held, calls, serial>>
        /\ peer[p].st \in {"waiting", "cancelled"}
        /\ peer' = [peer EXCEPT ![p].st = IF @ = "waiting" THEN "answered" ELSE "idle"]
    BY DEF peer_answer
  <1>3. /\ peer \in [Ids -> [st: PeerStates, n: Serials \cup {0}]]
        /\ replied \in [Serials -> Replies \cup {"none"}]
        /\ serial \in Nat /\ Ids \subseteq Nat /\ Serials \subseteq Nat /\ Len(inbox) \in Nat
        /\ calls \subseteq Serials
    BY Numbers DEF TypeOK
  <1>4. p + 1 \in Serials /\ peer[p].n = p + 1 /\ p < serial
    <2>1. peer[p].n = p + 1 /\ p < serial
      BY <1>2 DEF LinkInv, Numbered
    <2> QED
      BY <1>3, <2>1
  <1>5. /\ \A q \in Ids : q # p => peer'[q] = peer[q]
        /\ peer'[p].st = IF peer[p].st = "waiting" THEN "answered" ELSE "idle"
        /\ peer'[p].n = peer[p].n
    BY <1>2, <1>3
  <1>6. /\ Len(inbox') = Len(inbox) + 1
        /\ \A x \in 1..Len(inbox) : inbox'[x] = inbox[x]
        /\ inbox'[Len(inbox) + 1].n = p + 1 /\ inbox'[Len(inbox) + 1].id = p
        /\ inbox'[Len(inbox) + 1].reply = reply
    <2> DEFINE r == [id |-> p, n |-> peer[p].n, reply |-> reply, nonce |-> nonce]
    <2>1. r \in [id: Ids, n: Serials, reply: Replies, nonce: Nonces \cup {NoNonce}]
          /\ r.id = p /\ r.n = p + 1 /\ r.reply = reply
      BY <1>4
    <2>2. inbox \in Seq([id: Ids, n: Serials, reply: Replies, nonce: Nonces \cup {NoNonce}])
      BY DEF TypeOK
    <2> HIDE DEF r
    <2> QED
      BY <1>1, <2>1, <2>2, AppendProperties DEF r
  <1>7. /\ replied[p + 1] = "none" /\ reply # "none" /\ "none" \notin Replies
        /\ replied'[p + 1] = reply
        /\ \A n \in Serials : n # p + 1 => replied'[n] = replied[n]
    <2>1. Pending(p)
      BY <1>2 DEF Pending
    <2>2. replied[p + 1] = "none"
      BY <1>4, <2>1 DEF LinkInv, Replied
    <2> QED
      BY <1>1, <1>3, <1>4, <2>2, ClientAssumption
  <1>8. \A x : ~AskAt(outbox, x, p)
    BY <1>2 DEF LinkInv, InOrder, OrderAt
  <1>9. Numbered'
    <2>1. \A x \in 1..Len(inbox') : inbox'[x].n = inbox'[x].id + 1
      BY <1>3, <1>6 DEF LinkInv, Numbered
    <2>2. \A q \in Ids : peer'[q].st \in {"waiting", "answered", "cancelled"} =>
            peer'[q].n = q + 1 /\ q < serial
      BY <1>4, <1>5 DEF LinkInv, Numbered
    <2> QED
      BY <1>2, <2>1, <2>2 DEF LinkInv, Numbered
  <1>10. InOrder'
    <2> SUFFICES ASSUME NEW q \in Ids PROVE OrderAt(q)'
      BY DEF InOrder
    <2>1. OrderAt(q)
      BY DEF LinkInv, InOrder
    <2>2. CASE q = p
      <3>1. AtPeer(p) => AtPeer(p)'
        BY <1>2, <1>5 DEF AtPeer
      <3>2. ~(p >= serial)
        BY <1>3, <1>4
      <3>3. peer'[p].st # "confused"
        BY <1>5
      <3> QED
        BY <1>2, <1>8, <2>1, <2>2, <3>1, <3>2, <3>3 DEF OrderAt
    <2>3. CASE q # p
      BY <1>2, <1>5, <2>1, <2>3 DEF OrderAt, AtPeer
    <2> QED
      BY <2>2, <2>3
  <1>11. Replied'
    <2>1. ASSUME NEW q \in Ids, q + 1 \in Serials, Pending(q)' PROVE replied'[q + 1] = "none"
      <3>1. q # p
        BY <1>2, <1>3, <1>4, <1>5, <1>8, <2>1 DEF Pending
      <3>2. Pending(q) /\ q + 1 # p + 1
        BY <1>2, <1>3, <1>5, <2>1, <3>1 DEF Pending
      <3> QED
        BY <1>7, <2>1, <3>2 DEF LinkInv, Replied
    <2>2. \A x \in 1..Len(inbox') : replied'[inbox'[x].n] = inbox'[x].reply
      <3>1. ASSUME NEW x \in 1..Len(inbox) PROVE replied'[inbox[x].n] = inbox[x].reply
        <4>1. /\ inbox[x].n \in Serials /\ inbox[x].reply \in Replies
              /\ replied[inbox[x].n] = inbox[x].reply
          <5>1. inbox[x] \in [id: Ids, n: Serials, reply: Replies,
                              nonce: Nonces \cup {NoNonce}]
            <6> DEFINE Returns == [id: Ids, n: Serials, reply: Replies,
                                   nonce: Nonces \cup {NoNonce}]
            <6>1. inbox \in Seq(Returns)
              BY DEF TypeOK
            <6> HIDE DEF Returns
            <6>2. inbox[x] \in Returns
              BY <6>1
            <6> QED
              BY <6>2 DEF Returns
          <5> QED
            BY <5>1 DEF LinkInv, Replied
        <4> QED
          BY <1>7, <4>1
      <3> QED
        BY <1>3, <1>6, <1>7, <3>1
    <2>3. \A i \in Used(questions) : questions[i].answered =>
            /\ questions[i].from = questions[i].n
            /\ replied'[questions[i].n] = replied[questions[i].n]
            /\ replied[questions[i].n] \in {"results", "exception"}
            /\ questions[i].failed <=> replied[questions[i].n] = "exception"
      <3>1. \A i \in Used(questions) : questions[i].n \in Serials
        BY Numbers
      <3> QED
        BY <1>7, <3>1 DEF LinkInv, Replied
    <2> QED
      BY <1>2, <2>1, <2>2, <2>3 DEF Replied
  <1>12. \A n \in calls : replied[n] = "results" => replied'[n] = "results"
    BY <1>3, <1>7
  <1> QED
    BY <1>9, <1>10, <1>11, <1>12 DEF LinkInv

-----------------------------------------------------------------------------
\* A Return arrives.

LEMMA Returning ==
  ASSUME TypeOK, TypeOK', LinkInv, Holders, handle_return
  PROVE  LinkInv' /\ Holders'
  <1> DEFINE r == Head(inbox)
             Returns == [id: Ids, n: Serials, reply: Replies, nonce: Nonces \cup {NoNonce}]
  <1>1. /\ inbox # <<>> /\ inbox' = Tail(inbox) /\ inbox \in Seq(Returns)
        /\ UNCHANGED <<next_question_id, stream, outbox, peer, held, calls, serial, replied>>
    BY DEF handle_return, TypeOK
  <1>2. /\ r \in Returns /\ r.n = r.id + 1 /\ replied[r.n] = r.reply
        /\ \A x \in 1..Len(inbox') : x + 1 \in 1..Len(inbox) /\ inbox'[x] = inbox[x + 1]
    <2> HIDE DEF Returns
    <2>1. /\ r \in Returns /\ 1 \in 1..Len(inbox) /\ r = inbox[1]
          /\ \A x \in 1..Len(inbox') : x + 1 \in 1..Len(inbox) /\ inbox'[x] = inbox[x + 1]
      BY <1>1, TailAt
    <2> QED
      BY <2>1 DEF LinkInv, Numbered, Replied
  <1>3. DOMAIN questions' = DOMAIN questions
    BY DEF TypeOK
  <1>4. \A j \in QuestionSlots :
          \/ questions'[j] = questions[j]
          \/ /\ j \in Used(questions) /\ questions[j].question_id = r.id
             /\ r.reply # "oversize" /\ questions'[j] = Recorded(r, j)
    <2>1. CASE questions' = questions
      BY <2>1
    <2>2. CASE /\ r.reply # "oversize"
               /\ \E i \in question_find(r.id) :
                    questions' = [questions EXCEPT ![i] = Recorded(r, i)]
      BY <2>2, Finding DEF LinkInv, TypeOK
    <2> QED
      BY <2>1, <2>2 DEF handle_return
  <1> HIDE DEF r
  <1>5. \A j \in Used(questions) :
          /\ Recorded(r, j).used = 1 /\ Recorded(r, j).answered
          /\ Recorded(r, j).question_id = questions[j].question_id
          /\ Recorded(r, j).n = questions[j].n /\ Recorded(r, j).from = r.n
          /\ Recorded(r, j).failed <=> r.reply # "results"
    <2> SUFFICES ASSUME NEW j \in Used(questions)
                 PROVE  /\ Recorded(r, j).used = 1 /\ Recorded(r, j).answered
                        /\ Recorded(r, j).question_id = questions[j].question_id
                        /\ Recorded(r, j).n = questions[j].n /\ Recorded(r, j).from = r.n
                        /\ Recorded(r, j).failed <=> r.reply # "results"
      OBVIOUS
    <2>1. questions[j] \in [used: {1}, question_id: Ids, answered: BOOLEAN, failed: BOOLEAN,
                            n: Serials, from: Serials \cup {0}]
      BY DEF Used, TypeOK, Questions, Free
    <2> QED
      BY <2>1 DEF Recorded
  <1>6. /\ Used(questions) \subseteq QuestionSlots /\ DOMAIN questions = QuestionSlots
    BY DEF Used, TypeOK
  <1>7. /\ \A j : j \in Used(questions') <=> j \in Used(questions)
        /\ \A j \in Used(questions) :
             /\ questions'[j].question_id = questions[j].question_id
             /\ questions'[j].n = questions[j].n
    BY <1>3, <1>4, <1>5, <1>6 DEF Used
  <1>8. \A q : InTable(questions', q) <=> InTable(questions, q)
    BY <1>7 DEF InTable
  <1>9. Numbered'
    <2>1. \A x \in 1..Len(inbox') : inbox'[x].n = inbox'[x].id + 1
      BY <1>2 DEF LinkInv, Numbered
    <2> QED
      BY <1>1, <1>7, <2>1 DEF LinkInv, Numbered
  <1>10. InOrder'
    BY <1>1, <1>8 DEF LinkInv, InOrder, OrderAt, AtPeer
  <1>11. Replied'
    <2>1. \A x \in 1..Len(inbox') : replied[inbox'[x].n] = inbox'[x].reply
      BY <1>2 DEF LinkInv, Replied
    <2>2. \A q \in Ids : Pending(q)' <=> Pending(q)
      BY <1>1 DEF Pending
    <2>3. ASSUME NEW j \in Used(questions), questions'[j].answered
          PROVE  /\ questions'[j].from = questions'[j].n
                 /\ replied[questions'[j].n] \in {"results", "exception"}
                 /\ questions'[j].failed <=> replied[questions'[j].n] = "exception"
      <3>1. CASE questions'[j] = questions[j]
        BY <2>3, <3>1 DEF LinkInv, Replied
      <3>2. CASE /\ questions[j].question_id = r.id
                 /\ r.reply # "oversize" /\ questions'[j] = Recorded(r, j)
        <4>1. questions[j].n = r.n
          <5>1. questions[j].n \in Nat /\ r.id \in Nat /\ questions[j].n - 1 = r.id
            BY <1>2, <3>2, Numbers DEF LinkInv, Numbered
          <5> QED
            BY <1>2, <5>1
        <4>2. r.reply \in {"results", "exception"}
          BY <1>2, <3>2, ClientAssumption
        <4> QED
          BY <1>2, <1>5, <3>2, <4>1, <4>2
      <3> QED
        BY <1>4, <1>6, <3>1, <3>2
    <2> QED
      BY <1>1, <1>7, <2>1, <2>2, <2>3 DEF LinkInv, Replied
  <1>12. Holders'
    BY <1>1, <1>8 DEF Holders, Streamed
  <1> QED
    BY <1>9, <1>10, <1>11, <1>12 DEF LinkInv

-----------------------------------------------------------------------------
\* The invariant holds, while the ids have not wrapped around.

LEMMA InitInv ==
  ASSUME Init PROVE TypeOK /\ ClientInv
  <1>1. TypeOK
    BY ClientAssumption
      DEF Init, TypeOK, Questions, Introductions, Streams, Ids, PeerStates, Serials
  <1>2. /\ Used(questions) = {} /\ outbox = <<>> /\ inbox = <<>> /\ serial = 0
        /\ next_question_id = 0 /\ stream.qids = <<>> /\ held = {} /\ calls = {}
        /\ \A q \in Ids : peer[q].st = "idle"
        /\ \A n \in Serials : replied[n] = "none"
    BY DEF Init, Used, Free
  <1>3. /\ \A x, q : ~AskAt(outbox, x, q) /\ ~FinishAt(outbox, x, q)
        /\ \A q : ~InTable(questions, q) /\ ~Streamed(stream, q)
    BY <1>2 DEF AskAt, FinishAt, InTable, Streamed
  <1>4. Numbered
    BY <1>2, <1>3 DEF Numbered
  <1>5. InOrder
    BY <1>2, <1>3 DEF InOrder, OrderAt
  <1>6. Replied
    BY <1>2 DEF Replied
  <1>7. Holders
    BY <1>2, <1>3 DEF Holders
  <1>8. Succeeded
    BY <1>2 DEF Succeeded
  <1> QED
    BY <1>1, <1>4, <1>5, <1>6, <1>7, <1>8 DEF ClientInv, LinkInv

\* The application's steps.
LEMMA Applying ==
  ASSUME NoWrap, TypeOK, ClientInv, Application PROVE TypeOK' /\ ClientInv'
  <1>1. TypeOK /\ LinkInv /\ Numbered /\ Holders /\ Replied /\ Succeeded
    BY DEF ClientInv, LinkInv
  <1>2. \A ok \in Sends : ok \in BOOLEAN
    BY ClientAssumption
  <1>3. SUFFICES TypeOK' /\ Posted /\ Holders' /\ Succeeded'
    BY <1>1, PostedLinks DEF ClientInv
  <1>4. ASSUME NEW ok \in Sends, send_question(ok)
        PROVE  TypeOK' /\ Posted /\ Holders' /\ Succeeded'
    <2>1. UNCHANGED <<stream, calls, replied>>
      BY <1>4 DEF send_question
    <2> QED
      BY <1>1, <1>2, <1>4, <2>1, SendQuestionType, SendQuestionPosts, StreamKept
  <1>5. ASSUME NEW q \in held, NEW ok \in Sends, capn_rpc_send_finish(q, ok)
        PROVE  TypeOK' /\ Posted /\ Holders' /\ Succeeded'
    <2>1. UNCHANGED <<stream, calls, replied>>
      BY <1>5 DEF capn_rpc_send_finish
    <2> QED
      BY <1>1, <1>5, <2>1, SendFinishType, SendFinishPosts, StreamKept
  <1>6. ASSUME NEW n \in Nonces, NEW ok \in Sends, capn_rpc_introduction_done(n, ok)
        PROVE  TypeOK' /\ Posted /\ Holders' /\ Succeeded'
    <2>1. UNCHANGED <<stream, calls, replied>>
      BY <1>6 DEF capn_rpc_introduction_done
    <2> QED
      BY <1>1, <1>6, <2>1, IntroductionDoneType, IntroductionDonePosts, StreamKept
  <1>7. ASSUME NEW w \in Windows, capn_rpc_stream_init(w)
        PROVE  TypeOK' /\ Posted /\ Holders' /\ Succeeded'
    BY <1>1, <1>7, StreamInitType, StreamInitPosts
  <1>8. ASSUME NEW sent \in Sendings(Retiring), NEW ok \in Sends,
               capn_rpc_stream_send(sent, ok)
        PROVE  TypeOK' /\ Posted /\ Holders' /\ Succeeded'
    BY <1>1, <1>2, <1>8, StreamSendType, StreamSendPosts
  <1>9. ASSUME NEW sent \in Sendings(Len(stream.qids)), capn_rpc_stream_finish(sent)
        PROVE  TypeOK' /\ Posted /\ Holders' /\ Succeeded'
    BY <1>1, <1>9, StreamFinishType, StreamFinishPosts
  <1> QED
    BY <1>4, <1>5, <1>6, <1>7, <1>8, <1>9 DEF Application

LEMMA StepInv ==
  ASSUME NoWrap, TypeOK, ClientInv, [Next]_vars PROVE TypeOK' /\ ClientInv'
  <1>1. LinkInv /\ Numbered /\ Holders /\ Succeeded
    BY DEF ClientInv, LinkInv
  <1>2. CASE Application
    BY <1>2, Applying
  <1>3. CASE handle_return
    <2>1. TypeOK'
      BY <1>3, ReturnType
    <2>2. Succeeded'
      BY <1>1, <1>3, StreamKept DEF handle_return
    <2> QED
      BY <1>1, <1>3, <2>1, <2>2, Returning DEF ClientInv
  <1>4. CASE peer_receive
    <2>1. TypeOK'
      BY <1>4, ReceiveType
    <2>2. Succeeded'
      BY <1>1, <1>4, StreamKept DEF peer_receive
    <2>3. questions' = questions /\ held' = held /\ stream' = stream
      BY <1>4 DEF peer_receive
    <2>4. Holders'
      BY <1>1, <2>3 DEF Holders, InTable, Streamed, Used
    <2> QED
      BY <1>1, <1>4, <2>1, <2>2, <2>4, Receiving DEF ClientInv
  <1>5. ASSUME NEW p \in Ids, peer_answer(p) PROVE TypeOK' /\ ClientInv'
    <2>1. peer[p].n \in Serials
      <3>1. peer[p].n = p + 1 /\ peer[p].n \in Serials \cup {0} /\ p \in Nat
        BY <1>1, <1>5, Numbers DEF peer_answer, Numbered, TypeOK
      <3> QED
        BY <3>1
    <2>2. TypeOK'
      BY <1>5, <2>1, AnswerType
    <2>3. /\ LinkInv' /\ \A n \in calls : replied[n] = "results" => replied'[n] = "results"
      BY <1>1, <1>5, <2>2, Answering
    <2>4. questions' = questions /\ held' = held /\ stream' = stream /\ calls' = calls
      BY <1>5 DEF peer_answer
    <2>5. Holders'
      BY <1>1, <2>4 DEF Holders, InTable, Streamed, Used
    <2>6. Succeeded'
      BY <1>1, <2>3, <2>4 DEF Succeeded, Streamed
    <2> QED
      BY <2>2, <2>3, <2>5, <2>6 DEF ClientInv
  <1>6. CASE UNCHANGED vars
    BY <1>6 DEF vars, TypeOK, ClientInv, LinkInv, Numbered, InOrder, OrderAt, AtPeer, Replied,
                Pending, Holders, Streamed, InTable, Succeeded, AskAt, FinishAt, Used
  <1> QED
    BY <1>2, <1>3, <1>4, <1>5, <1>6 DEF Next

-----------------------------------------------------------------------------
\* What the invariant says of the properties the runs check.

\* A set listed without repetition has as many members as the list.
LEMMA SameSize ==
  ASSUME NEW S, NEW T, IsFiniteSet(S), NEW f \in [S -> T],
         \A a, b \in S : f[a] = f[b] => a = b, \A t \in T : \E a \in S : f[a] = t
  PROVE  IsFiniteSet(T) /\ Cardinality(T) = Cardinality(S)
  <1>1. f \in Bijection(S, T)
    BY DEF Bijection, Injection, Surjection, IsInjective
  <1>2. ExistsBijection(S, T)
    BY <1>1 DEF ExistsBijection
  <1> QED
    BY <1>2, FS_Bijection

LEMMA Accounting ==
  ASSUME TypeOK, Numbered, Holders PROVE SlotsAccounted
  <1> DEFINE ids == {questions[i].question_id : i \in Used(questions)}
             streamed == {stream.qids[j] : j \in 1..Len(stream.qids)}
  <1>1. /\ \A q : q \in ids <=> InTable(questions, q)
        /\ \A q : q \in streamed <=> Streamed(stream, q)
    BY DEF InTable, Streamed
  <1>2. stream.qids \in Seq(Ids) /\ Len(stream.qids) \in Nat
    BY DEF TypeOK, Streams
  <1>3. ids \subseteq Ids /\ streamed \subseteq Ids /\ held \subseteq Ids
    BY <1>2, Numbers DEF TypeOK
  <1>4. ids = held \cup streamed /\ held \cap streamed = {}
    <2> HIDE DEF ids, streamed
    <2> QED
      BY <1>1, <1>3 DEF Holders
  <1>5. /\ IsFiniteSet(ids) /\ Cardinality(ids) = Cardinality(Used(questions))
    <2>1. IsFiniteSet(Used(questions))
      <3>1. IsFiniteSet(0..(MAX_QUESTIONS - 1))
        BY FS_Interval, ClientAssumption
      <3>2. Used(questions) \in SUBSET (0..(MAX_QUESTIONS - 1))
        BY DEF Used, TypeOK, QuestionSlots
      <3> QED
        BY <3>1, <3>2, FS_Subset
    <2> DEFINE f == [i \in Used(questions) |-> questions[i].question_id]
    <2>2. f \in [Used(questions) -> ids]
      OBVIOUS
    <2>3. \A a, b \in Used(questions) : f[a] = f[b] => a = b
      <3> SUFFICES ASSUME NEW a \in Used(questions), NEW b \in Used(questions),
                          questions[a].question_id = questions[b].question_id
                   PROVE  a = b
        OBVIOUS
      <3>1. questions[a].n \in Nat /\ questions[b].n \in Nat
        BY Numbers
      <3>2. questions[a].n = questions[b].n
        BY <3>1 DEF Numbered
      <3> QED
        BY <3>2 DEF Numbered
    <2>4. \A t \in ids : \E a \in Used(questions) : f[a] = t
      OBVIOUS
    <2> HIDE DEF f, ids
    <2> QED
      BY <2>1, <2>2, <2>3, <2>4, SameSize
  <1>6. IsFiniteSet(streamed) /\ Cardinality(streamed) = Len(stream.qids)
    <2> DEFINE D == 1..Len(stream.qids)
               f == [j \in D |-> stream.qids[j]]
    <2>1. IsFiniteSet(D) /\ Cardinality(D) = Len(stream.qids)
      BY <1>2, FS_Interval, SMTT(60)
    <2>2. f \in [D -> streamed] /\ \A t \in streamed : \E a \in D : f[a] = t
      OBVIOUS
    <2>3. \A a, b \in D : f[a] = f[b] => a = b
      BY DEF Holders
    <2> HIDE DEF f, streamed, D
    <2>4. IsFiniteSet(streamed) /\ Cardinality(streamed) = Cardinality(D)
      BY <2>1, <2>2, <2>3, SameSize
    <2> QED
      BY <2>1, <2>4
  <1> HIDE DEF ids, streamed
  <1>7. IsFiniteSet(held)
    BY <1>4, <1>5, FS_Subset
  <1>8. Cardinality(ids) = Cardinality(held) + Len(stream.qids)
    <2>1. Cardinality(held \cup streamed) =
            Cardinality(held) + Cardinality(streamed) - Cardinality(held \cap streamed)
      BY <1>6, <1>7, FS_Union
    <2>2. Cardinality(held \cap streamed) = 0
      BY <1>4, FS_EmptySet
    <2>3. Cardinality(held) \in Nat
      BY <1>7, FS_CardinalityType
    <2> QED
      BY <1>2, <1>4, <1>6, <2>1, <2>2, <2>3
  <1> QED
    BY <1>4, <1>5, <1>8 DEF SlotsAccounted, ids, streamed

\* The invariant is one of every reachable state.
LEMMA Invariant ==
  ASSUME NoWrap PROVE Spec => [](TypeOK /\ ClientInv)
  <1>1. Init => TypeOK /\ ClientInv
    BY InitInv
  <1>2. (TypeOK /\ ClientInv) /\ [Next]_vars => (TypeOK /\ ClientInv)'
    BY StepInv
  <1> QED
    BY <1>1, <1>2, PTL DEF Spec

\* Each question in the table is one the application or its stream will
\* finish, and each of theirs is in the table: whichever sends fail and
\* however the stream retires its calls, no slot of the question table leaks
\* (capn_rpc_send_*, send_finish, stream_retire_oldest), while fewer than
\* 2^32 questions have been asked.
THEOREM NoLeak == NoWrap => (Spec => []SlotsAccounted)
  <1> SUFFICES ASSUME NoWrap PROVE Spec => []SlotsAccounted
    OBVIOUS
  <1>1. TypeOK /\ ClientInv => SlotsAccounted
    BY Accounting DEF ClientInv, LinkInv
  <1> QED
    BY <1>1, Invariant, PTL

\* What a question records is the peer's answer to that very ask, not to an
\* earlier one of its slot (handle_return, question_claim), in whatever order
\* the peer answers and however late: while fewer than 2^32 questions have
\* been asked.
THEOREM RepliesMatch == NoWrap => (Spec => []ReplyIsForThisAsk)
  <1> SUFFICES ASSUME NoWrap PROVE Spec => []ReplyIsForThisAsk
    OBVIOUS
  <1>1. TypeOK /\ ClientInv => ReplyIsForThisAsk
    BY DEF ClientInv, LinkInv, Replied, ReplyIsForThisAsk
  <1> QED
    BY <1>1, Invariant, PTL

\* No message of the asking side asks with an id its peer still holds, nor
\* finishes a question the peer has not received or has seen finished
\* (capn_rpc_send_*, send_finish), while fewer than 2^32 questions have been
\* asked.
THEOREM PeerFollows == NoWrap => (Spec => []PeerNeverConfused)
  <1> SUFFICES ASSUME NoWrap PROVE Spec => []PeerNeverConfused
    OBVIOUS
  <1>1. TypeOK /\ ClientInv => PeerNeverConfused
    BY DEF ClientInv, LinkInv, InOrder, OrderAt, PeerNeverConfused
  <1> QED
    BY <1>1, Invariant, PTL

\* A stream with nothing outstanding reports success only when each of its
\* calls was answered with results (stream_retire_oldest, stream_finish),
\* while fewer than 2^32 questions have been asked.
THEOREM Honest == NoWrap => (Spec => []FinishHonest)
  <1> SUFFICES ASSUME NoWrap PROVE Spec => []FinishHonest
    OBVIOUS
  <1>1. TypeOK /\ ClientInv => FinishHonest
    <2>1. stream.qids = <<>> => \A q : ~Streamed(stream, q)
      BY DEF Streamed
    <2> QED
      BY <2>1 DEF ClientInv, Succeeded, FinishHonest
  <1> QED
    BY <1>1, Invariant, PTL
=============================================================================
