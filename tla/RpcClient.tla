------------------------------ MODULE RpcClient ------------------------------
(***************************************************************************)
(* The asking side of a Cap'n Proto RPC connection (lib/capn-rpc.c): its   *)
(* question table, the introductions its Returns bring, and the stream     *)
(* flow control built on it, talking over two FIFO links to a peer that    *)
(* follows rpc.capnp.                                                      *)
(*                                                                         *)
(* `held`, `calls`, `serial`, `replied` and the peer are not the library's *)
(* state: what the application keeps, which asks were a stream's, which    *)
(* ask a number stands for, how the peer answered it.  Question ids are    *)
(* unsigned and wrap; IdSpace stands for 2^32.                             *)
(***************************************************************************)
EXTENDS RpcTables, Sequences, FiniteSets

CONSTANTS
  MAX_QUESTIONS, MAX_INTRODUCTIONS, MAX_WINDOW,   \* of capn-rpc.h
  IdSpace,        \* number of question ids
  Nonces,         \* what the introductions in a Return name
  Replies,        \* how the peer answers: a Return that carries results, an
                  \* exception, or more bytes than a question can hold
  Sends,          \* outcomes of c->send: TRUE when the peer gets the frame
  Windows,        \* windows the application asks a stream for
  MaxAsks,        \* bound on the questions asked
  MaxBacklog      \* bound on the messages the application leaves unread

NoNonce == "no introduction"
NoId == -1

ASSUME ClientAssumption ==
  /\ {MAX_QUESTIONS, MAX_INTRODUCTIONS, MaxAsks, MaxBacklog} \subseteq Nat
  /\ MAX_WINDOW \in Nat \ {0} /\ IdSpace \in Nat \ {0}
  /\ Windows \subseteq Int
  /\ Sends \subseteq BOOLEAN
  /\ Replies \subseteq {"results", "exception", "oversize"}
  /\ NoNonce \notin Nonces

Ids == 0..(IdSpace - 1)
Serials == 1..MaxAsks
QuestionSlots == 0..(MAX_QUESTIONS - 1)
Failure == IdSpace - 1              \* (uint32_t)-1, what a failed send returns

VARIABLES
  questions, next_question_id, introductions,     \* the connection
  stream,                                         \* the application's stream
  outbox, inbox,                                  \* messages in flight
  peer,                                           \* the peer's answer table
  held, calls, serial, replied                    \* history

vars == <<questions, next_question_id, introductions, stream, outbox, inbox,
          peer, held, calls, serial, replied>>

-----------------------------------------------------------------------------
\* A question: `n` is the ask it stands for, `from` the ask its reply
\* answered (history; `reply` itself is what `failed` abstracts).
Questions ==
  [used: {1}, question_id: Ids, answered: BOOLEAN, failed: BOOLEAN,
   n: Serials, from: Serials \cup {0}] \cup {Free}

Introductions == [used: {1}, nonce: Nonces] \cup {Free}

Streams ==
  [window: 1..MAX_WINDOW, qids: Seq(Ids), failed: BOOLEAN,
   have_failure: BOOLEAN, first_failure: Ids \cup {NoId}]

question_find(q) == First({i \in Used(questions) : questions[i].question_id = q})

is_answered(q) == \E i \in question_find(q) : questions[i].answered
is_failed(q) ==
  \E i \in question_find(q) : questions[i].answered /\ questions[i].failed

\* ...as if question_claim had not cleared the flags of the slot's last use.
Wrong_claimed_stale(slot, q, n) ==
  [used |-> 1, question_id |-> q, answered |-> n > 1, failed |-> FALSE,
   n |-> n, from |-> 0]

\* What question_claim leaves in the slot it takes: everything else cleared.
Claimed(slot, q, n) ==
  [used |-> 1, question_id |-> q, answered |-> FALSE, failed |-> FALSE,
   n |-> n, from |-> 0]

Wrong_next(q) == q
\* The counter after one more question.
Next_question_id(q) == (q + 1) % IdSpace

Wrong_unsent(table, i, q, n) == Put(table, {i}, Claimed(table[i], q, n))
\* The question table when the send failed.
Unsent(table, i, q, n) == Put(table, {i}, Free)

Message(kind, q, n) == [kind |-> kind, id |-> q, n |-> n]

\* One question claimed in slot i of `table` and sent or not, its message
\* behind `queue`.  Bootstrap, Call, Provide and Accept differ in payload.
Asked(table, queue, i, ok) ==
  LET q == next_question_id
      n == serial + 1
  IN  /\ serial < MaxAsks
      /\ serial' = n
      /\ next_question_id' = Next_question_id(q)
      /\ questions' = IF ok THEN Put(table, {i}, Claimed(table[i], q, n))
                            ELSE Unsent(table, i, q, n)
      /\ outbox' = IF ok THEN Append(queue, Message("ask", q, n)) ELSE queue

-----------------------------------------------------------------------------
\* capn_rpc_send_bootstrap, _call, _provide, _accept.  With no free slot they
\* return the failure value and change nothing.
send_question(ok) ==
  \E i \in First(FreeSlots(questions)) :
    /\ Asked(questions, outbox, i, ok)
    /\ held' = IF ok /\ next_question_id # Failure
               THEN held \cup {next_question_id} ELSE held
    /\ UNCHANGED <<introductions, stream, inbox, peer, calls, replied>>

\* The table without the questions named in `gone`.
Finished(gone) ==
  [i \in QuestionSlots |->
     IF \E q \in gone : i \in question_find(q) THEN Free ELSE questions[i]]

capn_rpc_send_finish(q, ok) ==
  /\ q \in held
  /\ questions' = Finished({q})
  /\ held' = held \ {q}
  /\ outbox' = IF ok THEN Append(outbox, Message("finish", q, 0)) ELSE outbox
  /\ UNCHANGED <<next_question_id, introductions, stream, inbox, peer,
                 calls, serial, replied>>

\* The pickup for nonce n succeeded: its vine is released.
capn_rpc_introduction_done(n, ok) ==
  \E i \in First({x \in Used(introductions) : introductions[x].nonce = n}) :
    /\ introductions' = Put(introductions, {i}, Free)
    /\ outbox' = IF ok THEN Append(outbox, Message("release", NoId, 0)) ELSE outbox
    /\ UNCHANGED <<questions, next_question_id, stream, inbox, peer,
                   held, calls, serial, replied>>

-----------------------------------------------------------------------------
\* Stream flow control.

\* The application starts a stream anew once the last one is drained.
capn_rpc_stream_init(w) ==
  /\ stream.qids = <<>>
  /\ stream' = [window |-> IF w < 1 THEN 1 ELSE IF w > MAX_WINDOW THEN MAX_WINDOW ELSE w,
                qids |-> <<>>, failed |-> FALSE, have_failure |-> FALSE,
                first_failure |-> NoId]
  /\ calls' = {}
  /\ UNCHANGED <<questions, next_question_id, introductions, outbox, inbox,
                 peer, held, serial, replied>>

Wrong_bad_unanswered_only(q) == ~is_answered(q)
\* Does retiring q fail the stream?  An answer still on its way counts.
Bad(q) == ~is_answered(q) \/ is_failed(q)

\* The stream after stream_retire_oldest retired its k oldest calls.
Retired(k) ==
  LET bad == {j \in 1..k : Bad(stream.qids[j])}
  IN  [stream EXCEPT
         !.qids = SubSeq(@, k + 1, Len(@)),
         !.failed = @ \/ bad # {},
         !.have_failure = @ \/ bad # {},
         !.first_failure = IF stream.have_failure \/ bad = {} THEN @
                           ELSE stream.qids[CHOOSE j \in First(bad) : TRUE]]

\* Which of the Finish messages of those k calls go out: their indices, in order.
Sendings(k) ==
  {s \in UNION {[1..n -> 1..k] : n \in 0..k} :
     /\ \A x, y \in DOMAIN s : x < y => s[x] < s[y]
     /\ FALSE \notin Sends => DOMAIN s = 1..k
     /\ TRUE \notin Sends => DOMAIN s = {}}

\* Those messages behind the outbox.
Finishes(sent) ==
  outbox \o [x \in DOMAIN sent |-> Message("finish", stream.qids[sent[x]], 0)]

Gone(k) == {stream.qids[j] : j \in 1..k}

\* Does the stream still take calls?
Accepting(s) == ~s.failed

\* The calls to retire to make room for one more.
Retiring == IF Len(stream.qids) >= stream.window THEN 1 ELSE 0

capn_rpc_stream_send(sent, ok) ==
  LET k == Retiring
      table == Finished(Gone(k))
  IN  /\ Accepting(stream)
      /\ \/ /\ ~Accepting(Retired(k))
            /\ stream' = Retired(k)
            /\ questions' = table
            /\ outbox' = Finishes(sent)
            /\ UNCHANGED <<next_question_id, serial, calls>>
         \/ /\ Accepting(Retired(k))
            /\ \E i \in First(FreeSlots(table)) :
                 /\ Asked(table, Finishes(sent), i, ok)
                 /\ stream' = IF ok /\ next_question_id # Failure
                              THEN [Retired(k) EXCEPT !.qids = Append(@, next_question_id)]
                              ELSE Retired(k)
                 /\ calls' = IF ok THEN calls \cup {serial + 1} ELSE calls
      /\ UNCHANGED <<introductions, inbox, peer, held, replied>>

capn_rpc_stream_finish(sent) ==
  LET k == Len(stream.qids)
  IN  /\ stream' = Retired(k)
      /\ questions' = Finished(Gone(k))
      /\ outbox' = Finishes(sent)
      /\ UNCHANGED <<next_question_id, introductions, inbox, peer,
                     held, calls, serial, replied>>

-----------------------------------------------------------------------------
\* Return.

\* The introductions with a Return's recorded; a full table drops it.
Noted(table, nonce) ==
  IF nonce = NoNonce THEN table
  ELSE Put(table, First(FreeSlots(table)), [used |-> 1, nonce |-> nonce])

Wrong_recorded(r, i) ==
  [questions[i] EXCEPT !.answered = (r.reply = "results"), !.failed = FALSE,
                       !.from = r.n]

\* The question once Return r is recorded against it.
Recorded(r, i) ==
  [questions[i] EXCEPT !.answered = TRUE, !.failed = (r.reply # "results"),
                       !.from = r.n]

\* The next Return arrives.  One naming no question, or too long, is dropped.
handle_return ==
  /\ inbox # <<>>
  /\ inbox' = Tail(inbox)
  /\ LET r == Head(inbox)
         asked == IF r.reply = "oversize" THEN {} ELSE question_find(r.id)
     IN  \/ /\ asked = {}
            /\ UNCHANGED <<questions, introductions>>
         \/ \E i \in asked :
              /\ questions' = [questions EXCEPT ![i] = Recorded(r, i)]
              /\ introductions' = IF r.reply = "results"
                                  THEN Noted(introductions, r.nonce)
                                  ELSE introductions
  /\ UNCHANGED <<next_question_id, stream, outbox, peer, held, calls, serial, replied>>

-----------------------------------------------------------------------------
\* The peer.  It answers in any order, and answers what was finished early.

PeerStates == {"idle", "waiting", "answered", "cancelled", "confused"}

peer_receive ==
  /\ outbox # <<>>
  /\ outbox' = Tail(outbox)
  /\ LET msg == Head(outbox) IN
     peer' =
       CASE msg.kind = "ask" ->
              [peer EXCEPT ![msg.id] =
                 IF @.st = "idle" THEN [st |-> "waiting", n |-> msg.n]
                                  ELSE [@ EXCEPT !.st = "confused"]]
         [] msg.kind = "finish" ->
              [peer EXCEPT ![msg.id] =
                 CASE @.st = "waiting" -> [@ EXCEPT !.st = "cancelled"]
                   [] @.st = "answered" -> [@ EXCEPT !.st = "idle"]
                   [] OTHER -> [@ EXCEPT !.st = "confused"]]
         [] OTHER -> peer
  /\ UNCHANGED <<questions, next_question_id, introductions, stream, inbox,
                 held, calls, serial, replied>>

peer_answer(q) ==
  /\ peer[q].st \in {"waiting", "cancelled"}
  /\ peer' = [peer EXCEPT ![q].st = IF @ = "waiting" THEN "answered" ELSE "idle"]
  /\ \E reply \in Replies, nonce \in Nonces \cup {NoNonce} :
       /\ reply = "results" \/ nonce = NoNonce
       /\ inbox' = Append(inbox, [id |-> q, n |-> peer[q].n, reply |-> reply,
                                  nonce |-> nonce])
       /\ replied' = [replied EXCEPT ![peer[q].n] = reply]
  /\ UNCHANGED <<questions, next_question_id, introductions, stream, outbox,
                 held, calls, serial>>

-----------------------------------------------------------------------------
Init ==
  /\ questions = [i \in QuestionSlots |-> Free]
  /\ next_question_id = 0
  /\ introductions = [i \in 0..(MAX_INTRODUCTIONS - 1) |-> Free]
  /\ stream = [window |-> 1, qids |-> <<>>, failed |-> FALSE,
               have_failure |-> FALSE, first_failure |-> NoId]
  /\ outbox = <<>> /\ inbox = <<>>
  /\ peer = [q \in Ids |-> [st |-> "idle", n |-> 0]]
  /\ held = {} /\ calls = {} /\ serial = 0
  /\ replied = [n \in Serials |-> "none"]

Application ==
  \/ \E ok \in Sends : send_question(ok)
  \/ \E q \in held, ok \in Sends : capn_rpc_send_finish(q, ok)
  \/ \E n \in Nonces, ok \in Sends : capn_rpc_introduction_done(n, ok)
  \/ \E w \in Windows : capn_rpc_stream_init(w)
  \/ \E sent \in Sendings(Retiring), ok \in Sends : capn_rpc_stream_send(sent, ok)
  \/ \E sent \in Sendings(Len(stream.qids)) : capn_rpc_stream_finish(sent)

Next ==
  \/ Application /\ Len(outbox) < MaxBacklog
  \/ handle_return
  \/ peer_receive
  \/ \E q \in Ids : peer_answer(q)

Spec == Init /\ [][Next]_vars

\* Messages arrive, and the peer answers what it is asked.  The application
\* is under no obligation.
FairSpec ==
  /\ Spec
  /\ WF_vars(handle_return)
  /\ WF_vars(peer_receive)
  /\ WF_vars(\E q \in Ids : peer_answer(q))

TypeOK ==
  /\ questions \in [QuestionSlots -> Questions]
  /\ next_question_id \in Ids
  /\ introductions \in [0..(MAX_INTRODUCTIONS - 1) -> Introductions]
  /\ stream \in Streams /\ Len(stream.qids) <= MAX_WINDOW
  /\ outbox \in Seq([kind: {"ask", "finish", "release"}, id: Ids \cup {NoId},
                     n: Serials \cup {0}])
  /\ inbox \in Seq([id: Ids, n: Serials, reply: Replies,
                    nonce: Nonces \cup {NoNonce}])
  /\ peer \in [Ids -> [st: PeerStates, n: Serials \cup {0}]]
  /\ held \subseteq Ids /\ calls \subseteq Serials
  /\ serial \in Serials \cup {0}
  /\ replied \in [Serials -> Replies \cup {"none"}]

\* Each question in the table is one the application or its stream will
\* finish, and each of theirs is in the table: whichever sends fail, no slot
\* leaks (CAPN_RPC_MAX_QUESTIONS of them, capn-rpc.h:29).
SlotsAccounted ==
  LET streamed == {stream.qids[j] : j \in 1..Len(stream.qids)}
  IN  /\ {questions[i].question_id : i \in Used(questions)} = held \cup streamed
      /\ Cardinality(Used(questions)) = Cardinality(held) + Len(stream.qids)

\* "A Return naming a question this vat never asked is dropped" (handle_return):
\* what a question records is the peer's answer to that very ask, not to an
\* earlier one of its slot or of its number.
ReplyIsForThisAsk ==
  \A i \in Used(questions) : questions[i].answered =>
     /\ questions[i].from = questions[i].n
     /\ questions[i].failed <=> replied[questions[i].n] = "exception"

\* What RpcVat takes for granted of its peers: a question id is not reused
\* while the other side holds it, and is finished at most once (rpc.capnp:400).
PeerNeverConfused == \A q \in Ids : peer[q].st # "confused"

\* "Returns 0 when all succeeded" (capn-rpc.h:311): with nothing outstanding
\* finish returns what have_failure says, and it says success only when every
\* call of the stream, retired early or late, was answered with results.
FinishHonest ==
  stream.qids = <<>> /\ ~stream.have_failure
     => \A n \in calls : replied[n] = "results"

\* A question asked is answered, unless it is finished first or the peer's
\* Return is too long to hold.
AnswersArrive ==
  \A n \in Serials :
    LET pending == \E i \in Used(questions) :
                      questions[i].n = n /\ ~questions[i].answered
    IN  pending ~> (~pending \/ replied[n] = "oversize")

=============================================================================
