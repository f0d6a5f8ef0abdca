---------------------------- MODULE RpcVatProofs ----------------------------
(***************************************************************************)
(* Theorems about RpcVat, for every number of connections, objects and     *)
(* questions and every table size.  First the types; then what the export  *)
(* table promises the peers.  Each handler moves the export table and the  *)
(* peers' import tables in one of five ways; the invariants follow from    *)
(* the five.  So with the introductions and the vines the peers are owed,  *)
(* and with the parts of a Join, which name objects by indices of the      *)
(* export table.                                                           *)
(***************************************************************************)
EXTENDS RpcVat, RpcTableFacts, FiniteSetTheorems

-----------------------------------------------------------------------------
\* Lemmas about the tables.

\* A reference taken through an export slot leaves an export slot.
LEMMA ReferencedType ==
  ASSUME NEW slot \in Exports, NEW s \in Servers
  PROVE  /\ Referenced(slot, s) \in Exports
         /\ Referenced(slot, s).used = 1
  BY DEF Referenced, Exports, Free

\* So does counting one more on an export already there.
LEMMA CountedType ==
  ASSUME NEW slot \in Exports, slot.used = 1
  PROVE  [slot EXCEPT !.refcount = @ + 1] \in Exports
  BY DEF Exports, Free

\* So does giving references back: the count never stays at zero.
LEMMA ReleasedType ==
  ASSUME NEW slot \in Exports, NEW n \in Nat
  PROVE  Released(slot, n) \in Exports
  BY DEF Released, Exports, Free

\* A Return leaves a question of a known state.
LEMMA ReturnedType ==
  ASSUME NEW a \in Asks, NEW e \in CapIds, NEW s \in Objects
  PROVE  Returned(a, e, s) \in Asks
  BY DEF Returned, Asks, AskStates, Answered, Ask, CapIds, Objects

LEMMA AskType == ASSUME NEW st \in AskStates PROVE Ask(st) \in Asks
  BY DEF Ask, Asks, CapIds, Objects

\* capn_rpc_export settles on a slot of the table, used for s or free.
LEMMA ExportFound ==
  ASSUME TypeOK, NEW c \in Conns, NEW s \in Servers,
         NEW e \in capn_rpc_export(c, s)
  PROVE  /\ e \in ExportIds
         /\ exports[c][e].used = 1 => exports[c][e].server = s
  BY FirstIn DEF capn_rpc_export, Used, FreeSlots, TypeOK

\* A resolved target is an export in use.
LEMMA TargetFound ==
  ASSUME TypeOK, NEW c \in Conns, NEW t, NEW e \in resolve_target(c, t)
  PROVE  e \in ExportIds /\ exports[c][e].used = 1
  BY DEF resolve_target, resolve_promised_answer, Used, TypeOK

LEMMA ServerAtType ==
  ASSUME NEW table \in [ExportIds -> Exports], NEW e \in ExportIds
  PROVE  ServerAt(table, e) \in Objects
  BY DEF ServerAt, Exports, Free, Objects

-----------------------------------------------------------------------------
\* Every handler keeps the tables well typed.

\* The part of TypeOK that replies touch.
RepliesOK ==
  /\ answers \in [Conns -> [AnswerSlots -> Answers]]
  /\ asks \in [Conns -> [Qids -> Asks]]
  /\ refs \in [Conns -> [ExportIds -> [Objects -> Nat]]]

\* And the part they do not.
TablesOK ==
  /\ exports \in [Conns -> [ExportIds -> Exports]]
  /\ joins \in [Conns -> [JoinSlots -> Joins]]
  /\ introductions \in [Conns -> [IntroductionSlots -> Introductions]]
  /\ bootstrap \in [Conns -> Objects]
  /\ provisions \in [ProvisionSlots -> Provisions]
  /\ verdict \in [Conns -> [same: BOOLEAN, objs: SUBSET Objects]]
  /\ ledger \in [Nonces -> Int]
  /\ vines \in [Conns -> [Vines -> Int]]

LEMMA TypeSplit == TypeOK <=> RepliesOK /\ TablesOK
  BY DEF TypeOK, RepliesOK, TablesOK

LEMMA ReplyType ==
  ASSUME RepliesOK, NEW c \in Conns, NEW q \in Qids, NEW ok \in BOOLEAN,
         Reply(c, q, ok)
  PROVE  RepliesOK'
  <1>1. Answered(NoCap, NoServer) \in Asks
    BY DEF Answered, Asks, AskStates, CapIds, Objects
  <1>2. Ask("waiting") \in Asks
    BY AskType DEF AskStates
  <1> QED
    BY <1>1, <1>2 DEF Reply, RepliesOK

\* send_answer credits the peer under the object the export table names.
LEMMA SendAnswerType ==
  ASSUME RepliesOK, exports' \in [Conns -> [ExportIds -> Exports]],
         NEW c \in Conns, NEW q \in Qids, NEW a \in Asks, NEW e \in CapIds,
         NEW s \in Objects, NEW ok \in BOOLEAN, send_answer(c, q, a, e, s, ok)
  PROVE  RepliesOK'
  <1>1. answers' \in [Conns -> [AnswerSlots -> Answers]]
    <2>1. [used |-> 1, qid |-> q, cap |-> e] \in Answers
      BY DEF Answers
    <2>2. Kept(answers[c], q, e) \in [AnswerSlots -> Answers]
      BY <2>1, PutType DEF Kept, RepliesOK
    <2> QED
      BY <2>2 DEF send_answer, RepliesOK
  <1>2. asks' \in [Conns -> [Qids -> Asks]]
    BY ReturnedType DEF send_answer, RepliesOK
  <1>3. refs' \in [Conns -> [ExportIds -> [Objects -> Nat]]]
    <2>1. CASE ok /\ e # NoCap
      <3>1. e \in ExportIds
        BY <2>1 DEF CapIds
      <3>2. ServerAt(exports'[c], e) \in Objects
        BY <3>1, ServerAtType
      <3> QED
        BY <2>1, <3>1, <3>2 DEF send_answer, RepliesOK
    <2>2. CASE ~(ok /\ e # NoCap)
      BY <2>2 DEF send_answer, RepliesOK
    <2> QED
      BY <2>1, <2>2
  <1> QED
    BY <1>1, <1>2, <1>3 DEF RepliesOK

LEMMA SetBootstrapType ==
  ASSUME TypeOK, NEW c \in Conns, NEW s \in Objects, capn_rpc_set_bootstrap(c, s)
  PROVE  TypeOK'
  BY DEF TypeOK, capn_rpc_set_bootstrap, peer

LEMMA ExportVineType ==
  ASSUME TypeOK, NEW c \in Conns, NEW s \in Servers, export_vine(c, s)
  PROVE  TypeOK'
  <1>1. PICK e \in capn_rpc_export(c, s) :
          /\ exports' = [exports EXCEPT ![c][e] = Referenced(@, s)]
          /\ refs' = [refs EXCEPT ![c][e][s] = @ + 1]
    BY DEF export_vine
  <1>2. e \in ExportIds
    BY ExportFound
  <1>3. exports' \in [Conns -> [ExportIds -> Exports]]
    BY <1>1, <1>2, ReferencedType DEF TypeOK
  <1>4. refs' \in [Conns -> [ExportIds -> [Objects -> Nat]]]
    <2>1. s \in Objects
      BY DEF Objects
    <2> QED
      BY <1>1, <1>2, <2>1 DEF TypeOK
  <1> QED
    BY <1>3, <1>4 DEF TypeOK, export_vine

LEMMA IntroductionDoneType ==
  ASSUME TypeOK, NEW c \in Conns, NEW n \in Nonces, NEW ok \in BOOLEAN,
         capn_rpc_introduction_done(c, n, ok)
  PROVE  TypeOK'
  <1>1. PICK i \in First({x \in Used(introductions[c]) :
                            introductions[c][x].nonce = n}) :
          /\ introductions' = [introductions EXCEPT ![c][i] = Free]
          /\ vines' = IF ok
                      THEN [vines EXCEPT ![c][introductions[c][i].vine] = @ - 1]
                      ELSE vines
    BY DEF capn_rpc_introduction_done
  <1>2. i \in IntroductionSlots /\ introductions[c][i].used = 1
    BY FirstIn DEF Used, TypeOK
  <1>3. introductions[c][i].vine \in Vines
    BY <1>2 DEF TypeOK, Introductions, Free
  <1>4. introductions' \in [Conns -> [IntroductionSlots -> Introductions]]
    BY <1>1, <1>2 DEF TypeOK, Introductions
  <1>5. vines' \in [Conns -> [Vines -> Int]]
    BY <1>1, <1>3 DEF TypeOK
  <1> QED
    BY <1>4, <1>5 DEF TypeOK, capn_rpc_introduction_done

LEMMA BootstrapType ==
  ASSUME TypeOK, NEW c \in Conns, NEW q \in Qids, NEW ok \in BOOLEAN,
         handle_bootstrap(c, q, ok)
  PROVE  TypeOK'
  <1> DEFINE s == bootstrap[c]
             found == IF s = NoServer THEN {} ELSE capn_rpc_export(c, s)
  <1>0. UNCHANGED <<joins, introductions, bootstrap, provisions, verdict,
                    ledger, vines>>
    BY DEF handle_bootstrap
  <1>1. CASE Reply(c, q, ok) /\ UNCHANGED exports
    <2>1. RepliesOK
      BY TypeSplit
    <2>2. RepliesOK'
      BY <1>1, <2>1, ReplyType
    <2> QED
      BY <1>0, <1>1, <2>2 DEF TypeOK, RepliesOK
  <1>2. ASSUME NEW e \in found,
               exports' = [exports EXCEPT ![c][e] = Referenced(@, s)],
               send_answer(c, q, Ask("waiting"), e, s, ok)
        PROVE  TypeOK'
    <2>1. s \in Servers /\ e \in capn_rpc_export(c, s)
      BY <1>2 DEF TypeOK, Objects
    <2>2. e \in ExportIds
      BY <2>1, ExportFound
    <2>3. exports' \in [Conns -> [ExportIds -> Exports]]
      BY <1>2, <2>1, <2>2, ReferencedType DEF TypeOK
    <2>4. RepliesOK'
      <3>1. Ask("waiting") \in Asks
        BY AskType DEF AskStates
      <3>2. e \in CapIds /\ s \in Objects
        BY <2>1, <2>2 DEF CapIds, Objects
      <3>3. RepliesOK /\ send_answer(c, q, Ask("waiting"), e, s, ok)
        BY <1>2, TypeSplit
      <3> HIDE DEF s, found
      <3> QED
        BY <2>3, <3>1, <3>2, <3>3, SendAnswerType
    <2> QED
      BY <1>0, <2>3, <2>4 DEF TypeOK, RepliesOK
  <1> QED
    BY <1>1, <1>2 DEF handle_bootstrap

LEMMA NoteIntroductionsType ==
  ASSUME TypeOK, NEW c \in Conns, NEW d \in Descriptors, note_introductions(c, d)
  PROVE  /\ introductions' \in [Conns -> [IntroductionSlots -> Introductions]]
         /\ vines' \in [Conns -> [Vines -> Int]]
  <1>1. CASE d.kind = "none"
    BY <1>1 DEF note_introductions, TypeOK
  <1>2. CASE d.kind # "none"
    <2>1. d.nonce \in Nonces /\ d.vine \in Vines
      BY <1>2 DEF Descriptors
    <2> DEFINE slot == [used |-> 1, nonce |-> d.nonce, vine |-> d.vine]
               where == First(FreeSlots(introductions[c]))
    <2>2. slot \in Introductions
      BY <2>1 DEF Introductions
    <2>3. introductions[c] \in [IntroductionSlots -> Introductions]
      BY DEF TypeOK
    <2>4. Noted(introductions[c], d) \in [IntroductionSlots -> Introductions]
      <3>1. Noted(introductions[c], d) = Put(introductions[c], where, slot)
        BY DEF Noted
      <3> HIDE DEF slot, where
      <3> QED
        BY <2>2, <2>3, <3>1 DEF Put
    <2>5. introductions' = [introductions EXCEPT ![c] = Noted(@, d)]
          /\ vines' = [vines EXCEPT ![c][d.vine] = @ + 1]
      BY <1>2 DEF note_introductions
    <2> QED
      BY <2>1, <2>4, <2>5 DEF TypeOK
  <1> QED
    BY <1>1, <1>2

LEMMA CallType ==
  ASSUME TypeOK, NEW c \in Conns, NEW q \in Qids, NEW t, NEW d \in Descriptors,
         NEW outcome, NEW ok \in BOOLEAN, handle_call(c, q, t, d, outcome, ok)
  PROVE  TypeOK'
  <1>1. /\ introductions' \in [Conns -> [IntroductionSlots -> Introductions]]
        /\ vines' \in [Conns -> [Vines -> Int]]
    BY NoteIntroductionsType DEF handle_call
  <1>2. RepliesOK
    BY TypeSplit
  <1>3. RepliesOK'
    <2>1. CASE Reply(c, q, ok) \/ Reply(c, q, FALSE)
      BY <1>2, <2>1, ReplyType
    <2>2. CASE send_answer(c, q, Ask("waiting"), NoCap, NoServer, ok)
      <3>1. Ask("waiting") \in Asks
        BY AskType DEF AskStates
      <3>2. NoCap \in CapIds /\ NoServer \in Objects
        BY DEF CapIds, Objects
      <3>3. exports' \in [Conns -> [ExportIds -> Exports]]
        BY DEF handle_call, TypeOK
      <3> QED
        BY <1>2, <2>2, <3>1, <3>2, <3>3, SendAnswerType
    <2> QED
      BY <2>1, <2>2 DEF handle_call
  <1> QED
    BY <1>1, <1>3 DEF TypeOK, RepliesOK, handle_call

LEMMA FinishType ==
  ASSUME TypeOK, NEW c \in Conns, NEW q \in Qids, NEW rel \in BOOLEAN,
         handle_finish(c, q, rel)
  PROVE  TypeOK'
  <1> DEFINE a == asks[c][q]
  <1>1. a \in Asks
    BY DEF TypeOK
  <1>2. answers' \in [Conns -> [AnswerSlots -> Answers]]
    <2>1. answer_drop(c, q) \in [AnswerSlots -> Answers]
      BY PutType DEF TypeOK, answer_drop, Answers
    <2> QED
      BY <2>1 DEF TypeOK, handle_finish
  <1>3. asks' \in [Conns -> [Qids -> Asks]]
    <2>1. Ask(IF a.st = "waiting" THEN "cancelled" ELSE "idle") \in Asks
      BY AskType DEF AskStates
    <2> QED
      BY <2>1 DEF TypeOK, handle_finish
  <1>4. refs' \in [Conns -> [ExportIds -> [Objects -> Nat]]]
    <2>1. CASE rel
      <3>1. a.id # NoCap /\ refs[c][a.id][a.server] > 0
            /\ refs' = [refs EXCEPT ![c][a.id][a.server] = @ - 1]
        BY <2>1 DEF handle_finish
      <3>2. a.id \in ExportIds /\ a.server \in Objects
        BY <1>1, <3>1 DEF Asks, CapIds
      <3>3. refs[c][a.id][a.server] - 1 \in Nat
        BY <3>1, <3>2 DEF TypeOK
      <3> HIDE DEF a
      <3> QED
        BY <3>1, <3>2, <3>3 DEF TypeOK
    <2>2. CASE ~rel
      BY <2>2 DEF TypeOK, handle_finish
    <2> QED
      BY <2>1, <2>2
  <1> QED
    BY <1>2, <1>3, <1>4 DEF TypeOK, handle_finish

LEMMA ReleaseType ==
  ASSUME TypeOK, NEW c \in Conns, NEW e \in ExportIds, NEW s \in Servers,
         NEW n \in 1..refs[c][e][s], handle_release(c, e, s, n)
  PROVE  TypeOK'
  <1>1. s \in Objects
    BY DEF Objects
  <1>2. n \in Nat /\ refs[c][e][s] - n \in Nat
    BY <1>1 DEF TypeOK
  <1>3. exports' \in [Conns -> [ExportIds -> Exports]]
    BY <1>2, ReleasedType DEF TypeOK, handle_release
  <1>4. refs' \in [Conns -> [ExportIds -> [Objects -> Nat]]]
    BY <1>1, <1>2 DEF TypeOK, handle_release
  <1> QED
    BY <1>3, <1>4 DEF TypeOK, handle_release

\* A provision is written from an export in use, so it names a real object.
LEMMA ProvideType ==
  ASSUME TypeOK, NEW c \in Conns, NEW q \in Qids, NEW t, NEW n \in Nonces,
         NEW named \in BOOLEAN, NEW ok \in BOOLEAN,
         handle_provide(c, q, t, n, named, ok)
  PROVE  TypeOK'
  <1>1. RepliesOK
    BY TypeSplit
  <1>2. CASE Reply(c, q, ok) /\ UNCHANGED <<exports, provisions, ledger>>
    <2>1. RepliesOK'
      BY <1>1, <1>2, ReplyType
    <2> QED
      BY <1>2, <2>1 DEF TypeOK, RepliesOK, handle_provide
  <1>3. ASSUME NEW e \in resolve_target(c, t),
               NEW i \in First(FreeSlots(provisions)),
               provisions' = [provisions EXCEPT ![i] =
                 [used |-> 1, nonce |-> n, server |-> exports[c][e].server,
                  export_id |-> e, question_id |-> q,
                  embargoed |-> FALSE, accept_question_id |-> q,
                  from |-> c, acceptor |-> c]],
               exports' = [exports EXCEPT ![c][e].refcount = @ + 1],
               ledger' = [ledger EXCEPT ![n] = @ + 1],
               send_answer(c, q, Ask("waiting"), NoCap, NoServer, ok)
        PROVE  TypeOK'
    <2>1. e \in ExportIds /\ exports[c][e].used = 1
      BY <1>3, TargetFound
    <2>2. exports[c][e].server \in Servers /\ exports[c][e].refcount \in Nat \ {0}
      BY <2>1 DEF TypeOK, Exports, Free
    <2>3. exports' \in [Conns -> [ExportIds -> Exports]]
      <3>1. [exports[c][e] EXCEPT !.refcount = @ + 1] \in Exports
        BY <2>1, CountedType DEF TypeOK
      <3> QED
        BY <1>3, <2>1, <3>1 DEF TypeOK
    <2>4. provisions' \in [ProvisionSlots -> Provisions]
      <3>1. [used |-> 1, nonce |-> n, server |-> exports[c][e].server,
             export_id |-> e, question_id |-> q,
             embargoed |-> FALSE, accept_question_id |-> q,
             from |-> c, acceptor |-> c] \in Provisions
        BY <2>1, <2>2 DEF Provisions
      <3> QED
        BY <1>3, <3>1 DEF TypeOK
    <2>5. ledger' \in [Nonces -> Int]
      BY <1>3 DEF TypeOK
    <2>6. RepliesOK'
      <3>1. Ask("waiting") \in Asks
        BY AskType DEF AskStates
      <3>2. NoCap \in CapIds /\ NoServer \in Objects
        BY DEF CapIds, Objects
      <3> QED
        BY <1>1, <1>3, <2>3, <3>1, <3>2, SendAnswerType
    <2> QED
      BY <2>3, <2>4, <2>5, <2>6 DEF TypeOK, RepliesOK, handle_provide
  <1> QED
    BY <1>2, <1>3 DEF handle_provide

\* An Accept claims an unclaimed provision; an embargoed claim rewrites it.
LEMMA ClaimedType ==
  ASSUME NEW slot \in Provisions, slot.used = 1, NEW c \in Conns, NEW q \in Qids,
         NEW e \in ExportIds, NEW embargo \in BOOLEAN
  PROVE  Claimed(slot, c, q, e, embargo) \in Provisions
  BY DEF Claimed, Provisions, Free

LEMMA AcceptType ==
  ASSUME TypeOK, NEW c \in Conns, NEW q \in Qids, NEW n, NEW embargo \in BOOLEAN,
         NEW ok \in BOOLEAN, handle_accept(c, q, n, embargo, ok)
  PROVE  TypeOK'
  <1>1. RepliesOK
    BY TypeSplit
  <1>2. CASE Reply(c, q, ok) /\ UNCHANGED <<exports, provisions, ledger>>
    <2>1. RepliesOK'
      BY <1>1, <1>2, ReplyType
    <2> QED
      BY <1>2, <2>1 DEF TypeOK, RepliesOK, handle_accept
  <1>3. ASSUME NEW i \in Claimable(n),
               NEW e \in capn_rpc_export(c, provisions[i].server),
               exports' = [exports EXCEPT ![c][e] =
                             Referenced(@, provisions[i].server)],
               ledger' = [ledger EXCEPT ![n] = @ - 1],
               provisions' = [provisions EXCEPT ![i] = Claimed(@, c, q, e, embargo)],
               \/ /\ asks' = [asks EXCEPT ![c][q] = Ask("waiting")]
                  /\ UNCHANGED <<answers, refs>>
               \/ send_answer(c, q, Ask("waiting"), e, provisions[i].server, ok)
        PROVE  TypeOK'
    <2>1. i \in ProvisionSlots /\ provisions[i].used = 1
          /\ provisions[i].nonce = n
      BY <1>3, FirstIn DEF Claimable, Used, TypeOK
    <2>2. provisions[i] \in Provisions /\ provisions[i].server \in Servers
          /\ n \in Nonces
      BY <2>1 DEF TypeOK, Provisions, Free
    <2>3. e \in ExportIds
      BY <1>3, <2>2, ExportFound
    <2>4. exports' \in [Conns -> [ExportIds -> Exports]]
      BY <1>3, <2>2, <2>3, ReferencedType DEF TypeOK
    <2>5. provisions' \in [ProvisionSlots -> Provisions]
      BY <1>3, <2>1, <2>2, <2>3, ClaimedType DEF TypeOK
    <2>6. ledger' \in [Nonces -> Int]
      BY <1>3, <2>2 DEF TypeOK
    <2>7. RepliesOK'
      <3>1. Ask("waiting") \in Asks
        BY AskType DEF AskStates
      <3>2. e \in CapIds /\ provisions[i].server \in Objects
        BY <2>2, <2>3 DEF CapIds, Objects
      <3>3. CASE asks' = [asks EXCEPT ![c][q] = Ask("waiting")]
                 /\ UNCHANGED <<answers, refs>>
        BY <3>1, <3>3 DEF TypeOK, RepliesOK
      <3>4. CASE send_answer(c, q, Ask("waiting"), e, provisions[i].server, ok)
        BY <1>1, <2>4, <3>1, <3>2, <3>4, SendAnswerType
      <3> QED
        BY <1>3, <3>3, <3>4
    <2> QED
      BY <2>4, <2>5, <2>6, <2>7 DEF TypeOK, RepliesOK, handle_accept
  <1> QED
    BY <1>2, <1>3 DEF handle_accept

LEMMA DisembargoType ==
  ASSUME TypeOK, NEW c \in Conns, NEW pq \in Qids, NEW ok \in BOOLEAN,
         release_provide_embargo(c, pq, ok)
  PROVE  TypeOK'
  <1>1. CASE UNCHANGED <<exports, answers, provisions, asks, refs>>
    BY <1>1 DEF TypeOK, release_provide_embargo
  <1>2. ASSUME NEW i \in Used(provisions),
               provisions' = [provisions EXCEPT ![i] = Free],
               UNCHANGED exports,
               send_answer(c, provisions[i].accept_question_id,
                           asks[c][provisions[i].accept_question_id],
                           provisions[i].export_id, provisions[i].server, ok)
        PROVE  TypeOK'
    <2>1. i \in ProvisionSlots /\ provisions[i].used = 1
      BY <1>2 DEF Used, TypeOK
    <2>2. /\ provisions[i].accept_question_id \in Qids
          /\ provisions[i].export_id \in CapIds
          /\ provisions[i].server \in Objects
      BY <2>1 DEF TypeOK, Provisions, Free, CapIds, Objects
    <2>3. asks[c][provisions[i].accept_question_id] \in Asks
      BY <2>2 DEF TypeOK
    <2>4. RepliesOK /\ exports' \in [Conns -> [ExportIds -> Exports]]
      BY <1>2, TypeSplit DEF TypeOK
    <2>5. RepliesOK'
      BY <1>2, <2>2, <2>3, <2>4, SendAnswerType
    <2>6. provisions' \in [ProvisionSlots -> Provisions]
      BY <1>2 DEF TypeOK, Provisions
    <2> QED
      BY <2>4, <2>5, <2>6 DEF TypeOK, RepliesOK, release_provide_embargo
  <1> QED
    <2>1. First({i \in Used(provisions) : provisions[i].embargoed
                   /\ provisions[i].question_id = pq}) \subseteq Used(provisions)
      BY FirstIn
    <2> QED
      BY <1>1, <1>2, <2>1 DEF release_provide_embargo, Question_answered

-----------------------------------------------------------------------------
\* Join.  The last part to arrive resolved in this very step, so when all
\* parts agree the export they agree on is in use.

LEMMA KeyPartType ==
  ASSUME NEW k \in KeyParts, WellFormed(k)
  PROVE  /\ k.joinId \in JoinIds /\ k.partCount \in Nat /\ k.partNum \in PartNums
         /\ 0 \in 0..(k.partCount - 1) /\ k.partNum \in 0..(k.partCount - 1)
         /\ 0..(k.partCount - 1) \subseteq PartNums
  BY SizesAssumption DEF KeyParts, WellFormed, NoKey, PartNums

\* A set's parts with the new one written in.
LEMMA WithPartType ==
  ASSUME TypeOK, NEW c \in Conns, NEW i \in JoinSlots, NEW k \in KeyParts,
         WellFormed(k), NEW q \in Qids, NEW t
  PROVE  LET parts == WithPart(c, i, k, q, resolve_target(c, t))
         IN  /\ parts \in [PartNums -> Parts]
             /\ parts[k.partNum].eid # NoCap =>
                  /\ parts[k.partNum].eid \in ExportIds
                  /\ exports[c][parts[k.partNum].eid].used = 1
  <1> DEFINE target == resolve_target(c, t)
             seen == IF joins[c][i].used = 1 THEN joins[c][i].parts
                                             ELSE [n \in PartNums |-> Free]
             eid == IF target = {} THEN NoCap ELSE CHOOSE e \in target : TRUE
             obj == IF target = {} THEN NoServer ELSE ServerAt(exports[c], eid)
             new == [used |-> 1, qid |-> q, eid |-> eid, obj |-> obj]
  <1>1. k.partNum \in PartNums
    BY KeyPartType
  <1>2. seen \in [PartNums -> Parts]
    <2>1. joins[c][i] \in Joins
      BY DEF TypeOK
    <2>2. joins[c][i].used = 1 => joins[c][i].parts \in [PartNums -> Parts]
      BY <2>1 DEF Joins, Free
    <2> QED
      BY <2>2 DEF Parts
  <1>3. target # {} => eid \in ExportIds /\ exports[c][eid].used = 1
    BY TargetFound
  <1>4. eid \in CapIds /\ obj \in Objects
    <2>1. CASE target = {}
      BY <2>1 DEF CapIds, Objects
    <2>2. CASE target # {}
      <3>1. exports[c] \in [ExportIds -> Exports]
        BY DEF TypeOK
      <3>2. ServerAt(exports[c], eid) \in Objects
        BY <1>3, <2>2, <3>1, ServerAtType
      <3> QED
        BY <1>3, <2>2, <3>2 DEF CapIds
    <2> QED
      BY <2>1, <2>2
  <1>5. new \in Parts
    BY <1>4 DEF Parts
  <1>6. WithPart(c, i, k, q, target) = [seen EXCEPT ![k.partNum] = new]
    BY DEF WithPart
  <1>7. new.eid = eid /\ (eid # NoCap => target # {})
    OBVIOUS
  <1> HIDE DEF target, seen, eid, obj, new
  <1>8. [seen EXCEPT ![k.partNum] = new] \in [PartNums -> Parts]
        /\ [seen EXCEPT ![k.partNum] = new][k.partNum] = new
    BY <1>1, <1>2, <1>5
  <1> QED
    BY <1>3, <1>6, <1>7, <1>8 DEF target

LEMMA JoinCompleteType ==
  ASSUME TypeOK, NEW c \in Conns, NEW i \in JoinSlots, NEW k \in KeyParts,
         WellFormed(k), NEW q \in Qids, NEW parts \in [PartNums -> Parts],
         parts[k.partNum].eid # NoCap =>
           /\ parts[k.partNum].eid \in ExportIds
           /\ exports[c][parts[k.partNum].eid].used = 1,
         Used(parts) = 0..(k.partCount - 1),
         NEW got \in [PartNums -> BOOLEAN],
         join_complete(c, i, parts, k, q, got)
  PROVE  /\ exports' \in [Conns -> [ExportIds -> Exports]]
         /\ joins' \in [Conns -> [JoinSlots -> Joins]]
         /\ asks' \in [Conns -> [Qids -> Asks]]
         /\ refs' \in [Conns -> [ExportIds -> [Objects -> Nat]]]
         /\ verdict' \in [Conns -> [same: BOOLEAN, objs: SUBSET Objects]]
  <1> DEFINE nums == 0..(k.partCount - 1)
             first == parts[0].eid
             same == SameObject(parts, k.partCount)
             before(x) == IF x = q THEN Ask("waiting") ELSE asks[c][x]
             reply(n) == IF same /\ n = 0
                         THEN Returned(before(parts[n].qid), first, parts[n].obj)
                         ELSE Returned(before(parts[n].qid), NoCap, NoServer)
             ans == [x \in Qids |->
                       IF \E n \in nums : parts[n].qid = x /\ got[n]
                       THEN reply(CHOOSE n \in nums : parts[n].qid = x /\ got[n])
                       ELSE before(x)]
  <1>1. /\ joins' = [joins EXCEPT ![c][i] = AnsweredSlot(parts, k)]
        /\ exports' = IF same THEN [exports EXCEPT ![c][first].refcount = @ + 1]
                              ELSE exports
        /\ asks' = [asks EXCEPT ![c] = ans]
        /\ refs' = IF same /\ got[0]
                   THEN [refs EXCEPT ![c][first][ServerAt(exports[c], first)] = @ + 1]
                   ELSE refs
        /\ verdict' = [verdict EXCEPT ![c] =
                         [same |-> same, objs |-> {parts[n].obj : n \in nums}]]
    BY DEF join_complete
  <1>2. \A n \in nums : /\ n \in PartNums
                        /\ parts[n].qid \in Qids
                        /\ parts[n].eid \in CapIds
                        /\ parts[n].obj \in Objects
    <2>1. ASSUME NEW n \in nums
          PROVE  n \in PartNums /\ parts[n] \in Parts /\ parts[n].used = 1
      BY KeyPartType DEF Used
    <2> QED
      BY <2>1 DEF Parts, Free
  <1>3. same => first \in ExportIds /\ exports[c][first].used = 1
    <2>1. k.partNum \in nums /\ k.partNum \in Nat
      BY KeyPartType DEF PartNums
    <2>2. same => first # NoCap /\ parts[k.partNum].eid = first
      BY <2>1 DEF SameObject
    <2> QED
      BY <2>2
  <1>4. same \in BOOLEAN
    BY DEF SameObject
  <1>5. 0 \in nums
    BY KeyPartType
  <1>6. Ask("waiting") \in Asks
    BY AskType DEF AskStates
  <1>7. \A x \in Qids : before(x) \in Asks
    BY <1>6 DEF TypeOK
  <1>8. ans \in [Qids -> Asks]
    <2>1. NoCap \in CapIds /\ NoServer \in Objects
      BY DEF CapIds, Objects
    <2>2. ASSUME NEW n \in nums
          PROVE  reply(n) \in Asks
      <3>1. before(parts[n].qid) \in Asks
        BY <1>2, <1>7
      <3>2. n = 0 => first \in CapIds /\ parts[n].obj \in Objects
        BY <1>2, <1>5
      <3> HIDE DEF before, first, same
      <3>3. Returned(before(parts[n].qid), NoCap, NoServer) \in Asks
        BY <2>1, <3>1, ReturnedType
      <3>4. n = 0 => Returned(before(parts[n].qid), first, parts[n].obj) \in Asks
        BY <3>1, <3>2, ReturnedType
      <3> QED
        BY <3>3, <3>4
    <2> HIDE DEF before, reply
    <2> QED
      BY <1>7, <2>2
  <1>9. joins' \in [Conns -> [JoinSlots -> Joins]]
    BY <1>1 DEF TypeOK, AnsweredSlot, Joins
  <1>10. exports' \in [Conns -> [ExportIds -> Exports]]
    <2>1. CASE same
      <3>1. [exports[c][first] EXCEPT !.refcount = @ + 1] \in Exports
        BY <1>3, <2>1, CountedType DEF TypeOK
      <3> HIDE DEF first, same
      <3> QED
        BY <1>1, <1>3, <2>1, <3>1 DEF TypeOK
    <2>2. CASE ~same
      BY <1>1, <2>2 DEF TypeOK
    <2> QED
      BY <2>1, <2>2
  <1>11. refs' \in [Conns -> [ExportIds -> [Objects -> Nat]]]
    <2>1. CASE same /\ got[0]
      <3>1. exports[c] \in [ExportIds -> Exports]
        BY DEF TypeOK
      <3>2. first \in ExportIds /\ ServerAt(exports[c], first) \in Objects
        BY <1>3, <2>1, <3>1, ServerAtType
      <3>3. PICK o \in Objects : o = ServerAt(exports[c], first)
        BY <3>2
      <3>4. PICK e \in ExportIds : e = first
        BY <3>2
      <3>5. refs' = [refs EXCEPT ![c][e][o] = @ + 1]
        BY <1>1, <2>1, <3>3, <3>4
      <3>6. refs \in [Conns -> [ExportIds -> [Objects -> Nat]]]
        BY DEF TypeOK
      <3>7. refs[c][e] \in [Objects -> Nat]
        BY <3>6
      <3>8. [refs[c][e] EXCEPT ![o] = @ + 1] \in [Objects -> Nat]
        BY <3>7
      <3> HIDE DEF first, same
      <3> QED
        BY <3>5, <3>6, <3>8
    <2>2. CASE ~(same /\ got[0])
      BY <1>1, <2>2 DEF TypeOK
    <2> QED
      BY <2>1, <2>2
  <1>12. asks' \in [Conns -> [Qids -> Asks]]
    <2> HIDE DEF ans
    <2> QED
      BY <1>1, <1>8 DEF TypeOK
  <1>13. verdict' \in [Conns -> [same: BOOLEAN, objs: SUBSET Objects]]
    <2> DEFINE objs == {parts[n].obj : n \in nums}
    <2>1. objs \in SUBSET Objects
      BY <1>2
    <2> HIDE DEF objs, same
    <2>2. [same |-> same, objs |-> objs] \in [same: BOOLEAN, objs: SUBSET Objects]
      BY <1>4, <2>1, Zenon
    <2> QED
      BY <1>1, <2>2 DEF TypeOK, objs
  <1> QED
    BY <1>9, <1>10, <1>11, <1>12, <1>13

\* The slot of a set is one of this connection's.
LEMMA JoinSlotFound ==
  ASSUME TypeOK, NEW c \in Conns, NEW k
  PROVE  join_slot_find(c, k) \subseteq JoinSlots
  BY FirstIn DEF join_slot_find, Used, FreeSlots, TypeOK

LEMMA JoinType ==
  ASSUME TypeOK, NEW c \in Conns, NEW q \in Qids, NEW t, NEW k \in KeyParts,
         NEW got \in [PartNums -> BOOLEAN], handle_join(c, q, t, k, got)
  PROVE  TypeOK'
  <1> DEFINE slots == IF WellFormed(k) THEN join_slot_find(c, k) ELSE {}
             parts(i) == WithPart(c, i, k, q, resolve_target(c, t))
  <1>1. CASE Reply(c, q, got[0]) /\ UNCHANGED <<exports, joins, verdict>>
    <2>1. got[0] \in BOOLEAN
      BY SizesAssumption DEF PartNums
    <2>2. RepliesOK
      BY TypeSplit
    <2>3. RepliesOK'
      BY <1>1, <2>1, <2>2, ReplyType
    <2> QED
      BY <1>1, <2>3 DEF TypeOK, RepliesOK, handle_join
  <1>2. ASSUME NEW i \in slots, UNCHANGED answers,
               IF Used(parts(i)) = 0..(k.partCount - 1)
               THEN join_complete(c, i, parts(i), k, q, got)
               ELSE /\ joins' = [joins EXCEPT ![c][i] =
                          [used |-> 1, join_id |-> k.joinId,
                           part_count |-> k.partCount, parts |-> parts(i)]]
                    /\ asks' = [asks EXCEPT ![c][q] = Ask("waiting")]
                    /\ UNCHANGED <<exports, refs, verdict>>
        PROVE  TypeOK'
    <2>1. WellFormed(k) /\ i \in JoinSlots
      BY <1>2, JoinSlotFound
    <2>2. /\ parts(i) \in [PartNums -> Parts]
          /\ parts(i)[k.partNum].eid # NoCap =>
               /\ parts(i)[k.partNum].eid \in ExportIds
               /\ exports[c][parts(i)[k.partNum].eid].used = 1
      BY <2>1, WithPartType
    <2> HIDE DEF parts
    <2>3. CASE Used(parts(i)) = 0..(k.partCount - 1)
      <3>1. join_complete(c, i, parts(i), k, q, got)
        BY <1>2, <2>3
      <3>2. /\ exports' \in [Conns -> [ExportIds -> Exports]]
            /\ joins' \in [Conns -> [JoinSlots -> Joins]]
            /\ asks' \in [Conns -> [Qids -> Asks]]
            /\ refs' \in [Conns -> [ExportIds -> [Objects -> Nat]]]
            /\ verdict' \in [Conns -> [same: BOOLEAN, objs: SUBSET Objects]]
        BY <2>1, <2>2, <2>3, <3>1, JoinCompleteType
      <3> QED
        BY <1>2, <3>2 DEF TypeOK, handle_join
    <2>4. CASE Used(parts(i)) # 0..(k.partCount - 1)
      <3> DEFINE slot == [used |-> 1, join_id |-> k.joinId,
                          part_count |-> k.partCount, parts |-> parts(i)]
      <3>1. slot \in Joins
        BY <2>1, <2>2, KeyPartType DEF Joins
      <3>2. Ask("waiting") \in Asks
        BY AskType DEF AskStates
      <3>3. /\ joins' = [joins EXCEPT ![c][i] = slot]
            /\ asks' = [asks EXCEPT ![c][q] = Ask("waiting")]
            /\ UNCHANGED <<exports, refs, verdict>>
        BY <1>2, <2>4
      <3> HIDE DEF slot
      <3>4. /\ joins' \in [Conns -> [JoinSlots -> Joins]]
            /\ asks' \in [Conns -> [Qids -> Asks]]
        BY <2>1, <3>1, <3>2, <3>3 DEF TypeOK
      <3> QED
        BY <1>2, <3>3, <3>4 DEF TypeOK, handle_join
    <2> QED
      BY <2>3, <2>4
  <1> QED
    BY <1>1, <1>2 DEF handle_join

-----------------------------------------------------------------------------
LEMMA InitType == Init => TypeOK
  BY DEF Init, TypeOK, Exports, Answers, Joins, Introductions, Provisions, Free,
         Objects, Asks, AskStates, Ask, CapIds

\* Whatever the peers and the application do, a step keeps the tables typed.
LEMMA NextType == TypeOK /\ [Next]_vars => TypeOK'
  <1> SUFFICES ASSUME TypeOK, [Next]_vars PROVE TypeOK'
    OBVIOUS
  <1>1. CASE UNCHANGED vars
    BY <1>1 DEF TypeOK, vars
  <1>2. ASSUME NEW c \in Conns, Application(c) PROVE TypeOK'
    BY <1>2, SetBootstrapType, ExportVineType, IntroductionDoneType,
       ValuesAssumption DEF Application
  <1>3. ASSUME NEW c \in Conns, Level1(c) PROVE TypeOK'
    BY <1>3, BootstrapType, CallType, FinishType, ReleaseType, ValuesAssumption
       DEF Level1
  <1>4. ASSUME NEW c \in Conns, Level3(c) PROVE TypeOK'
    BY <1>4, ProvideType, AcceptType, DisembargoType, ValuesAssumption DEF Level3
  <1>5. ASSUME NEW c \in Conns, Level4(c) PROVE TypeOK'
    BY <1>5, JoinType, ValuesAssumption DEF Level4
  <1> QED
    BY <1>1, <1>2, <1>3, <1>4, <1>5 DEF Next

\* The tables of lib/capn-rpc.c stay within their declared shape: no slot is
\* half-written, no count below what its flag says, no index past its table.
THEOREM TypeCorrect == Spec => []TypeOK
  BY InitType, NextType, PTL DEF Spec

-----------------------------------------------------------------------------
(* The export table and the peers' imports. *)

\* An export is found or made for s, and the peer may be told of it.
Taken(c, e, s) ==
  /\ e \in capn_rpc_export(c, s)
  /\ exports' = [exports EXCEPT ![c][e] = Referenced(@, s)]
  /\ refs' \in {refs, [refs EXCEPT ![c][e][s] = @ + 1]}

\* An export in use is referenced once more, and the peer may be told of it.
Counted(c, e) ==
  /\ e \in ExportIds /\ exports[c][e].used = 1
  /\ exports' = [exports EXCEPT ![c][e].refcount = @ + 1]
  /\ refs' \in {refs, [refs EXCEPT ![c][e][exports[c][e].server] = @ + 1]}

\* References the peer held are given back to the vat.
GivenBack(c, e, s, n) ==
  /\ n \in 1..refs[c][e][s]
  /\ SwapWhileJoining \/ ~Joining(c, e)
  /\ refs' = [refs EXCEPT ![c][e][s] = @ - n]
  /\ exports' = [exports EXCEPT ![c][e] = Released(@, n)]

\* A reference the peer held is gone without the vat counting it
\* (Finish.releaseResultCaps).
Dropped(c, e, s) ==
  /\ e \in ExportIds /\ s \in Objects /\ refs[c][e][s] > 0
  /\ refs' = [refs EXCEPT ![c][e][s] = @ - 1]
  /\ UNCHANGED exports

\* What a step does to the two tables.
Moves ==
  \/ UNCHANGED <<exports, refs>>
  \/ \E c \in Conns, s \in Servers : \E e \in ExportIds : Taken(c, e, s)
  \/ \E c \in Conns : \E e \in ExportIds : Counted(c, e)
  \/ \E c \in Conns, e \in ExportIds, s \in Servers : \E n \in Nat \ {0} :
       GivenBack(c, e, s, n)
  \/ \E c \in Conns, e \in ExportIds, s \in Objects : Dropped(c, e, s)

-----------------------------------------------------------------------------
\* The slot an export was taken through names the object taken.
LEMMA ReferencedServer ==
  ASSUME TypeOK, NEW c \in Conns, NEW s \in Servers,
         NEW e \in capn_rpc_export(c, s),
         exports' = [exports EXCEPT ![c][e] = Referenced(@, s)]
  PROVE  ServerAt(exports'[c], e) = s
  <1>1. e \in ExportIds /\ (exports[c][e].used = 1 => exports[c][e].server = s)
    BY ExportFound
  <1>2. exports[c][e] \in Exports
    BY <1>1 DEF TypeOK
  <1>3. Referenced(exports[c][e], s).used = 1 /\ Referenced(exports[c][e], s).server = s
    BY <1>1, <1>2 DEF Referenced, Exports, Free
  <1>4. exports'[c][e] = Referenced(exports[c][e], s)
    BY <1>1 DEF TypeOK
  <1> QED
    BY <1>3, <1>4 DEF ServerAt

\* A Return that names the export just taken hands over that object.
LEMMA TakenSent ==
  ASSUME TypeOK, NEW c \in Conns, NEW q \in Qids, NEW a, NEW s \in Servers,
         NEW e \in capn_rpc_export(c, s), NEW ok \in BOOLEAN,
         exports' = [exports EXCEPT ![c][e] = Referenced(@, s)],
         send_answer(c, q, a, e, s, ok)
  PROVE  Moves
  <1>1. e \in ExportIds
    BY ExportFound
  <1>2. ServerAt(exports'[c], e) = s
    BY ReferencedServer
  <1>3. refs' \in {refs, [refs EXCEPT ![c][e][s] = @ + 1]}
    BY <1>2 DEF send_answer
  <1> QED
    BY <1>1, <1>3 DEF Moves, Taken

LEMMA ApplicationMoves ==
  ASSUME TypeOK, NEW c \in Conns, Application(c) PROVE Moves
  <1>1. ASSUME NEW s \in Objects, capn_rpc_set_bootstrap(c, s) PROVE Moves
    BY <1>1 DEF capn_rpc_set_bootstrap, peer, Moves
  <1>2. ASSUME NEW s \in Servers, export_vine(c, s) PROVE Moves
    BY <1>2, ExportFound DEF export_vine, Moves, Taken
  <1>3. ASSUME NEW n \in Nonces, NEW ok \in Sends, capn_rpc_introduction_done(c, n, ok)
        PROVE  Moves
    BY <1>3 DEF capn_rpc_introduction_done, Moves
  <1> QED
    BY <1>1, <1>2, <1>3 DEF Application

LEMMA BootstrapMoves ==
  ASSUME TypeOK, NEW c \in Conns, NEW q \in Qids, NEW ok \in BOOLEAN,
         handle_bootstrap(c, q, ok)
  PROVE  Moves
  <1> DEFINE s == bootstrap[c]
             found == IF s = NoServer THEN {} ELSE capn_rpc_export(c, s)
  <1>1. CASE Reply(c, q, ok) /\ UNCHANGED exports
    BY <1>1 DEF Reply, Moves
  <1>2. ASSUME NEW e \in found,
               exports' = [exports EXCEPT ![c][e] = Referenced(@, s)],
               send_answer(c, q, Ask("waiting"), e, s, ok)
        PROVE  Moves
    <2>1. s \in Servers /\ e \in capn_rpc_export(c, s)
      BY <1>2 DEF TypeOK, Objects
    <2> HIDE DEF s
    <2> QED
      BY <1>2, <2>1, TakenSent
  <1> QED
    BY <1>1, <1>2 DEF handle_bootstrap

LEMMA Level1Moves ==
  ASSUME TypeOK, NEW c \in Conns, Level1(c) PROVE Moves
  <1>1. ASSUME NEW q \in Qids, NEW ok \in Sends, handle_bootstrap(c, q, ok)
        PROVE  Moves
    BY <1>1, BootstrapMoves, ValuesAssumption
  <1>2. ASSUME NEW q \in Qids, NEW t, NEW d, NEW outcome, NEW ok \in Sends,
               handle_call(c, q, t, d, outcome, ok)
        PROVE  Moves
    BY <1>2 DEF handle_call, Reply, send_answer, Moves
  <1>3. ASSUME NEW q \in Qids, NEW rel \in ReleaseResults, handle_finish(c, q, rel)
        PROVE  Moves
    <2> DEFINE a == asks[c][q]
    <2>1. CASE rel
      <3>1. a \in Asks
        BY DEF TypeOK
      <3>2. a.id # NoCap /\ refs[c][a.id][a.server] > 0
            /\ refs' = [refs EXCEPT ![c][a.id][a.server] = @ - 1]
            /\ UNCHANGED exports
        BY <1>3, <2>1 DEF handle_finish
      <3>3. a.id \in ExportIds /\ a.server \in Objects
        BY <3>1, <3>2 DEF Asks, CapIds
      <3> HIDE DEF a
      <3>4. Dropped(c, a.id, a.server)
        BY <3>2, <3>3 DEF Dropped
      <3> QED
        BY <3>3, <3>4 DEF Moves
    <2>2. CASE ~rel
      BY <1>3, <2>2 DEF handle_finish, Moves
    <2> QED
      BY <2>1, <2>2
  <1>4. ASSUME NEW e \in ExportIds, NEW s \in Servers, NEW n \in 1..refs[c][e][s],
               handle_release(c, e, s, n)
        PROVE  Moves
    <2>1. GivenBack(c, e, s, n)
      BY <1>4 DEF handle_release, GivenBack
    <2>2. n \in Nat \ {0}
      BY <1>4 DEF TypeOK, Objects
    <2> QED
      BY <2>1, <2>2 DEF Moves
  <1> QED
    BY <1>1, <1>2, <1>3, <1>4 DEF Level1

LEMMA ProvideMoves ==
  ASSUME TypeOK, NEW c \in Conns, NEW q \in Qids, NEW t, NEW n \in Nonces,
         NEW named \in BOOLEAN, NEW ok \in BOOLEAN,
         handle_provide(c, q, t, n, named, ok)
  PROVE  Moves
  <1>1. CASE Reply(c, q, ok) /\ UNCHANGED <<exports, provisions, ledger>>
    BY <1>1 DEF Reply, Moves
  <1>2. ASSUME NEW e \in resolve_target(c, t),
               exports' = [exports EXCEPT ![c][e].refcount = @ + 1],
               send_answer(c, q, Ask("waiting"), NoCap, NoServer, ok)
        PROVE  Moves
    <2>1. e \in ExportIds /\ exports[c][e].used = 1
      BY <1>2, TargetFound
    <2>2. refs' = refs
      BY <1>2 DEF send_answer
    <2> QED
      BY <1>2, <2>1, <2>2 DEF Moves, Counted
  <1> QED
    BY <1>1, <1>2 DEF handle_provide

LEMMA AcceptMoves ==
  ASSUME TypeOK, NEW c \in Conns, NEW q \in Qids, NEW n, NEW embargo \in BOOLEAN,
         NEW ok \in BOOLEAN, handle_accept(c, q, n, embargo, ok)
  PROVE  Moves
  <1>1. CASE Reply(c, q, ok) /\ UNCHANGED <<exports, provisions, ledger>>
    BY <1>1 DEF Reply, Moves
  <1>2. ASSUME NEW i \in Claimable(n),
               NEW e \in capn_rpc_export(c, provisions[i].server),
               exports' = [exports EXCEPT ![c][e] =
                             Referenced(@, provisions[i].server)],
               \/ UNCHANGED <<answers, refs>>
               \/ send_answer(c, q, Ask("waiting"), e, provisions[i].server, ok)
        PROVE  Moves
    <2>1. i \in ProvisionSlots /\ provisions[i].used = 1
      BY <1>2, FirstIn DEF Claimable, Used, TypeOK
    <2>2. provisions[i].server \in Servers
      BY <2>1 DEF TypeOK, Provisions, Free
    <2>3. CASE UNCHANGED <<answers, refs>>
      BY <1>2, <2>2, <2>3, ExportFound DEF Moves, Taken
    <2>4. CASE send_answer(c, q, Ask("waiting"), e, provisions[i].server, ok)
      BY <1>2, <2>2, <2>4, TakenSent
    <2> QED
      BY <1>2, <2>3, <2>4
  <1> QED
    BY <1>1, <1>2 DEF handle_accept

\* A lifted embargo leaves the export table alone, whatever it sends.
LEMMA Level3Moves ==
  ASSUME TypeOK, NEW c \in Conns, Level3(c)
  PROVE  Moves \/ UNCHANGED exports
  <1>1. ASSUME NEW q \in Qids, NEW t, NEW n \in Nonces, NEW named \in BOOLEAN,
               NEW ok \in Sends, handle_provide(c, q, t, n, named, ok)
        PROVE  Moves
    BY <1>1, ProvideMoves, ValuesAssumption
  <1>2. ASSUME NEW q \in Qids, NEW n, NEW embargo \in Embargoes, NEW ok \in Sends,
               handle_accept(c, q, n, embargo, ok)
        PROVE  Moves
    BY <1>2, AcceptMoves, ValuesAssumption
  <1>3. ASSUME NEW pq \in Qids, NEW ok \in Sends, release_provide_embargo(c, pq, ok)
        PROVE  UNCHANGED exports
    BY <1>3 DEF release_provide_embargo
  <1> QED
    BY <1>1, <1>2, <1>3 DEF Level3

\* A Join that succeeds counts the export its last part just resolved to.
LEMMA Level4Moves ==
  ASSUME TypeOK, NEW c \in Conns, Level4(c) PROVE Moves
  <1>1. PICK q \in Qids, t \in Targets(c), k \in KeyParts, got \in [PartNums -> Sends] :
          handle_join(c, q, t, k, got)
    BY DEF Level4
  <1> DEFINE slots == IF WellFormed(k) THEN join_slot_find(c, k) ELSE {}
             parts(i) == WithPart(c, i, k, q, resolve_target(c, t))
  <1>2. CASE Reply(c, q, got[0]) /\ UNCHANGED <<exports, joins, verdict>>
    BY <1>2 DEF Reply, Moves
  <1>3. ASSUME NEW i \in slots, join_complete(c, i, parts(i), k, q, got) PROVE Moves
    <2> DEFINE first == parts(i)[0].eid
               same == SameObject(parts(i), k.partCount)
    <2>1. WellFormed(k) /\ i \in JoinSlots
      BY <1>3, JoinSlotFound
    <2>2. parts(i)[k.partNum].eid # NoCap =>
            /\ parts(i)[k.partNum].eid \in ExportIds
            /\ exports[c][parts(i)[k.partNum].eid].used = 1
      BY <2>1, WithPartType
    <2>3. /\ exports' = IF same THEN [exports EXCEPT ![c][first].refcount = @ + 1]
                                ELSE exports
          /\ refs' = IF same /\ got[0]
                     THEN [refs EXCEPT ![c][first][ServerAt(exports[c], first)] = @ + 1]
                     ELSE refs
      BY <1>3 DEF join_complete
    <2> HIDE DEF parts
    <2>4. CASE same
      <3>1. k.partNum \in 0..(k.partCount - 1) /\ k.partNum \in Nat
        BY <2>1, KeyPartType DEF PartNums
      <3>2. first # NoCap /\ parts(i)[k.partNum].eid = first
        BY <2>4, <3>1 DEF SameObject
      <3>3. first \in ExportIds /\ exports[c][first].used = 1
        BY <2>2, <3>2
      <3>4. ServerAt(exports[c], first) = exports[c][first].server
        BY <3>3 DEF ServerAt
      <3> HIDE DEF first, same
      <3>5. Counted(c, first)
        BY <2>3, <2>4, <3>3, <3>4 DEF Counted
      <3> QED
        BY <3>3, <3>5 DEF Moves
    <2>5. CASE ~same
      BY <2>3, <2>5 DEF Moves
    <2> QED
      BY <2>4, <2>5
  <1>4. CASE UNCHANGED <<exports, refs, verdict>>
    BY <1>4 DEF Moves
  <1> QED
    BY <1>1, <1>2, <1>3, <1>4 DEF handle_join

LEMMA NextMoves ==
  ASSUME TypeOK, [Next]_vars
  PROVE  Moves \/ UNCHANGED exports
  <1>1. CASE UNCHANGED vars
    BY <1>1 DEF vars, Moves
  <1>2. CASE Next
    BY <1>2, ApplicationMoves, Level1Moves, Level3Moves, Level4Moves DEF Next
  <1> QED
    BY <1>1, <1>2

-----------------------------------------------------------------------------
\* One id per object.

\* Nothing new is named: each export in use was, and named the same object.
LEMMA NamesKept ==
  ASSUME TypeOK, TypeOK', OneIdPerServer,
         \A c \in Conns, e \in ExportIds : exports'[c][e].used = 1 =>
            exports[c][e].used = 1 /\ exports'[c][e].server = exports[c][e].server
  PROVE  OneIdPerServer'
  BY DEF OneIdPerServer, Used, TypeOK

\* capn_rpc_export reuses the id an object has, and takes a free slot only
\* for an object no slot names.
LEMMA TakenOneId ==
  ASSUME TypeOK, TypeOK', OneIdPerServer, NEW c \in Conns, NEW s \in Servers,
         NEW e \in ExportIds, Taken(c, e, s)
  PROVE  OneIdPerServer'
  <1>1. exports' = [exports EXCEPT ![c][e] = Referenced(@, s)]
        /\ e \in capn_rpc_export(c, s)
    BY DEF Taken
  <1>2. CASE exports[c][e].used = 1
    <2>1. Referenced(exports[c][e], s).server = exports[c][e].server
      BY <1>2 DEF Referenced, TypeOK, Exports, Free
    <2>2. \A d \in Conns, f \in ExportIds : exports'[d][f].used = 1 =>
            exports[d][f].used = 1 /\ exports'[d][f].server = exports[d][f].server
      BY <1>1, <1>2, <2>1 DEF TypeOK
    <2> QED
      BY <2>2, NamesKept
  <1>3. CASE exports[c][e].used # 1
    <2>1. \A f \in ExportIds : exports[c][f].used = 1 => exports[c][f].server # s
      BY <1>1, <1>3, FirstIn DEF capn_rpc_export, Used, TypeOK
    <2>2. Referenced(exports[c][e], s) = [used |-> 1, server |-> s, refcount |-> 1]
      BY <1>3 DEF Referenced
    <2>3. exports'[c][e].server = s
      BY <1>1, <2>2 DEF TypeOK
    <2>4. \A d \in Conns, f \in ExportIds :
            (d # c \/ f # e) => exports'[d][f] = exports[d][f]
      BY <1>1 DEF TypeOK
    <2>5. ASSUME NEW d \in Conns, NEW f \in ExportIds, NEW g \in ExportIds,
                 exports'[d][f].used = 1, exports'[d][g].used = 1,
                 exports'[d][f].server = exports'[d][g].server
          PROVE  f = g
      <3>1. CASE d # c \/ (f # e /\ g # e)
        <4>1. exports[d][f] = exports'[d][f] /\ exports[d][g] = exports'[d][g]
          BY <2>4, <3>1
        <4> QED
          BY <2>5, <4>1 DEF OneIdPerServer, Used, TypeOK
      <3>2. CASE d = c /\ f = e /\ g # e
        <4>1. exports[c][g] = exports'[c][g]
          BY <2>4, <3>2
        <4> QED
          BY <2>1, <2>3, <2>5, <3>2, <4>1
      <3>3. CASE d = c /\ f # e /\ g = e
        <4>1. exports[c][f] = exports'[c][f]
          BY <2>4, <3>3
        <4> QED
          BY <2>1, <2>3, <2>5, <3>3, <4>1
      <3> QED
        BY <3>1, <3>2, <3>3
    <2> QED
      BY <2>5 DEF OneIdPerServer, Used, TypeOK
  <1> QED
    BY <1>2, <1>3

LEMMA MovesOneId ==
  ASSUME TypeOK, TypeOK', OneIdPerServer, Moves \/ UNCHANGED exports
  PROVE  OneIdPerServer'
  <1>1. CASE UNCHANGED exports
    BY <1>1, NamesKept
  <1>2. ASSUME NEW c \in Conns, NEW s \in Servers, NEW e \in ExportIds, Taken(c, e, s)
        PROVE  OneIdPerServer'
    BY <1>2, TakenOneId
  <1>3. ASSUME NEW c \in Conns, NEW e \in ExportIds, Counted(c, e)
        PROVE  OneIdPerServer'
    <2>1. [exports[c][e] EXCEPT !.refcount = @ + 1].server = exports[c][e].server
      BY <1>3 DEF Counted, TypeOK, Exports, Free
    <2>2. \A d \in Conns, f \in ExportIds : exports'[d][f].used = 1 =>
            exports[d][f].used = 1 /\ exports'[d][f].server = exports[d][f].server
      BY <1>3, <2>1 DEF Counted, TypeOK
    <2> QED
      BY <2>2, NamesKept
  <1>4. ASSUME NEW c \in Conns, NEW e \in ExportIds, NEW s \in Servers,
               NEW n \in Nat \ {0}, GivenBack(c, e, s, n)
        PROVE  OneIdPerServer'
    <2>1. Released(exports[c][e], n).used = 1 =>
            exports[c][e].used = 1
              /\ Released(exports[c][e], n).server = exports[c][e].server
      BY <1>4 DEF Released, TypeOK, Exports, Free
    <2>2. \A d \in Conns, f \in ExportIds : exports'[d][f].used = 1 =>
            exports[d][f].used = 1 /\ exports'[d][f].server = exports[d][f].server
      BY <1>4, <2>1 DEF GivenBack, TypeOK
    <2> QED
      BY <2>2, NamesKept
  <1> QED
    BY <1>1, <1>2, <1>3, <1>4 DEF Moves, Dropped

\* A peer sees one id per object on a connection, whatever is exported,
\* released, joined or handed off (capn_rpc_export, capn-rpc.c:38-60).
THEOREM OneId == Spec => []OneIdPerServer
  <1>1. Init => OneIdPerServer
    BY DEF Init, OneIdPerServer, Used, Free
  <1>2. TypeOK /\ TypeOK' /\ OneIdPerServer /\ [Next]_vars => OneIdPerServer'
    BY NextMoves, MovesOneId
  <1> QED
    BY <1>1, <1>2, TypeCorrect, PTL DEF Spec

-----------------------------------------------------------------------------
\* The imports the vat holds: the vines of the introductions it has noted.

VineSlots(table, v) == {i \in Used(table) : table[i].vine = v}

\* An introduction is noted, or is dropped by a full table.
Noting(c, v, i) ==
  /\ introductions[c][i].used = 0
  /\ introductions'[c][i].used = 1 /\ introductions'[c][i].vine = v
  /\ vines' = [vines EXCEPT ![c][v] = @ + 1]
Overflowing(c, v) ==
  /\ FreeSlots(introductions[c]) = {}
  /\ UNCHANGED introductions
  /\ vines' = [vines EXCEPT ![c][v] = @ + 1]

\* A pickup is done, and its vine released if the Release goes out.
PickedUp(c, v, i) ==
  /\ introductions[c][i].used = 1 /\ introductions[c][i].vine = v
  /\ introductions'[c][i].used = 0
  /\ \/ vines' = [vines EXCEPT ![c][v] = @ - 1]
     \/ UNCHANGED vines /\ ~(Sends \subseteq {TRUE})

OtherIntroductions(c, i) ==
  \A d \in Conns, j \in IntroductionSlots :
     (d # c \/ j # i) => introductions'[d][j] = introductions[d][j]

Introducing ==
  \/ UNCHANGED <<introductions, vines>>
  \/ \E c \in Conns, v \in Vines : Overflowing(c, v)
  \/ \E c \in Conns, v \in Vines, i \in IntroductionSlots :
        (Noting(c, v, i) \/ PickedUp(c, v, i)) /\ OtherIntroductions(c, i)

LEMMA NoteIntroduces ==
  ASSUME TypeOK, NEW c \in Conns, NEW d \in Descriptors, note_introductions(c, d)
  PROVE  Introducing
  <1>1. CASE d.kind = "none"
    BY <1>1 DEF note_introductions, Introducing
  <1>2. CASE d.kind # "none"
    <2> DEFINE slot == [used |-> 1, nonce |-> d.nonce, vine |-> d.vine]
               room == First(FreeSlots(introductions[c]))
    <2>1. /\ introductions' = [introductions EXCEPT ![c] = Put(@, room, slot)]
          /\ vines' = [vines EXCEPT ![c][d.vine] = @ + 1] /\ d.vine \in Vines
      BY <1>2 DEF note_introductions, Noted, Descriptors
    <2>2. slot.used = 1 /\ slot.vine = d.vine
      OBVIOUS
    <2>3. room \subseteq FreeSlots(introductions[c]) /\ \A i, j \in room : i = j
      BY DEF First, FreeSlots, IntroductionSlots, TypeOK
    <2> HIDE DEF slot, room
    <2>4. /\ \A i \in IntroductionSlots :
               introductions'[c][i] = IF i \in room THEN slot ELSE introductions[c][i]
          /\ \A e \in Conns : e # c => introductions'[e] = introductions[e]
      BY <2>1 DEF TypeOK, Put
    <2>5. ASSUME NEW i \in room PROVE Introducing
      <3>1. i \in IntroductionSlots /\ introductions[c][i].used = 0
        BY <2>3 DEF FreeSlots, TypeOK
      <3>2. Noting(c, d.vine, i)
        BY <2>1, <2>2, <2>4, <3>1 DEF Noting
      <3>3. OtherIntroductions(c, i)
        BY <2>3, <2>4 DEF OtherIntroductions
      <3> QED
        BY <2>1, <3>1, <3>2, <3>3 DEF Introducing
    <2>6. CASE FreeSlots(introductions[c]) = {}
      <3>1. introductions'[c] = introductions[c]
        <4>1. room = {}
          BY <2>3, <2>6
        <4> QED
          BY <2>1, <4>1 DEF TypeOK, Put
      <3>2. UNCHANGED introductions
        BY <2>1, <3>1 DEF TypeOK
      <3> QED
        BY <2>1, <2>6, <3>2 DEF Introducing, Overflowing
    <2>7. CASE FreeSlots(introductions[c]) # {}
      <3>1. \E i : i \in room
        <4>1. FreeSlots(introductions[c]) \subseteq Nat
          BY SizesAssumption DEF FreeSlots, IntroductionSlots, TypeOK
        <4> QED
          BY <2>7, <4>1, FirstExists DEF room
      <3> QED
        BY <2>5, <3>1
    <2> QED
      BY <2>6, <2>7
  <1> QED
    BY <1>1, <1>2

LEMMA PickupIntroduces ==
  ASSUME TypeOK, NEW c \in Conns, NEW n \in Nonces, NEW ok \in Sends,
         capn_rpc_introduction_done(c, n, ok)
  PROVE  Introducing
  <1> DEFINE found == {x \in Used(introductions[c]) : introductions[c][x].nonce = n}
  <1>1. PICK i \in First(found) :
          /\ introductions' = [introductions EXCEPT ![c][i] = Free]
          /\ vines' = IF ok THEN [vines EXCEPT ![c][introductions[c][i].vine] = @ - 1]
                            ELSE vines
    BY DEF capn_rpc_introduction_done
  <1>2. i \in IntroductionSlots /\ introductions[c][i].used = 1
    BY FirstIn DEF Used, TypeOK
  <1> DEFINE v == introductions[c][i].vine
  <1>3. v \in Vines
    <2>1. introductions[c][i] \in Introductions
      BY <1>2 DEF TypeOK
    <2> QED
      BY <1>2, <2>1 DEF Introductions, Free
  <1>4. introductions'[c][i].used = 0 /\ OtherIntroductions(c, i)
    BY <1>1, <1>2 DEF TypeOK, OtherIntroductions, Free
  <1> HIDE DEF v
  <1>5. PickedUp(c, v, i)
    <2>1. vines' = IF ok THEN [vines EXCEPT ![c][v] = @ - 1] ELSE vines
      BY <1>1 DEF v
    <2>2. Sends \subseteq {TRUE} => ok
      OBVIOUS
    <2> QED
      BY <1>2, <1>4, <2>1, <2>2 DEF PickedUp, v
  <1> QED
    BY <1>2, <1>3, <1>4, <1>5 DEF Introducing

LEMMA NextIntroduces == ASSUME TypeOK, [Next]_vars PROVE Introducing
  <1>1. CASE UNCHANGED vars
    BY <1>1 DEF vars, Introducing
  <1>2. ASSUME NEW c \in Conns, Application(c) PROVE Introducing
    BY <1>2, PickupIntroduces DEF Application, capn_rpc_set_bootstrap, export_vine, peer,
       Introducing
  <1>3. ASSUME NEW c \in Conns, Level1(c) PROVE Introducing
    BY <1>3, NoteIntroduces DEF Level1, handle_bootstrap, handle_call, handle_finish,
       handle_release, Introducing
  <1>4. ASSUME NEW c \in Conns, Level3(c) \/ Level4(c) PROVE Introducing
    BY <1>4 DEF Level3, Level4, handle_provide, handle_accept, release_provide_embargo,
       handle_join, Introducing
  <1> QED
    BY <1>1, <1>2, <1>3, <1>4 DEF Next

LEMMA VineSlotsIn ==
  ASSUME NEW table \in [IntroductionSlots -> Introductions], NEW v
  PROVE  /\ \A i : i \in VineSlots(table, v) <=>
                     i \in IntroductionSlots /\ table[i].used = 1 /\ table[i].vine = v
         /\ IsFiniteSet(VineSlots(table, v)) /\ Cardinality(VineSlots(table, v)) \in Nat
  <1>1. \A i : i \in VineSlots(table, v) <=>
                 i \in IntroductionSlots /\ table[i].used = 1 /\ table[i].vine = v
    BY DEF VineSlots, Used
  <1>2. IsFiniteSet(IntroductionSlots)
    BY SizesAssumption, FS_Interval DEF IntroductionSlots
  <1>3. IsFiniteSet(VineSlots(table, v))
    BY <1>1, <1>2, FS_Subset
  <1> QED
    BY <1>1, <1>3, FS_CardinalityType

\* A slot that comes into use counts for its vine, and no other.
LEMMA VineSlotAdded ==
  ASSUME NEW table \in [IntroductionSlots -> Introductions],
         NEW after \in [IntroductionSlots -> Introductions],
         NEW i \in IntroductionSlots, NEW v,
         \A j \in IntroductionSlots : j # i => after[j] = table[j],
         table[i].used = 0, after[i].used = 1, after[i].vine = v
  PROVE  /\ Cardinality(VineSlots(after, v)) = Cardinality(VineSlots(table, v)) + 1
         /\ \A w : w # v => VineSlots(after, w) = VineSlots(table, w)
  <1>1. \A w, j : j # i => (j \in VineSlots(after, w) <=> j \in VineSlots(table, w))
    BY VineSlotsIn
  <1>2. \A w : i \notin VineSlots(table, w) /\ (i \in VineSlots(after, w) <=> w = v)
    BY VineSlotsIn
  <1>3. VineSlots(after, v) = VineSlots(table, v) \cup {i}
    <2>1. \A j : j \in VineSlots(after, v) <=> j \in VineSlots(table, v) \cup {i}
      BY <1>1, <1>2
    <2> QED
      BY <2>1
  <1>4. ASSUME NEW w, w # v PROVE VineSlots(after, w) = VineSlots(table, w)
    <2>1. \A j : j \in VineSlots(after, w) <=> j \in VineSlots(table, w)
      BY <1>1, <1>2, <1>4
    <2> QED
      BY <2>1
  <1>5. Cardinality(VineSlots(after, v)) = Cardinality(VineSlots(table, v)) + 1
    <2>1. IsFiniteSet(VineSlots(table, v)) /\ i \notin VineSlots(table, v)
      BY <1>2, VineSlotsIn
    <2> QED
      BY <1>3, <2>1, FS_AddElement, SMTT(60)
  <1> QED
    BY <1>4, <1>5

\* The vines of the introductions noted.
Recorded(c, v) == Cardinality(VineSlots(introductions[c], v))

\* What a step does to the difference of vines owed and introductions noted.
LEMMA IntroducingCounts ==
  ASSUME TypeOK, TypeOK', Introducing, NEW c \in Conns, NEW v \in Vines
  PROVE  /\ Recorded(c, v) \in Nat
         /\ \/ vines'[c][v] - Recorded(c, v)' = vines[c][v] - Recorded(c, v)
            \/ /\ ~(Sends \subseteq {TRUE} /\ FreeSlots(introductions[c]) # {})
               /\ vines'[c][v] - Recorded(c, v)' = vines[c][v] - Recorded(c, v) + 1
  <1>0. /\ introductions \in [Conns -> [IntroductionSlots -> Introductions]]
        /\ introductions' \in [Conns -> [IntroductionSlots -> Introductions]]
        /\ vines \in [Conns -> [Vines -> Int]]
    BY DEF TypeOK
  <1>00. \A d \in Conns : /\ introductions[d] \in [IntroductionSlots -> Introductions]
                         /\ introductions'[d] \in [IntroductionSlots -> Introductions]
    BY <1>0
  <1> DEFINE k == Recorded(c, v)
             l == Recorded(c, v)'
             n == vines[c][v]
             m == vines'[c][v]
             exact == Sends \subseteq {TRUE} /\ FreeSlots(introductions[c]) # {}
  <1>1. k \in Nat /\ l \in Nat /\ n \in Int
    BY <1>0, VineSlotsIn DEF Recorded
  <1>2. SUFFICES m - l = n - k \/ (~exact /\ m - l = n - k + 1)
    BY <1>1
  <1>3. CASE UNCHANGED <<introductions, vines>>
    BY <1>1, <1>3 DEF Recorded
  <1>4. ASSUME NEW d \in Conns, NEW w \in Vines, Overflowing(d, w)
        PROVE  m - l = n - k \/ (~exact /\ m - l = n - k + 1)
    <2>1. l = k
      BY <1>4 DEF Overflowing, Recorded
    <2>2. m = IF d = c /\ w = v THEN n + 1 ELSE n
      BY <1>0, <1>4 DEF Overflowing
    <2>3. d = c => ~exact
      BY <1>4 DEF Overflowing
    <2> HIDE DEF k, l, m, n, exact
    <2> QED
      BY <1>1, <2>1, <2>2, <2>3
  <1>5. ASSUME NEW d \in Conns, NEW w \in Vines, NEW i \in IntroductionSlots,
               OtherIntroductions(d, i), Noting(d, w, i)
        PROVE  m - l = n - k
    <2>1. m = IF d = c /\ w = v THEN n + 1 ELSE n
      BY <1>0, <1>5 DEF Noting
    <2>2. l = IF d = c /\ w = v THEN k + 1 ELSE k
      <3>1. CASE d = c
        <4>1. /\ Cardinality(VineSlots(introductions'[c], w)) =
                   Cardinality(VineSlots(introductions[c], w)) + 1
              /\ \A x : x # w =>
                   VineSlots(introductions'[c], x) = VineSlots(introductions[c], x)
          BY <1>00, <1>5, <3>1, VineSlotAdded DEF Noting, OtherIntroductions
        <4> QED
          BY <3>1, <4>1 DEF Recorded
      <3>2. CASE d # c
        <4>1. introductions'[c] = introductions[c]
          BY <1>0, <1>5, <3>2 DEF OtherIntroductions
        <4> QED
          BY <3>2, <4>1 DEF Recorded
      <3> QED
        BY <3>1, <3>2
    <2> HIDE DEF k, l, m, n, exact
    <2> QED
      BY <1>1, <2>1, <2>2
  <1>6. ASSUME NEW d \in Conns, NEW w \in Vines, NEW i \in IntroductionSlots,
               OtherIntroductions(d, i), PickedUp(d, w, i)
        PROVE  m - l = n - k \/ (~exact /\ m - l = n - k + 1)
    <2>1. (m = n /\ ~exact) \/ m = (IF d = c /\ w = v THEN n - 1 ELSE n)
      <3>1. CASE vines' = [vines EXCEPT ![d][w] = @ - 1]
        BY <1>0, <3>1
      <3>2. CASE UNCHANGED vines /\ ~(Sends \subseteq {TRUE})
        BY <3>2
      <3> QED
        BY <1>6, <3>1, <3>2 DEF PickedUp
    <2>2. l = IF d = c /\ w = v THEN k - 1 ELSE k
      <3>1. CASE d = c
        <4>1. /\ Cardinality(VineSlots(introductions[c], w)) =
                   Cardinality(VineSlots(introductions'[c], w)) + 1
              /\ \A x : x # w =>
                   VineSlots(introductions[c], x) = VineSlots(introductions'[c], x)
          BY <1>00, <1>6, <3>1, VineSlotAdded DEF PickedUp, OtherIntroductions
        <4>2. Recorded(c, w)' \in Nat
          BY <1>0, VineSlotsIn DEF Recorded
        <4> QED
          BY <3>1, <4>1, <4>2 DEF Recorded
      <3>2. CASE d # c
        <4>1. introductions'[c] = introductions[c]
          BY <1>0, <1>6, <3>2 DEF OtherIntroductions
        <4> QED
          BY <3>2, <4>1 DEF Recorded
      <3> QED
        BY <3>1, <3>2
    <2> HIDE DEF k, l, m, n, exact
    <2> QED
      BY <1>1, <2>1, <2>2
  <1> QED
    BY <1>3, <1>4, <1>5, <1>6 DEF Introducing

\* Each introduction on record has a vine of its own that the vat still owes.
VinesOwed == \A c \in Conns, v \in Vines : Recorded(c, v) <= vines[c][v]

\* The introductions table of every connection has a free slot.
Introducible == \A c \in Conns : FreeSlots(introductions[c]) # {}

LEMMA VinesInit == Init => VinesAccounted /\ VinesOwed
  <1> SUFFICES ASSUME Init PROVE VinesAccounted /\ VinesOwed
    OBVIOUS
  <1>1. \A c \in Conns, v \in Vines : VineSlots(introductions[c], v) = {} /\ vines[c][v] = 0
    BY DEF Init, VineSlots, Used, Free
  <1>2. \A c \in Conns, v \in Vines : Recorded(c, v) = 0
    BY <1>1, FS_EmptySet DEF Recorded
  <1> QED
    BY <1>1, <1>2 DEF VinesAccounted, VinesOwed, Recorded, VineSlots

\* No vine is released for the same introduction twice, nor one the vat was
\* not given: whatever arrives, the vat owes at least the vines it has on
\* record (capn_rpc_introduction_done, capn-rpc.c:386-399).
THEOREM VinesKept == Spec => []VinesOwed
  <1>1. TypeOK /\ TypeOK' /\ VinesOwed /\ [Next]_vars => VinesOwed'
    <2> SUFFICES ASSUME TypeOK, TypeOK', VinesOwed, [Next]_vars,
                        NEW c \in Conns, NEW v \in Vines
                 PROVE  Recorded(c, v)' <= vines'[c][v]
      BY DEF VinesOwed
    <2>1. /\ \/ vines'[c][v] - Recorded(c, v)' = vines[c][v] - Recorded(c, v)
             \/ vines'[c][v] - Recorded(c, v)' = vines[c][v] - Recorded(c, v) + 1
          /\ Recorded(c, v) \in Nat
      BY NextIntroduces, IntroducingCounts
    <2>2. Recorded(c, v)' \in Nat
      <3>1. introductions'[c] \in [IntroductionSlots -> Introductions]
        BY DEF TypeOK
      <3> QED
        BY <3>1, VineSlotsIn DEF Recorded
    <2>3. vines[c][v] \in Int /\ vines'[c][v] \in Int
      BY DEF TypeOK
    <2>4. Recorded(c, v) <= vines[c][v]
      BY DEF VinesOwed
    <2> QED
      BY <2>1, <2>2, <2>3, <2>4
  <1> QED
    BY <1>1, VinesInit, TypeCorrect, PTL DEF Spec

\* As long as the table has room and Releases go out, every vine handed over
\* with an introduction is on record, to be released when its pickup is done
\* (note_introductions, capn_rpc_introduction_done, capn-rpc.c:318-399): a
\* full table is the one way to lose one.
THEOREM VinesExact ==
  Sends \subseteq {TRUE} => (Spec /\ []Introducible => []VinesAccounted)
  <1> SUFFICES ASSUME Sends \subseteq {TRUE}
               PROVE  Spec /\ []Introducible => []VinesAccounted
    OBVIOUS
  <1>1. TypeOK /\ TypeOK' /\ Introducible /\ VinesAccounted /\ [Next]_vars => VinesAccounted'
    <2> SUFFICES ASSUME TypeOK, TypeOK', Introducible, VinesAccounted, [Next]_vars,
                        NEW c \in Conns, NEW v \in Vines
                 PROVE  vines'[c][v] = Recorded(c, v)'
      BY DEF VinesAccounted, Recorded, VineSlots
    <2>1. /\ vines'[c][v] - Recorded(c, v)' = vines[c][v] - Recorded(c, v)
          /\ Recorded(c, v) \in Nat
      BY NextIntroduces, IntroducingCounts DEF Introducible
    <2>2. Recorded(c, v)' \in Nat
      <3>1. introductions'[c] \in [IntroductionSlots -> Introductions]
        BY DEF TypeOK
      <3> QED
        BY <3>1, VineSlotsIn DEF Recorded
    <2>3. vines'[c][v] \in Int
      BY DEF TypeOK
    <2>4. Recorded(c, v) = vines[c][v]
      BY DEF VinesAccounted, Recorded, VineSlots
    <2> QED
      BY <2>1, <2>2, <2>3, <2>4
  <1> QED
    BY <1>1, VinesInit, TypeCorrect, PTL DEF Spec

(***************************************************************************)
(* Joins.  What a Join decides: a pending part keeps the index of an export*)
(* and not the object, so the decision is right only while the index stays *)
(* that object's.                                                          *)
(***************************************************************************)

\* A part that arrived names, in a connection's exports, the object it named
\* then.
PartHolds(table, p) ==
  IF p.eid = NoCap THEN p.obj = NoServer
  ELSE p.eid \in ExportIds /\ table[p.eid].used = 1 /\ table[p.eid].server = p.obj

PartsHold ==
  \A c \in Conns : \A i \in Used(joins[c]) : \A n \in Used(joins[c][i].parts) :
     PartHolds(exports[c], joins[c][i].parts[n])

\* All of them do, and the last Join answered was decided right.
JoinInv == PartsHold /\ JoinVerdictRight

-----------------------------------------------------------------------------
\* An export in use keeps its object while a pending part names it.
LEMMA NameKept ==
  ASSUME TypeOK, Moves \/ UNCHANGED exports, SwapWhileJoining = FALSE,
         NEW c \in Conns, NEW e \in ExportIds, exports[c][e].used = 1,
         Joining(c, e)
  PROVE  exports'[c][e].used = 1 /\ exports'[c][e].server = exports[c][e].server
  <1>1. exports[c][e] \in Exports
    BY DEF TypeOK
  <1>2. CASE UNCHANGED exports
    BY <1>2
  <1>3. ASSUME NEW d \in Conns, NEW s \in Servers, NEW f \in ExportIds, Taken(d, f, s)
        PROVE  exports'[c][e].used = 1 /\ exports'[c][e].server = exports[c][e].server
    <2>1. exports' = [exports EXCEPT ![d][f] = Referenced(@, s)]
      BY <1>3 DEF Taken
    <2>2. Referenced(exports[c][e], s).used = 1
          /\ Referenced(exports[c][e], s).server = exports[c][e].server
      BY <1>1 DEF Referenced, Exports, Free
    <2> QED
      BY <2>1, <2>2 DEF TypeOK
  <1>4. ASSUME NEW d \in Conns, NEW f \in ExportIds, Counted(d, f)
        PROVE  exports'[c][e].used = 1 /\ exports'[c][e].server = exports[c][e].server
    <2>1. exports' = [exports EXCEPT ![d][f].refcount = @ + 1]
      BY <1>4 DEF Counted
    <2>2. [exports[c][e] EXCEPT !.refcount = @ + 1].used = 1
          /\ [exports[c][e] EXCEPT !.refcount = @ + 1].server = exports[c][e].server
      BY <1>1 DEF Exports, Free
    <2> QED
      BY <2>1, <2>2 DEF TypeOK
  <1>5. ASSUME NEW d \in Conns, NEW f \in ExportIds, NEW s \in Servers,
               NEW n \in Nat \ {0}, GivenBack(d, f, s, n)
        PROVE  exports'[c][e].used = 1 /\ exports'[c][e].server = exports[c][e].server
    <2>1. exports' = [exports EXCEPT ![d][f] = Released(@, n)] /\ <<d, f>> # <<c, e>>
      BY <1>5 DEF GivenBack
    <2> QED
      BY <2>1 DEF TypeOK
  <1> QED
    BY <1>2, <1>3, <1>4, <1>5 DEF Moves, Dropped

\* So the parts pending before a step hold after it.
LEMMA HeldOver ==
  ASSUME TypeOK, Moves \/ UNCHANGED exports, SwapWhileJoining = FALSE, PartsHold,
         NEW c \in Conns, NEW i \in Used(joins[c]), NEW n \in Used(joins[c][i].parts)
  PROVE  PartHolds(exports'[c], joins[c][i].parts[n])
  <1> DEFINE p == joins[c][i].parts[n]
  <1>1. PartHolds(exports[c], p)
    BY DEF PartsHold
  <1>2. p.eid # NoCap => Joining(c, p.eid)
    BY DEF Joining
  <1> QED
    BY <1>1, <1>2, NameKept DEF PartHolds

\* A part just arrived names what its target resolved to.
LEMMA NewPartHolds ==
  ASSUME TypeOK, NEW c \in Conns, NEW t, NEW q,
         NEW eid, eid = IF resolve_target(c, t) = {} THEN NoCap
                        ELSE CHOOSE e \in resolve_target(c, t) : TRUE,
         NEW obj, obj = IF resolve_target(c, t) = {} THEN NoServer
                        ELSE ServerAt(exports[c], eid)
  PROVE  PartHolds(exports[c], [used |-> 1, qid |-> q, eid |-> eid, obj |-> obj])
  <1>1. CASE resolve_target(c, t) = {}
    BY <1>1 DEF PartHolds
  <1>2. CASE resolve_target(c, t) # {}
    BY <1>2, TargetFound DEF PartHolds, ServerAt, NoCap, ExportIds
  <1> QED
    BY <1>1, <1>2

\* With it written in, all of the set's parts hold.
LEMMA WithPartHolds ==
  ASSUME TypeOK, PartsHold, NEW c \in Conns, NEW i \in JoinSlots, NEW k \in KeyParts,
         WellFormed(k), NEW q \in Qids, NEW t
  PROVE  LET parts == WithPart(c, i, k, q, resolve_target(c, t))
         IN  \A n \in Used(parts) : PartHolds(exports[c], parts[n])
  <1> DEFINE target == resolve_target(c, t)
             seen == IF joins[c][i].used = 1 THEN joins[c][i].parts
                                             ELSE [n \in PartNums |-> Free]
             eid == IF target = {} THEN NoCap ELSE CHOOSE e \in target : TRUE
             obj == IF target = {} THEN NoServer ELSE ServerAt(exports[c], eid)
             new == [used |-> 1, qid |-> q, eid |-> eid, obj |-> obj]
  <1>1. DOMAIN seen = PartNums
    <2>1. joins[c][i] \in Joins
      BY DEF TypeOK
    <2> QED
      BY <2>1 DEF Joins, Free
  <1>2. \A n \in PartNums : seen[n].used = 1 => PartHolds(exports[c], seen[n])
    <2>1. CASE joins[c][i].used = 1
      BY <1>1, <2>1 DEF PartsHold, Used, TypeOK
    <2>2. CASE joins[c][i].used # 1
      BY <2>2 DEF Free
    <2> QED
      BY <2>1, <2>2
  <1>3. PartHolds(exports[c], new)
    BY NewPartHolds
  <1>4. WithPart(c, i, k, q, target) = [seen EXCEPT ![k.partNum] = new]
    BY DEF WithPart
  <1> HIDE DEF seen, new
  <1> QED
    BY <1>1, <1>2, <1>3, <1>4 DEF Used

-----------------------------------------------------------------------------
\* One id per object, and indices that still mean what they meant: comparing
\* the indices is comparing the objects.
LEMMA SameObjectRight ==
  ASSUME TypeOK, OneIdPerServer, NEW c \in Conns, NEW parts, NEW count \in Nat \ {0},
         \A n \in 0..(count - 1) : PartHolds(exports[c], parts[n])
  PROVE  SameObject(parts, count) <=>
           \E s \in Servers : \A n \in 0..(count - 1) : parts[n].obj = s
  <1> DEFINE nums == 0..(count - 1)
  <1>1. 0 \in nums /\ \A n \in nums : n = 0 \/ n \in 1..(count - 1)
    OBVIOUS
  <1>2. 1..(count - 1) \subseteq nums
    OBVIOUS
  <1> HIDE DEF nums
  <1>3. ASSUME SameObject(parts, count)
        PROVE  \E s \in Servers : \A n \in nums : parts[n].obj = s
    <2>1. \A n \in nums : parts[n].eid = parts[0].eid /\ parts[n].eid # NoCap
      BY <1>1, <1>3 DEF SameObject
    <2>2. \A n \in nums : parts[n].obj = exports[c][parts[0].eid].server
      BY <2>1 DEF PartHolds, nums
    <2>3. exports[c][parts[0].eid].server \in Servers
      <3>1. parts[0].eid \in ExportIds /\ exports[c][parts[0].eid].used = 1
        BY <1>1, <2>1 DEF PartHolds, nums
      <3>2. exports[c][parts[0].eid] \in Exports
        BY <3>1 DEF TypeOK
      <3> QED
        BY <3>1, <3>2 DEF Exports, Free
    <2> QED
      BY <2>2, <2>3
  <1>4. ASSUME NEW s \in Servers, \A n \in nums : parts[n].obj = s
        PROVE  SameObject(parts, count)
    <2>1. \A n \in nums : parts[n].obj = s
      BY <1>4
    <2>2. s # NoServer
      BY ValuesAssumption
    <2>3. \A n \in nums : /\ parts[n].eid # NoCap
                          /\ parts[n].eid \in Used(exports[c])
                          /\ exports[c][parts[n].eid].server = s
      BY <2>1, <2>2 DEF PartHolds, Used, TypeOK, nums
    <2>4. \A n \in nums : parts[n].eid = parts[0].eid
      BY <1>1, <2>3 DEF OneIdPerServer
    <2> QED
      BY <1>1, <1>2, <2>3, <2>4 DEF SameObject
  <1> QED
    BY <1>3, <1>4 DEF nums

-----------------------------------------------------------------------------
\* No step but a Join touches the sets in progress.
LEMMA OnlyJoins ==
  ASSUME NEW c \in Conns, Application(c) \/ Level1(c) \/ Level3(c)
  PROVE  UNCHANGED <<joins, verdict>>
  BY ZenonT(60) DEF Application, Level1, Level3, capn_rpc_set_bootstrap, export_vine,
         capn_rpc_introduction_done, handle_bootstrap, handle_call, handle_finish,
         handle_release, handle_provide, handle_accept, release_provide_embargo, peer

LEMMA HeldOverAll ==
  ASSUME TypeOK, Moves \/ UNCHANGED exports, SwapWhileJoining = FALSE, PartsHold,
         UNCHANGED joins
  PROVE  PartsHold'
  BY HeldOver DEF PartsHold

\* The set is complete: it is decided right, and its slot cleared.
LEMMA CompleteInv ==
  ASSUME TypeOK, Moves, SwapWhileJoining = FALSE, JoinInv, OneIdPerServer,
         NEW c \in Conns, NEW i \in JoinSlots, NEW k \in KeyParts, WellFormed(k),
         NEW q, NEW got, NEW parts, join_complete(c, i, parts, k, q, got),
         Used(parts) = 0..(k.partCount - 1),
         \A n \in Used(parts) : PartHolds(exports[c], parts[n])
  PROVE  JoinInv'
  <1>1. PartsHold'
    <2>1. joins' = [joins EXCEPT ![c][i] = Free]
      BY DEF join_complete, AnsweredSlot
    <2>2. ASSUME NEW d \in Conns, NEW j \in JoinSlots, joins'[d][j].used = 1
          PROVE  joins'[d][j] = joins[d][j]
      BY <2>1, <2>2 DEF TypeOK, Free
    <2>3. \A d \in Conns : DOMAIN joins'[d] = JoinSlots /\ DOMAIN joins[d] = JoinSlots
      BY <2>1 DEF TypeOK
    <2>4. ASSUME NEW d \in Conns, NEW j \in Used(joins'[d]), NEW n \in Used(joins'[d][j].parts)
          PROVE  PartHolds(exports'[d], joins'[d][j].parts[n])
      <3>1. j \in Used(joins[d]) /\ joins'[d][j] = joins[d][j]
        BY <2>2, <2>3 DEF Used
      <3> QED
        BY <2>4, <3>1, HeldOver, JoinInv DEF JoinInv
    <2> QED
      BY <2>4 DEF PartsHold
  <1>2. JoinVerdictRight'
    <2> DEFINE same == SameObject(parts, k.partCount)
               objs == {parts[n].obj : n \in 0..(k.partCount - 1)}
    <2>1. same <=> \E s \in Servers : objs = {s}
      <3>1. k.partCount \in Nat \ {0}
        BY DEF KeyParts, WellFormed, NoKey
      <3>2. \A n \in 0..(k.partCount - 1) : PartHolds(exports[c], parts[n])
        OBVIOUS
      <3>3. same <=> \E s \in Servers : \A n \in 0..(k.partCount - 1) : parts[n].obj = s
        BY <3>1, <3>2, SameObjectRight
      <3>4. 0 \in 0..(k.partCount - 1)
        BY <3>1
      <3>5. \A s : objs = {s} <=> \A n \in 0..(k.partCount - 1) : parts[n].obj = s
        BY <3>4
      <3> HIDE DEF same, objs
      <3> QED
        BY <3>3, <3>5
    <2>2. verdict' = [verdict EXCEPT ![c] = [same |-> same, objs |-> objs]]
      BY DEF join_complete
    <2> HIDE DEF same, objs
    <2> QED
      BY <2>1, <2>2 DEF JoinVerdictRight, JoinInv, TypeOK
  <1> QED
    BY <1>1, <1>2 DEF JoinInv

\* The set waits for more: the new part holds beside the others.
LEMMA PendingInv ==
  ASSUME TypeOK, JoinInv, UNCHANGED <<exports, verdict>>,
         NEW c \in Conns, NEW i \in JoinSlots, NEW k \in KeyParts, NEW parts,
         joins' = [joins EXCEPT ![c][i] =
                     [used |-> 1, join_id |-> k.joinId,
                      part_count |-> k.partCount, parts |-> parts]],
         \A n \in Used(parts) : PartHolds(exports[c], parts[n])
  PROVE  JoinInv'
  <1>1. ASSUME NEW d \in Conns, NEW j \in Used(joins'[d]), NEW n \in Used(joins'[d][j].parts)
        PROVE  PartHolds(exports[d], joins'[d][j].parts[n])
    <2>1. CASE d = c /\ j = i
      <3>1. joins'[d][j].parts = parts
        BY <2>1 DEF TypeOK
      <3> QED
        BY <1>1, <2>1, <3>1
    <2>2. CASE ~(d = c /\ j = i)
      <3>1. j \in Used(joins[d]) /\ joins'[d][j] = joins[d][j]
        BY <1>1, <2>2 DEF Used, TypeOK
      <3> QED
        BY <1>1, <3>1 DEF JoinInv, PartsHold
    <2> QED
      BY <2>1, <2>2
  <1>2. PartsHold'
    BY <1>1 DEF PartsHold
  <1> QED
    BY <1>2 DEF JoinInv, JoinVerdictRight

LEMMA JoinStep ==
  ASSUME TypeOK, SwapWhileJoining = FALSE, JoinInv, OneIdPerServer,
         NEW c \in Conns, Level4(c)
  PROVE  JoinInv'
  <1>0. Moves
    BY Level4Moves
  <1>1. PICK q \in Qids, t \in Targets(c), k \in KeyParts, got \in [PartNums -> Sends] :
          handle_join(c, q, t, k, got)
    BY DEF Level4
  <1> DEFINE slots == IF WellFormed(k) THEN join_slot_find(c, k) ELSE {}
             parts(i) == WithPart(c, i, k, q, resolve_target(c, t))
  <1>2. CASE UNCHANGED <<exports, joins, verdict>>
    BY <1>2, <1>0, HeldOverAll DEF JoinInv, JoinVerdictRight
  <1>3. ASSUME NEW i \in slots,
               IF Used(parts(i)) = 0..(k.partCount - 1)
               THEN join_complete(c, i, parts(i), k, q, got)
               ELSE /\ joins' = [joins EXCEPT ![c][i] =
                          [used |-> 1, join_id |-> k.joinId,
                           part_count |-> k.partCount, parts |-> parts(i)]]
                    /\ UNCHANGED <<exports, verdict>>
        PROVE  JoinInv'
    <2>1. WellFormed(k) /\ i \in JoinSlots
      BY <1>3, JoinSlotFound
    <2>2. \A n \in Used(parts(i)) : PartHolds(exports[c], parts(i)[n])
      BY <2>1, WithPartHolds DEF JoinInv
    <2> HIDE DEF parts
    <2> QED
      BY <1>0, <1>3, <2>1, <2>2, CompleteInv, PendingInv
  <1> QED
    BY <1>1, <1>2, <1>3 DEF handle_join

\* While no peer releases what its pending Join parts name, a Join succeeds
\* exactly when its parts named one object when they arrived, whatever else
\* happens to the exports before the last part is in (handle_join,
\* join_complete, capn-rpc.c:581-662).
THEOREM Verdicts == SwapWhileJoining = FALSE => (Spec => []JoinVerdictRight)
  <1> SUFFICES ASSUME SwapWhileJoining = FALSE PROVE Spec => []JoinVerdictRight
    OBVIOUS
  <1>1. Init => JoinInv
    <2> SUFFICES ASSUME Init PROVE JoinInv
      OBVIOUS
    <2>1. \A c \in Conns : Used(joins[c]) = {}
      BY DEF Init, Used, Free
    <2>2. \A c \in Conns : verdict[c] = [same |-> FALSE, objs |-> {}]
      BY DEF Init
    <2> QED
      BY <2>1, <2>2 DEF JoinInv, PartsHold, JoinVerdictRight
  <1>2. TypeOK /\ OneIdPerServer /\ JoinInv /\ [Next]_vars => JoinInv'
    <2> SUFFICES ASSUME TypeOK, OneIdPerServer, JoinInv, [Next]_vars PROVE JoinInv'
      OBVIOUS
    <2>1. CASE UNCHANGED <<joins, verdict>>
      BY <2>1, NextMoves, HeldOverAll DEF JoinInv, JoinVerdictRight
    <2>2. ASSUME NEW c \in Conns, Level4(c) PROVE JoinInv'
      BY <2>2, JoinStep
    <2> QED
      BY <2>1, <2>2, OnlyJoins DEF Next, vars
  <1>3. JoinInv => JoinVerdictRight
    BY DEF JoinInv
  <1> QED
    BY <1>1, <1>2, <1>3, TypeCorrect, OneId, PTL DEF Spec
=============================================================================
