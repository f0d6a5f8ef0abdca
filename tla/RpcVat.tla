------------------------------- MODULE RpcVat -------------------------------
(***************************************************************************)
(* The hosting side of a Cap'n Proto RPC vat (lib/capn-rpc.c): what        *)
(* capn_rpc_handle does with the messages that ask something of this vat,  *)
(* over all the connections the vat has, and the calls the application     *)
(* makes to export capabilities.                                           *)
(*                                                                         *)
(* A step delivers one message and runs its whole handler, Return          *)
(* included: the vat is single-threaded and handlers never block.  What    *)
(* the peers know is history: `asks` and `refs` are the question and       *)
(* import tables a peer that follows rpc.capnp keeps, `verdict` is the     *)
(* last Join it saw answered, `ledger` counts handoffs, `vines` the vines  *)
(* it exported to us.  They constrain what the peers may send and state    *)
(* what the replies must mean; no handler reads them.                      *)
(*                                                                         *)
(* Definitions named Wrong_* are plausible slips in the definition that    *)
(* follows each.  No specification uses them: they are what the properties *)
(* at the end must be able to tell from the code.                          *)
(***************************************************************************)
EXTENDS RpcTables, FiniteSets

CONSTANTS
  Conns,          \* this vat's connections
  Servers,        \* the objects the application hosts
  NoServer,       \* a NULL server pointer
  Qids,           \* question ids, chosen by the peers
  Nonces,         \* handoff nonces
  JoinIds,        \* JoinKeyPart.joinId
  Vines,          \* import ids of vines the peers export to us
  MAX_EXPORTS, MAX_ANSWERS, MAX_PROVISIONS, MAX_INTRODUCTIONS,
  MAX_JOINS, MAX_JOIN_PARTS,    \* CAPN_RPC_MAX_* of capn-rpc.h
  Embargoes,      \* values of Accept.embargo the peers send
  ReleaseResults, \* values of Finish.releaseResultCaps the peers send
  Sends,          \* outcomes of c->send: TRUE when the peer gets the frame
  Outcomes,       \* what comes of a dispatched call (see handle_call)
  SwapWhileJoining, \* may a peer release what a pending Join part names?
  MaxRefs         \* bound on an export's references (the peers stop asking)

NoCap == -1
NoNonce == "no provision"
NoTarget == [kind |-> "none"]
NoKey == [kind |-> "none"]

ASSUME SizesAssumption ==
  /\ {MAX_EXPORTS, MAX_ANSWERS, MAX_PROVISIONS, MAX_INTRODUCTIONS,
      MAX_JOINS, MaxRefs} \subseteq Nat
  /\ MAX_JOIN_PARTS \in Nat \ {0}

ASSUME ValuesAssumption ==
  /\ NoServer \notin Servers
  /\ Embargoes \subseteq BOOLEAN
  /\ ReleaseResults \subseteq BOOLEAN
  /\ Sends \subseteq BOOLEAN
  /\ Outcomes \subseteq {"results", "failed", "oversize"}
  /\ SwapWhileJoining \in BOOLEAN

ExportIds == 0..(MAX_EXPORTS - 1)
AnswerSlots == 0..(MAX_ANSWERS - 1)
ProvisionSlots == 0..(MAX_PROVISIONS - 1)
IntroductionSlots == 0..(MAX_INTRODUCTIONS - 1)
JoinSlots == 0..(MAX_JOINS - 1)
PartNums == 0..(MAX_JOIN_PARTS - 1)

Objects == Servers \cup {NoServer}
CapIds == ExportIds \cup {NoCap}

VARIABLES
  exports,        \* per connection
  answers,        \* per connection: the Returns kept for pipelining
  joins,          \* per connection
  introductions,  \* per connection
  bootstrap,      \* per connection
  provisions,     \* of the vat, shared by its connections
  asks,           \* history: each peer's question table
  refs,           \* history: each peer's import table
  verdict,        \* history: the last Join answered on a connection
  ledger,         \* history: Provides recorded less Accepts claimed
  vines           \* history: vine references handed to us less released

peer == <<asks, refs, verdict, ledger, vines>>
vars == <<exports, answers, joins, introductions, bootstrap, provisions,
          asks, refs, verdict, ledger, vines>>

-----------------------------------------------------------------------------
\* The slots of each table, as capn-rpc.h declares them.

Exports == [used: {1}, server: Servers, refcount: Nat \ {0}] \cup {Free}

\* A retained Return: the export its capTable names, if its content is one.
Answers == [used: {1}, qid: Qids, cap: CapIds] \cup {Free}

\* `obj` is history: the object the part named when it arrived.
Parts == [used: {1}, qid: Qids, eid: CapIds, obj: Objects] \cup {Free}
Joins == [used: {1}, join_id: JoinIds, part_count: Nat,
          parts: [PartNums -> Parts]] \cup {Free}

Introductions == [used: {1}, nonce: Nonces, vine: Vines] \cup {Free}

\* `from` and `acceptor` are history: the introducer's connection and the
\* recipient's.
Provisions ==
  [used: {1}, nonce: Nonces, server: Servers, export_id: ExportIds,
   question_id: Qids, embargoed: BOOLEAN, accept_question_id: Qids,
   from: Conns, acceptor: Conns] \cup {Free}

\* A peer's question.  `id` and `server` are the capability its Return
\* carried and the object that Return was meant to carry.  "cancelled" is a
\* question finished before its Return came; "stray" one that was answered
\* although it was not waiting for a Return.
AskStates == {"idle", "waiting", "answered", "cancelled", "stray"}
Asks == [st: AskStates, id: CapIds, server: Objects]

Ask(st) == [st |-> st, id |-> NoCap, server |-> NoServer]
Answered(e, s) == [st |-> "answered", id |-> e, server |-> s]

\* The peer's question `a` once a Return carrying e (meant to be s) reached it.
Returned(a, e, s) ==
  CASE a.st = "waiting" -> Answered(e, s)
    [] a.st = "cancelled" -> Ask("idle")
    [] OTHER -> Ask("stray")

-----------------------------------------------------------------------------
\* The export table.

ServerAt(table, e) == IF table[e].used = 1 THEN table[e].server ELSE NoServer

\* The slot capn_rpc_export settles on: the export already naming s, or the
\* lowest free one, or none.
Wrong_export_fresh(c, s) == First(FreeSlots(exports[c]))

capn_rpc_export(c, s) ==
  LET naming == {e \in Used(exports[c]) : exports[c][e].server = s}
  IN  IF naming # {} THEN First(naming) ELSE First(FreeSlots(exports[c]))

Wrong_referenced_once(slot, s) ==
  IF slot.used = 1 THEN slot ELSE [used |-> 1, server |-> s, refcount |-> 1]

\* An export slot after one more reference to s was taken through it.
Referenced(slot, s) ==
  IF slot.used = 1 THEN [slot EXCEPT !.refcount = @ + 1]
               ELSE [used |-> 1, server |-> s, refcount |-> 1]

Wrong_released_always(slot, n) == Free
Wrong_released_one(slot, n) ==
  IF slot.used = 1 /\ slot.refcount > 1 THEN [slot EXCEPT !.refcount = @ - 1]
                                    ELSE Free
Wrong_released_below_zero(slot, n) ==
  IF slot.used = 1 /\ slot.refcount >= n THEN [slot EXCEPT !.refcount = @ - n]
                                     ELSE Free

\* An export slot after n of its references were given back.
Released(slot, n) ==
  IF slot.used = 1 /\ slot.refcount > n THEN [slot EXCEPT !.refcount = @ - n]
                                    ELSE Free

-----------------------------------------------------------------------------
\* The answer table.

answer_find(c, q) == First({a \in Used(answers[c]) : answers[c][a].qid = q})

Wrong_answer_drop(c, q) == answers[c]

\* The table once the lowest kept Return to q is gone.
answer_drop(c, q) == Put(answers[c], answer_find(c, q), Free)

Wrong_kept_first(table, q, e) ==
  Put(table, {0}, [used |-> 1, qid |-> q, cap |-> e])

\* The table once send_answer kept the Return to q, silently not when full.
Kept(table, q, e) ==
  Put(table, First(FreeSlots(table)), [used |-> 1, qid |-> q, cap |-> e])

\* A kept answer's export, while that slot is in use.  Bootstrap and Accept
\* answers are the capability itself; the transform that picks it is in the
\* target, and one that picks anything else is a NoTarget.
resolve_promised_answer(c, q) ==
  {answers[c][a].cap : a \in answer_find(c, q)} \cap Used(exports[c])

\* The export a MessageTarget names: one index, or none.
resolve_target(c, t) ==
  CASE t.kind = "importedCap" -> {t.id} \cap Used(exports[c])
    [] t.kind = "promisedAnswer" -> resolve_promised_answer(c, t.qid)
    [] OTHER -> {}

\* What a peer may aim a message at: an import it holds, a question it has
\* not finished, or something this vat cannot route (a null target, an index
\* past the table, a transform that leads nowhere).
Targets(c) ==
  {NoTarget}
    \cup {[kind |-> "importedCap", id |-> e] :
            e \in {x \in ExportIds : \E s \in Objects : refs[c][x][s] > 0}}
    \cup {[kind |-> "promisedAnswer", qid |-> q] :
            q \in {x \in Qids : asks[c][x].st \in {"waiting", "answered"}}}

-----------------------------------------------------------------------------
\* Replies.  `a` is the peer's question before the Return, `ok` whether the
\* send callback delivered it.

\* A Return carrying no capability, not kept (send_message).
Reply(c, q, ok) ==
  /\ asks' = [asks EXCEPT ![c][q] = IF ok THEN Answered(NoCap, NoServer)
                                           ELSE Ask("waiting")]
  /\ UNCHANGED <<answers, refs>>

\* A Return kept until Finish (send_answer), naming export e of this
\* connection's table as it now stands and meant to hand over s.
send_answer(c, q, a, e, s, ok) ==
  /\ answers' = [answers EXCEPT ![c] = Kept(@, q, e)]
  /\ asks' = [asks EXCEPT ![c][q] = IF ok THEN Returned(a, e, s) ELSE a]
  /\ refs' = IF ok /\ e # NoCap
             THEN [refs EXCEPT ![c][e][ServerAt(exports'[c], e)] = @ + 1]
             ELSE refs

\* The peers stop taking references when an export holds MaxRefs.
Room(c) == \A e \in Used(exports[c]) : exports[c][e].refcount < MaxRefs

-----------------------------------------------------------------------------
\* The application.

capn_rpc_set_bootstrap(c, s) ==
  /\ s # bootstrap[c]
  /\ bootstrap' = [bootstrap EXCEPT ![c] = s]
  /\ UNCHANGED <<exports, answers, joins, introductions, provisions, peer>>

\* The application exports s and tells the peer its id in a message of its
\* own making, as it does for the vine of a thirdPartyHosted descriptor.
export_vine(c, s) ==
  /\ Room(c)
  /\ \E e \in capn_rpc_export(c, s) :
       /\ exports' = [exports EXCEPT ![c][e] = Referenced(@, s)]
       /\ refs' = [refs EXCEPT ![c][e][s] = @ + 1]
  /\ UNCHANGED <<answers, joins, introductions, bootstrap, provisions,
                 asks, verdict, ledger, vines>>

\* The pickup for nonce n succeeded: its vine is released.
capn_rpc_introduction_done(c, n, ok) ==
  \E i \in First({x \in Used(introductions[c]) :
                    introductions[c][x].nonce = n}) :
    /\ introductions' = [introductions EXCEPT ![c][i] = Free]
    /\ vines' = IF ok THEN [vines EXCEPT ![c][introductions[c][i].vine] = @ - 1]
                      ELSE vines
    /\ UNCHANGED <<exports, answers, joins, bootstrap, provisions,
                   asks, refs, verdict, ledger>>

-----------------------------------------------------------------------------
\* Level 1: Bootstrap, Call, Finish, Release.

handle_bootstrap(c, q, ok) ==
  /\ asks[c][q].st = "idle"
  /\ Room(c)
  /\ LET s == bootstrap[c]
         found == IF s = NoServer THEN {} ELSE capn_rpc_export(c, s)
     IN  \/ /\ found = {}
            /\ Reply(c, q, ok)
            /\ UNCHANGED exports
         \/ \E e \in found :
              /\ exports' = [exports EXCEPT ![c][e] = Referenced(@, s)]
              /\ send_answer(c, q, Ask("waiting"), e, s, ok)
  /\ UNCHANGED <<joins, introductions, bootstrap, provisions,
                 verdict, ledger, vines>>

\* The thirdPartyHosted descriptors of a payload's cap table: at most one
\* here.  NoDescriptor stands for every entry the scan skips.
Descriptors ==
  [kind: {"thirdPartyHosted"}, nonce: Nonces, vine: Vines]
    \cup {[kind |-> "none"]}

Wrong_noted_first(table, d) ==
  Put(table, {0}, [used |-> 1, nonce |-> d.nonce, vine |-> d.vine])

\* The introductions with d recorded; a full table drops it.
Noted(table, d) ==
  Put(table, First(FreeSlots(table)),
      [used |-> 1, nonce |-> d.nonce, vine |-> d.vine])

note_introductions(c, d) ==
  IF d.kind = "none"
  THEN UNCHANGED <<introductions, vines>>
  ELSE /\ introductions' = [introductions EXCEPT ![c] = Noted(@, d)]
       /\ vines[c][d.vine] < MaxRefs
       /\ vines' = [vines EXCEPT ![c][d.vine] = @ + 1]

\* A dispatched call comes to results, to a non-zero return, or to results
\* too large for CAPN_RPC_MAX_ANSWER_BYTES, which leave nothing sent.
\* handle_call never writes a cap table, so its results name no export.
handle_call(c, q, t, d, outcome, ok) ==
  /\ asks[c][q].st = "idle"
  /\ note_introductions(c, d)
  /\ \/ /\ resolve_target(c, t) = {} \/ outcome = "failed"
        /\ Reply(c, q, ok)
     \/ /\ resolve_target(c, t) # {}
        /\ outcome = "results"
        /\ send_answer(c, q, Ask("waiting"), NoCap, NoServer, ok)
     \/ /\ resolve_target(c, t) # {}
        /\ outcome = "oversize"
        /\ Reply(c, q, FALSE)
  /\ UNCHANGED <<exports, joins, bootstrap, provisions, verdict, ledger>>

\* releaseResultCaps is never read: when the peer sets it, the peer's
\* reference is gone and the export table does not know.
handle_finish(c, q, rel) ==
  LET a == asks[c][q]
  IN  /\ a.st \in {"waiting", "answered"}
      /\ rel => a.id # NoCap /\ refs[c][a.id][a.server] > 0
      /\ answers' = [answers EXCEPT ![c] = answer_drop(c, q)]
      /\ asks' = [asks EXCEPT ![c][q] =
                    Ask(IF a.st = "waiting" THEN "cancelled" ELSE "idle")]
      /\ refs' = IF rel THEN [refs EXCEPT ![c][a.id][a.server] = @ - 1]
                        ELSE refs
      /\ UNCHANGED <<exports, joins, introductions, bootstrap, provisions,
                     verdict, ledger, vines>>

\* Is a Join part aimed at export e still waiting for the rest of its set?
Joining(c, e) ==
  \E i \in Used(joins[c]) : \E n \in Used(joins[c][i].parts) :
     joins[c][i].parts[n].eid = e

\* The peer gives back n of the references it holds on s through import e.
handle_release(c, e, s, n) ==
  /\ n <= refs[c][e][s]
  /\ SwapWhileJoining \/ ~Joining(c, e)
  /\ refs' = [refs EXCEPT ![c][e][s] = @ - n]
  /\ exports' = [exports EXCEPT ![c][e] = Released(@, n)]
  /\ UNCHANGED <<answers, joins, introductions, bootstrap, provisions,
                 asks, verdict, ledger, vines>>

-----------------------------------------------------------------------------
\* Level 4: Join.

\* A JoinKeyPart.  partCount may be 0 or past the table, partNum past the set.
KeyParts ==
  [kind: {"part"}, joinId: JoinIds, partCount: 0..(MAX_JOIN_PARTS + 1),
   partNum: PartNums] \cup {NoKey}

WellFormed(k) ==
  k.kind = "part" /\ k.partCount \in 1..MAX_JOIN_PARTS /\ k.partNum < k.partCount

Wrong_join_slot_find(c, k) ==
  LET held == {i \in Used(joins[c]) : joins[c][i].join_id = k.joinId}
  IN  IF held # {} THEN First(held) ELSE First(FreeSlots(joins[c]))

\* The slot holding this set, unless its partCount disagrees, or a free one.
join_slot_find(c, k) ==
  LET held == {i \in Used(joins[c]) : joins[c][i].join_id = k.joinId}
  IN  IF held # {} THEN {i \in First(held) : joins[c][i].part_count = k.partCount}
                   ELSE First(FreeSlots(joins[c]))

Wrong_seen(c, i, num) == FALSE

\* Is this part of the set in already?
Seen(c, i, num) == joins[c][i].used = 1 /\ joins[c][i].parts[num].used = 1

\* The parts of join slot i with k's written in, aimed at `target`.
WithPart(c, i, k, q, target) ==
  LET seen == IF joins[c][i].used = 1 THEN joins[c][i].parts
                                  ELSE [n \in PartNums |-> Free]
      eid == IF target = {} THEN NoCap ELSE CHOOSE e \in target : TRUE
  IN  [seen EXCEPT ![k.partNum] =
         [used |-> 1, qid |-> q, eid |-> eid,
          obj |-> IF target = {} THEN NoServer ELSE ServerAt(exports[c], eid)]]

Wrong_same_object(parts, count) ==
  parts[0].eid # NoCap /\ \A n \in 1..(count - 2) : parts[n].eid = parts[0].eid

\* Did every part resolve, and to one export?
SameObject(parts, count) ==
  parts[0].eid # NoCap /\ \A n \in 1..(count - 1) : parts[n].eid = parts[0].eid

Wrong_answered_slot(parts, k) ==
  [used |-> 1, join_id |-> k.joinId, part_count |-> k.partCount,
   parts |-> [parts EXCEPT ![k.partNum] = Free]]

\* The slot of a set once it is answered: cleared, to be claimed again.
AnsweredSlot(parts, k) == Free

\* Every part is in: each question is answered, the first one with the
\* capability when all parts resolved to the same export.  got[n] says
\* whether part n's Return was delivered; none of them is kept.
join_complete(c, i, parts, k, q, got) ==
  LET nums == 0..(k.partCount - 1)
      first == parts[0].eid
      same == SameObject(parts, k.partCount)
      before(x) == IF x = q THEN Ask("waiting") ELSE asks[c][x]
      reply(n) == IF same /\ n = 0
                  THEN Returned(before(parts[n].qid), first, parts[n].obj)
                  ELSE Returned(before(parts[n].qid), NoCap, NoServer)
  IN  /\ joins' = [joins EXCEPT ![c][i] = AnsweredSlot(parts, k)]
      /\ exports' = IF same
                    THEN [exports EXCEPT ![c][first].refcount = @ + 1]
                    ELSE exports
      /\ asks' = [asks EXCEPT ![c] = [x \in Qids |->
                    IF \E n \in nums : parts[n].qid = x /\ got[n]
                    THEN reply(CHOOSE n \in nums : parts[n].qid = x /\ got[n])
                    ELSE before(x)]]
      /\ refs' = IF same /\ got[0]
                 THEN [refs EXCEPT ![c][first][ServerAt(exports[c], first)] = @ + 1]
                 ELSE refs
      /\ verdict' = [verdict EXCEPT ![c] =
                       [same |-> same, objs |-> {parts[n].obj : n \in nums}]]

handle_join(c, q, t, k, got) ==
  /\ asks[c][q].st = "idle"
  /\ Room(c)
  /\ LET slots == IF WellFormed(k) THEN join_slot_find(c, k) ELSE {}
         taken == {i \in slots : Seen(c, i, k.partNum)}
     IN  \/ /\ slots = {} \/ taken # {}
            /\ Reply(c, q, got[0])
            /\ UNCHANGED <<exports, joins, verdict>>
         \/ /\ UNCHANGED answers
            /\ \E i \in slots \ taken :
                 LET parts == WithPart(c, i, k, q, resolve_target(c, t))
                 IN  IF Used(parts) = 0..(k.partCount - 1)
                     THEN join_complete(c, i, parts, k, q, got)
                     ELSE /\ joins' = [joins EXCEPT ![c][i] =
                                [used |-> 1, join_id |-> k.joinId,
                                 part_count |-> k.partCount, parts |-> parts]]
                          /\ asks' = [asks EXCEPT ![c][q] = Ask("waiting")]
                          /\ UNCHANGED <<exports, refs, verdict>>
  /\ UNCHANGED <<introductions, bootstrap, provisions, ledger, vines>>

-----------------------------------------------------------------------------
\* Level 3: Provide, Accept, Disembargo.provide.

\* `named` is FALSE for a Provide without a recipient.
handle_provide(c, q, t, n, named, ok) ==
  /\ asks[c][q].st = "idle"
  /\ Room(c)
  /\ LET target == IF named THEN resolve_target(c, t) ELSE {}
         free == First(FreeSlots(provisions))
     IN  \/ /\ target = {} \/ free = {}
            /\ Reply(c, q, ok)
            /\ UNCHANGED <<exports, provisions, ledger>>
         \/ \E e \in target, i \in free :
              /\ provisions' = [provisions EXCEPT ![i] =
                   [used |-> 1, nonce |-> n, server |-> exports[c][e].server,
                    export_id |-> e, question_id |-> q,
                    embargoed |-> FALSE, accept_question_id |-> q,
                    from |-> c, acceptor |-> c]]
              /\ exports' = [exports EXCEPT ![c][e].refcount = @ + 1]
              /\ ledger' = [ledger EXCEPT ![n] = @ + 1]
              /\ send_answer(c, q, Ask("waiting"), NoCap, NoServer, ok)
  /\ UNCHANGED <<joins, introductions, bootstrap, verdict, vines>>

\* The provision an Accept of nonce n claims: a claimed one is out of reach.
Claimable(n) ==
  First({i \in Used(provisions) :
           ~provisions[i].embargoed /\ provisions[i].nonce = n})

Wrong_claimed_again(slot, c, q, e, embargo) ==
  IF embargo THEN [slot EXCEPT !.export_id = e, !.embargoed = TRUE,
                               !.accept_question_id = q, !.acceptor = c]
             ELSE [slot EXCEPT !.export_id = e]
Wrong_claimed_question(slot, c, q, e, embargo) ==
  IF embargo THEN [slot EXCEPT !.export_id = e, !.embargoed = TRUE,
                               !.acceptor = c]
             ELSE Free

\* The provision once an Accept claimed it through export e of connection c:
\* an embargoed one outlives the claim and carries the question to answer.
Claimed(slot, c, q, e, embargo) ==
  IF embargo THEN [slot EXCEPT !.export_id = e, !.embargoed = TRUE,
                               !.accept_question_id = q, !.acceptor = c]
             ELSE Free

\* n = NoNonce is an Accept without a provision.
handle_accept(c, q, n, embargo, ok) ==
  /\ asks[c][q].st = "idle"
  /\ Room(c)
  /\ \/ /\ \A i \in Claimable(n) : capn_rpc_export(c, provisions[i].server) = {}
        /\ Reply(c, q, ok)
        /\ UNCHANGED <<exports, provisions, ledger>>
     \/ \E i \in Claimable(n) : LET s == provisions[i].server IN
        \E e \in capn_rpc_export(c, s) :
          /\ exports' = [exports EXCEPT ![c][e] = Referenced(@, s)]
          /\ ledger' = [ledger EXCEPT ![n] = @ - 1]
          /\ provisions' = [provisions EXCEPT ![i] = Claimed(@, c, q, e, embargo)]
          /\ \/ /\ embargo
                /\ asks' = [asks EXCEPT ![c][q] = Ask("waiting")]
                /\ UNCHANGED <<answers, refs>>
             \/ /\ ~embargo
                /\ send_answer(c, q, Ask("waiting"), e, s, ok)
  /\ UNCHANGED <<joins, introductions, bootstrap, verdict, vines>>

Wrong_question_answered(slot) == slot.question_id
\* The question the Return of an embargoed claim answers.
Question_answered(slot) == slot.accept_question_id

\* An introducer lifts the embargo on what it provided under question pq.
\* The Return goes out on the connection the Disembargo came in on.
release_provide_embargo(c, pq, ok) ==
  /\ \E i \in Used(provisions) :
       provisions[i].from = c /\ provisions[i].question_id = pq
  /\ LET lifted == First({i \in Used(provisions) :
                            provisions[i].embargoed /\ provisions[i].question_id = pq})
     IN  \/ /\ lifted = {}
            /\ UNCHANGED <<exports, answers, provisions, asks, refs>>
         \/ \E i \in lifted :
              LET q == Question_answered(provisions[i])
              IN  /\ provisions' = [provisions EXCEPT ![i] = Free]
                  /\ UNCHANGED exports
                  /\ send_answer(c, q, asks[c][q], provisions[i].export_id,
                                 provisions[i].server, ok)
  /\ UNCHANGED <<joins, introductions, bootstrap, verdict, ledger, vines>>

-----------------------------------------------------------------------------
Init ==
  /\ exports = [c \in Conns |-> [e \in ExportIds |-> Free]]
  /\ answers = [c \in Conns |-> [a \in AnswerSlots |-> Free]]
  /\ joins = [c \in Conns |-> [j \in JoinSlots |-> Free]]
  /\ introductions = [c \in Conns |-> [i \in IntroductionSlots |-> Free]]
  /\ bootstrap = [c \in Conns |-> NoServer]
  /\ provisions = [i \in ProvisionSlots |-> Free]
  /\ asks = [c \in Conns |-> [q \in Qids |-> Ask("idle")]]
  /\ refs = [c \in Conns |-> [e \in ExportIds |-> [s \in Objects |-> 0]]]
  /\ verdict = [c \in Conns |-> [same |-> FALSE, objs |-> {}]]
  /\ ledger = [n \in Nonces |-> 0]
  /\ vines = [c \in Conns |-> [v \in Vines |-> 0]]

Application(c) ==
  \/ \E s \in Objects : capn_rpc_set_bootstrap(c, s)
  \/ \E s \in Servers : export_vine(c, s)
  \/ \E n \in Nonces, ok \in Sends : capn_rpc_introduction_done(c, n, ok)

Level1(c) ==
  \/ \E q \in Qids, ok \in Sends : handle_bootstrap(c, q, ok)
  \/ \E q \in Qids, t \in Targets(c), d \in Descriptors,
        outcome \in Outcomes, ok \in Sends : handle_call(c, q, t, d, outcome, ok)
  \/ \E q \in Qids, rel \in ReleaseResults : handle_finish(c, q, rel)
  \/ \E e \in ExportIds, s \in Servers : \E n \in 1..refs[c][e][s] :
        handle_release(c, e, s, n)

Level3(c) ==
  \/ \E q \in Qids, t \in Targets(c), n \in Nonces, named \in BOOLEAN,
        ok \in Sends : handle_provide(c, q, t, n, named, ok)
  \/ \E q \in Qids, n \in Nonces \cup {NoNonce}, embargo \in Embargoes,
        ok \in Sends : handle_accept(c, q, n, embargo, ok)
  \/ \E pq \in Qids, ok \in Sends : release_provide_embargo(c, pq, ok)

Level4(c) ==
  \E q \in Qids, t \in Targets(c), k \in KeyParts, got \in [PartNums -> Sends] :
     handle_join(c, q, t, k, got)

Next == \E c \in Conns : Application(c) \/ Level1(c) \/ Level3(c) \/ Level4(c)

Spec == Init /\ [][Next]_vars

TypeOK ==
  /\ exports \in [Conns -> [ExportIds -> Exports]]
  /\ answers \in [Conns -> [AnswerSlots -> Answers]]
  /\ joins \in [Conns -> [JoinSlots -> Joins]]
  /\ introductions \in [Conns -> [IntroductionSlots -> Introductions]]
  /\ bootstrap \in [Conns -> Objects]
  /\ provisions \in [ProvisionSlots -> Provisions]
  /\ asks \in [Conns -> [Qids -> Asks]]
  /\ refs \in [Conns -> [ExportIds -> [Objects -> Nat]]]
  /\ verdict \in [Conns -> [same: BOOLEAN, objs: SUBSET Objects]]
  /\ ledger \in [Nonces -> Int]
  /\ vines \in [Conns -> [Vines -> Int]]

-----------------------------------------------------------------------------
\* capn_rpc_export: "the peer must see one id per object, or reference
\* equality could not be answered".
OneIdPerServer ==
  \A c \in Conns : \A e, f \in Used(exports[c]) :
     exports[c][e].server = exports[c][f].server => e = f

\* What a peer was handed stays callable: while it holds an import, the
\* export slot is in use, still hosts that very object, and counts at least
\* the references the peer holds.  Slots are reused, so a reference the vat
\* did not count would one day name another object.
ImportsLive ==
  \A c \in Conns, e \in ExportIds, s \in Objects : refs[c][e][s] > 0 =>
     /\ exports[c][e].used = 1
     /\ exports[c][e].server = s
     /\ refs[c][e][s] <= exports[c][e].refcount

\* The references on export e that arrangements of the vat stand for: one per
\* unclaimed Provide that named it, one per embargoed Accept of it.
ArrangedOn(c, e) ==
  {i \in Used(provisions) :
    /\ provisions[i].export_id = e
    /\ c = IF provisions[i].embargoed THEN provisions[i].acceptor
                                      ELSE provisions[i].from}
Arranged(c, e) == Cardinality(ArrangedOn(c, e))

\* handle_provide takes a reference for the recipient and handle_accept one
\* when it claims: what is promised stays exported, as the same object and
\* with references to spare, whatever the introducer releases.
RefcountCovers ==
  \A c \in Conns, e \in ExportIds :
     LET claims == refs[c][e][ServerAt(exports[c], e)] + Arranged(c, e)
     IN  /\ claims > 0 => exports[c][e].used = 1 /\ exports[c][e].refcount >= claims
         /\ \A i \in ArrangedOn(c, e) : provisions[i].server = ServerAt(exports[c], e)

\* Every reference counted is one a peer holds or an arrangement stands for,
\* so an export is freed once nobody can name it: "The export is only
\* actually released when the reference count reaches zero" (rpc.capnp:684).
RefcountExact ==
  \A c \in Conns : \A e \in Used(exports[c]) :
     exports[c][e].refcount = refs[c][e][exports[c][e].server] + Arranged(c, e)

\* "A Return already sent, kept until the peer sends Finish" (capn-rpc.h:61):
\* a kept Return belongs to a question not finished, and to one kept Return.
AnswersOpen ==
  \A c \in Conns : \A a, b \in Used(answers[c]) :
     /\ asks[c][answers[c][a].qid].st \in {"waiting", "answered"}
     /\ answers[c][a].qid = answers[c][b].qid => a = b

\* A call pipelined on an answered question reaches the object its Return
\* carried for as long as the peer holds that capability: "the answer has to
\* still be here when the pipelined call arrives" (capn-rpc.h:63).
PipelineReaches ==
  \A c \in Conns, q \in Qids : LET a == asks[c][q] IN
     a.st = "answered" /\ a.id # NoCap /\ refs[c][a.id][a.server] > 0 =>
       \E e \in resolve_target(c, [kind |-> "promisedAnswer", qid |-> q]) :
          exports[c][e].server = a.server

\* Every Return answers, once, a question its receiver asked on that
\* connection: deferred Returns (Join parts, embargoed Accepts) included.
NoStrayReturn == \A c \in Conns, q \in Qids : asks[c][q].st # "stray"

\* "Return 0 to answer with those results, non-zero to answer with an
\* exception" (capn-rpc.h:44): a question without its Return is one the vat
\* still means to answer, a Join part or an embargoed Accept.
NoLostQuestion ==
  \A c \in Conns, q \in Qids : asks[c][q].st \in {"waiting", "cancelled"} =>
     \/ \E j \in Used(joins[c]) : \E n \in Used(joins[c][j].parts) :
          joins[c][j].parts[n].qid = q
     \/ \E i \in Used(provisions) :
          /\ provisions[i].embargoed
          /\ provisions[i].acceptor = c /\ provisions[i].accept_question_id = q

\* A Join succeeds exactly when every part named the same object as it
\* arrived (README.md:242, "reference equality").
JoinVerdictRight ==
  \A c \in Conns : LET v == verdict[c] IN
     v.same <=> \E s \in Servers : v.objs = {s}

\* A Join set in progress holds exactly its parts' questions open.
JoinPartsOpen ==
  \A c \in Conns : \A i, j \in Used(joins[c]) :
    \A n \in Used(joins[c][i].parts), m \in Used(joins[c][j].parts) :
      /\ n < joins[c][i].part_count
      /\ asks[c][joins[c][i].parts[n].qid].st \in {"waiting", "cancelled"}
      /\ joins[c][i].parts[n].qid = joins[c][j].parts[m].qid => <<i, n>> = <<j, m>>

\* "A nonce is single-use" (handle_accept): what a nonce can still claim is
\* what was provided under it less what was claimed.
NonceLedger ==
  \A n \in Nonces : ledger[n] =
     Cardinality({i \in Used(provisions) :
                    provisions[i].nonce = n /\ ~provisions[i].embargoed})

\* "must not be answered until the introducer lifts the embargo"
\* (capn-rpc.h:103): a claimed, embargoed Accept is still waiting.
EmbargoHolds ==
  \A i \in Used(provisions) : provisions[i].embargoed =>
     asks[provisions[i].acceptor][provisions[i].accept_question_id].st
       \in {"waiting", "cancelled"}

\* "Accept.embargo is honoured" (README.md:261): the step that lifts an embargo
\* answers the recipient's question.
LiftAnswersRecipient ==
  [][\A i \in ProvisionSlots :
       LET p == provisions[i] IN
         p.used = 1 /\ p.embargoed /\ provisions'[i].used = 0 =>
           asks'[p.acceptor][p.accept_question_id].st \notin {"waiting", "cancelled"}]_vars

\* "the vine must not be released until the pickup succeeds" (README.md:276)
\* and must be then: each vine handed to us is one a pickup will release.
VinesAccounted ==
  \A c \in Conns, v \in Vines : vines[c][v] =
     Cardinality({i \in Used(introductions[c]) : introductions[c][i].vine = v})
=============================================================================
