--------------------------- MODULE RpcVatHandoffs ---------------------------
(***************************************************************************)
(* Handoffs and the references they hold, proved for every size of vat.    *)
(* Provide and Accept each take a reference on an export for somebody who  *)
(* has not imported it yet; the invariants say that what the peers hold    *)
(* and what is arranged for them never exceed what the export counts.      *)
(* Then the questions: which of them a step asks, answers or defers, and   *)
(* that each is answered once, deferred ones included.  Last, what holds   *)
(* of connections whose peers hand nothing off: references are counted     *)
(* exactly, and what is kept for pipelined calls is what was returned.     *)
(***************************************************************************)
EXTENDS RpcVatProofs, MCOneConnection, FiniteSetTheorems

\* The connection whose exports a provision holds a reference on.
Place(slot) == IF slot.embargoed THEN slot.acceptor ELSE slot.from

\* The provisions of `table` that hold a reference on export e of c.
On(table, c, e) ==
  {i \in Used(table) : table[i].export_id = e /\ c = Place(table[i])}

\* A Provide is recorded in a free slot.
Provided(c, n, i, e) ==
  /\ i \in ProvisionSlots /\ provisions[i].used = 0
  /\ e \in ExportIds /\ exports[c][e].used = 1
  /\ exports' = [exports EXCEPT ![c][e].refcount = @ + 1]
  /\ UNCHANGED refs
  /\ ledger' = [ledger EXCEPT ![n] = @ + 1]
  /\ \E new \in Provisions :
       /\ provisions' = [provisions EXCEPT ![i] = new]
       /\ new.used = 1 /\ new.nonce = n /\ new.embargoed = FALSE
       /\ new.server = exports[c][e].server /\ new.export_id = e /\ new.from = c

\* The provision an Accept of n finds.
Offered(n, i) ==
  /\ i \in ProvisionSlots /\ provisions[i].used = 1
  /\ provisions[i].nonce = n /\ provisions[i].embargoed = FALSE

\* An Accept without embargo claims it, and it is gone.
Accepted(c, n, i, e) ==
  /\ Offered(n, i)
  /\ Taken(c, e, provisions[i].server)
  /\ ledger' = [ledger EXCEPT ![n] = @ - 1]
  /\ provisions' = [provisions EXCEPT ![i] = Free]

\* An Accept under embargo claims it, and it waits.
Embargoed(c, n, i, e) ==
  /\ TRUE \in Embargoes
  /\ Offered(n, i)
  /\ e \in capn_rpc_export(c, provisions[i].server)
  /\ exports' = [exports EXCEPT ![c][e] = Referenced(@, provisions[i].server)]
  /\ UNCHANGED refs
  /\ ledger' = [ledger EXCEPT ![n] = @ - 1]
  /\ \E new \in Provisions :
       /\ provisions' = [provisions EXCEPT ![i] = new]
       /\ new.used = 1 /\ new.nonce = n /\ new.embargoed = TRUE
       /\ new.server = provisions[i].server /\ new.export_id = e /\ new.acceptor = c

\* An embargo is lifted, and connection c may be told of the export.
Lifted(c, i) ==
  /\ i \in ProvisionSlots /\ provisions[i].used = 1 /\ provisions[i].embargoed
  /\ UNCHANGED <<exports, ledger>>
  /\ provisions' = [provisions EXCEPT ![i] = Free]
  /\ LET e == provisions[i].export_id
     IN  refs' \in {refs, [refs EXCEPT ![c][e][ServerAt(exports[c], e)] = @ + 1]}

\* What a step does to the provisions, and what it then does to the exports.
Handoff ==
  \/ Moves /\ UNCHANGED <<provisions, ledger>>
  \/ \E c \in Conns, n \in Nonces, i \in ProvisionSlots, e \in ExportIds :
       Provided(c, n, i, e) \/ Accepted(c, n, i, e) \/ Embargoed(c, n, i, e)
  \/ \E c \in Conns, i \in ProvisionSlots : Lifted(c, i)

-----------------------------------------------------------------------------
LEMMA ProvideHands ==
  ASSUME TypeOK, NEW c \in Conns, NEW q \in Qids, NEW t, NEW n \in Nonces,
         NEW named \in BOOLEAN, NEW ok \in BOOLEAN,
         handle_provide(c, q, t, n, named, ok)
  PROVE  Handoff
  <1>1. CASE Reply(c, q, ok) /\ UNCHANGED <<exports, provisions, ledger>>
    BY <1>1 DEF Reply, Moves, Handoff
  <1>2. ASSUME NEW e \in resolve_target(c, t),
               NEW i \in First(FreeSlots(provisions)),
               provisions' = [provisions EXCEPT ![i] =
                 [used |-> 1, nonce |-> n, server |-> exports[c][e].server,
                  export_id |-> e, question_id |-> q,
                  embargoed |-> FALSE, accept_question_id |-> q,
                  from |-> c, acceptor |-> c]],
               exports' = [exports EXCEPT ![c][e].refcount = @ + 1],
               ledger' = [ledger EXCEPT ![n] = @ + 1],
               send_answer(c, q, Ask("waiting"), NoCap, NoServer, ok)
        PROVE  Handoff
    <2> DEFINE new == [used |-> 1, nonce |-> n, server |-> exports[c][e].server,
                       export_id |-> e, question_id |-> q,
                       embargoed |-> FALSE, accept_question_id |-> q,
                       from |-> c, acceptor |-> c]
    <2>1. e \in ExportIds /\ exports[c][e].used = 1
      BY <1>2, TargetFound
    <2>2. exports[c][e].server \in Servers
      BY <2>1 DEF TypeOK, Exports, Free
    <2>3. new \in Provisions
      BY <2>1, <2>2 DEF Provisions
    <2>4. i \in ProvisionSlots /\ provisions[i].used = 0
      BY <1>2, FirstIn DEF FreeSlots, TypeOK
    <2>5. refs' = refs
      BY <1>2 DEF send_answer
    <2>6. /\ new.used = 1 /\ new.nonce = n /\ new.embargoed = FALSE
          /\ new.server = exports[c][e].server /\ new.export_id = e /\ new.from = c
      OBVIOUS
    <2>7. provisions' = [provisions EXCEPT ![i] = new]
      BY <1>2
    <2> HIDE DEF new
    <2>8. Provided(c, n, i, e)
      BY <1>2, <2>1, <2>3, <2>4, <2>5, <2>6, <2>7 DEF Provided
    <2> QED
      BY <2>1, <2>4, <2>8 DEF Handoff
  <1> QED
    BY <1>1, <1>2 DEF handle_provide

LEMMA AcceptHands ==
  ASSUME TypeOK, NEW c \in Conns, NEW q \in Qids, NEW n, NEW embargo \in Embargoes,
         NEW ok \in BOOLEAN, handle_accept(c, q, n, embargo, ok)
  PROVE  Handoff
  <1>0. embargo \in BOOLEAN
    BY ValuesAssumption
  <1>1. CASE Reply(c, q, ok) /\ UNCHANGED <<exports, provisions, ledger>>
    BY <1>1 DEF Reply, Moves, Handoff
  <1>2. ASSUME NEW i \in Claimable(n),
               NEW e \in capn_rpc_export(c, provisions[i].server),
               exports' = [exports EXCEPT ![c][e] =
                             Referenced(@, provisions[i].server)],
               ledger' = [ledger EXCEPT ![n] = @ - 1],
               provisions' = [provisions EXCEPT ![i] = Claimed(@, c, q, e, embargo)],
               \/ embargo /\ UNCHANGED refs
               \/ ~embargo /\ send_answer(c, q, Ask("waiting"), e, provisions[i].server, ok)
        PROVE  Handoff
    <2>1. Offered(n, i)
      <3>1. i \in Used(provisions) /\ ~provisions[i].embargoed /\ provisions[i].nonce = n
        BY FirstIn DEF Claimable
      <3>2. i \in ProvisionSlots /\ provisions[i] \in Provisions
        BY <3>1 DEF Used, TypeOK
      <3>3. provisions[i].embargoed = FALSE
        BY <3>1, <3>2 DEF Used, Provisions, Free
      <3> QED
        BY <3>1, <3>2, <3>3 DEF Offered, Used
    <2>2. /\ i \in ProvisionSlots /\ provisions[i] \in Provisions
          /\ provisions[i].server \in Servers /\ n \in Nonces
      BY <2>1 DEF Offered, TypeOK, Provisions, Free
    <2>3. e \in ExportIds
      BY <1>2, <2>2, ExportFound
    <2>4. CASE ~embargo
      <3>1. ServerAt(exports'[c], e) = provisions[i].server
        BY <1>2, <2>2, ReferencedServer
      <3>2. refs' \in {refs, [refs EXCEPT ![c][e][provisions[i].server] = @ + 1]}
        BY <1>2, <2>4, <3>1 DEF send_answer
      <3>3. provisions' = [provisions EXCEPT ![i] = Free]
        BY <1>2, <2>4 DEF Claimed
      <3>4. Accepted(c, n, i, e)
        BY <1>2, <2>1, <3>2, <3>3 DEF Accepted, Taken
      <3> QED
        BY <2>2, <2>3, <3>4 DEF Handoff
    <2>5. CASE embargo
      <3> DEFINE new == Claimed(provisions[i], c, q, e, embargo)
      <3>1. new \in Provisions
        BY <1>0, <2>1, <2>2, <2>3, ClaimedType DEF Offered
      <3>2. new = [provisions[i] EXCEPT !.export_id = e, !.embargoed = TRUE,
                                        !.accept_question_id = q, !.acceptor = c]
        BY <2>5 DEF Claimed
      <3>3. /\ new.used = 1 /\ new.nonce = n /\ new.embargoed = TRUE
            /\ new.server = provisions[i].server /\ new.export_id = e /\ new.acceptor = c
        BY <2>1, <2>2, <3>2 DEF Offered, Provisions, Free
      <3>4. provisions' = [provisions EXCEPT ![i] = new]
        BY <1>2, <2>2 DEF TypeOK
      <3>5. TRUE \in Embargoes
        BY <1>0, <2>5
      <3> HIDE DEF new
      <3>6. Embargoed(c, n, i, e)
        BY <1>2, <2>1, <2>5, <3>1, <3>3, <3>4, <3>5 DEF Embargoed
      <3> QED
        BY <2>2, <2>3, <3>6 DEF Handoff
    <2> QED
      BY <1>0, <2>4, <2>5
  <1> QED
    BY <1>1, <1>2 DEF handle_accept

LEMMA LiftHands ==
  ASSUME TypeOK, NEW c \in Conns, NEW pq \in Qids, NEW ok \in BOOLEAN,
         release_provide_embargo(c, pq, ok)
  PROVE  Handoff
  <1>1. CASE UNCHANGED <<exports, answers, provisions, asks, refs>>
    BY <1>1 DEF release_provide_embargo, Moves, Handoff
  <1>2. ASSUME NEW i \in First({j \in Used(provisions) : provisions[j].embargoed
                                  /\ provisions[j].question_id = pq}),
               provisions' = [provisions EXCEPT ![i] = Free],
               UNCHANGED <<exports, ledger>>,
               NEW q, send_answer(c, q, asks[c][q], provisions[i].export_id,
                                  provisions[i].server, ok)
        PROVE  Handoff
    <2>1. i \in ProvisionSlots /\ provisions[i].used = 1 /\ provisions[i].embargoed
      BY FirstIn DEF Used, TypeOK
    <2>2. Lifted(c, i)
      BY <1>2, <2>1 DEF Lifted, send_answer
    <2> QED
      BY <2>1, <2>2 DEF Handoff
  <1> QED
    BY <1>1, <1>2 DEF release_provide_embargo

LEMMA NextHands == ASSUME TypeOK, [Next]_vars PROVE Handoff
  <1>1. CASE UNCHANGED vars
    BY <1>1 DEF vars, Moves, Handoff
  <1>2. ASSUME NEW c \in Conns, Application(c) \/ Level1(c) \/ Level4(c)
        PROVE  Handoff
    <2>1. UNCHANGED <<provisions, ledger>>
      BY <1>2, ZenonT(60) DEF Application, Level1, Level4, capn_rpc_set_bootstrap, export_vine,
                  capn_rpc_introduction_done, handle_bootstrap, handle_call,
                  handle_finish, handle_release, handle_join, peer
    <2> QED
      BY <1>2, <2>1, ApplicationMoves, Level1Moves, Level4Moves DEF Handoff
  <1>3. ASSUME NEW c \in Conns, Level3(c) PROVE Handoff
    BY <1>3, ProvideHands, AcceptHands, LiftHands, ValuesAssumption DEF Level3
  <1> QED
    BY <1>1, <1>2, <1>3 DEF Next

-----------------------------------------------------------------------------
\* A nonce is single-use.

\* The provisions an Accept of n could still claim.
Unclaimed(table, n) ==
  {i \in Used(table) : table[i].nonce = n /\ ~table[i].embargoed}

\* Sets of provisions are finite: the table is.
LEMMA ProvisionsFinite ==
  ASSUME NEW A, A \subseteq ProvisionSlots
  PROVE  IsFiniteSet(A) /\ Cardinality(A) \in Nat
  <1>1. IsFiniteSet(ProvisionSlots)
    BY SizesAssumption, FS_Interval DEF ProvisionSlots
  <1>2. IsFiniteSet(A)
    BY <1>1, FS_Subset
  <1> QED
    BY <1>2, FS_CardinalityType

LEMMA UnclaimedIn ==
  ASSUME NEW table \in [ProvisionSlots -> Provisions], NEW n, NEW i
  PROVE  i \in Unclaimed(table, n) <=>
           i \in ProvisionSlots /\ table[i].used = 1 /\ table[i].nonce = n
             /\ ~table[i].embargoed
  BY DEF Unclaimed, Used

\* Writing one slot moves that provision in or out, and no other.
LEMMA UnclaimedMoved ==
  ASSUME NEW table \in [ProvisionSlots -> Provisions],
         NEW after \in [ProvisionSlots -> Provisions], NEW i \in ProvisionSlots,
         \A j \in ProvisionSlots : j # i => after[j] = table[j], NEW n
  PROVE  \A j : j # i => (j \in Unclaimed(after, n) <=> j \in Unclaimed(table, n))
  BY UnclaimedIn

LEMMA HandoffLedger ==
  ASSUME TypeOK, TypeOK', NonceLedger, Handoff
  PROVE  NonceLedger'
  <1> DEFINE Open(n) == Unclaimed(provisions, n)
             Opens(n) == Unclaimed(provisions', n)
  <1>0. \A n \in Nonces : ledger[n] = Cardinality(Open(n))
    BY DEF NonceLedger, Unclaimed
  <1>1. SUFFICES \A n \in Nonces : ledger'[n] = Cardinality(Opens(n))
    BY DEF NonceLedger, Unclaimed
  <1>2. provisions \in [ProvisionSlots -> Provisions]
        /\ provisions' \in [ProvisionSlots -> Provisions]
        /\ ledger \in [Nonces -> Int]
    BY DEF TypeOK
  <1>3. \A n : Open(n) \subseteq ProvisionSlots
    BY <1>2, UnclaimedIn
  <1>4. CASE UNCHANGED <<provisions, ledger>>
    BY <1>0, <1>4
  <1>5. ASSUME NEW c \in Conns, NEW n \in Nonces, NEW i \in ProvisionSlots,
               NEW e \in ExportIds, Provided(c, n, i, e)
        PROVE  \A m \in Nonces : ledger'[m] = Cardinality(Opens(m))
    <2>1. /\ provisions[i].used = 0
          /\ \A j \in ProvisionSlots : j # i => provisions'[j] = provisions[j]
          /\ provisions'[i].used = 1 /\ provisions'[i].nonce = n
          /\ provisions'[i].embargoed = FALSE
      BY <1>2, <1>5 DEF Provided
    <2>2. ledger' = [ledger EXCEPT ![n] = @ + 1]
      BY <1>5 DEF Provided
    <2>3. \A m, j : j # i => (j \in Opens(m) <=> j \in Open(m))
      BY <1>2, <2>1, UnclaimedMoved
    <2>4. \A m : i \notin Open(m) /\ (i \in Opens(m) <=> m = n)
      BY <1>2, <2>1, UnclaimedIn
    <2> HIDE DEF Open, Opens
    <2>5. Opens(n) = Open(n) \cup {i} /\ \A m : m # n => Opens(m) = Open(m)
      <3>1. \A j : j \in Opens(n) <=> j \in Open(n) \cup {i}
        BY <2>3, <2>4
      <3>2. ASSUME NEW m, m # n PROVE \A j : j \in Opens(m) <=> j \in Open(m)
        BY <2>3, <2>4, <3>2
      <3> QED
        BY <3>1, <3>2
    <2>6. Cardinality(Opens(n)) = Cardinality(Open(n)) + 1
      BY <1>3, <2>4, <2>5, ProvisionsFinite, FS_AddElement
    <2> QED
      BY <1>0, <1>2, <2>2, <2>5, <2>6
  <1>6. ASSUME NEW c \in Conns, NEW n \in Nonces, NEW i \in ProvisionSlots,
               NEW e \in ExportIds, Accepted(c, n, i, e) \/ Embargoed(c, n, i, e)
        PROVE  \A m \in Nonces : ledger'[m] = Cardinality(Opens(m))
    <2>0. Offered(n, i) /\ ledger' = [ledger EXCEPT ![n] = @ - 1]
      BY <1>6 DEF Accepted, Embargoed
    <2>1. /\ \A j \in ProvisionSlots : j # i => provisions'[j] = provisions[j]
          /\ ~(provisions'[i].used = 1 /\ ~provisions'[i].embargoed)
      <3>1. CASE Accepted(c, n, i, e)
        BY <1>2, <3>1 DEF Accepted, Free
      <3>2. CASE Embargoed(c, n, i, e)
        BY <1>2, <3>2 DEF Embargoed
      <3> QED
        BY <1>6, <3>1, <3>2
    <2>2. \A m, j : j # i => (j \in Opens(m) <=> j \in Open(m))
      BY <1>2, <2>1, UnclaimedMoved
    <2>3. \A m : i \notin Opens(m) /\ (i \in Open(m) <=> m = n)
      BY <1>2, <2>0, <2>1, UnclaimedIn DEF Offered
    <2> HIDE DEF Open, Opens
    <2>4. Opens(n) = Open(n) \ {i} /\ \A m : m # n => Opens(m) = Open(m)
      BY <2>2, <2>3
    <2>5. Cardinality(Opens(n)) = Cardinality(Open(n)) - 1
      BY <1>3, <2>3, <2>4, ProvisionsFinite, FS_RemoveElement
    <2> QED
      BY <1>0, <1>2, <2>0, <2>4, <2>5
  <1>7. ASSUME NEW c \in Conns, NEW i \in ProvisionSlots, Lifted(c, i)
        PROVE  \A m \in Nonces : ledger'[m] = Cardinality(Opens(m))
    <2>1. /\ ledger' = ledger /\ provisions[i].embargoed
          /\ \A j \in ProvisionSlots : j # i => provisions'[j] = provisions[j]
          /\ provisions'[i].used # 1
      BY <1>2, <1>7 DEF Lifted, Free
    <2>2. \A m, j : j # i => (j \in Opens(m) <=> j \in Open(m))
      BY <1>2, <2>1, UnclaimedMoved
    <2>3. \A m : i \notin Opens(m) /\ i \notin Open(m)
      BY <1>2, <2>1, UnclaimedIn
    <2> HIDE DEF Open, Opens
    <2>4. \A m : Opens(m) = Open(m)
      BY <2>2, <2>3
    <2> QED
      BY <1>0, <2>1, <2>4
  <1> QED
    BY <1>4, <1>5, <1>6, <1>7 DEF Handoff

\* "A nonce is single-use": however Provides, Accepts and lifted embargoes of
\* any number of connections follow each other, what can still be claimed
\* under a nonce is what was provided less what was claimed
\* (handle_provide, handle_accept, capn-rpc.c:1354-1465).
THEOREM SingleUse == Spec => []NonceLedger
  <1>1. Init => NonceLedger
    <2> SUFFICES ASSUME Init PROVE NonceLedger
      OBVIOUS
    <2>1. Used(provisions) = {}
      BY DEF Init, Used, Free
    <2>2. \A n \in Nonces : Unclaimed(provisions, n) = {} /\ ledger[n] = 0
      BY <2>1 DEF Init, Unclaimed
    <2> QED
      BY <2>2, FS_EmptySet DEF NonceLedger, Unclaimed
  <1>2. TypeOK /\ TypeOK' /\ NonceLedger /\ [Next]_vars => NonceLedger'
    BY NextHands, HandoffLedger
  <1> QED
    BY <1>1, <1>2, TypeCorrect, PTL DEF Spec

-----------------------------------------------------------------------------
\* What an export counts covers what is held and what is arranged.

\* Of one export slot, of a peer's references through it, and of k references
\* held for arrangements.
Within(slot, r, k) ==
  /\ \A s \in Objects : r[s] > 0 => slot.used = 1 /\ slot.server = s
  /\ k > 0 => slot.used = 1
  /\ slot.used = 1 => r[slot.server] + k <= slot.refcount

\* The provisions in A promise the object of this slot.
Promised(slot, A, table) ==
  \A i \in A : slot.used = 1 /\ table[i].server = slot.server

Covers ==
  \A c \in Conns, e \in ExportIds :
     LET A == On(provisions, c, e)
     IN  Within(exports[c][e], refs[c][e], Cardinality(A))
           /\ Promised(exports[c][e], A, provisions)

\* Fewer arrangements are covered too.
LEMMA FewerWithin ==
  ASSUME NEW slot \in Exports, NEW r \in [Objects -> Nat], NEW k \in Nat,
         Within(slot, r, k), NEW j \in Nat, j <= k
  PROVE  Within(slot, r, j)
  <1>1. slot.used = 1 => slot.server \in Objects /\ slot.refcount \in Nat
    BY DEF Exports, Free, Objects
  <1> QED
    BY <1>1 DEF Within

LEMMA ReferencedWithin ==
  ASSUME NEW slot \in Exports, NEW r \in [Objects -> Nat], NEW k \in Nat,
         Within(slot, r, k), NEW s \in Servers, slot.used = 1 => slot.server = s
  PROVE  /\ Within(Referenced(slot, s), r, k)
         /\ Within(Referenced(slot, s), r, k + 1)
         /\ Within(Referenced(slot, s), [r EXCEPT ![s] = @ + 1], k)
         /\ Referenced(slot, s).used = 1 /\ Referenced(slot, s).server = s
  <1>1. s \in Objects
    BY DEF Objects
  <1>2. CASE slot.used = 1
    <2>1. /\ slot.refcount \in Nat
          /\ Referenced(slot, s).used = 1 /\ Referenced(slot, s).server = s
          /\ Referenced(slot, s).refcount = slot.refcount + 1
      BY <1>2 DEF Exports, Referenced, Free
    <2> QED
      BY <1>1, <1>2, <2>1 DEF Within
  <1>3. CASE slot.used # 1
    <2>1. Referenced(slot, s) = [used |-> 1, server |-> s, refcount |-> 1]
      BY <1>3 DEF Referenced
    <2>2. k = 0 /\ \A x \in Objects : r[x] = 0
      BY <1>3 DEF Within
    <2> QED
      BY <1>1, <2>1, <2>2 DEF Within
  <1> QED
    BY <1>2, <1>3

LEMMA CountedWithin ==
  ASSUME NEW slot \in Exports, NEW r \in [Objects -> Nat], NEW k \in Nat,
         Within(slot, r, k), slot.used = 1,
         NEW counted, counted = [slot EXCEPT !.refcount = @ + 1]
  PROVE  /\ Within(counted, r, k) /\ Within(counted, r, k + 1)
         /\ Within(counted, [r EXCEPT ![slot.server] = @ + 1], k)
         /\ counted.used = 1 /\ counted.server = slot.server
  <1>1. slot.server \in Servers
    BY DEF Exports, Free
  <1>2. Referenced(slot, slot.server) = counted
    BY DEF Referenced
  <1>3. LET more == Referenced(slot, slot.server)
        IN  /\ Within(more, r, k) /\ Within(more, r, k + 1)
            /\ Within(more, [r EXCEPT ![slot.server] = @ + 1], k)
            /\ more.used = 1 /\ more.server = slot.server
    BY <1>1, ReferencedWithin
  <1> QED
    BY <1>2, <1>3, Zenon

\* Freeing at zero is safe: nothing else was imported through the slot, and
\* nothing was arranged on it.
LEMMA ReleasedWithin ==
  ASSUME NEW slot \in Exports, NEW r \in [Objects -> Nat], NEW k \in Nat,
         Within(slot, r, k), NEW s \in Objects, NEW n \in 1..r[s]
  PROVE  Within(Released(slot, n), [r EXCEPT ![s] = @ - n], k)
  <1>1. slot.used = 1 /\ slot.server = s /\ r[s] + k <= slot.refcount
        /\ slot.refcount \in Nat /\ n \in Nat /\ r[s] \in Nat
    BY DEF Within, Exports, Free
  <1>2. \A x \in Objects : x # s => r[x] = 0
    BY <1>1 DEF Within
  <1>3. CASE slot.refcount > n
    <2>1. /\ Released(slot, n).used = 1 /\ Released(slot, n).server = s
          /\ Released(slot, n).refcount = slot.refcount - n
      BY <1>1, <1>3 DEF Released, Exports, Free
    <2> QED
      BY <1>1, <1>2, <2>1 DEF Within
  <1>4. CASE ~(slot.refcount > n)
    <2>1. Released(slot, n) = [used |-> 0] /\ k = 0 /\ r[s] = n
      BY <1>1, <1>4 DEF Released, Free
    <2> QED
      BY <1>1, <1>2, <2>1 DEF Within
  <1> QED
    BY <1>3, <1>4

LEMMA DroppedWithin ==
  ASSUME NEW slot \in Exports, NEW r \in [Objects -> Nat], NEW k \in Nat,
         Within(slot, r, k), NEW s \in Objects, r[s] > 0
  PROVE  Within(slot, [r EXCEPT ![s] = @ - 1], k)
  BY DEF Within, Exports, Free

\* What was arranged may become what is held.
LEMMA LiftedWithin ==
  ASSUME NEW slot \in Exports, NEW r \in [Objects -> Nat], NEW k \in Nat, k > 0,
         Within(slot, r, k)
  PROVE  Within(slot, [r EXCEPT ![slot.server] = @ + 1], k - 1)
  <1>1. slot.used = 1 /\ slot.server \in Objects /\ slot.refcount \in Nat
    BY DEF Within, Exports, Free, Objects
  <1> QED
    BY <1>1 DEF Within

LEMMA OnIn ==
  ASSUME NEW table \in [ProvisionSlots -> Provisions], NEW c, NEW e, NEW i
  PROVE  i \in On(table, c, e) <=>
           /\ i \in ProvisionSlots /\ table[i].used = 1 /\ table[i].export_id = e
           /\ c = Place(table[i])
  BY DEF On, Used

\* Writing one provision moves that arrangement, and no other.
LEMMA OnMoved ==
  ASSUME NEW table \in [ProvisionSlots -> Provisions],
         NEW after \in [ProvisionSlots -> Provisions], NEW i \in ProvisionSlots,
         \A j \in ProvisionSlots : j # i => after[j] = table[j], NEW c, NEW e
  PROVE  \A j : j # i => (j \in On(after, c, e) <=> j \in On(table, c, e))
  BY OnIn DEF Place

\* Clearing one drops it.
LEMMA OnLeft ==
  ASSUME NEW table \in [ProvisionSlots -> Provisions],
         NEW after \in [ProvisionSlots -> Provisions], NEW i \in ProvisionSlots,
         \A j \in ProvisionSlots : j # i => after[j] = table[j],
         after[i].used # 1, NEW c, NEW e, NEW j \in On(after, c, e)
  PROVE  j # i /\ j \in On(table, c, e) /\ after[j] = table[j]
  BY OnIn, OnMoved

LEMMA OnCount ==
  ASSUME NEW table \in [ProvisionSlots -> Provisions], NEW c, NEW e
  PROVE  /\ IsFiniteSet(On(table, c, e)) /\ Cardinality(On(table, c, e)) \in Nat
         /\ On(table, c, e) # {} => Cardinality(On(table, c, e)) > 0
  <1>1. On(table, c, e) \subseteq ProvisionSlots
    BY OnIn
  <1> QED
    BY <1>1, ProvisionsFinite, FS_EmptySet

\* A step that elsewhere only drops arrangements keeps Covers when it keeps
\* it of the one export it works on.
LEMMA OneSlotCovers ==
  ASSUME TypeOK, TypeOK', Covers, NEW c \in Conns, NEW e \in ExportIds,
         \A d \in Conns, f \in ExportIds : (d # c \/ f # e) =>
            exports'[d][f] = exports[d][f] /\ refs'[d][f] = refs[d][f],
         \A d \in Conns, f \in ExportIds : (d # c \/ f # e) =>
            \A i \in On(provisions', d, f) :
               i \in On(provisions, d, f) /\ provisions'[i].server = provisions[i].server,
         Within(exports'[c][e], refs'[c][e], Cardinality(On(provisions', c, e))),
         Promised(exports'[c][e], On(provisions', c, e), provisions')
  PROVE  Covers'
  <1>1. ASSUME NEW d \in Conns, NEW f \in ExportIds, d # c \/ f # e
        PROVE  /\ Within(exports'[d][f], refs'[d][f], Cardinality(On(provisions', d, f)))
               /\ Promised(exports'[d][f], On(provisions', d, f), provisions')
    <2> DEFINE A == On(provisions, d, f)
               B == On(provisions', d, f)
    <2>1. Within(exports[d][f], refs[d][f], Cardinality(A))
          /\ Promised(exports[d][f], A, provisions)
      BY DEF Covers
    <2>2. \A i \in B : i \in A /\ provisions'[i].server = provisions[i].server
      BY <1>1
    <2>3. exports'[d][f] = exports[d][f] /\ refs'[d][f] = refs[d][f]
      BY <1>1
    <2>4. exports[d][f] \in Exports /\ refs[d][f] \in [Objects -> Nat]
      BY DEF TypeOK
    <2>5. IsFiniteSet(A) /\ Cardinality(A) \in Nat /\ Cardinality(B) \in Nat
      BY OnCount DEF TypeOK
    <2> HIDE DEF A, B
    <2>6. Cardinality(B) <= Cardinality(A)
      BY <2>2, <2>5, FS_Subset
    <2>7. Within(exports'[d][f], refs'[d][f], Cardinality(B))
      BY <2>1, <2>3, <2>4, <2>5, <2>6, FewerWithin
    <2>8. Promised(exports'[d][f], B, provisions')
      BY <2>1, <2>2, <2>3 DEF Promised
    <2> QED
      BY <2>7, <2>8 DEF B
  <1> QED
    BY <1>1 DEF Covers

\* What the five moves do while the arrangements stay, or drop.
LEMMA MovesCover ==
  ASSUME TypeOK, TypeOK', Covers, Moves,
         \A d \in Conns, f \in ExportIds : \A i \in On(provisions', d, f) :
            i \in On(provisions, d, f) /\ provisions'[i].server = provisions[i].server
  PROVE  Covers'
  <1> DEFINE K(c, e) == Cardinality(On(provisions, c, e))
  <1>0. ASSUME NEW c \in Conns, NEW e \in ExportIds
        PROVE  /\ exports[c][e] \in Exports
               /\ refs[c][e] \in [Objects -> Nat]
               /\ exports'[c][e] \in Exports
               /\ refs'[c][e] \in [Objects -> Nat]
               /\ K(c, e) \in Nat
               /\ Within(exports[c][e], refs[c][e], K(c, e))
    <2>1. K(c, e) \in Nat
      BY OnCount DEF TypeOK
    <2>2. Within(exports[c][e], refs[c][e], K(c, e))
      BY DEF Covers
    <2> HIDE DEF K
    <2> QED
      BY <2>1, <2>2 DEF TypeOK
  \* It is enough to look at the export moved, as arranged on before.
  <1>1. ASSUME NEW c \in Conns, NEW e \in ExportIds,
               \A d \in Conns, f \in ExportIds : (d # c \/ f # e) =>
                  exports'[d][f] = exports[d][f] /\ refs'[d][f] = refs[d][f],
               Within(exports'[c][e], refs'[c][e], K(c, e)),
               K(c, e) > 0 /\ exports[c][e].used = 1 =>
                  /\ exports'[c][e].used = 1
                  /\ exports'[c][e].server = exports[c][e].server
        PROVE  Covers'
    <2> DEFINE A == On(provisions, c, e)
               B == On(provisions', c, e)
    <2>1. /\ IsFiniteSet(A) /\ Cardinality(A) \in Nat /\ Cardinality(B) \in Nat
          /\ B # {} => Cardinality(B) > 0
      BY OnCount DEF TypeOK
    <2>2. \A i \in B : i \in A /\ provisions'[i].server = provisions[i].server
      OBVIOUS
    <2>3. Promised(exports[c][e], A, provisions)
      BY DEF Covers
    <2>4. Within(exports'[c][e], refs'[c][e], Cardinality(A))
          /\ (Cardinality(A) > 0 /\ exports[c][e].used = 1 =>
                 /\ exports'[c][e].used = 1
                 /\ exports'[c][e].server = exports[c][e].server)
      BY <1>1
    <2> HIDE DEF A, B
    <2>5. Cardinality(B) <= Cardinality(A)
      BY <2>1, <2>2, FS_Subset
    <2>6. Within(exports'[c][e], refs'[c][e], Cardinality(B))
      BY <1>0, <2>1, <2>4, <2>5, FewerWithin
    <2>7. Promised(exports'[c][e], B, provisions')
      <3> SUFFICES ASSUME NEW i \in B
                   PROVE  exports'[c][e].used = 1
                          /\ provisions'[i].server = exports'[c][e].server
        BY DEF Promised
      <3>1. exports[c][e].used = 1 /\ provisions'[i].server = exports[c][e].server
        BY <2>2, <2>3 DEF Promised
      <3>2. Cardinality(A) > 0
        BY <2>1, <2>5
      <3> QED
        BY <2>4, <3>1, <3>2
    <2> QED
      BY <1>1, <2>6, <2>7, OneSlotCovers DEF B
  <1> HIDE DEF K
  <1>2. CASE UNCHANGED <<exports, refs>>
    <2>1. ASSUME NEW c \in Conns, NEW e \in ExportIds PROVE Covers'
      BY <1>0, <1>1, <1>2
    <2>2. CASE Conns = {} \/ ExportIds = {}
      BY <2>2 DEF Covers
    <2> QED
      BY <2>1, <2>2
  <1>3. ASSUME NEW c \in Conns, NEW s \in Servers, NEW e \in ExportIds, Taken(c, e, s)
        PROVE  Covers'
    <2>1. exports[c][e].used = 1 => exports[c][e].server = s
      BY <1>3, ExportFound DEF Taken
    <2>2. exports'[c][e] = Referenced(exports[c][e], s)
          /\ refs'[c][e] \in {refs[c][e], [refs[c][e] EXCEPT ![s] = @ + 1]}
      BY <1>3 DEF Taken, TypeOK
    <2>3. /\ Within(Referenced(exports[c][e], s), refs[c][e], K(c, e))
          /\ Within(Referenced(exports[c][e], s), [refs[c][e] EXCEPT ![s] = @ + 1], K(c, e))
          /\ Referenced(exports[c][e], s).used = 1
          /\ Referenced(exports[c][e], s).server = s
      BY <1>0, <2>1, ReferencedWithin, ZenonT(60)
    <2>4. \A d \in Conns, f \in ExportIds : (d # c \/ f # e) =>
             exports'[d][f] = exports[d][f] /\ refs'[d][f] = refs[d][f]
      BY <1>3 DEF Taken, TypeOK
    <2>5. Within(exports'[c][e], refs'[c][e], K(c, e))
      BY <2>2, <2>3
    <2> QED
      BY <1>1, <2>1, <2>2, <2>3, <2>4, <2>5
  <1>4. ASSUME NEW c \in Conns, NEW e \in ExportIds, Counted(c, e)
        PROVE  Covers'
    <2> DEFINE counted == [exports[c][e] EXCEPT !.refcount = @ + 1]
    <2>1. exports'[c][e] = counted /\ exports[c][e].used = 1
          /\ refs'[c][e] \in {refs[c][e],
                              [refs[c][e] EXCEPT ![exports[c][e].server] = @ + 1]}
      BY <1>4 DEF Counted, TypeOK
    <2>2. /\ Within(counted, refs[c][e], K(c, e))
          /\ Within(counted, [refs[c][e] EXCEPT ![exports[c][e].server] = @ + 1], K(c, e))
          /\ counted.used = 1 /\ counted.server = exports[c][e].server
      BY <1>0, <2>1, CountedWithin
    <2>3. \A d \in Conns, f \in ExportIds : (d # c \/ f # e) =>
             exports'[d][f] = exports[d][f] /\ refs'[d][f] = refs[d][f]
      BY <1>4 DEF Counted, TypeOK
    <2> HIDE DEF counted
    <2>4. Within(exports'[c][e], refs'[c][e], K(c, e))
      BY <2>1, <2>2
    <2> QED
      BY <1>1, <2>1, <2>2, <2>3, <2>4
  <1>5. ASSUME NEW c \in Conns, NEW e \in ExportIds, NEW s \in Servers,
               NEW n \in Nat \ {0}, GivenBack(c, e, s, n)
        PROVE  Covers'
    <2>1. exports'[c][e] = Released(exports[c][e], n)
          /\ refs'[c][e] = [refs[c][e] EXCEPT ![s] = @ - n]
          /\ n \in 1..refs[c][e][s] /\ s \in Objects
      BY <1>5 DEF GivenBack, TypeOK, Objects
    <2>2. /\ Within(exports'[c][e], refs'[c][e], K(c, e))
          /\ K(c, e) > 0 => exports'[c][e].used = 1
               /\ exports'[c][e].server = exports[c][e].server
      <3> DEFINE slot == exports[c][e]
                 r == refs[c][e]
      <3>1. slot \in Exports /\ r \in [Objects -> Nat] /\ Within(slot, r, K(c, e))
            /\ K(c, e) \in Nat /\ n \in 1..r[s]
        BY <1>0, <2>1
      <3> HIDE DEF slot, r
      <3>2. Within(Released(slot, n), [r EXCEPT ![s] = @ - n], K(c, e))
        BY <2>1, <3>1, ReleasedWithin
      <3>3. K(c, e) > 0 =>
              Released(slot, n).used = 1 /\ Released(slot, n).server = slot.server
        BY <2>1, <3>1, <3>2 DEF Within, Released, Exports, Free
      <3> QED
        BY <2>1, <3>2, <3>3 DEF slot, r
    <2>3. \A d \in Conns, f \in ExportIds : (d # c \/ f # e) =>
             exports'[d][f] = exports[d][f] /\ refs'[d][f] = refs[d][f]
      BY <1>5 DEF GivenBack, TypeOK
    <2> QED
      BY <1>1, <2>1, <2>2, <2>3
  <1>6. ASSUME NEW c \in Conns, NEW e \in ExportIds, NEW s \in Objects, Dropped(c, e, s)
        PROVE  Covers'
    <2>1. exports'[c][e] = exports[c][e] /\ refs[c][e][s] > 0
          /\ refs'[c][e] = [refs[c][e] EXCEPT ![s] = @ - 1]
      BY <1>6 DEF Dropped, TypeOK
    <2>2. Within(exports[c][e], [refs[c][e] EXCEPT ![s] = @ - 1], K(c, e))
      BY <1>0, <2>1, DroppedWithin
    <2>3. \A d \in Conns, f \in ExportIds : (d # c \/ f # e) =>
             exports'[d][f] = exports[d][f] /\ refs'[d][f] = refs[d][f]
      BY <1>6 DEF Dropped, TypeOK
    <2> QED
      BY <1>1, <2>1, <2>2, <2>3
  <1> QED
    BY <1>2, <1>3, <1>4, <1>5, <1>6 DEF Moves

\* A reference is taken on export e of c and arranged there.
LEMMA ArrangedCovers ==
  ASSUME TypeOK, TypeOK', Covers, UNCHANGED refs,
         NEW c \in Conns, NEW e \in ExportIds, NEW s \in Servers,
         exports[c][e].used = 1 => exports[c][e].server = s,
         exports'[c][e] = Referenced(exports[c][e], s),
         \A d \in Conns, f \in ExportIds : (d # c \/ f # e) =>
            exports'[d][f] = exports[d][f],
         NEW i \in ProvisionSlots, provisions'[i].server = s,
         \A j \in ProvisionSlots : j # i => provisions'[j] = provisions[j],
         \A d \in Conns, f \in ExportIds : (d # c \/ f # e) =>
            i \notin On(provisions', d, f)
  PROVE  Covers'
  <1> DEFINE A == On(provisions, c, e)
             B == On(provisions', c, e)
  <1>1. \A d \in Conns, f \in ExportIds : \A j : j # i =>
           (j \in On(provisions', d, f) <=> j \in On(provisions, d, f))
    BY OnMoved DEF TypeOK
  <1>2. \A d \in Conns, f \in ExportIds : \A j \in On(provisions', d, f) :
           j \in ProvisionSlots
    BY OnIn DEF TypeOK
  <1>3. \A d \in Conns, f \in ExportIds : (d # c \/ f # e) =>
           \A j \in On(provisions', d, f) :
              j \in On(provisions, d, f) /\ provisions'[j].server = provisions[j].server
    BY <1>1, <1>2
  <1>4. /\ exports[c][e] \in Exports /\ refs[c][e] \in [Objects -> Nat]
        /\ exports'[c][e] = Referenced(exports[c][e], s) /\ refs'[c][e] = refs[c][e]
        /\ \A d \in Conns, f \in ExportIds : (d # c \/ f # e) =>
              exports'[d][f] = exports[d][f] /\ refs'[d][f] = refs[d][f]
    BY DEF TypeOK
  <1>5. /\ Within(exports[c][e], refs[c][e], Cardinality(A))
        /\ Promised(exports[c][e], A, provisions)
    BY DEF Covers
  <1>6. IsFiniteSet(A) /\ Cardinality(A) \in Nat /\ Cardinality(B) \in Nat
    BY OnCount DEF TypeOK
  <1>7. \A j \in B : j = i \/ (j \in A /\ provisions'[j].server = provisions[j].server)
    BY <1>1, <1>2
  <1> HIDE DEF A, B
  <1>8. Cardinality(B) <= Cardinality(A) + 1
    <2>1. B \subseteq A \cup {i}
      BY <1>7
    <2>2. IsFiniteSet(A \cup {i}) /\ Cardinality(A \cup {i}) <= Cardinality(A) + 1
          /\ Cardinality(A \cup {i}) \in Nat
      <3>1. IsFiniteSet(A \cup {i})
        BY <1>6, FS_AddElement
      <3>2. Cardinality(A \cup {i}) =
              IF i \in A THEN Cardinality(A) ELSE Cardinality(A) + 1
        BY <1>6, FS_AddElement
      <3> QED
        BY <1>6, <3>1, <3>2
    <2>3. Cardinality(B) <= Cardinality(A \cup {i})
      BY <2>1, <2>2, FS_Subset
    <2> QED
      BY <1>6, <2>2, <2>3
  <1>9. /\ Within(Referenced(exports[c][e], s), refs[c][e], Cardinality(A) + 1)
        /\ Referenced(exports[c][e], s).used = 1
        /\ Referenced(exports[c][e], s).server = s
    BY <1>4, <1>5, <1>6, ReferencedWithin, ZenonT(60)
  <1>10. Within(exports'[c][e], refs'[c][e], Cardinality(B))
    <2>1. Cardinality(A) + 1 \in Nat /\ exports'[c][e] \in Exports
      BY <1>6 DEF TypeOK
    <2> QED
      BY <1>4, <1>6, <1>8, <1>9, <2>1, FewerWithin
  <1>11. Promised(exports'[c][e], B, provisions')
    BY <1>4, <1>5, <1>7, <1>9 DEF Promised
  <1> QED
    BY <1>3, <1>4, <1>10, <1>11, OneSlotCovers DEF B

LEMMA ProvidedCovers ==
  ASSUME TypeOK, TypeOK', Covers, NEW c \in Conns, NEW n \in Nonces,
         NEW i \in ProvisionSlots, NEW e \in ExportIds, Provided(c, n, i, e)
  PROVE  Covers'
  <1> DEFINE s == exports[c][e].server
  <1>1. exports[c][e].used = 1 /\ exports[c][e] \in Exports
    BY DEF Provided, TypeOK
  <1>2. s \in Servers /\ Referenced(exports[c][e], s) = [exports[c][e] EXCEPT !.refcount = @ + 1]
    BY <1>1 DEF Referenced, Exports, Free
  <1>3. /\ exports'[c][e] = Referenced(exports[c][e], s)
        /\ \A d \in Conns, f \in ExportIds : (d # c \/ f # e) =>
              exports'[d][f] = exports[d][f]
    <2>1. exports' = [exports EXCEPT ![c][e].refcount = @ + 1]
      BY DEF Provided
    <2> QED
      BY <1>2, <2>1 DEF TypeOK
  <1>4. /\ \A j \in ProvisionSlots : j # i => provisions'[j] = provisions[j]
        /\ provisions'[i].server = s /\ provisions'[i].embargoed = FALSE
        /\ provisions'[i].export_id = e /\ provisions'[i].from = c
    BY DEF Provided, TypeOK
  <1>5. \A d \in Conns, f \in ExportIds : (d # c \/ f # e) =>
           i \notin On(provisions', d, f)
    BY <1>4 DEF On, Place
  <1>6. UNCHANGED refs
    BY DEF Provided
  <1> HIDE DEF s
  <1> QED
    BY <1>2, <1>3, <1>4, <1>5, <1>6, ArrangedCovers DEF s

LEMMA EmbargoedCovers ==
  ASSUME TypeOK, TypeOK', Covers, NEW c \in Conns, NEW n \in Nonces,
         NEW i \in ProvisionSlots, NEW e \in ExportIds, Embargoed(c, n, i, e)
  PROVE  Covers'
  <1> DEFINE s == provisions[i].server
  <1>1. s \in Servers
    BY DEF Embargoed, Offered, TypeOK, Provisions, Free
  <1>2. exports[c][e].used = 1 => exports[c][e].server = s
    BY <1>1, ExportFound DEF Embargoed
  <1>3. /\ exports'[c][e] = Referenced(exports[c][e], s)
        /\ \A d \in Conns, f \in ExportIds : (d # c \/ f # e) =>
              exports'[d][f] = exports[d][f]
        /\ UNCHANGED refs
    BY DEF Embargoed, TypeOK
  <1>4. /\ \A j \in ProvisionSlots : j # i => provisions'[j] = provisions[j]
        /\ provisions'[i].server = s /\ provisions'[i].embargoed = TRUE
        /\ provisions'[i].export_id = e /\ provisions'[i].acceptor = c
    BY DEF Embargoed, TypeOK
  <1>5. \A d \in Conns, f \in ExportIds : (d # c \/ f # e) =>
           i \notin On(provisions', d, f)
    BY <1>4 DEF On, Place
  <1> HIDE DEF s
  <1> QED
    BY <1>1, <1>2, <1>3, <1>4, <1>5, ArrangedCovers

LEMMA AcceptedCovers ==
  ASSUME TypeOK, TypeOK', Covers, NEW c \in Conns, NEW n \in Nonces,
         NEW i \in ProvisionSlots, NEW e \in ExportIds, Accepted(c, n, i, e)
  PROVE  Covers'
  <1>1. provisions[i].server \in Servers
    BY DEF Accepted, Offered, TypeOK, Provisions, Free
  <1>2. Moves
    BY <1>1 DEF Accepted, Moves
  <1>3. /\ \A j \in ProvisionSlots : j # i => provisions'[j] = provisions[j]
        /\ provisions'[i].used # 1
    BY DEF Accepted, TypeOK, Free
  <1>4. \A d \in Conns, f \in ExportIds : \A j \in On(provisions', d, f) :
           j \in On(provisions, d, f) /\ provisions'[j].server = provisions[j].server
    <2>1. provisions \in [ProvisionSlots -> Provisions]
          /\ provisions' \in [ProvisionSlots -> Provisions]
      BY DEF TypeOK
    <2> QED
      BY <1>3, <2>1, OnLeft
  <1> QED
    BY <1>2, <1>4, MovesCover

\* The embargo of the one connection there is: the reference that was
\* arranged is the one handed over.
LEMMA LiftedCovers ==
  ASSUME TypeOK, TypeOK', Covers, NEW c \in Conns, NEW i \in ProvisionSlots,
         Lifted(c, i), \A d \in Conns : d = c
  PROVE  Covers'
  <1> DEFINE e == provisions[i].export_id
             A == On(provisions, c, e)
             B == On(provisions', c, e)
  <1>1. /\ provisions[i].used = 1 /\ provisions[i].embargoed
        /\ e \in ExportIds /\ provisions[i].acceptor = c
    <2>1. provisions[i].used = 1 /\ provisions[i].embargoed
      BY DEF Lifted
    <2>2. provisions[i] \in Provisions
      BY DEF TypeOK
    <2> QED
      BY <2>1, <2>2 DEF Provisions, Free
  <1>2. /\ \A j \in ProvisionSlots : j # i => provisions'[j] = provisions[j]
        /\ provisions'[i].used # 1 /\ UNCHANGED exports
        /\ refs' \in {refs, [refs EXCEPT ![c][e][ServerAt(exports[c], e)] = @ + 1]}
    BY DEF Lifted, TypeOK, Free
  <1>3. provisions \in [ProvisionSlots -> Provisions]
        /\ provisions' \in [ProvisionSlots -> Provisions]
    BY DEF TypeOK
  <1>4. \A d \in Conns, f \in ExportIds : \A j : j # i =>
           (j \in On(provisions', d, f) <=> j \in On(provisions, d, f))
    BY <1>2, <1>3, OnMoved
  <1>5. \A d \in Conns, f \in ExportIds : \A j \in On(provisions', d, f) :
           j # i /\ j \in On(provisions, d, f) /\ provisions'[j].server = provisions[j].server
    BY <1>2, <1>3, OnLeft
  <1>6. i \in A
    BY <1>1, OnIn DEF Place, TypeOK
  <1>7. B = A \ {i}
    BY <1>1, <1>4, <1>5
  <1>8. /\ exports[c][e] \in Exports /\ refs[c][e] \in [Objects -> Nat]
        /\ Within(exports[c][e], refs[c][e], Cardinality(A))
        /\ Promised(exports[c][e], A, provisions)
    BY <1>1 DEF Covers, TypeOK
  <1>9. IsFiniteSet(A) /\ Cardinality(A) \in Nat /\ Cardinality(A) > 0
    BY <1>6, OnCount DEF TypeOK
  <1> HIDE DEF A, B
  <1>10. exports[c][e].used = 1
    BY <1>6, <1>8 DEF Promised
  <1> HIDE DEF e
  <1>11. Cardinality(B) = Cardinality(A) - 1
    BY <1>6, <1>7, <1>9, FS_RemoveElement
  <1>12. refs'[c][e] = refs[c][e]
         \/ refs'[c][e] = [refs[c][e] EXCEPT ![exports[c][e].server] = @ + 1]
    BY <1>1, <1>2, <1>10 DEF ServerAt, TypeOK
  <1>13. /\ Within(exports[c][e], refs[c][e], Cardinality(A) - 1)
         /\ Within(exports[c][e], [refs[c][e] EXCEPT ![exports[c][e].server] = @ + 1],
                   Cardinality(A) - 1)
    <2>1. Cardinality(A) - 1 \in Nat /\ Cardinality(A) - 1 <= Cardinality(A)
      BY <1>9
    <2>2. Within(exports[c][e], refs[c][e], Cardinality(A) - 1)
      BY <1>8, <1>9, <2>1, FewerWithin
    <2>3. Within(exports[c][e], [refs[c][e] EXCEPT ![exports[c][e].server] = @ + 1],
                 Cardinality(A) - 1)
      BY <1>8, <1>9, LiftedWithin
    <2> QED
      BY <2>2, <2>3
  <1>14. Within(exports'[c][e], refs'[c][e], Cardinality(B))
    BY <1>2, <1>11, <1>12, <1>13
  <1>15. Promised(exports'[c][e], B, provisions')
    <2>1. \A j \in B : j \in A /\ provisions'[j].server = provisions[j].server
      BY <1>1, <1>5 DEF A, B
    <2> QED
      BY <1>2, <1>8, <2>1 DEF Promised
  <1>16. \A d \in Conns, f \in ExportIds : (d # c \/ f # e) =>
            exports'[d][f] = exports[d][f] /\ refs'[d][f] = refs[d][f]
    BY <1>1, <1>2 DEF TypeOK
  <1> QED
    BY <1>1, <1>5, <1>14, <1>15, <1>16, OneSlotCovers DEF B

\* No provision is under embargo: so it is while no Accept asks for one.
NoEmbargo == \A i \in Used(provisions) : provisions[i].embargoed = FALSE

\* Provisions enter unembargoed, and an Accept that does not ask for an
\* embargo clears the slot it claims.
LEMMA NoEmbargoKept ==
  ASSUME TypeOK, TypeOK', NoEmbargo, Embargoes \subseteq {FALSE}, Handoff
  PROVE  NoEmbargo'
  <1> DEFINE Plain(slot) == slot.used = 1 => slot.embargoed = FALSE
  <1>1. \A i \in ProvisionSlots : Plain(provisions[i])
    BY DEF NoEmbargo, Used, TypeOK
  <1>2. SUFFICES \A i \in ProvisionSlots : Plain(provisions'[i])
    BY DEF NoEmbargo, Used, TypeOK
  <1>3. ASSUME NEW c \in Conns, NEW n \in Nonces, NEW j \in ProvisionSlots,
               NEW e \in ExportIds,
               Provided(c, n, j, e) \/ Accepted(c, n, j, e) \/ Embargoed(c, n, j, e)
        PROVE  \A i \in ProvisionSlots : Plain(provisions'[i])
    <2>1. CASE Provided(c, n, j, e)
      BY <1>1, <2>1 DEF Provided, TypeOK
    <2>2. CASE Accepted(c, n, j, e)
      BY <1>1, <2>2 DEF Accepted, TypeOK, Free
    <2>3. ~Embargoed(c, n, j, e)
      BY DEF Embargoed
    <2> QED
      BY <1>3, <2>1, <2>2, <2>3
  <1>4. ASSUME NEW c \in Conns, NEW j \in ProvisionSlots, Lifted(c, j)
        PROVE  \A i \in ProvisionSlots : Plain(provisions'[i])
    BY <1>1, <1>4 DEF Lifted, TypeOK, Free
  <1> QED
    BY <1>1, <1>3, <1>4 DEF Handoff

\* A Return that lifts an embargo is sent on the connection the Disembargo
\* came from.  It is the right one when there is no embargo, or no other
\* connection.
NoCrossEmbargo == Embargoes \subseteq {FALSE} \/ \A c, d \in Conns : c = d

CoversInv == Covers /\ (Embargoes \subseteq {FALSE} => NoEmbargo)

LEMMA HandoffCovers ==
  ASSUME TypeOK, TypeOK', CoversInv, NoCrossEmbargo, Handoff
  PROVE  CoversInv'
  <1>1. Embargoes \subseteq {FALSE} => NoEmbargo'
    BY NoEmbargoKept DEF CoversInv
  <1>2. CASE Moves /\ UNCHANGED <<provisions, ledger>>
    BY <1>1, <1>2, MovesCover DEF CoversInv
  <1>3. ASSUME NEW c \in Conns, NEW n \in Nonces, NEW i \in ProvisionSlots,
               NEW e \in ExportIds,
               Provided(c, n, i, e) \/ Accepted(c, n, i, e) \/ Embargoed(c, n, i, e)
        PROVE  CoversInv'
    BY <1>1, <1>3, ProvidedCovers, AcceptedCovers, EmbargoedCovers DEF CoversInv
  <1>4. ASSUME NEW c \in Conns, NEW i \in ProvisionSlots, Lifted(c, i)
        PROVE  CoversInv'
    <2>1. CASE Embargoes \subseteq {FALSE}
      BY <1>4, <2>1 DEF CoversInv, NoEmbargo, Lifted, Used, TypeOK
    <2>2. CASE \A d \in Conns : d = c
      BY <1>1, <1>4, <2>2, LiftedCovers DEF CoversInv
    <2> QED
      BY <2>1, <2>2 DEF NoCrossEmbargo
  <1> QED
    BY <1>2, <1>3, <1>4 DEF Handoff

\* Covers says at once that imports live and that arrangements are covered.
LEMMA CoversBoth ==
  ASSUME TypeOK, Covers
  PROVE  ImportsLive /\ RefcountCovers
  <1> SUFFICES ASSUME NEW c \in Conns, NEW e \in ExportIds
               PROVE  LET slot == exports[c][e]
                          r == refs[c][e]
                          claims == r[ServerAt(exports[c], e)] + Arranged(c, e)
                      IN  /\ \A s \in Objects : r[s] > 0 =>
                                slot.used = 1 /\ slot.server = s /\ r[s] <= slot.refcount
                          /\ claims > 0 => slot.used = 1 /\ slot.refcount >= claims
                          /\ \A i \in ArrangedOn(c, e) :
                                provisions[i].server = ServerAt(exports[c], e)
    BY DEF ImportsLive, RefcountCovers
  <1> DEFINE slot == exports[c][e]
             r == refs[c][e]
             k == Cardinality(On(provisions, c, e))
  <1>1. slot \in Exports /\ r \in [Objects -> Nat] /\ k \in Nat
    <2>1. slot \in Exports
      BY DEF TypeOK
    <2>2. r \in [Objects -> Nat]
      BY DEF TypeOK
    <2>3. provisions \in [ProvisionSlots -> Provisions]
      BY DEF TypeOK
    <2>4. k \in Nat
      BY <2>3, OnCount
    <2> QED
      BY <2>1, <2>2, <2>4
  <1>2. Within(slot, r, k) /\ Promised(slot, On(provisions, c, e), provisions)
    BY DEF Covers
  <1>3. ArrangedOn(c, e) = On(provisions, c, e) /\ Arranged(c, e) = k
    BY DEF ArrangedOn, Arranged, On, Place
  <1>4. slot.used = 1 => slot.server \in Objects /\ slot.refcount \in Nat
    BY <1>1 DEF Exports, Free, Objects
  <1>5. ServerAt(exports[c], e) = IF slot.used = 1 THEN slot.server ELSE NoServer
    BY DEF ServerAt
  <1>6. NoServer \in Objects
    BY DEF Objects
  <1> HIDE DEF slot, r, k
  <1>7. \A s \in Objects : r[s] > 0 =>
          slot.used = 1 /\ slot.server = s /\ r[s] <= slot.refcount
    BY <1>1, <1>2, <1>4 DEF Within
  <1>8. r[ServerAt(exports[c], e)] + k > 0 =>
          slot.used = 1 /\ slot.refcount >= r[ServerAt(exports[c], e)] + k
    BY <1>1, <1>2, <1>4, <1>5, <1>6 DEF Within
  <1>9. \A i \in On(provisions, c, e) : provisions[i].server = ServerAt(exports[c], e)
    BY <1>2, <1>5 DEF Promised
  <1> QED
    BY <1>3, <1>7, <1>8, <1>9 DEF slot, r

LEMMA CoversAlways == NoCrossEmbargo => (Spec => [](TypeOK /\ CoversInv))
  <1> SUFFICES ASSUME NoCrossEmbargo PROVE Spec => [](TypeOK /\ CoversInv)
    OBVIOUS
  <1>1. Init => CoversInv
    <2> SUFFICES ASSUME Init PROVE CoversInv
      OBVIOUS
    <2>1. Used(provisions) = {}
      BY DEF Init, Used, Free
    <2>2. ASSUME NEW c \in Conns, NEW e \in ExportIds
          PROVE  /\ Within(exports[c][e], refs[c][e], Cardinality(On(provisions, c, e)))
                 /\ Promised(exports[c][e], On(provisions, c, e), provisions)
      <3>1. On(provisions, c, e) = {}
        BY <2>1 DEF On
      <3>2. exports[c][e] = Free /\ \A s \in Objects : refs[c][e][s] = 0
        BY DEF Init
      <3> QED
        BY <3>1, <3>2, FS_EmptySet DEF Within, Promised, Free
    <2> QED
      BY <2>1, <2>2 DEF CoversInv, Covers, NoEmbargo
  <1>2. TypeOK /\ TypeOK' /\ CoversInv /\ [Next]_vars => CoversInv'
    BY NextHands, HandoffCovers
  <1> QED
    BY <1>1, <1>2, TypeCorrect, PTL DEF Spec

\* An import a peer holds always names an export in use, hosting the object
\* it was handed out for, with at least as many references counted as the
\* peer holds: whatever it releases, joins, pipelines or hands off, and
\* whichever sends fail (capn-rpc.c:38-60, 515-524, 603-624, 1323-1465).
\* MCRpcVat_v_cross_embargo is why embargoes across connections are excluded.
THEOREM Imports == NoCrossEmbargo => (Spec => []ImportsLive)
  <1>1. TypeOK /\ CoversInv => ImportsLive
    BY CoversBoth DEF CoversInv
  <1> QED
    BY <1>1, CoversAlways, PTL

\* What is promised to a recipient stays exported, as the object provided and
\* with a reference of its own, whatever the introducer and the recipient
\* release in the meantime (handle_provide, handle_accept,
\* release_provide_embargo, capn-rpc.c:1323-1465).
THEOREM HandoffsCovered == NoCrossEmbargo => (Spec => []RefcountCovers)
  <1>1. TypeOK /\ CoversInv => RefcountCovers
    BY CoversBoth DEF CoversInv
  <1> QED
    BY <1>1, CoversAlways, PTL

(***************************************************************************)
(* Questions.  Two kinds of question wait for their Return: parts of a Join*)
(* that is not complete and Accepts under embargo.  A question is the      *)
(* business of at most one of them, and is waiting for its Return or was   *)
(* finished without it for as long as it is.                               *)
(***************************************************************************)

\* Part n of the set in slot i is question q of connection c.
PartAt(table, c, i, n, q) ==
  i \in Used(table[c]) /\ n \in Used(table[c][i].parts) /\ table[c][i].parts[n].qid = q

\* The embargoed claim in slot i is question q of connection c.
HeldAt(table, i, c, q) ==
  /\ i \in Used(table) /\ table[i].embargoed
  /\ table[i].acceptor = c /\ table[i].accept_question_id = q

Open == {"waiting", "cancelled"}

\* The peers get what is sent to them.
Delivered == Sends \subseteq {TRUE}

\* And no results are too large to send.
Reliable == Delivered /\ "oversize" \notin Outcomes

\* A Return changes a question's state so.
ReturnedSt(st) ==
  CASE st = "waiting" -> "answered"
    [] st = "cancelled" -> "idle"
    [] OTHER -> "stray"

-----------------------------------------------------------------------------
\* What a step does to the questions.

Others(c, q) ==
  \A d \in Conns, x \in Qids : (d # c \/ x # q) => asks'[d][x].st = asks[d][x].st

SameHeld ==
  \A j, d, x : HeldAt(provisions', j, d, x) <=> HeldAt(provisions, j, d, x)

\* A question is asked and answered, or its answer is lost.
Answering(c, q) ==
  /\ asks[c][q].st = "idle" /\ Others(c, q)
  /\ asks'[c][q].st \in {"answered", "waiting"}
  /\ Reliable => asks'[c][q].st = "answered"
  /\ UNCHANGED joins /\ SameHeld

\* A question is finished.
Finishing(c, q) ==
  /\ asks[c][q].st \in {"answered", "waiting"} /\ Others(c, q)
  /\ asks'[c][q].st = IF asks[c][q].st = "waiting" THEN "cancelled" ELSE "idle"
  /\ UNCHANGED joins /\ SameHeld

\* An Accept under embargo is asked, and waits.
Holding(c, q, i) ==
  /\ asks[c][q].st = "idle" /\ Others(c, q) /\ asks'[c][q].st = "waiting"
  /\ UNCHANGED joins
  /\ TRUE \in Embargoes
  /\ \A j, d, x : HeldAt(provisions', j, d, x) <=>
        HeldAt(provisions, j, d, x) \/ (j = i /\ d = c /\ x = q)

\* Its embargo is lifted, and connection c is answered for the acceptor.
Lifting(c, q, i) ==
  /\ HeldAt(provisions, i, provisions[i].acceptor, q)
  /\ provisions[i].acceptor \in Conns
  /\ asks'[c][q].st \in {asks[c][q].st, ReturnedSt(asks[c][q].st)} /\ Others(c, q)
  /\ Delivered => asks'[c][q].st = ReturnedSt(asks[c][q].st)
  /\ UNCHANGED joins
  /\ \A j, d, x : HeldAt(provisions', j, d, x) <=> HeldAt(provisions, j, d, x) /\ j # i

\* Every part is below its set's count.
PartsInCount ==
  \A c \in Conns : \A i \in Used(joins[c]) : \A n \in Used(joins[c][i].parts) :
     n < joins[c][i].part_count

\* A Join part is asked, and waits for the rest of its set.
Joining1(c, q, i, n) ==
  /\ asks[c][q].st = "idle" /\ Others(c, q) /\ asks'[c][q].st = "waiting"
  /\ SameHeld /\ (PartsInCount => PartsInCount')
  /\ \A d \in Conns : \A j, m, x : PartAt(joins', d, j, m, x) <=>
        PartAt(joins, d, j, m, x) \/ (d = c /\ j = i /\ m = n /\ x = q)

\* The last part of set i is asked, and the set's questions are answered.
Before(c, q, x) == IF x = q THEN "waiting" ELSE asks[c][x].st
Completing(c, q, i) ==
  /\ asks[c][q].st = "idle"
  /\ \A d \in Conns, x \in Qids : d # c => asks'[d][x].st = asks[d][x].st
  /\ \A x \in Qids :
       LET own == x = q \/ \E n : PartAt(joins, c, i, n, x)
       IN  /\ ~own => asks'[c][x].st = asks[c][x].st
           /\ own => asks'[c][x].st \in {Before(c, q, x), ReturnedSt(Before(c, q, x))}
           /\ own /\ Reliable => asks'[c][x].st = ReturnedSt(Before(c, q, x))
  /\ SameHeld /\ (PartsInCount => PartsInCount')
  /\ \A d \in Conns : \A j, m, x : PartAt(joins', d, j, m, x) <=>
        PartAt(joins, d, j, m, x) /\ ~(d = c /\ j = i)

\* What a Join does to the questions.
Gathering(c, q) ==
  \/ Answering(c, q)
  \/ \E i \in JoinSlots : Completing(c, q, i) \/ \E n \in PartNums : Joining1(c, q, i, n)

Talk ==
  \/ UNCHANGED <<asks, joins>> /\ SameHeld
  \/ \E c \in Conns, q \in Qids : Answering(c, q) \/ Finishing(c, q)
  \/ \E c \in Conns, q \in Qids, i \in ProvisionSlots : Holding(c, q, i) \/ Lifting(c, q, i)
  \/ \E c \in Conns, q \in Qids, i \in JoinSlots :
        Completing(c, q, i) \/ \E n \in PartNums : Joining1(c, q, i, n)

-----------------------------------------------------------------------------
LEMMA ReplyTalks ==
  ASSUME TypeOK, NEW c \in Conns, NEW q \in Qids, NEW ok \in Sends,
         asks[c][q].st = "idle", UNCHANGED joins, SameHeld, Reply(c, q, ok)
  PROVE  Answering(c, q)
  <1>1. /\ Others(c, q)
        /\ asks'[c][q] = IF ok THEN Answered(NoCap, NoServer) ELSE Ask("waiting")
    BY DEF Reply, Others, TypeOK
  <1>2. Sends \subseteq BOOLEAN
    BY ValuesAssumption
  <1>3. Answered(NoCap, NoServer).st = "answered" /\ Ask("waiting").st = "waiting"
    BY DEF Ask, Answered
  <1> QED
    BY <1>1, <1>2, <1>3 DEF Answering, Reliable, Delivered

\* A question just asked is waiting when send_answer answers it.
LEMMA AnswerTalks ==
  ASSUME TypeOK, NEW c \in Conns, NEW q \in Qids, NEW ok \in Sends, NEW e, NEW s,
         asks[c][q].st = "idle", UNCHANGED joins, SameHeld,
         send_answer(c, q, Ask("waiting"), e, s, ok)
  PROVE  Answering(c, q)
  <1>1. /\ Others(c, q)
        /\ asks'[c][q] = IF ok THEN Returned(Ask("waiting"), e, s) ELSE Ask("waiting")
    BY DEF send_answer, Others, TypeOK
  <1>2. Sends \subseteq BOOLEAN
    BY ValuesAssumption
  <1>3. Returned(Ask("waiting"), e, s).st = "answered" /\ Ask("waiting").st = "waiting"
    BY DEF Returned, Ask, Answered
  <1> QED
    BY <1>1, <1>2, <1>3 DEF Answering, Reliable, Delivered

\* No slot that is or becomes embargoed changed.
LEMMA SameHeldOf ==
  ASSUME NEW i, TypeOK, TypeOK', i \in ProvisionSlots,
         \A j \in ProvisionSlots : j # i => provisions'[j] = provisions[j],
         ~(provisions[i].used = 1 /\ provisions[i].embargoed),
         ~(provisions'[i].used = 1 /\ provisions'[i].embargoed)
  PROVE  SameHeld
  BY DEF SameHeld, HeldAt, Used, TypeOK

LEMMA ApplicationTalks ==
  ASSUME TypeOK, NEW c \in Conns, Application(c) PROVE Talk
  BY DEF Application, capn_rpc_set_bootstrap, export_vine, capn_rpc_introduction_done,
         peer, Talk, SameHeld

LEMMA Level1Talks ==
  ASSUME TypeOK, NEW c \in Conns, Level1(c) PROVE Talk
  <1>0. UNCHANGED <<joins, provisions>>
    BY DEF Level1, handle_bootstrap, handle_call, handle_finish, handle_release
  <1>1. SameHeld
    BY <1>0 DEF SameHeld
  <1>2. ASSUME NEW q \in Qids, NEW ok \in Sends, handle_bootstrap(c, q, ok)
        PROVE  Talk
    <2>1. Answering(c, q)
      BY <1>0, <1>1, <1>2, ReplyTalks, AnswerTalks DEF handle_bootstrap
    <2> QED
      BY <2>1 DEF Talk
  <1>3. ASSUME NEW q \in Qids, NEW t, NEW d, NEW outcome \in Outcomes, NEW ok \in Sends,
               handle_call(c, q, t, d, outcome, ok)
        PROVE  Talk
    <2>0. asks[c][q].st = "idle"
      BY <1>3 DEF handle_call
    <2>1. CASE Reply(c, q, ok)
      BY <1>0, <1>1, <2>0, <2>1, ReplyTalks DEF Talk
    <2>2. CASE send_answer(c, q, Ask("waiting"), NoCap, NoServer, ok)
      BY <1>0, <1>1, <2>0, <2>2, AnswerTalks DEF Talk
    <2>3. CASE outcome = "oversize" /\ Reply(c, q, FALSE)
      <3>1. Others(c, q) /\ asks'[c][q] = Ask("waiting")
        BY <2>3 DEF Reply, Others, TypeOK
      <3>2. Answering(c, q)
        <4>1. ~Reliable
          BY <1>3, <2>3 DEF Reliable, Delivered
        <4>2. Ask("waiting").st = "waiting"
          BY DEF Ask
        <4> QED
          BY <1>0, <1>1, <2>0, <3>1, <4>1, <4>2 DEF Answering
      <3> QED
        BY <3>2 DEF Talk
    <2> QED
      BY <1>3, <2>1, <2>2, <2>3 DEF handle_call
  <1>4. ASSUME NEW q \in Qids, NEW rel \in ReleaseResults, handle_finish(c, q, rel)
        PROVE  Talk
    <2>1. /\ asks[c][q].st \in {"waiting", "answered"} /\ Others(c, q)
          /\ asks'[c][q] = Ask(IF asks[c][q].st = "waiting" THEN "cancelled" ELSE "idle")
      BY <1>4 DEF handle_finish, Others, TypeOK
    <2>2. Finishing(c, q)
      BY <1>0, <1>1, <2>1 DEF Finishing, Ask
    <2> QED
      BY <2>2 DEF Talk
  <1>5. ASSUME NEW e, NEW s, NEW n, handle_release(c, e, s, n)
        PROVE  Talk
    BY <1>0, <1>1, <1>5 DEF handle_release, Talk
  <1> QED
    BY <1>2, <1>3, <1>4, <1>5 DEF Level1

LEMMA ProvideTalks ==
  ASSUME TypeOK, TypeOK', NEW c \in Conns, NEW q \in Qids, NEW t, NEW n, NEW named,
         NEW ok \in Sends, handle_provide(c, q, t, n, named, ok)
  PROVE  Answering(c, q)
  <1>0. asks[c][q].st = "idle" /\ UNCHANGED joins
    BY DEF handle_provide
  <1>1. CASE Reply(c, q, ok) /\ UNCHANGED provisions
    <2>1. SameHeld
      BY <1>1 DEF SameHeld
    <2> QED
      BY <1>0, <1>1, <2>1, ReplyTalks
  <1>2. ASSUME NEW e, NEW i \in First(FreeSlots(provisions)),
               provisions' = [provisions EXCEPT ![i] =
                 [used |-> 1, nonce |-> n, server |-> exports[c][e].server,
                  export_id |-> e, question_id |-> q,
                  embargoed |-> FALSE, accept_question_id |-> q,
                  from |-> c, acceptor |-> c]],
               send_answer(c, q, Ask("waiting"), NoCap, NoServer, ok)
        PROVE  Answering(c, q)
    <2>1. i \in ProvisionSlots /\ provisions[i].used = 0
      BY <1>2, FirstIn DEF FreeSlots, TypeOK
    <2>2. /\ \A j \in ProvisionSlots : j # i => provisions'[j] = provisions[j]
          /\ provisions'[i].embargoed = FALSE
      BY <1>2, <2>1 DEF TypeOK
    <2>3. SameHeld
      BY <2>1, <2>2, SameHeldOf
    <2> QED
      BY <1>0, <1>2, <2>3, AnswerTalks
  <1> QED
    BY <1>1, <1>2 DEF handle_provide

LEMMA AcceptTalks ==
  ASSUME TypeOK, TypeOK', NEW c \in Conns, NEW q \in Qids, NEW n,
         NEW embargo \in Embargoes, NEW ok \in Sends, handle_accept(c, q, n, embargo, ok)
  PROVE  Talk
  <1>0. asks[c][q].st = "idle" /\ UNCHANGED joins /\ embargo \in BOOLEAN
    BY ValuesAssumption DEF handle_accept
  <1>1. CASE Reply(c, q, ok) /\ UNCHANGED provisions
    <2>1. SameHeld
      BY <1>1 DEF SameHeld
    <2> QED
      BY <1>0, <1>1, <2>1, ReplyTalks DEF Talk
  <1>2. ASSUME NEW i \in Claimable(n), NEW e, NEW s,
               provisions' = [provisions EXCEPT ![i] = Claimed(@, c, q, e, embargo)],
               \/ embargo /\ asks' = [asks EXCEPT ![c][q] = Ask("waiting")]
               \/ ~embargo /\ send_answer(c, q, Ask("waiting"), e, s, ok)
        PROVE  Talk
    <2>1. i \in Used(provisions) /\ ~provisions[i].embargoed
      BY FirstIn DEF Claimable
    <2>2. i \in ProvisionSlots /\ provisions[i].used = 1 /\ provisions[i] \in Provisions
      BY <2>1 DEF Used, TypeOK
    <2>3. /\ \A j \in ProvisionSlots : j # i => provisions'[j] = provisions[j]
          /\ provisions'[i] = Claimed(provisions[i], c, q, e, embargo)
      BY <1>2, <2>2 DEF TypeOK
    <2>4. CASE ~embargo
      <3>1. provisions'[i].used # 1
        BY <2>3, <2>4 DEF Claimed, Free
      <3>2. SameHeld
        BY <2>1, <2>2, <2>3, <3>1, SameHeldOf
      <3> QED
        BY <1>0, <1>2, <2>4, <3>2, AnswerTalks DEF Talk
    <2>5. CASE embargo
      <3>1. /\ provisions'[i].used = 1 /\ provisions'[i].embargoed
            /\ provisions'[i].acceptor = c /\ provisions'[i].accept_question_id = q
        BY <2>2, <2>3, <2>5 DEF Claimed, Provisions, Free
      <3>2. \A j, d, x : HeldAt(provisions', j, d, x) <=>
               HeldAt(provisions, j, d, x) \/ (j = i /\ d = c /\ x = q)
        BY <2>1, <2>2, <2>3, <3>1 DEF HeldAt, Used, TypeOK
      <3>3. Others(c, q) /\ asks'[c][q].st = "waiting"
        <4>1. Ask("waiting").st = "waiting"
          BY DEF Ask
        <4> QED
          BY <1>2, <2>5, <4>1 DEF Others, TypeOK
      <3>4. TRUE \in Embargoes
        BY <1>0, <2>5
      <3>5. Holding(c, q, i)
        BY <1>0, <3>2, <3>3, <3>4 DEF Holding
      <3> QED
        BY <2>2, <3>5 DEF Talk
    <2> QED
      BY <1>0, <2>4, <2>5
  <1> QED
    BY <1>1, <1>2 DEF handle_accept

LEMMA LiftTalks ==
  ASSUME TypeOK, TypeOK', NEW c \in Conns, NEW pq, NEW ok \in Sends,
         release_provide_embargo(c, pq, ok)
  PROVE  Talk
  <1>0. UNCHANGED joins
    BY DEF release_provide_embargo
  <1>1. CASE UNCHANGED <<provisions, asks>>
    <2>1. SameHeld
      BY <1>1 DEF SameHeld
    <2> QED
      BY <1>0, <1>1, <2>1 DEF Talk
  <1>2. ASSUME NEW i \in First({j \in Used(provisions) : provisions[j].embargoed
                                  /\ provisions[j].question_id = pq}),
               provisions' = [provisions EXCEPT ![i] = Free],
               send_answer(c, provisions[i].accept_question_id,
                           asks[c][provisions[i].accept_question_id],
                           provisions[i].export_id, provisions[i].server, ok)
        PROVE  Talk
    <2> DEFINE q == provisions[i].accept_question_id
    <2>1. i \in ProvisionSlots /\ provisions[i].used = 1 /\ provisions[i].embargoed
      BY FirstIn DEF Used, TypeOK
    <2>2. q \in Qids /\ provisions[i].acceptor \in Conns
      <3>1. provisions[i] \in Provisions
        BY <2>1 DEF TypeOK
      <3> QED
        BY <2>1, <3>1 DEF Provisions, Free
    <2>3. \A j, d, x : HeldAt(provisions', j, d, x) <=> HeldAt(provisions, j, d, x) /\ j # i
      <3>1. /\ \A j \in ProvisionSlots : j # i => provisions'[j] = provisions[j]
            /\ provisions'[i].used # 1
        BY <1>2, <2>1 DEF TypeOK, Free
      <3> QED
        BY <2>1, <3>1 DEF HeldAt, Used, TypeOK
    <2>4. HeldAt(provisions, i, provisions[i].acceptor, q)
      BY <2>1 DEF HeldAt, Used, TypeOK
    <2> DEFINE a == asks[c][q]
               b == Returned(a, provisions[i].export_id, provisions[i].server)
    <2>5. asks' = [asks EXCEPT ![c][q] = IF ok THEN b ELSE a]
      BY <1>2 DEF send_answer
    <2>6. b.st = ReturnedSt(a.st)
      BY DEF Returned, ReturnedSt, Answered, Ask
    <2> HIDE DEF a, b, q
    <2>7. Others(c, q) /\ asks'[c][q] = IF ok THEN b ELSE a
      BY <2>2, <2>5 DEF Others, TypeOK
    <2>8. Sends \subseteq BOOLEAN
      BY ValuesAssumption
    <2>9. Lifting(c, q, i)
      BY <1>0, <2>2, <2>3, <2>4, <2>6, <2>7, <2>8 DEF Lifting, Delivered, a
    <2> QED
      BY <2>1, <2>2, <2>9 DEF Talk
  <1> QED
    BY <1>1, <1>2 DEF release_provide_embargo, Question_answered

\* The slot a part goes to is free, or is of a set of the same count.
LEMMA SlotCount ==
  ASSUME TypeOK, NEW c \in Conns, NEW k, NEW i \in join_slot_find(c, k)
  PROVE  i \in JoinSlots /\ (joins[c][i].used = 1 => joins[c][i].part_count = k.partCount)
  <1> DEFINE held == {j \in Used(joins[c]) : joins[c][j].join_id = k.joinId}
  <1>1. CASE held # {}
    BY <1>1, JoinSlotFound DEF join_slot_find
  <1>2. CASE held = {}
    <2>1. i \in FreeSlots(joins[c])
      BY <1>2, FirstIn DEF join_slot_find
    <2> QED
      BY <2>1, JoinSlotFound DEF FreeSlots
  <1> QED
    BY <1>1, <1>2

\* The set with a new part has its old parts and that one.
LEMMA WithPartAt ==
  ASSUME TypeOK, NEW c \in Conns, NEW i \in JoinSlots, NEW k \in KeyParts, WellFormed(k),
         ~Seen(c, i, k.partNum), NEW q, NEW target, NEW parts,
         parts = WithPart(c, i, k, q, target)
  PROVE  /\ DOMAIN parts = PartNums
         /\ \A n, x : n \in Used(parts) /\ parts[n].qid = x <=>
               PartAt(joins, c, i, n, x) \/ (n = k.partNum /\ x = q)
  <1> DEFINE seen == IF joins[c][i].used = 1 THEN joins[c][i].parts
                                             ELSE [n \in PartNums |-> Free]
             eid == IF target = {} THEN NoCap ELSE CHOOSE e \in target : TRUE
             new == [used |-> 1, qid |-> q, eid |-> eid,
                     obj |-> IF target = {} THEN NoServer ELSE ServerAt(exports[c], eid)]
  <1>1. k.partNum \in PartNums
    BY KeyPartType
  <1>2. DOMAIN seen = PartNums
    <2>1. joins[c][i] \in Joins
      BY DEF TypeOK
    <2> QED
      BY <2>1 DEF Joins, Free
  <1>3. \A n, x : n \in Used(seen) /\ seen[n].qid = x <=> PartAt(joins, c, i, n, x)
    <2>1. CASE joins[c][i].used = 1
      BY <2>1 DEF PartAt, Used, TypeOK
    <2>2. CASE joins[c][i].used # 1
      BY <2>2 DEF PartAt, Used, Free
    <2> QED
      BY <2>1, <2>2
  <1>4. k.partNum \notin Used(seen)
    BY DEF Seen, Used, Free
  <1>5. parts = [seen EXCEPT ![k.partNum] = new]
    BY DEF WithPart
  <1>6. new.used = 1 /\ new.qid = q
    OBVIOUS
  <1> HIDE DEF seen, new
  <1>7. /\ DOMAIN parts = PartNums /\ parts[k.partNum] = new
        /\ \A n \in PartNums : n # k.partNum => parts[n] = seen[n]
    BY <1>1, <1>2, <1>5
  <1>8. \A n : n # k.partNum =>
           (n \in Used(parts) <=> n \in Used(seen)) /\ (n \in Used(seen) => parts[n] = seen[n])
    BY <1>2, <1>7 DEF Used
  <1>9. k.partNum \in Used(parts) /\ parts[k.partNum].qid = q
    BY <1>1, <1>6, <1>7 DEF Used
  <1>10. ASSUME NEW n, NEW x
         PROVE  n \in Used(parts) /\ parts[n].qid = x <=>
                  PartAt(joins, c, i, n, x) \/ (n = k.partNum /\ x = q)
    <2>1. CASE n = k.partNum
      BY <1>3, <1>4, <1>9, <2>1
    <2>2. CASE n # k.partNum
      BY <1>3, <1>8, <2>2
    <2> QED
      BY <2>1, <2>2
  <1> QED
    BY <1>7, <1>10

LEMMA PartAsked ==
  ASSUME TypeOK, TypeOK', NEW c \in Conns, NEW q \in Qids, asks[c][q].st = "idle",
         NEW i \in JoinSlots, NEW k \in KeyParts, WellFormed(k),
         joins[c][i].used = 1 => joins[c][i].part_count = k.partCount,
         NEW parts,
         \A n, x : n \in Used(parts) /\ parts[n].qid = x <=>
            PartAt(joins, c, i, n, x) \/ (n = k.partNum /\ x = q),
         UNCHANGED provisions,
         joins' = [joins EXCEPT ![c][i] =
                     [used |-> 1, join_id |-> k.joinId,
                      part_count |-> k.partCount, parts |-> parts]],
         asks' = [asks EXCEPT ![c][q] = Ask("waiting")]
  PROVE  Joining1(c, q, i, k.partNum)
  <1>1. Others(c, q) /\ asks'[c][q].st = "waiting"
    <2>1. Ask("waiting").st = "waiting"
      BY DEF Ask
    <2> QED
      BY <2>1 DEF Others, TypeOK
  <1>2. SameHeld
    BY DEF SameHeld
  <1> DEFINE slot == [used |-> 1, join_id |-> k.joinId,
                      part_count |-> k.partCount, parts |-> parts]
  <1>3. slot.used = 1 /\ slot.part_count = k.partCount /\ slot.parts = parts
    OBVIOUS
  <1>4. joins' = [joins EXCEPT ![c][i] = slot]
    OBVIOUS
  <1> HIDE DEF slot
  <1>5. /\ joins'[c][i] = slot
        /\ \A d \in Conns, j \in JoinSlots : (d # c \/ j # i) => joins'[d][j] = joins[d][j]
        /\ \A d \in Conns : DOMAIN joins'[d] = JoinSlots /\ DOMAIN joins[d] = JoinSlots
    BY <1>4 DEF TypeOK
  <1>6. ASSUME NEW d \in Conns, NEW j, NEW m, NEW x
        PROVE  PartAt(joins', d, j, m, x) <=>
                 PartAt(joins, d, j, m, x) \/ (d = c /\ j = i /\ m = k.partNum /\ x = q)
    <2>1. CASE d = c /\ j = i
      <3>1. PartAt(joins', c, i, m, x) <=> m \in Used(parts) /\ parts[m].qid = x
        BY <1>3, <1>5 DEF PartAt, Used
      <3> QED
        BY <2>1, <3>1
    <2>2. CASE ~(d = c /\ j = i)
      <3>1. j \in Used(joins'[d]) <=> j \in Used(joins[d])
        BY <1>5, <2>2 DEF Used
      <3>2. j \in Used(joins[d]) => joins'[d][j] = joins[d][j]
        BY <1>5, <2>2 DEF Used
      <3>3. PartAt(joins', d, j, m, x) <=> PartAt(joins, d, j, m, x)
        BY <3>1, <3>2 DEF PartAt
      <3> QED
        BY <2>2, <3>3
    <2> QED
      BY <2>1, <2>2
  <1>7. PartsInCount => PartsInCount'
    <2> SUFFICES ASSUME PartsInCount, NEW d \in Conns, NEW j \in Used(joins'[d]),
                        NEW m \in Used(joins'[d][j].parts)
                 PROVE  m < joins'[d][j].part_count
      BY DEF PartsInCount
    <2>1. CASE d = c /\ j = i
      <3>1. m \in Used(parts) /\ joins'[d][j].part_count = k.partCount
        BY <1>3, <1>5, <2>1
      <3>2. CASE m = k.partNum
        BY <3>1, <3>2 DEF WellFormed
      <3>3. CASE PartAt(joins, c, i, m, parts[m].qid)
        <4>1. m < joins[c][i].part_count /\ joins[c][i].used = 1
          BY <3>3 DEF PartsInCount, PartAt, Used
        <4> QED
          BY <3>1, <4>1
      <3> QED
        BY <3>1, <3>2, <3>3
    <2>2. CASE ~(d = c /\ j = i)
      <3>1. j \in Used(joins[d]) /\ joins'[d][j] = joins[d][j]
        BY <1>5, <2>2 DEF Used
      <3> QED
        BY <3>1 DEF PartsInCount
    <2> QED
      BY <2>1, <2>2
  <1> QED
    BY <1>1, <1>2, <1>6, <1>7 DEF Joining1

LEMMA SetCompleted ==
  ASSUME TypeOK, TypeOK', NEW c \in Conns, NEW q \in Qids, asks[c][q].st = "idle",
         NEW i \in JoinSlots, NEW k \in KeyParts, WellFormed(k), NEW parts,
         \A n, x : n \in Used(parts) /\ parts[n].qid = x <=>
            PartAt(joins, c, i, n, x) \/ (n = k.partNum /\ x = q),
         Used(parts) = 0..(k.partCount - 1),
         NEW got \in [PartNums -> Sends], UNCHANGED provisions,
         join_complete(c, i, parts, k, q, got)
  PROVE  Completing(c, q, i)
  <1> DEFINE nums == 0..(k.partCount - 1)
             first == parts[0].eid
             same == SameObject(parts, k.partCount)
             before(x) == IF x = q THEN Ask("waiting") ELSE asks[c][x]
             reply(n) == IF same /\ n = 0
                         THEN Returned(before(parts[n].qid), first, parts[n].obj)
                         ELSE Returned(before(parts[n].qid), NoCap, NoServer)
             ans == [x \in Qids |->
                       IF \E n \in nums : parts[n].qid = x /\ got[n]
                       THEN reply(CHOOSE n \in nums : parts[n].qid = x /\ got[n])
                       ELSE before(x)]
             own(x) == x = q \/ \E n : PartAt(joins, c, i, n, x)
  <1>1. asks' = [asks EXCEPT ![c] = ans] /\ joins' = [joins EXCEPT ![c][i] = Free]
    BY DEF join_complete, AnsweredSlot
  <1>2. SameHeld
    BY DEF SameHeld
  <1>3. \A x : own(x) <=> \E n \in nums : parts[n].qid = x
    OBVIOUS
  <1>4. \A x \in Qids : before(x).st = Before(c, q, x)
    BY DEF Before, Ask
  <1>5. \A n : reply(n).st = ReturnedSt(before(parts[n].qid).st)
    <2>1. \A a, e, s : Returned(a, e, s).st = ReturnedSt(a.st)
      BY DEF Returned, ReturnedSt, Answered, Ask
    <2> HIDE DEF before, same, first
    <2> QED
      BY <2>1
  <1>6. \A n \in nums : got[n] \in Sends
    BY KeyPartType
  <1> HIDE DEF before, reply, nums
  <1>7. ASSUME NEW x \in Qids
        PROVE  /\ ~own(x) => ans[x].st = Before(c, q, x)
               /\ own(x) => ans[x].st \in {Before(c, q, x), ReturnedSt(Before(c, q, x))}
               /\ own(x) /\ Reliable => ans[x].st = ReturnedSt(Before(c, q, x))
    <2>1. CASE \E n \in nums : parts[n].qid = x /\ got[n]
      <3>1. PICK m \in nums : m = CHOOSE n \in nums : parts[n].qid = x /\ got[n]
        BY <2>1
      <3>2. parts[m].qid = x
        BY <2>1, <3>1
      <3>3. ans[x] = reply(m)
        BY <2>1, <3>1
      <3>4. ans[x].st = ReturnedSt(Before(c, q, x))
        BY <1>4, <1>5, <3>2, <3>3
      <3> QED
        BY <1>3, <2>1, <3>4
    <2>2. CASE ~\E n \in nums : parts[n].qid = x /\ got[n]
      <3>1. ans[x].st = Before(c, q, x)
        BY <1>4, <2>2
      <3>2. own(x) => ~Reliable
        <4>1. Reliable => \A n \in nums : got[n] = TRUE
          BY <1>6, Zenon DEF Reliable, Delivered
        <4>2. Reliable => ~\E n \in nums : parts[n].qid = x
          BY <2>2, <4>1, Zenon
        <4> HIDE DEF own
        <4> QED
          BY <1>3, <4>2
      <3> QED
        BY <3>1, <3>2
    <2> QED
      BY <2>1, <2>2
  <1>8. \A d \in Conns, x \in Qids : d # c => asks'[d][x].st = asks[d][x].st
    BY <1>1 DEF TypeOK
  <1>9. ASSUME NEW x \in Qids
        PROVE  LET mine == x = q \/ \E n : PartAt(joins, c, i, n, x)
               IN  /\ ~mine => asks'[c][x].st = asks[c][x].st
                   /\ mine => asks'[c][x].st \in {Before(c, q, x), ReturnedSt(Before(c, q, x))}
                   /\ mine /\ Reliable => asks'[c][x].st = ReturnedSt(Before(c, q, x))
    <2>1. asks'[c][x] = ans[x]
      <3> HIDE DEF ans
      <3> QED
        BY <1>1 DEF TypeOK
    <2>2. ~own(x) => Before(c, q, x) = asks[c][x].st
      BY DEF Before
    <2> HIDE DEF ans
    <2> QED
      BY <1>7, <2>1, <2>2
  <1>10. /\ joins'[c][i] = Free
         /\ \A d \in Conns, j \in JoinSlots : (d # c \/ j # i) => joins'[d][j] = joins[d][j]
         /\ \A d \in Conns : DOMAIN joins'[d] = JoinSlots /\ DOMAIN joins[d] = JoinSlots
    BY <1>1 DEF TypeOK
  <1>11. \A d \in Conns : \A j :
            /\ j \in Used(joins'[d]) <=> j \in Used(joins[d]) /\ ~(d = c /\ j = i)
            /\ j \in Used(joins'[d]) => joins'[d][j] = joins[d][j]
    BY <1>10 DEF Used, Free
  <1>12. \A d \in Conns : \A j, m, x : PartAt(joins', d, j, m, x) <=>
            PartAt(joins, d, j, m, x) /\ ~(d = c /\ j = i)
    BY <1>11 DEF PartAt
  <1>13. PartsInCount => PartsInCount'
    BY <1>11 DEF PartsInCount
  <1> QED
    BY <1>2, <1>8, <1>9, <1>12, <1>13 DEF Completing

LEMMA Level4Talks ==
  ASSUME TypeOK, TypeOK', NEW c \in Conns, Level4(c)
  PROVE  UNCHANGED answers /\ \E q \in Qids : Gathering(c, q)
  <1>1. PICK q \in Qids, t \in Targets(c), k \in KeyParts, got \in [PartNums -> Sends] :
          handle_join(c, q, t, k, got)
    BY DEF Level4
  <1> DEFINE slots == IF WellFormed(k) THEN join_slot_find(c, k) ELSE {}
             parts(i) == WithPart(c, i, k, q, resolve_target(c, t))
  <1>2. asks[c][q].st = "idle" /\ UNCHANGED provisions
    BY <1>1 DEF handle_join
  <1>0. UNCHANGED answers
    BY <1>1 DEF handle_join, Reply
  <1>3. CASE Reply(c, q, got[0]) /\ UNCHANGED joins
    <2>1. got[0] \in Sends
      BY SizesAssumption DEF PartNums
    <2>2. SameHeld
      BY <1>2 DEF SameHeld
    <2> QED
      BY <1>0, <1>2, <1>3, <2>1, <2>2, ReplyTalks DEF Gathering
  <1>4. ASSUME NEW i \in slots, ~Seen(c, i, k.partNum),
               IF Used(parts(i)) = 0..(k.partCount - 1)
               THEN join_complete(c, i, parts(i), k, q, got)
               ELSE /\ joins' = [joins EXCEPT ![c][i] =
                          [used |-> 1, join_id |-> k.joinId,
                           part_count |-> k.partCount, parts |-> parts(i)]]
                    /\ asks' = [asks EXCEPT ![c][q] = Ask("waiting")]
        PROVE  Gathering(c, q)
    <2>1. /\ WellFormed(k) /\ i \in JoinSlots
          /\ joins[c][i].used = 1 => joins[c][i].part_count = k.partCount
      BY <1>4, SlotCount
    <2>2. \A n, x : n \in Used(parts(i)) /\ parts(i)[n].qid = x <=>
             PartAt(joins, c, i, n, x) \/ (n = k.partNum /\ x = q)
      BY <1>4, <2>1, WithPartAt
    <2>3. k.partNum \in PartNums
      BY <2>1, KeyPartType
    <2> DEFINE these == parts(i)
    <2> HIDE DEF parts
    <2>4. CASE Used(these) = 0..(k.partCount - 1)
      <3>1. join_complete(c, i, these, k, q, got)
        BY <1>4, <2>4
      <3>2. Completing(c, q, i)
        BY <1>2, <2>1, <2>2, <2>4, <3>1, SetCompleted
      <3> QED
        BY <2>1, <3>2 DEF Gathering
    <2>5. CASE Used(these) # 0..(k.partCount - 1)
      <3>1. Joining1(c, q, i, k.partNum)
        BY <1>2, <1>4, <2>1, <2>2, <2>5, PartAsked
      <3> QED
        BY <2>1, <2>3, <3>1 DEF Gathering
    <2> QED
      BY <2>4, <2>5
  <1> QED
    BY <1>0, <1>1, <1>3, <1>4 DEF handle_join

LEMMA NextTalks == ASSUME TypeOK, TypeOK', [Next]_vars PROVE Talk
  <1>1. CASE UNCHANGED vars
    BY <1>1 DEF vars, Talk, SameHeld
  <1>2. ASSUME NEW c \in Conns, Level3(c) PROVE Talk
    BY <1>2, ProvideTalks, AcceptTalks, LiftTalks DEF Level3, Talk
  <1>3. ASSUME NEW c \in Conns, Level4(c) PROVE Talk
    BY <1>3, Level4Talks DEF Gathering, Talk
  <1> QED
    BY <1>1, <1>2, <1>3, ApplicationTalks, Level1Talks DEF Next

-----------------------------------------------------------------------------
\* A question is the business of one Join part or of one embargoed claim, and
\* open while it is.
DeferredOpen ==
  \A c \in Conns, q \in Qids :
     /\ \A i, n : PartAt(joins, c, i, n, q) => asks[c][q].st \in Open
     /\ \A j : HeldAt(provisions, j, c, q) => asks[c][q].st \in Open

DeferredOnce ==
  \A c \in Conns, q \in Qids :
     /\ \A i, n, j, m : PartAt(joins, c, i, n, q) /\ PartAt(joins, c, j, m, q)
                          => i = j /\ n = m
     /\ \A i, j : HeldAt(provisions, i, c, q) /\ HeldAt(provisions, j, c, q) => i = j
     /\ \A i, n, j : ~(PartAt(joins, c, i, n, q) /\ HeldAt(provisions, j, c, q))

\* When nothing is lost on the way, an open question is somebody's business.
OpenDeferred ==
  \A c \in Conns, q \in Qids : asks[c][q].st \in Open =>
     \/ \E i, n : PartAt(joins, c, i, n, q)
     \/ \E j : HeldAt(provisions, j, c, q)

DeferredInv == DeferredOpen /\ DeferredOnce /\ PartsInCount

\* With it, that every question is answered once.
QuestionsInv ==
  /\ DeferredInv
  /\ NoStrayReturn
  /\ Reliable => OpenDeferred

\* What a step that lifts no embargo does: it keeps the three apart.
KeepsQuestions ==
  /\ DeferredInv'
  /\ NoStrayReturn => NoStrayReturn'
  /\ Reliable /\ OpenDeferred => OpenDeferred'

LEMMA AnsweringInv ==
  ASSUME DeferredInv, NEW c \in Conns, NEW q \in Qids, Answering(c, q)
  PROVE  KeepsQuestions
  <1>1. NoStrayReturn => NoStrayReturn'
    BY DEF NoStrayReturn, Answering, Others
  <1>2. DeferredOpen'
    BY DEF DeferredInv, DeferredOpen, Answering, Others, SameHeld, PartAt, Open
  <1>3. DeferredOnce'
    BY SMTT(60) DEF DeferredInv, DeferredOnce, Answering, SameHeld, PartAt
  <1>4. PartsInCount'
    BY DEF DeferredInv, PartsInCount, Answering
  <1>5. Reliable /\ OpenDeferred => OpenDeferred'
    BY DEF OpenDeferred, Answering, Others, SameHeld, PartAt, Open
  <1> QED
    BY <1>1, <1>2, <1>3, <1>4, <1>5 DEF KeepsQuestions, DeferredInv

LEMMA FinishingInv ==
  ASSUME DeferredInv, NEW c \in Conns, NEW q \in Qids, Finishing(c, q)
  PROVE  KeepsQuestions
  <1>0. /\ \A d \in Conns : \A j, m, x : PartAt(joins', d, j, m, x) <=> PartAt(joins, d, j, m, x)
        /\ \A j, d, x : HeldAt(provisions', j, d, x) <=> HeldAt(provisions, j, d, x)
    BY DEF Finishing, PartAt, SameHeld
  <1>1. NoStrayReturn => NoStrayReturn'
    BY DEF NoStrayReturn, Finishing, Others
  <1>2. DeferredOpen'
    BY DEF DeferredInv, DeferredOpen, Finishing, Others, SameHeld, PartAt, Open
  <1>3. DeferredOnce'
    BY <1>0 DEF DeferredInv, DeferredOnce
  <1>4. PartsInCount'
    BY DEF DeferredInv, PartsInCount, Finishing
  <1>5. Reliable /\ OpenDeferred => OpenDeferred'
    BY DEF OpenDeferred, Finishing, Others, SameHeld, PartAt, Open
  <1> QED
    BY <1>1, <1>2, <1>3, <1>4, <1>5 DEF KeepsQuestions, DeferredInv

LEMMA HoldingInv ==
  ASSUME DeferredInv, NEW c \in Conns, NEW q \in Qids, NEW i, Holding(c, q, i)
  PROVE  KeepsQuestions
  <1>0. \A d \in Conns : \A j, m, x : PartAt(joins', d, j, m, x) <=> PartAt(joins, d, j, m, x)
    BY DEF Holding, PartAt
  <1>1. NoStrayReturn => NoStrayReturn'
    BY DEF NoStrayReturn, Holding, Others
  <1>2. DeferredOpen'
    BY <1>0 DEF DeferredInv, DeferredOpen, Holding, Others, Open
  <1>3. DeferredOnce'
    <2>1. \A j, m : ~PartAt(joins, c, j, m, q) /\ ~HeldAt(provisions, j, c, q)
      BY DEF DeferredInv, DeferredOpen, Holding, Open
    <2> QED
      BY <1>0, <2>1 DEF DeferredInv, DeferredOnce, Holding
  <1>4. PartsInCount'
    BY DEF DeferredInv, PartsInCount, Holding
  <1>5. Reliable /\ OpenDeferred => OpenDeferred'
    BY <1>0 DEF OpenDeferred, Holding, Others, Open
  <1> QED
    BY <1>1, <1>2, <1>3, <1>4, <1>5 DEF KeepsQuestions, DeferredInv

LEMMA Joining1Inv ==
  ASSUME DeferredInv, NEW c \in Conns, NEW q \in Qids, NEW i, NEW n, Joining1(c, q, i, n)
  PROVE  KeepsQuestions
  <1>1. NoStrayReturn => NoStrayReturn'
    BY DEF NoStrayReturn, Joining1, Others
  <1>2. DeferredOpen'
    BY DEF DeferredInv, DeferredOpen, Joining1, Others, SameHeld, Open
  <1>3. DeferredOnce'
    <2>1. \A j, m : ~PartAt(joins, c, j, m, q) /\ ~HeldAt(provisions, j, c, q)
      BY DEF DeferredInv, DeferredOpen, Joining1, Open
    <2> QED
      BY <2>1, SMTT(60) DEF DeferredInv, DeferredOnce, Joining1, SameHeld
  <1>4. PartsInCount'
    BY DEF DeferredInv, Joining1
  <1>5. Reliable /\ OpenDeferred => OpenDeferred'
    BY DEF OpenDeferred, Joining1, Others, SameHeld, Open
  <1> QED
    BY <1>1, <1>2, <1>3, <1>4, <1>5 DEF KeepsQuestions, DeferredInv

\* The question of the claim in slot i is no other connection's deferred
\* question of the same id.
Alone(i) ==
  \A d \in Conns \ {provisions[i].acceptor} :
    LET q == provisions[i].accept_question_id
    IN  /\ \A j, m : ~PartAt(joins, d, j, m, q)
        /\ \A j : ~HeldAt(provisions, j, d, q)

LEMMA ApartAlone ==
  ASSUME Apart, NEW i \in Used(provisions), provisions[i].embargoed
  PROVE  Alone(i)
  BY DEF Apart, Alone, PartAt, HeldAt

\* Where an embargo is lifted from its acceptor's connection, the Return is the
\* acceptor's.  Elsewhere it answers a question nobody else is to answer.
LEMMA LiftingInv ==
  ASSUME DeferredInv, NEW c \in Conns, NEW q \in Qids, NEW i, Lifting(c, q, i),
         Alone(i)
  PROVE  DeferredInv' /\ ((\A d \in Conns : d = c) => KeepsQuestions)
  <1>0. \A d \in Conns : \A j, m, x : PartAt(joins', d, j, m, x) <=> PartAt(joins, d, j, m, x)
    BY DEF Lifting, PartAt
  <1>1. /\ HeldAt(provisions, i, provisions[i].acceptor, q)
        /\ provisions[i].acceptor \in Conns /\ provisions[i].accept_question_id = q
    BY DEF Lifting, HeldAt
  <1>2. /\ \A j, m : ~PartAt(joins, c, j, m, q)
        /\ \A j : HeldAt(provisions, j, c, q) => j = i
    <2>1. CASE c = provisions[i].acceptor
      BY <1>1, <2>1 DEF DeferredInv, DeferredOnce
    <2>2. CASE c # provisions[i].acceptor
      BY <1>1, <2>2 DEF Alone
    <2> QED
      BY <2>1, <2>2
  <1>3. DeferredOpen'
    BY <1>0, <1>2 DEF DeferredInv, DeferredOpen, Lifting, Others
  <1>4. DeferredOnce'
    BY <1>0 DEF DeferredInv, DeferredOnce, Lifting
  <1>5. PartsInCount'
    BY DEF DeferredInv, PartsInCount, Lifting
  <1>6. ASSUME \A d \in Conns : d = c
        PROVE  /\ NoStrayReturn => NoStrayReturn'
               /\ Reliable /\ OpenDeferred => OpenDeferred'
    <2>1. provisions[i].acceptor = c /\ HeldAt(provisions, i, c, q)
      BY <1>1, <1>6
    <2>2. asks[c][q].st \in Open
      BY <2>1 DEF DeferredInv, DeferredOpen
    <2>3. ReturnedSt(asks[c][q].st) \in {"answered", "idle"}
      BY <2>2 DEF ReturnedSt, Open
    <2>4. NoStrayReturn => NoStrayReturn'
      BY <2>3 DEF NoStrayReturn, Lifting, Others
    <2>5. Reliable /\ OpenDeferred => OpenDeferred'
      <3>1. \A x \in Qids : \A j : HeldAt(provisions, j, c, x) /\ x # q => j # i
        BY <2>1 DEF HeldAt
      <3>2. Delivered => asks'[c][q].st \notin Open
        BY <2>3 DEF Lifting, Open
      <3> QED
        BY <1>0, <1>6, <3>1, <3>2 DEF OpenDeferred, Lifting, Others, Reliable
    <2> QED
      BY <2>4, <2>5
  <1> QED
    BY <1>3, <1>4, <1>5, <1>6 DEF KeepsQuestions, DeferredInv

LEMMA CompletingInv ==
  ASSUME DeferredInv, NEW c \in Conns, NEW q \in Qids, NEW i, Completing(c, q, i)
  PROVE  KeepsQuestions
  <1> DEFINE own(x) == x = q \/ \E n : PartAt(joins, c, i, n, x)
  <1>0. \A d \in Conns, x \in Qids : d # c \/ ~own(x) => asks'[d][x].st = asks[d][x].st
    BY DEF Completing
  <1>1. \A x \in Qids : own(x) => Before(c, q, x) \in Open
    BY DEF Before, Open, DeferredInv, DeferredOpen
  <1>2. \A x \in Qids : own(x) =>
           /\ asks'[c][x].st \in {"answered", "idle"} \cup Open
           /\ Reliable => asks'[c][x].st \notin Open
    <2>1. \A st \in Open : ReturnedSt(st) \in {"answered", "idle"}
      BY DEF ReturnedSt, Open
    <2>2. \A x \in Qids : own(x) =>
             /\ asks'[c][x].st \in {Before(c, q, x), ReturnedSt(Before(c, q, x))}
             /\ Reliable => asks'[c][x].st = ReturnedSt(Before(c, q, x))
      BY DEF Completing
    <2>3. \A st \in {"answered", "idle"} : st \notin Open
      BY DEF Open
    <2> HIDE DEF own
    <2> QED
      BY <1>1, <2>1, <2>2, <2>3
  <1>3. \A j, m : \A x \in Qids : PartAt(joins, c, j, m, x) /\ j # i => ~own(x)
    BY DEF DeferredInv, DeferredOpen, DeferredOnce, Completing, Open
  <1>4. \A j : \A x \in Qids : HeldAt(provisions, j, c, x) => ~own(x)
    BY DEF DeferredInv, DeferredOpen, DeferredOnce, Completing, Open
  <1>5. NoStrayReturn => NoStrayReturn'
    <2>1. \A x \in Qids : own(x) => asks'[c][x].st # "stray"
      BY <1>2 DEF Open
    <2> HIDE DEF own
    <2> QED
      BY <1>0, <2>1 DEF NoStrayReturn
  <1>6. DeferredOpen'
    <2> HIDE DEF own
    <2> QED
      BY <1>0, <1>3, <1>4 DEF DeferredInv, DeferredOpen, Completing, SameHeld
  <1>7. DeferredOnce'
    BY DEF DeferredInv, DeferredOnce, Completing, SameHeld
  <1>8. PartsInCount'
    BY DEF DeferredInv, Completing
  <1>9. Reliable /\ OpenDeferred => OpenDeferred'
    <2>1. \A j, m : \A x \in Qids : PartAt(joins, c, j, m, x) /\ ~own(x) => j # i
      OBVIOUS
    <2>2. ASSUME Reliable, OpenDeferred, NEW d \in Conns, NEW x \in Qids, asks'[d][x].st \in Open
          PROVE  (\E j, m : PartAt(joins', d, j, m, x)) \/ \E j : HeldAt(provisions', j, d, x)
      <3>1. d # c \/ ~own(x)
        BY <1>2, <2>2
      <3>2. asks[d][x].st \in Open
        BY <1>0, <2>2, <3>1
      <3> HIDE DEF own
      <3>3. CASE \E j, m : PartAt(joins, d, j, m, x)
        BY <2>1, <3>1, <3>3 DEF Completing
      <3>4. CASE \E j : HeldAt(provisions, j, d, x)
        BY <3>4 DEF Completing, SameHeld
      <3> QED
        BY <2>2, <3>2, <3>3, <3>4 DEF OpenDeferred
    <2> QED
      BY <2>2 DEF OpenDeferred
  <1> QED
    BY <1>5, <1>6, <1>7, <1>8, <1>9 DEF KeepsQuestions, DeferredInv

\* A step that lifts no embargo keeps the questions apart; one that does keeps
\* them too, if the lifted claim's question id is its own.
LEMMA TalkKeeps ==
  ASSUME DeferredInv, Apart, Talk
  PROVE  /\ DeferredInv'
         /\ NoEmbargo \/ (\A c, d \in Conns : c = d) => KeepsQuestions
  <1>1. CASE UNCHANGED <<asks, joins>> /\ SameHeld
    <2>1. /\ \A d \in Conns : \A j, m, x : PartAt(joins', d, j, m, x) <=> PartAt(joins, d, j, m, x)
          /\ \A j, d, x : HeldAt(provisions', j, d, x) <=> HeldAt(provisions, j, d, x)
      BY <1>1 DEF PartAt, SameHeld
    <2>2. PartsInCount' /\ (NoStrayReturn => NoStrayReturn')
      BY <1>1 DEF DeferredInv, NoStrayReturn, PartsInCount
    <2>3. DeferredOpen' /\ DeferredOnce' /\ (OpenDeferred => OpenDeferred')
      BY <1>1, <2>1 DEF DeferredInv, DeferredOpen, DeferredOnce, OpenDeferred
    <2> QED
      BY <2>2, <2>3 DEF KeepsQuestions, DeferredInv
  <1>2. ASSUME NEW c \in Conns, NEW q \in Qids, NEW i \in ProvisionSlots, Lifting(c, q, i)
        PROVE  /\ DeferredInv'
               /\ NoEmbargo \/ (\A d, e \in Conns : d = e) => KeepsQuestions
    <2>1. i \in Used(provisions) /\ provisions[i].embargoed
      BY <1>2 DEF Lifting, HeldAt
    <2>2. DeferredInv' /\ ((\A d \in Conns : d = c) => KeepsQuestions)
      BY <1>2, <2>1, ApartAlone, LiftingInv
    <2>3. ~NoEmbargo
      BY <2>1 DEF NoEmbargo
    <2> QED
      BY <2>2, <2>3
  <1>3. KeepsQuestions => DeferredInv'
    BY DEF KeepsQuestions
  <1> QED
    BY <1>1, <1>2, <1>3, AnsweringInv, FinishingInv, HoldingInv, Joining1Inv, CompletingInv
       DEF Talk

LEMMA TalkInv ==
  ASSUME TypeOK, NoEmbargo \/ \A c, d \in Conns : c = d, QuestionsInv, Talk
  PROVE  QuestionsInv'
  <1>1. CASE NoEmbargo
    <2>1. Apart
      BY <1>1 DEF NoEmbargo, Apart
    <2> QED
      BY <1>1, <2>1, TalkKeeps DEF QuestionsInv, KeepsQuestions
  <1>2. CASE \A c, d \in Conns : c = d
    <2>1. \A i \in Used(provisions) : provisions[i].acceptor \in Conns
      BY DEF TypeOK, Used, Provisions, Free
    <2>2. Apart
      BY <1>2, <2>1 DEF Apart
    <2> QED
      BY <1>2, <2>2, TalkKeeps DEF QuestionsInv, KeepsQuestions
  <1> QED
    BY <1>1, <1>2

LEMMA QuestionsInit == Init => QuestionsInv
  <1> SUFFICES ASSUME Init PROVE QuestionsInv
    OBVIOUS
  <1>1. \A j, d, x : ~HeldAt(provisions, j, d, x)
    BY DEF Init, HeldAt, Used, Free
  <1>2. \A c \in Conns : Used(joins[c]) = {}
    BY DEF Init, Used, Free
  <1>3. \A c \in Conns, q \in Qids : asks[c][q].st = "idle"
    BY DEF Init, Ask
  <1> QED
    BY <1>1, <1>2, <1>3, ZenonT(60) DEF QuestionsInv, DeferredInv, NoStrayReturn, DeferredOpen,
       DeferredOnce, PartsInCount, OpenDeferred, PartAt, Open

LEMMA QuestionsAlways ==
  NoCrossEmbargo => (Spec => [](TypeOK /\ CoversInv /\ QuestionsInv))
  <1> SUFFICES ASSUME NoCrossEmbargo
               PROVE  Spec => [](TypeOK /\ CoversInv /\ QuestionsInv)
    OBVIOUS
  <1>1. TypeOK /\ TypeOK' /\ CoversInv /\ QuestionsInv /\ [Next]_vars => QuestionsInv'
    BY NextTalks, TalkInv DEF CoversInv, NoCrossEmbargo
  <1> QED
    BY <1>1, QuestionsInit, TypeCorrect, CoversAlways, PTL DEF Spec

\* The introducer and the recipient on connections of their own.
LEMMA DeferredAlways == Spec /\ []Apart => [](TypeOK /\ DeferredInv)
  <1>1. Init => DeferredInv
    BY QuestionsInit DEF QuestionsInv
  <1>2. TypeOK /\ TypeOK' /\ Apart /\ DeferredInv /\ [Next]_vars => DeferredInv'
    BY NextTalks, TalkKeeps
  <1> QED
    BY <1>1, <1>2, TypeCorrect, PTL DEF Spec

\* Every Return the vat sends answers, once, a question its peer asked on
\* that connection and has not had answered: those of completed Joins and of
\* lifted embargoes, sent by the handling of some later message, included
\* (join_complete, release_provide_embargo, capn-rpc.c:603-624, 1323-1342).
THEOREM NoStray == NoCrossEmbargo => (Spec => []NoStrayReturn)
  <1>1. QuestionsInv => NoStrayReturn
    BY DEF QuestionsInv
  <1> QED
    BY <1>1, QuestionsAlways, PTL

\* The parts of a Join set in progress are questions still open, a different
\* one each, and numbered below the set's count (handle_join,
\* capn-rpc.c:626-662).
THEOREM PartsOpen == Spec /\ []Apart => []JoinPartsOpen
  <1>1. TypeOK /\ DeferredInv => JoinPartsOpen
    <2> SUFFICES ASSUME TypeOK, DeferredInv,
                        NEW c \in Conns, NEW i \in Used(joins[c]), NEW j \in Used(joins[c]),
                        NEW n \in Used(joins[c][i].parts), NEW m \in Used(joins[c][j].parts)
                 PROVE  /\ n < joins[c][i].part_count
                        /\ asks[c][joins[c][i].parts[n].qid].st \in Open
                        /\ joins[c][i].parts[n].qid = joins[c][j].parts[m].qid
                             => <<i, n>> = <<j, m>>
      BY DEF JoinPartsOpen, Open
    <2> DEFINE q == joins[c][i].parts[n].qid
    <2>1. q \in Qids
      <3>1. joins[c][i] \in Joins /\ joins[c][i].used = 1
        BY DEF TypeOK, Used
      <3>2. joins[c][i].parts[n] \in Parts /\ joins[c][i].parts[n].used = 1
        BY <3>1 DEF Joins, Free, Used
      <3> QED
        BY <3>2 DEF Parts, Free
    <2>2. PartAt(joins, c, i, n, q)
      BY DEF PartAt
    <2>3. q = joins[c][j].parts[m].qid => PartAt(joins, c, j, m, q)
      BY DEF PartAt
    <2>4. n < joins[c][i].part_count
      BY DEF DeferredInv, PartsInCount
    <2> HIDE DEF q
    <2>5. asks[c][q].st \in Open
      BY <2>1, <2>2 DEF DeferredInv, DeferredOpen
    <2>6. q = joins[c][j].parts[m].qid => i = j /\ n = m
      BY <2>1, <2>2, <2>3 DEF DeferredInv, DeferredOnce
    <2> QED
      BY <2>4, <2>5, <2>6 DEF q
  <1> QED
    BY <1>1, DeferredAlways, PTL

\* A claimed Accept under embargo is unanswered: its question is open until
\* the Disembargo that lifts the embargo (handle_accept,
\* release_provide_embargo, capn-rpc.c:1323-1342, 1393-1465), whichever
\* connections introduce and accept.  Apart is needed since a lift answers on
\* the introducer's connection: a question of the same id that is held back
\* there would be answered for it.
THEOREM EmbargoesHeld == Spec /\ []Apart => []EmbargoHolds
  <1>1. TypeOK /\ DeferredInv => EmbargoHolds
    <2> SUFFICES ASSUME TypeOK, DeferredInv,
                        NEW i \in Used(provisions), provisions[i].embargoed
                 PROVE  asks[provisions[i].acceptor][provisions[i].accept_question_id].st
                          \in Open
      BY DEF EmbargoHolds, Open
    <2>1. HeldAt(provisions, i, provisions[i].acceptor, provisions[i].accept_question_id)
      BY DEF HeldAt
    <2>2. provisions[i].acceptor \in Conns /\ provisions[i].accept_question_id \in Qids
      <3>1. provisions[i] \in Provisions /\ provisions[i].used = 1
        BY DEF TypeOK, Used
      <3> QED
        BY <3>1 DEF Provisions, Free
    <2> QED
      BY <2>1, <2>2 DEF DeferredInv, DeferredOpen
  <1> QED
    BY <1>1, DeferredAlways, PTL

\* When nothing the vat sends is lost, a question without its Return is one
\* the vat still means to answer: every other handler answers before it
\* returns, if only with an exception (capn_rpc_handle, capn-rpc.c:1480-1546).
THEOREM NoneLost == NoCrossEmbargo /\ Reliable => (Spec => []NoLostQuestion)
  <1> SUFFICES ASSUME NoCrossEmbargo, Reliable PROVE Spec => []NoLostQuestion
    OBVIOUS
  <1>1. QuestionsInv => NoLostQuestion
    BY DEF QuestionsInv, OpenDeferred, NoLostQuestion, PartAt, HeldAt, Open
  <1> QED
    BY <1>1, QuestionsAlways, PTL

(***************************************************************************)
(* One connection whose peer hands nothing off (module MCOneConnection).   *)
(* The vat then counts for nobody but the peers, and every Return but      *)
(* those of Joins answers the message being handled.                       *)
(***************************************************************************)

\* The scripts' tables that stay empty.
ScriptInv ==
  /\ script # "joins" => \A c \in Conns : Used(joins[c]) = {} /\ verdict[c].objs = {}
  /\ script # "handoffs" => Used(provisions) = {}

LEMMA ScriptKept ==
  /\ ScriptInit => Init /\ ScriptInv
  /\ ScriptInv /\ [ScriptNext]_<<vars, script>> => ScriptInv'
  /\ [ScriptNext]_<<vars, script>> =>
       /\ [Next]_vars /\ UNCHANGED script
       /\ script # "joins" => UNCHANGED <<joins, verdict>>
       /\ script # "handoffs" => UNCHANGED provisions
  <1>1. ScriptInit => Init /\ ScriptInv
    BY DEF ScriptInit, Init, ScriptInv, Used, Free
  <1>2. [ScriptNext]_<<vars, script>> =>
          /\ [Next]_vars /\ UNCHANGED script
          /\ script # "joins" => UNCHANGED <<joins, verdict>>
          /\ script # "handoffs" => UNCHANGED provisions
    BY DEF ScriptNext, vars
  <1> QED
    BY <1>1, <1>2 DEF ScriptInv

\* Nothing to claim, and nothing to lift: a Provide or an Accept is refused.
LEMMA Level3Refused ==
  ASSUME TypeOK, Used(provisions) = {}, UNCHANGED provisions, NEW c \in Conns, Level3(c)
  PROVE  /\ UNCHANGED exports
         /\ \E q \in Qids, ok \in BOOLEAN : asks[c][q].st = "idle" /\ Reply(c, q, ok)
  <1>0. Sends \subseteq BOOLEAN
    BY ValuesAssumption
  <1>1. ASSUME NEW q \in Qids, NEW t, NEW n, NEW named, NEW ok \in Sends,
               handle_provide(c, q, t, n, named, ok)
        PROVE  UNCHANGED exports /\ asks[c][q].st = "idle" /\ Reply(c, q, ok)
    <2>1. CASE Reply(c, q, ok) /\ UNCHANGED exports
      BY <1>1, <2>1 DEF handle_provide
    <2>2. ASSUME NEW e, NEW i \in First(FreeSlots(provisions)),
                 provisions' = [provisions EXCEPT ![i] =
                   [used |-> 1, nonce |-> n, server |-> exports[c][e].server,
                    export_id |-> e, question_id |-> q,
                    embargoed |-> FALSE, accept_question_id |-> q,
                    from |-> c, acceptor |-> c]]
          PROVE  FALSE
      <3>1. i \in ProvisionSlots
        BY <2>2, FirstIn DEF FreeSlots, TypeOK
      <3>2. provisions'[i].used = 1
        BY <2>2, <3>1 DEF TypeOK
      <3> QED
        BY <3>1, <3>2 DEF Used, TypeOK
    <2> QED
      BY <1>1, <2>1, <2>2 DEF handle_provide
  <1>2. ASSUME NEW q \in Qids, NEW n, NEW embargo, NEW ok \in Sends,
               handle_accept(c, q, n, embargo, ok)
        PROVE  UNCHANGED exports /\ asks[c][q].st = "idle" /\ Reply(c, q, ok)
    <2>1. Claimable(n) = {}
      BY FirstIn DEF Claimable
    <2> QED
      BY <1>2, <2>1 DEF handle_accept
  <1>3. ASSUME NEW pq, NEW ok, release_provide_embargo(c, pq, ok) PROVE FALSE
    BY <1>3 DEF release_provide_embargo
  <1> QED
    BY <1>0, <1>1, <1>2, <1>3 DEF Level3

-----------------------------------------------------------------------------
(* What is counted. *)

\* A step counts a reference and hands it to the peer, or takes it back.
TakenTold(c, e, s) ==
  /\ e \in capn_rpc_export(c, s)
  /\ exports' = [exports EXCEPT ![c][e] = Referenced(@, s)]
  /\ refs' = [refs EXCEPT ![c][e][s] = @ + 1]
CountedTold(c, e) ==
  /\ exports[c][e].used = 1
  /\ exports' = [exports EXCEPT ![c][e].refcount = @ + 1]
  /\ refs' = [refs EXCEPT ![c][e][exports[c][e].server] = @ + 1]
MovesTold ==
  \/ UNCHANGED <<exports, refs>>
  \/ \E c \in Conns, s \in Servers : \E e \in ExportIds : TakenTold(c, e, s)
  \/ \E c \in Conns : \E e \in ExportIds : CountedTold(c, e)
  \/ \E c \in Conns, e \in ExportIds, s \in Servers : \E n \in Nat \ {0} :
       GivenBack(c, e, s, n)

\* The peers get what they are sent, and release what they were given.
Releasing == Delivered /\ ReleaseResults \subseteq {FALSE}

LEMMA TakenTells ==
  ASSUME TypeOK, NEW c \in Conns, NEW q \in Qids, NEW a, NEW s \in Servers,
         NEW e \in capn_rpc_export(c, s), NEW ok, ok,
         exports' = [exports EXCEPT ![c][e] = Referenced(@, s)],
         send_answer(c, q, a, e, s, ok)
  PROVE  MovesTold
  <1>1. e \in ExportIds /\ e # NoCap
    BY ExportFound DEF ExportIds, NoCap
  <1>2. ServerAt(exports'[c], e) = s
    BY ReferencedServer
  <1>3. refs' = [refs EXCEPT ![c][e][s] = @ + 1]
    BY <1>1, <1>2 DEF send_answer
  <1> QED
    BY <1>1, <1>3 DEF MovesTold, TakenTold

LEMMA JoinTells ==
  ASSUME TypeOK, Delivered, NEW c \in Conns, Level4(c) PROVE MovesTold
  <1>1. PICK q \in Qids, t \in Targets(c), k \in KeyParts, got \in [PartNums -> Sends] :
          handle_join(c, q, t, k, got)
    BY DEF Level4
  <1>0. got[0] = TRUE
    <2>1. 0 \in PartNums
      BY SizesAssumption DEF PartNums
    <2>2. got[0] \in Sends
      BY <2>1
    <2> QED
      BY <2>2 DEF Delivered
  <1> DEFINE slots == IF WellFormed(k) THEN join_slot_find(c, k) ELSE {}
             parts(i) == WithPart(c, i, k, q, resolve_target(c, t))
  <1>2. CASE Reply(c, q, got[0]) /\ UNCHANGED <<exports, joins, verdict>>
    BY <1>2 DEF Reply, MovesTold
  <1>3. ASSUME NEW i \in slots, join_complete(c, i, parts(i), k, q, got) PROVE MovesTold
    <2> DEFINE first == parts(i)[0].eid
               same == SameObject(parts(i), k.partCount)
    <2>1. WellFormed(k) /\ i \in JoinSlots
      BY <1>3, JoinSlotFound
    <2>2. parts(i)[k.partNum].eid # NoCap =>
            /\ parts(i)[k.partNum].eid \in ExportIds
            /\ exports[c][parts(i)[k.partNum].eid].used = 1
      BY <2>1, WithPartType
    <2>3. /\ exports' = IF same THEN [exports EXCEPT ![c][first].refcount = @ + 1]
                                ELSE exports
          /\ refs' = IF same /\ got[0]
                     THEN [refs EXCEPT ![c][first][ServerAt(exports[c], first)] = @ + 1]
                     ELSE refs
      BY <1>3 DEF join_complete
    <2> HIDE DEF parts
    <2>4. CASE same
      <3>1. k.partNum \in 0..(k.partCount - 1) /\ k.partNum \in Nat
        BY <2>1, KeyPartType DEF PartNums
      <3>2. first # NoCap /\ parts(i)[k.partNum].eid = first
        BY <2>4, <3>1 DEF SameObject
      <3>3. first \in ExportIds /\ exports[c][first].used = 1
        BY <2>2, <3>2
      <3>4. ServerAt(exports[c], first) = exports[c][first].server
        BY <3>3 DEF ServerAt
      <3> HIDE DEF first, same
      <3>5. CountedTold(c, first)
        BY <1>0, <2>3, <2>4, <3>3, <3>4 DEF CountedTold
      <3> QED
        BY <3>3, <3>5 DEF MovesTold
    <2>5. CASE ~same
      BY <2>3, <2>5 DEF MovesTold
    <2> QED
      BY <2>4, <2>5
  <1>4. CASE UNCHANGED <<exports, refs, verdict>>
    BY <1>4 DEF MovesTold
  <1> QED
    BY <1>1, <1>2, <1>3, <1>4 DEF handle_join

LEMMA NextTells ==
  ASSUME TypeOK, Releasing, Used(provisions) = {}, UNCHANGED provisions, [Next]_vars
  PROVE  MovesTold
  <1>0. /\ \A ok \in Sends : ok = TRUE
        /\ \A rel \in ReleaseResults : rel = FALSE
    BY DEF Releasing, Delivered
  <1>1. CASE UNCHANGED vars
    BY <1>1 DEF vars, MovesTold
  <1>2. ASSUME NEW c \in Conns, Application(c) PROVE MovesTold
    <2>1. ASSUME NEW s \in Servers, export_vine(c, s) PROVE MovesTold
      BY <2>1, ExportFound DEF export_vine, MovesTold, TakenTold
    <2> QED
      BY <1>2, <2>1 DEF Application, capn_rpc_set_bootstrap, capn_rpc_introduction_done, peer,
         MovesTold
  <1>3. ASSUME NEW c \in Conns, Level1(c) PROVE MovesTold
    <2>1. ASSUME NEW q \in Qids, NEW ok \in Sends, handle_bootstrap(c, q, ok)
          PROVE  MovesTold
      <3> DEFINE s == bootstrap[c]
                 found == IF s = NoServer THEN {} ELSE capn_rpc_export(c, s)
      <3>1. CASE Reply(c, q, ok) /\ UNCHANGED exports
        BY <3>1 DEF Reply, MovesTold
      <3>2. ASSUME NEW e \in found,
                   exports' = [exports EXCEPT ![c][e] = Referenced(@, s)],
                   send_answer(c, q, Ask("waiting"), e, s, ok)
            PROVE  MovesTold
        <4>1. s \in Servers /\ e \in capn_rpc_export(c, s)
          BY <3>2 DEF TypeOK, Objects
        <4>2. ok
          BY <1>0
        <4> HIDE DEF s
        <4> QED
          BY <3>2, <4>1, <4>2, TakenTells
      <3> QED
        BY <2>1, <3>1, <3>2 DEF handle_bootstrap
    <2>2. ASSUME NEW q \in Qids, NEW t, NEW d, NEW outcome, NEW ok \in Sends,
                 handle_call(c, q, t, d, outcome, ok)
          PROVE  MovesTold
      BY <2>2 DEF handle_call, Reply, send_answer, MovesTold
    <2>3. ASSUME NEW q \in Qids, NEW rel \in ReleaseResults, handle_finish(c, q, rel)
          PROVE  MovesTold
      BY <1>0, <2>3 DEF handle_finish, MovesTold
    <2>4. ASSUME NEW e \in ExportIds, NEW s \in Servers, NEW n \in 1..refs[c][e][s],
                 handle_release(c, e, s, n)
          PROVE  MovesTold
      <3>1. GivenBack(c, e, s, n)
        BY <2>4 DEF handle_release, GivenBack
      <3>2. n \in Nat \ {0}
        BY <2>4 DEF TypeOK, Objects
      <3> QED
        BY <3>1, <3>2 DEF MovesTold
    <2> QED
      BY <1>3, <2>1, <2>2, <2>3, <2>4 DEF Level1
  <1>4. ASSUME NEW c \in Conns, Level3(c) PROVE MovesTold
    BY <1>4, Level3Refused DEF Reply, MovesTold
  <1>5. ASSUME NEW c \in Conns, Level4(c) PROVE MovesTold
    BY <1>5, JoinTells DEF Releasing
  <1> QED
    BY <1>1, <1>2, <1>3, <1>4, <1>5 DEF Next

\* The references on a slot that stand for object s.
Owed(slot, s) == IF slot.used = 1 /\ slot.server = s THEN slot.refcount ELSE 0

\* Where nothing is provided, the vat and its peers count alike.
Exact ==
  \A c \in Conns, e \in ExportIds, s \in Objects : refs[c][e][s] = Owed(exports[c][e], s)

LEMMA OwedReferenced ==
  ASSUME NEW slot \in Exports, NEW s \in Servers, slot.used = 1 => slot.server = s,
         NEW x \in Objects
  PROVE  Owed(Referenced(slot, s), x) = IF x = s THEN Owed(slot, x) + 1 ELSE Owed(slot, x)
  BY DEF Owed, Referenced, Exports, Free

LEMMA OwedCounted ==
  ASSUME NEW slot \in Exports, slot.used = 1, NEW x \in Objects
  PROVE  Owed([slot EXCEPT !.refcount = @ + 1], x)
           = IF x = slot.server THEN Owed(slot, x) + 1 ELSE Owed(slot, x)
  BY DEF Owed, Exports, Free

LEMMA OwedReleased ==
  ASSUME NEW slot \in Exports, NEW s \in Servers, NEW n \in 1..Owed(slot, s),
         NEW x \in Objects
  PROVE  Owed(Released(slot, n), x) = IF x = s THEN Owed(slot, x) - n ELSE Owed(slot, x)
  BY DEF Owed, Released, Exports, Free

\* A step that changes one slot, and the references it stands for with it.
Recounted(c, e, s, slot, k) ==
  /\ exports' = [exports EXCEPT ![c][e] = slot]
  /\ refs' = [refs EXCEPT ![c][e][s] = k]
  /\ \A x \in Objects : Owed(slot, x) = IF x = s THEN k ELSE Owed(exports[c][e], x)

LEMMA OneSlotExact ==
  ASSUME TypeOK, Exact, NEW c \in Conns, NEW e \in ExportIds, NEW s \in Objects,
         NEW slot, NEW k, Recounted(c, e, s, slot, k)
  PROVE  Exact'
  <1> SUFFICES ASSUME NEW d \in Conns, NEW f \in ExportIds, NEW x \in Objects
               PROVE  refs'[d][f][x] = Owed(exports'[d][f], x)
    BY DEF Exact
  <1>1. refs[d][f][x] = Owed(exports[d][f], x)
    BY DEF Exact
  <1>2. exports'[d][f] = IF d = c /\ f = e THEN slot ELSE exports[d][f]
    BY DEF TypeOK, Recounted
  <1>3. refs'[d][f][x] = IF d = c /\ f = e /\ x = s THEN k ELSE refs[d][f][x]
    BY DEF TypeOK, Recounted
  <1> QED
    BY <1>1, <1>2, <1>3 DEF Recounted

LEMMA MovesExact == ASSUME TypeOK, Exact, MovesTold PROVE Exact'
  <1>0. Servers \subseteq Objects
    BY DEF Objects
  <1>1. CASE UNCHANGED <<exports, refs>>
    BY <1>1 DEF Exact
  <1>2. ASSUME NEW c \in Conns, NEW s \in Servers, NEW e \in ExportIds, TakenTold(c, e, s)
        PROVE  Exact'
    <2>1. exports[c][e] \in Exports /\ (exports[c][e].used = 1 => exports[c][e].server = s)
      BY <1>2, ExportFound DEF TakenTold, TypeOK
    <2>2. refs[c][e][s] = Owed(exports[c][e], s)
      BY <1>0 DEF Exact
    <2>3. \A x \in Objects : Owed(Referenced(exports[c][e], s), x)
             = IF x = s THEN refs[c][e][s] + 1 ELSE Owed(exports[c][e], x)
      BY <2>1, <2>2, OwedReferenced
    <2>4. /\ exports' = [exports EXCEPT ![c][e] = Referenced(exports[c][e], s)]
          /\ refs' = [refs EXCEPT ![c][e][s] = refs[c][e][s] + 1]
      BY <1>2 DEF TakenTold
    <2>6. Recounted(c, e, s, Referenced(exports[c][e], s), refs[c][e][s] + 1)
      BY <2>3, <2>4 DEF Recounted
    <2> QED
      BY <1>0, <2>6, OneSlotExact
  <1>3. ASSUME NEW c \in Conns, NEW e \in ExportIds, CountedTold(c, e) PROVE Exact'
    <2> DEFINE s == exports[c][e].server
               more == [exports[c][e] EXCEPT !.refcount = @ + 1]
    <2>1. exports[c][e] \in Exports /\ exports[c][e].used = 1
      BY <1>3 DEF CountedTold, TypeOK
    <2>2. s \in Objects
      BY <1>0, <2>1 DEF Exports, Free
    <2>3. refs[c][e][s] = Owed(exports[c][e], s)
      BY <2>2 DEF Exact
    <2>4. \A x \in Objects : Owed(more, x)
             = IF x = s THEN refs[c][e][s] + 1 ELSE Owed(exports[c][e], x)
      BY <2>1, <2>3, OwedCounted
    <2>5. /\ exports' = [exports EXCEPT ![c][e] = more]
          /\ refs' = [refs EXCEPT ![c][e][s] = refs[c][e][s] + 1]
      BY <1>3 DEF CountedTold
    <2> HIDE DEF s, more
    <2>6. Recounted(c, e, s, more, refs[c][e][s] + 1)
      BY <2>4, <2>5 DEF Recounted
    <2> QED
      BY <2>2, <2>6, OneSlotExact
  <1>4. ASSUME NEW c \in Conns, NEW e \in ExportIds, NEW s \in Servers, NEW n \in Nat \ {0},
               GivenBack(c, e, s, n)
        PROVE  Exact'
    <2>1. exports[c][e] \in Exports
      BY DEF TypeOK
    <2>2. refs[c][e][s] = Owed(exports[c][e], s)
      BY <1>0 DEF Exact
    <2>3. n \in 1..Owed(exports[c][e], s)
      BY <1>4, <2>2 DEF GivenBack
    <2>4. \A x \in Objects : Owed(Released(exports[c][e], n), x)
             = IF x = s THEN refs[c][e][s] - n ELSE Owed(exports[c][e], x)
      BY <2>1, <2>2, <2>3, OwedReleased
    <2>5. /\ exports' = [exports EXCEPT ![c][e] = Released(exports[c][e], n)]
          /\ refs' = [refs EXCEPT ![c][e][s] = refs[c][e][s] - n]
      BY <1>4 DEF GivenBack
    <2>6. Recounted(c, e, s, Released(exports[c][e], n), refs[c][e][s] - n)
      BY <2>4, <2>5 DEF Recounted
    <2> QED
      BY <1>0, <2>6, OneSlotExact
  <1> QED
    BY <1>1, <1>2, <1>3, <1>4 DEF MovesTold

\* The scripts keep to the specification of the vat.
LEMMA ScriptAlways ==
  ScriptSpec => Spec /\ [](TypeOK /\ ScriptInv) /\ [][UNCHANGED script]_<<vars, script>>
  <1>1. ScriptSpec => Spec
    BY ScriptKept, PTL DEF ScriptSpec, Spec
  <1>2. ScriptSpec => []ScriptInv
    BY ScriptKept, PTL DEF ScriptSpec
  <1>3. ScriptSpec => [][UNCHANGED script]_<<vars, script>>
    BY ScriptKept, PTL DEF ScriptSpec
  <1> QED
    BY <1>1, <1>2, <1>3, TypeCorrect, PTL

\* Every reference the vat counts is one its peer holds, and so an export is
\* freed with the last of them: by any number of peers that hand nothing off
\* and give back their references with Release (capn_rpc_export,
\* handle_release, capn-rpc.c:38-60, 515-524).
THEOREM References == Releasing => (ScriptSpec => []CountsExact)
  <1> SUFFICES ASSUME Releasing PROVE ScriptSpec => []CountsExact
    OBVIOUS
  <1> DEFINE Held == script # "handoffs" => Exact
  <1>1. ScriptInit => Held
    <2> SUFFICES ASSUME Init PROVE Exact
      BY ScriptKept
    <2> QED
      BY DEF Init, Exact, Owed, Free
  <1>2. TypeOK /\ ScriptInv /\ Held /\ [ScriptNext]_<<vars, script>> => Held'
    <2> SUFFICES ASSUME TypeOK, ScriptInv, Held, [ScriptNext]_<<vars, script>>,
                        script' # "handoffs"
                 PROVE  Exact'
      OBVIOUS
    <2>1. [Next]_vars /\ UNCHANGED provisions /\ Exact /\ Used(provisions) = {}
      BY ScriptKept DEF ScriptInv
    <2> QED
      BY <2>1, NextTells, MovesExact
  <1>3. TypeOK /\ ScriptInv /\ Held => CountsExact
    <2> SUFFICES ASSUME TypeOK, Used(provisions) = {}, Exact PROVE RefcountExact
      BY DEF ScriptInv, CountsExact
    <2> SUFFICES ASSUME NEW c \in Conns, NEW e \in Used(exports[c])
                 PROVE  exports[c][e].refcount
                          = refs[c][e][exports[c][e].server] + Arranged(c, e)
      BY DEF RefcountExact
    <2>1. e \in ExportIds /\ exports[c][e] \in Exports /\ exports[c][e].used = 1
      BY DEF Used, TypeOK
    <2>2. exports[c][e].server \in Objects /\ exports[c][e].refcount \in Nat
      BY <2>1 DEF Exports, Free, Objects
    <2>3. refs[c][e][exports[c][e].server] = exports[c][e].refcount
      BY <2>1, <2>2 DEF Exact, Owed
    <2>4. Arranged(c, e) = 0
      <3>1. ArrangedOn(c, e) = {}
        BY DEF ArrangedOn
      <3> QED
        BY <3>1, FS_EmptySet DEF Arranged
    <2> QED
      BY <2>2, <2>3, <2>4
  <1> HIDE DEF Held
  <1> QED
    BY <1>1, <1>2, <1>3, ScriptAlways, PTL DEF ScriptSpec

-----------------------------------------------------------------------------
(* What is kept. *)

\* A question is answered with nothing, or its Return is lost; neither is kept.
Plainly(c, q) ==
  /\ asks[c][q].st = "idle"
  /\ UNCHANGED answers
  /\ \E v \in {Answered(NoCap, NoServer), Ask("waiting")} :
       asks' = [asks EXCEPT ![c][q] = v]

\* A question is answered with export e, or that Return is lost; both are kept.
Keeping(c, q, e) ==
  /\ asks[c][q].st = "idle"
  /\ answers' = [answers EXCEPT ![c] = Kept(@, q, e)]
  /\ \E v \in {Ask("waiting")} \cup {Answered(e, s) : s \in Objects} :
       asks' = [asks EXCEPT ![c][q] = v]

\* A question is finished, and what was kept for it dropped.
Ending(c, q) ==
  /\ asks[c][q].st \in {"waiting", "answered"}
  /\ answers' = [answers EXCEPT ![c] = answer_drop(c, q)]
  /\ \E st \in {"cancelled", "idle"} : asks' = [asks EXCEPT ![c][q] = Ask(st)]

\* What a step that hands nothing off does to the answers and the questions.
Keeps ==
  \/ UNCHANGED <<answers, asks>>
  \/ \E c \in Conns, q \in Qids : Plainly(c, q) \/ Ending(c, q)
  \/ \E c \in Conns, q \in Qids, e \in CapIds : Keeping(c, q, e)
  \/ \E c \in Conns, q \in Qids : Level4(c) /\ UNCHANGED answers /\ Gathering(c, q)

LEMMA ReplyKeeps ==
  ASSUME NEW c \in Conns, NEW q \in Qids, asks[c][q].st = "idle", NEW ok, Reply(c, q, ok)
  PROVE  Plainly(c, q)
  BY DEF Reply, Plainly

LEMMA AnswerKeeps ==
  ASSUME NEW c \in Conns, NEW q \in Qids, asks[c][q].st = "idle", NEW ok \in BOOLEAN,
         NEW e, NEW s \in Objects, send_answer(c, q, Ask("waiting"), e, s, ok)
  PROVE  Keeping(c, q, e)
  <1>1. Returned(Ask("waiting"), e, s) = Answered(e, s)
    BY DEF Returned, Ask
  <1>2. asks' = [asks EXCEPT ![c][q] = IF ok THEN Answered(e, s) ELSE Ask("waiting")]
    BY <1>1 DEF send_answer
  <1>3. answers' = [answers EXCEPT ![c] = Kept(@, q, e)]
    BY DEF send_answer
  <1> QED
    BY <1>2, <1>3 DEF Keeping

LEMMA NextKeeps ==
  ASSUME TypeOK, TypeOK', Used(provisions) = {}, UNCHANGED provisions, [Next]_vars
  PROVE  Keeps
  <1>0. Sends \subseteq BOOLEAN /\ NoServer \in Objects /\ NoCap \in CapIds
    BY ValuesAssumption DEF Objects, CapIds
  <1>1. CASE UNCHANGED vars
    BY <1>1 DEF vars, Keeps
  <1>2. ASSUME NEW c \in Conns, Application(c) PROVE Keeps
    BY <1>2 DEF Application, capn_rpc_set_bootstrap, export_vine,
       capn_rpc_introduction_done, peer, Keeps
  <1>3. ASSUME NEW c \in Conns, Level1(c) PROVE Keeps
    <2>1. ASSUME NEW q \in Qids, NEW ok \in Sends, handle_bootstrap(c, q, ok)
          PROVE  Keeps
      <3> DEFINE s == bootstrap[c]
                 found == IF s = NoServer THEN {} ELSE capn_rpc_export(c, s)
      <3>0. asks[c][q].st = "idle"
        BY <2>1 DEF handle_bootstrap
      <3>1. CASE Reply(c, q, ok)
        BY <3>0, <3>1, ReplyKeeps DEF Keeps
      <3>2. ASSUME NEW e \in found, send_answer(c, q, Ask("waiting"), e, s, ok)
            PROVE  Keeps
        <4>1. s \in Servers /\ e \in capn_rpc_export(c, s)
          BY DEF TypeOK, Objects
        <4>2. s \in Objects /\ e \in CapIds
          BY <4>1, ExportFound DEF Objects, CapIds
        <4> HIDE DEF s
        <4> QED
          BY <1>0, <3>0, <3>2, <4>2, AnswerKeeps DEF Keeps
      <3> QED
        BY <2>1, <3>1, <3>2 DEF handle_bootstrap
    <2>2. ASSUME NEW q \in Qids, NEW t, NEW d, NEW outcome, NEW ok \in Sends,
                 handle_call(c, q, t, d, outcome, ok)
          PROVE  Keeps
      <3>0. asks[c][q].st = "idle"
        BY <2>2 DEF handle_call
      <3>1. CASE \E some : Reply(c, q, some)
        BY <3>0, <3>1, ReplyKeeps DEF Keeps
      <3>2. CASE send_answer(c, q, Ask("waiting"), NoCap, NoServer, ok)
        BY <1>0, <3>0, <3>2, AnswerKeeps DEF Keeps
      <3> QED
        BY <2>2, <3>1, <3>2 DEF handle_call
    <2>3. ASSUME NEW q \in Qids, NEW rel, handle_finish(c, q, rel)
          PROVE  Keeps
      <3>1. Ending(c, q)
        BY <2>3 DEF handle_finish, Ending
      <3> QED
        BY <3>1 DEF Keeps
    <2>4. ASSUME NEW e, NEW s, NEW n, handle_release(c, e, s, n) PROVE Keeps
      BY <2>4 DEF handle_release, Keeps
    <2> QED
      BY <1>3, <2>1, <2>2, <2>3, <2>4 DEF Level1
  <1>4. ASSUME NEW c \in Conns, Level3(c) PROVE Keeps
    BY <1>4, Level3Refused, ReplyKeeps DEF Keeps
  <1>5. ASSUME NEW c \in Conns, Level4(c) PROVE Keeps
    BY <1>5, Level4Talks DEF Keeps
  <1> QED
    BY <1>1, <1>2, <1>3, <1>4, <1>5 DEF Next

\* The slot a Return is kept in was free; the one dropped was that question's.
LEMMA KeepingAt ==
  ASSUME TypeOK, NEW c \in Conns, NEW q, NEW e, Keeping(c, q, e),
         NEW d \in Conns, NEW b \in AnswerSlots
  PROVE  answers'[d][b] = IF d = c /\ b \in First(FreeSlots(answers[c]))
                          THEN [used |-> 1, qid |-> q, cap |-> e] ELSE answers[d][b]
  <1>1. Kept(answers[c], q, e)[b] = IF b \in First(FreeSlots(answers[c]))
                          THEN [used |-> 1, qid |-> q, cap |-> e] ELSE answers[c][b]
    BY DEF Kept, Put, TypeOK
  <1>2. answers'[d] = IF d = c THEN Kept(answers[c], q, e) ELSE answers[d]
    BY DEF Keeping, TypeOK
  <1> QED
    BY <1>1, <1>2

LEMMA AnswerSlotsNat == AnswerSlots \subseteq Nat
  BY SizesAssumption DEF AnswerSlots

LEMMA EndingAt ==
  ASSUME TypeOK, AnswersOpen, NEW c \in Conns, NEW q, Ending(c, q),
         NEW d \in Conns, NEW b \in AnswerSlots
  PROVE  answers'[d][b] = IF d = c /\ b \in Used(answers[c]) /\ answers[c][b].qid = q
                          THEN Free ELSE answers[d][b]
  <1> DEFINE its == {a \in Used(answers[c]) : answers[c][a].qid = q}
  <1>1. answers'[d] = IF d = c THEN answer_drop(c, q) ELSE answers[d]
    BY DEF Ending, TypeOK
  <1>2. answer_drop(c, q)[b] = IF b \in First(its) THEN Free ELSE answers[c][b]
    BY DEF answer_drop, answer_find, Put, TypeOK
  <1>3. b \in First(its) <=> b \in its
    <2>1. ASSUME b \in its, NEW a \in its PROVE a = b
      <3>1. /\ a \in Used(answers[c]) /\ answers[c][a].qid = q
            /\ b \in Used(answers[c]) /\ answers[c][b].qid = q
        BY <2>1
      <3> QED
        BY <3>1 DEF AnswersOpen
    <2>2. its \subseteq Nat
      BY AnswerSlotsNat DEF Used, TypeOK
    <2> HIDE DEF its
    <2> QED
      BY <2>1, <2>2, FirstIn, FirstExists
  <1> QED
    BY <1>1, <1>2, <1>3

LEMMA KeepsOpen ==
  ASSUME TypeOK, AnswersOpen, DeferredOpen, Keeps PROVE AnswersOpen'
  <1> DEFINE Alive(d, x) == asks'[d][x].st \in {"waiting", "answered"}
  <1>0. \A d \in Conns : \A a \in Used(answers[d]) :
          /\ a \in AnswerSlots /\ answers[d][a].used = 1
          /\ answers[d][a].qid \in Qids
          /\ asks[d][answers[d][a].qid].st \in {"waiting", "answered"}
    <2> SUFFICES ASSUME NEW d \in Conns, NEW a \in Used(answers[d])
                 PROVE  /\ a \in AnswerSlots /\ answers[d][a].used = 1
                        /\ answers[d][a].qid \in Qids
                        /\ asks[d][answers[d][a].qid].st \in {"waiting", "answered"}
      OBVIOUS
    <2>1. a \in AnswerSlots /\ answers[d][a] \in Answers /\ answers[d][a].used = 1
      BY DEF Used, TypeOK
    <2>2. answers[d][a].qid \in Qids
      BY <2>1 DEF Answers, Free
    <2> QED
      BY <2>1, <2>2 DEF AnswersOpen
  <1>1. CASE UNCHANGED <<answers, asks>>
    BY <1>1 DEF AnswersOpen
  <1>2. ASSUME UNCHANGED answers,
               \A d \in Conns, x \in Qids :
                  asks[d][x].st \in {"waiting", "answered"} => Alive(d, x)
        PROVE  AnswersOpen'
    <2> SUFFICES ASSUME NEW d \in Conns, NEW a \in Used(answers[d]),
                        NEW b \in Used(answers[d])
                 PROVE  /\ Alive(d, answers[d][a].qid)
                        /\ answers[d][a].qid = answers[d][b].qid => a = b
      BY <1>2 DEF AnswersOpen
    <2> HIDE DEF Alive
    <2> QED
      BY <1>0, <1>2 DEF AnswersOpen
  <1>3. ASSUME NEW c \in Conns, NEW q \in Qids, Plainly(c, q) PROVE AnswersOpen'
    <2>1. \A d \in Conns, x \in Qids :
             asks[d][x].st \in {"waiting", "answered"} => Alive(d, x)
      BY <1>3 DEF Plainly, TypeOK
    <2> QED
      BY <1>2, <1>3, <2>1 DEF Plainly
  <1>4. ASSUME NEW c \in Conns, NEW q \in Qids, Gathering(c, q), UNCHANGED answers
        PROVE  AnswersOpen'
    <2> DEFINE Was(d, x) == asks[d][x].st \in {"waiting", "answered"}
    <2>1. ASSUME NEW d \in Conns, NEW x \in Qids, Was(d, x) PROVE Alive(d, x)
      <3>1. CASE Answering(c, q)
        BY <2>1, <3>1 DEF Answering, Others
      <3>2. ASSUME NEW i, NEW n, Joining1(c, q, i, n) PROVE Alive(d, x)
        BY <2>1, <3>2 DEF Joining1, Others
      <3>3. ASSUME NEW i, Completing(c, q, i) PROVE Alive(d, x)
        <4>1. CASE d # c
          BY <2>1, <3>3, <4>1 DEF Completing
        <4>2. CASE d = c /\ ~(x = q \/ \E n : PartAt(joins, c, i, n, x))
          BY <2>1, <3>3, <4>2 DEF Completing
        <4>3. CASE d = c /\ (x = q \/ \E n : PartAt(joins, c, i, n, x))
          <5>1. asks'[c][x].st \in {Before(c, q, x), ReturnedSt(Before(c, q, x))}
            BY <3>3, <4>3 DEF Completing
          <5>2. Before(c, q, x) = "waiting"
            BY <2>1, <4>3 DEF Before, DeferredOpen, Open
          <5> QED
            BY <4>3, <5>1, <5>2 DEF ReturnedSt
        <4> QED
          BY <4>1, <4>2, <4>3
      <3> QED
        BY <1>4, <3>1, <3>2, <3>3 DEF Gathering
    <2> HIDE DEF Alive
    <2> QED
      BY <1>2, <1>4, <2>1
  <1>5. ASSUME NEW c \in Conns, NEW q \in Qids, NEW e, Keeping(c, q, e)
        PROVE  AnswersOpen'
    <2>1. asks[c][q].st = "idle"
      BY <1>5 DEF Keeping
    <2>2. /\ asks'[c][q].st \in {"waiting", "answered"}
          /\ \A d \in Conns, x \in Qids : (d # c \/ x # q) => asks'[d][x] = asks[d][x]
      <3>1. PICK v \in {Ask("waiting")} \cup {Answered(e, s) : s \in Objects} :
              asks' = [asks EXCEPT ![c][q] = v]
        BY <1>5 DEF Keeping
      <3>2. v.st \in {"waiting", "answered"}
        BY <3>1 DEF Ask, Answered
      <3> QED
        BY <3>1, <3>2 DEF TypeOK
    <2> DEFINE new == First(FreeSlots(answers[c]))
    <2>3. \A a \in new, b \in new : a = b
      <3>1. new \subseteq Nat
        BY FirstIn, AnswerSlotsNat, ZenonT(60) DEF FreeSlots, TypeOK
      <3> QED
        BY <3>1 DEF First
    <2>4. \A d \in Conns : \A a \in Used(answers'[d]) :
            \/ d = c /\ a \in new /\ answers'[d][a].qid = q
            \/ a \in Used(answers[d]) /\ answers'[d][a] = answers[d][a]
      <3> SUFFICES ASSUME NEW d \in Conns, NEW a \in Used(answers'[d])
                   PROVE  \/ d = c /\ a \in new /\ answers'[d][a].qid = q
                          \/ a \in Used(answers[d]) /\ answers'[d][a] = answers[d][a]
        OBVIOUS
      <3>1. a \in AnswerSlots /\ answers'[d][a].used = 1
        <4>1. DOMAIN answers'[d] = AnswerSlots
          BY <1>5 DEF Keeping, Kept, Put, TypeOK
        <4> QED
          BY <4>1 DEF Used
      <3>2. answers'[d][a] = IF d = c /\ a \in new THEN [used |-> 1, qid |-> q, cap |-> e]
                                                   ELSE answers[d][a]
        BY <1>5, <3>1, KeepingAt
      <3> HIDE DEF new
      <3> QED
        BY <3>1, <3>2 DEF Used, TypeOK
    <2> HIDE DEF new
    <2>5. \A d \in Conns : \A a \in Used(answers[d]) : d # c \/ answers[d][a].qid # q
      BY <1>0, <2>1
    <2> SUFFICES ASSUME NEW d \in Conns, NEW a \in Used(answers'[d]),
                        NEW b \in Used(answers'[d])
                 PROVE  /\ Alive(d, answers'[d][a].qid)
                        /\ answers'[d][a].qid = answers'[d][b].qid => a = b
      BY DEF AnswersOpen
    <2>6. CASE d = c /\ a \in new /\ answers'[d][a].qid = q
      BY <2>2, <2>3, <2>4, <2>5, <2>6
    <2>7. CASE a \in Used(answers[d]) /\ answers'[d][a] = answers[d][a]
      <3>1. Alive(d, answers'[d][a].qid)
        BY <1>0, <2>2, <2>5, <2>7
      <3> HIDE DEF Alive
      <3> QED
        BY <2>4, <2>5, <2>7, <3>1 DEF AnswersOpen
    <2> QED
      BY <2>4, <2>6, <2>7
  <1>6. ASSUME NEW c \in Conns, NEW q \in Qids, Ending(c, q)
        PROVE  AnswersOpen'
    <2>1. \A d \in Conns, x \in Qids : (d # c \/ x # q) => asks'[d][x] = asks[d][x]
      BY <1>6 DEF Ending, TypeOK
    <2>2. \A d \in Conns : \A a \in Used(answers'[d]) :
            /\ a \in Used(answers[d]) /\ answers'[d][a] = answers[d][a]
            /\ d # c \/ answers[d][a].qid # q
      <3> SUFFICES ASSUME NEW d \in Conns, NEW a \in Used(answers'[d])
                   PROVE  /\ a \in Used(answers[d]) /\ answers'[d][a] = answers[d][a]
                          /\ d # c \/ answers[d][a].qid # q
        OBVIOUS
      <3>1. a \in AnswerSlots /\ answers'[d][a].used = 1
        <4>1. DOMAIN answers'[d] = AnswerSlots
          BY <1>6 DEF Ending, answer_drop, Put, TypeOK
        <4> QED
          BY <4>1 DEF Used
      <3>2. answers'[d][a] = IF d = c /\ a \in Used(answers[c]) /\ answers[c][a].qid = q
                             THEN Free ELSE answers[d][a]
        BY <1>6, <3>1, EndingAt
      <3> QED
        BY <3>1, <3>2 DEF Used, TypeOK, Free
    <2> SUFFICES ASSUME NEW d \in Conns, NEW a \in Used(answers'[d]),
                        NEW b \in Used(answers'[d])
                 PROVE  /\ Alive(d, answers'[d][a].qid)
                        /\ answers'[d][a].qid = answers'[d][b].qid => a = b
      BY DEF AnswersOpen
    <2>3. Alive(d, answers'[d][a].qid)
      BY <1>0, <2>1, <2>2
    <2> HIDE DEF Alive
    <2> QED
      BY <2>2, <2>3 DEF AnswersOpen
  <1> QED
    BY <1>1, <1>3, <1>4, <1>5, <1>6 DEF Keeps

\* A Return kept for pipelined calls belongs to a question its peer has not
\* finished, and is the only one kept for it (send_answer, answer_drop,
\* capn-rpc.c:163-198).
THEOREM KeptOpen == ScriptSpec => []KeptForOpen
  <1> DEFINE Held == script # "handoffs" => AnswersOpen /\ QuestionsInv
  <1>1. ScriptInit => Held
    <2> SUFFICES ASSUME Init PROVE AnswersOpen /\ QuestionsInv
      BY ScriptKept
    <2> QED
      BY QuestionsInit DEF Init, AnswersOpen, Used, Free
  <1>2. TypeOK /\ TypeOK' /\ ScriptInv /\ Held /\ [ScriptNext]_<<vars, script>> => Held'
    <2> SUFFICES ASSUME TypeOK, TypeOK', ScriptInv, Held, [ScriptNext]_<<vars, script>>,
                        script' # "handoffs"
                 PROVE  AnswersOpen' /\ QuestionsInv'
      OBVIOUS
    <2>1. /\ [Next]_vars /\ UNCHANGED provisions /\ Used(provisions) = {}
          /\ AnswersOpen /\ QuestionsInv
      BY ScriptKept DEF ScriptInv
    <2>2. QuestionsInv'
      BY <2>1, NextTalks, TalkInv DEF NoEmbargo
    <2>3. DeferredOpen
      BY <2>1 DEF QuestionsInv, DeferredInv
    <2> QED
      BY <2>1, <2>2, <2>3, NextKeeps, KeepsOpen
  <1>3. Held => KeptForOpen
    BY DEF KeptForOpen
  <1> HIDE DEF Held
  <1> QED
    BY <1>1, <1>2, <1>3, ScriptAlways, PTL DEF ScriptSpec

-----------------------------------------------------------------------------
(* What a pipelined call reaches. *)

\* A capability the peer was returned has its answer kept.
KeptCaps ==
  \A c \in Conns, q \in Qids : asks[c][q].st = "answered" /\ asks[c][q].id # NoCap =>
     \E a \in Used(answers[c]) : answers[c][a].qid = q /\ answers[c][a].cap = asks[c][q].id

\* The table has a slot for every question a peer has not finished.
RoomToKeep == IsFiniteSet(Qids) /\ Cardinality(Qids) <= MAX_ANSWERS

LEMMA SlotToKeep ==
  ASSUME TypeOK, AnswersOpen, RoomToKeep, NEW c \in Conns, NEW q \in Qids,
         asks[c][q].st = "idle"
  PROVE  First(FreeSlots(answers[c])) # {}
  <1>1. FreeSlots(answers[c]) \subseteq Nat /\ DOMAIN answers[c] = AnswerSlots
    BY AnswerSlotsNat DEF FreeSlots, TypeOK
  <1>2. FreeSlots(answers[c]) # {}
    <2> SUFFICES ASSUME FreeSlots(answers[c]) = {} PROVE FALSE
      OBVIOUS
    <2> DEFINE kept == [a \in AnswerSlots |-> answers[c][a].qid]
    <2>1. \A a \in AnswerSlots : a \in Used(answers[c]) /\ answers[c][a].qid \in Qids \ {q}
      <3> SUFFICES ASSUME NEW a \in AnswerSlots
                   PROVE  a \in Used(answers[c]) /\ answers[c][a].qid \in Qids \ {q}
        OBVIOUS
      <3>1. answers[c][a] \in Answers
        BY DEF TypeOK
      <3>2. answers[c][a].used # 0
        BY <1>1 DEF FreeSlots
      <3>3. answers[c][a].used = 1 /\ answers[c][a].qid \in Qids
        BY <3>1, <3>2 DEF Answers, Free
      <3>4. a \in Used(answers[c])
        BY <1>1, <3>3 DEF Used
      <3> QED
        BY <3>3, <3>4 DEF AnswersOpen
    <2>2. kept \in Injection(AnswerSlots, Qids \ {q})
      <3>1. \A a, b \in AnswerSlots : answers[c][a].qid = answers[c][b].qid => a = b
        BY <2>1 DEF AnswersOpen
      <3> QED
        BY <2>1, <3>1 DEF Injection, IsInjective
    <2>3. IsFiniteSet(Qids \ {q}) /\ Cardinality(Qids \ {q}) = Cardinality(Qids) - 1
      BY FS_RemoveElement DEF RoomToKeep
    <2>4. Cardinality(AnswerSlots) <= Cardinality(Qids \ {q})
      BY <2>2, <2>3, FS_Injection
    <2>5. Cardinality(AnswerSlots) = MAX_ANSWERS
      <3>1. MAX_ANSWERS \in Nat
        BY SizesAssumption
      <3> QED
        BY <3>1, FS_Interval DEF AnswerSlots
    <2>6. Cardinality(Qids) \in Nat /\ MAX_ANSWERS \in Nat
      BY FS_CardinalityType, SizesAssumption DEF RoomToKeep
    <2> QED
      BY <2>3, <2>4, <2>5, <2>6 DEF RoomToKeep
  <1> QED
    BY <1>1, <1>2, FirstExists

\* With no Join in progress and none answered, a Join is refused.
LEMMA Level4Refused ==
  ASSUME TypeOK, NEW c \in Conns, Level4(c), UNCHANGED <<joins, verdict>>,
         Used(joins[c]) = {}, verdict[c].objs = {}
  PROVE  \E q \in Qids : Plainly(c, q)
  <1>1. PICK q \in Qids, t \in Targets(c), k \in KeyParts, got \in [PartNums -> Sends] :
          handle_join(c, q, t, k, got)
    BY DEF Level4
  <1> DEFINE slots == IF WellFormed(k) THEN join_slot_find(c, k) ELSE {}
             parts(i) == WithPart(c, i, k, q, resolve_target(c, t))
  <1>2. asks[c][q].st = "idle"
    BY <1>1 DEF handle_join
  <1>3. CASE Reply(c, q, got[0])
    BY <1>2, <1>3, ReplyKeeps
  <1>4. ASSUME NEW i \in slots, join_complete(c, i, parts(i), k, q, got) PROVE FALSE
    <2>1. PICK same, objs :
            /\ verdict' = [verdict EXCEPT ![c] = [same |-> same, objs |-> objs]]
            /\ parts(i)[0].obj \in objs
      <3>1. 0 \in 0..(k.partCount - 1)
        BY SizesAssumption DEF WellFormed
      <3> DEFINE named == {parts(i)[n].obj : n \in 0..(k.partCount - 1)}
      <3>2. parts(i)[0].obj \in named
        BY <3>1
      <3>3. verdict' = [verdict EXCEPT ![c] =
               [same |-> SameObject(parts(i), k.partCount), objs |-> named]]
        BY <1>4 DEF join_complete
      <3> HIDE DEF named
      <3> QED
        BY <3>2, <3>3
    <2>2. verdict'[c].objs = objs
      BY <2>1 DEF TypeOK
    <2> QED
      BY <2>1, <2>2
  <1>5. ASSUME NEW i \in slots, NEW these,
               joins' = [joins EXCEPT ![c][i] =
                  [used |-> 1, join_id |-> k.joinId,
                   part_count |-> k.partCount, parts |-> these]]
        PROVE  FALSE
    <2>1. i \in JoinSlots
      BY <1>5, JoinSlotFound
    <2>2. joins'[c][i].used = 1
      BY <1>5, <2>1 DEF TypeOK
    <2> QED
      BY <2>1, <2>2 DEF Used, TypeOK
  <1> QED
    BY <1>1, <1>3, <1>4, <1>5 DEF handle_join

\* What a step that neither hands off nor joins does to them.
LEMMA KeepsCaps ==
  ASSUME TypeOK, TypeOK', AnswersOpen, KeptCaps, RoomToKeep, Keeps,
         UNCHANGED <<joins, verdict>>,
         \A c \in Conns : Used(joins[c]) = {} /\ verdict[c].objs = {}
  PROVE  KeptCaps'
  <1> DEFINE Has(d, x) == \E a \in Used(answers'[d]) :
               answers'[d][a].qid = x /\ answers'[d][a].cap = asks'[d][x].id
             Had(d, x) == \E a \in Used(answers[d]) :
               answers[d][a].qid = x /\ answers[d][a].cap = asks[d][x].id
  <1>0. \A d \in Conns, x \in Qids : asks[d][x].st = "answered" /\ asks[d][x].id # NoCap
           => Had(d, x)
    BY DEF KeptCaps
  <1>1. CASE UNCHANGED <<answers, asks>>
    BY <1>1 DEF KeptCaps
  <1>2. ASSUME NEW c \in Conns, NEW q \in Qids, Plainly(c, q) PROVE KeptCaps'
    <2> SUFFICES ASSUME NEW d \in Conns, NEW x \in Qids,
                        asks'[d][x].st = "answered", asks'[d][x].id # NoCap
                 PROVE  Has(d, x)
      BY DEF KeptCaps
    <2>1. asks'[d][x] = asks[d][x]
      BY <1>2 DEF Plainly, TypeOK, Answered, Ask
    <2> QED
      BY <1>0, <1>2, <2>1 DEF Plainly
  <1>3. ASSUME NEW c \in Conns, NEW q \in Qids, Ending(c, q) PROVE KeptCaps'
    <2> SUFFICES ASSUME NEW d \in Conns, NEW x \in Qids,
                        asks'[d][x].st = "answered", asks'[d][x].id # NoCap
                 PROVE  Has(d, x)
      BY DEF KeptCaps
    <2>1. asks'[d][x] = asks[d][x] /\ (d # c \/ x # q)
      BY <1>3 DEF Ending, TypeOK, Ask
    <2>2. PICK a \in Used(answers[d]) :
            answers[d][a].qid = x /\ answers[d][a].cap = asks[d][x].id
      BY <1>0, <2>1
    <2>3. a \in AnswerSlots
      BY DEF Used, TypeOK
    <2>4. answers'[d][a] = answers[d][a]
      BY <1>3, <2>1, <2>2, <2>3, EndingAt
    <2>5. a \in Used(answers'[d])
      BY <2>3, <2>4 DEF Used, TypeOK
    <2> QED
      BY <2>1, <2>2, <2>4, <2>5
  <1>4. ASSUME NEW c \in Conns, NEW q \in Qids, NEW e \in CapIds, Keeping(c, q, e)
        PROVE  KeptCaps'
    <2> SUFFICES ASSUME NEW d \in Conns, NEW x \in Qids,
                        asks'[d][x].st = "answered", asks'[d][x].id # NoCap
                 PROVE  Has(d, x)
      BY DEF KeptCaps
    <2>1. CASE d = c /\ x = q
      <3>1. asks'[c][q].id = e
        BY <1>4, <2>1 DEF Keeping, TypeOK, Answered, Ask
      <3>2. PICK a : a \in First(FreeSlots(answers[c]))
        BY <1>4, SlotToKeep DEF Keeping
      <3>3. a \in AnswerSlots
        BY <3>2, FirstIn DEF FreeSlots, TypeOK
      <3>4. answers'[c][a] = [used |-> 1, qid |-> q, cap |-> e]
        BY <1>4, <3>2, <3>3, KeepingAt
      <3>5. a \in Used(answers'[c])
        BY <3>3, <3>4 DEF Used, TypeOK
      <3> QED
        BY <2>1, <3>1, <3>4, <3>5
    <2>2. CASE ~(d = c /\ x = q)
      <3>1. asks'[d][x] = asks[d][x]
        BY <1>4, <2>2 DEF Keeping, TypeOK
      <3>2. PICK a \in Used(answers[d]) :
              answers[d][a].qid = x /\ answers[d][a].cap = asks[d][x].id
        BY <1>0, <3>1
      <3>3. a \in AnswerSlots /\ answers[d][a].used = 1
        BY DEF Used, TypeOK
      <3>4. a \notin First(FreeSlots(answers[d]))
        BY <3>3, FirstIn DEF FreeSlots
      <3>5. answers'[d][a] = answers[d][a]
        BY <1>4, <3>3, <3>4, KeepingAt, ZenonT(60)
      <3>6. a \in Used(answers'[d])
        BY <3>3, <3>5 DEF Used, TypeOK
      <3> QED
        BY <3>1, <3>2, <3>5, <3>6
    <2> QED
      BY <2>1, <2>2
  <1>5. ASSUME NEW c \in Conns, Level4(c) PROVE KeptCaps'
    BY <1>2, <1>5, Level4Refused
  <1> QED
    BY <1>1, <1>2, <1>3, <1>4, <1>5 DEF Keeps

\* A call pipelined on an answered question reaches the object the answer
\* carried, for as long as the peer holds it: by peers that ask no more at a
\* time than the table has slots, and neither join nor hand off
\* (resolve_promised_answer, capn-rpc.c:86-150).
THEOREM Pipelines == Releasing /\ RoomToKeep => (ScriptSpec => []PipelinesReach)
  <1> SUFFICES ASSUME Releasing, RoomToKeep PROVE ScriptSpec => []PipelinesReach
    OBVIOUS
  <1> DEFINE Held == script = "pipelines" =>
               AnswersOpen /\ QuestionsInv /\ Exact /\ KeptCaps
  <1>1. ScriptInit => Held
    <2> SUFFICES ASSUME Init PROVE AnswersOpen /\ QuestionsInv /\ Exact /\ KeptCaps
      BY ScriptKept
    <2>1. AnswersOpen /\ Exact
      BY DEF Init, AnswersOpen, Exact, Owed, Used, Free
    <2>2. KeptCaps
      BY DEF Init, KeptCaps, Ask
    <2> QED
      BY <2>1, <2>2, QuestionsInit
  <1>2. TypeOK /\ TypeOK' /\ ScriptInv /\ Held /\ [ScriptNext]_<<vars, script>> => Held'
    <2> SUFFICES ASSUME TypeOK, TypeOK', ScriptInv, Held, [ScriptNext]_<<vars, script>>,
                        script' = "pipelines"
                 PROVE  AnswersOpen' /\ QuestionsInv' /\ Exact' /\ KeptCaps'
      OBVIOUS
    <2>1. /\ [Next]_vars /\ UNCHANGED <<joins, verdict>> /\ UNCHANGED provisions
          /\ Used(provisions) = {}
          /\ \A c \in Conns : Used(joins[c]) = {} /\ verdict[c].objs = {}
          /\ AnswersOpen /\ QuestionsInv /\ Exact /\ KeptCaps
      BY ScriptKept DEF ScriptInv
    <2>2. QuestionsInv'
      BY <2>1, NextTalks, TalkInv DEF NoEmbargo
    <2>3. DeferredOpen
      BY <2>1 DEF QuestionsInv, DeferredInv
    <2>4. AnswersOpen'
      BY <2>1, <2>3, NextKeeps, KeepsOpen
    <2>5. KeptCaps'
      BY <2>1, NextKeeps, KeepsCaps
    <2>6. Exact'
      BY <2>1, NextTells, MovesExact
    <2> QED
      BY <2>2, <2>4, <2>5, <2>6
  <1>3. TypeOK /\ Held => PipelinesReach
    <2> SUFFICES ASSUME TypeOK, AnswersOpen, Exact, KeptCaps,
                        NEW c \in Conns, NEW q \in Qids,
                        asks[c][q].st = "answered", asks[c][q].id # NoCap,
                        refs[c][asks[c][q].id][asks[c][q].server] > 0
                 PROVE  \E e \in resolve_target(c, [kind |-> "promisedAnswer", qid |-> q]) :
                           exports[c][e].server = asks[c][q].server
      BY DEF PipelinesReach, PipelineReaches
    <2>1. PICK a \in Used(answers[c]) :
            answers[c][a].qid = q /\ answers[c][a].cap = asks[c][q].id
      BY DEF KeptCaps
    <2> DEFINE its == {b \in Used(answers[c]) : answers[c][b].qid = q}
    <2>2. its \subseteq Nat /\ its # {}
      BY <2>1, AnswerSlotsNat DEF Used, TypeOK
    <2>3. \A b \in its : b = a
      BY <2>1 DEF AnswersOpen
    <2>4. a \in First(its)
      <3> HIDE DEF its
      <3> QED
        BY <2>2, <2>3, FirstIn, FirstExists
    <2>5. a \in answer_find(c, q)
      BY <2>4 DEF answer_find
    <2>6. asks[c][q].id \in ExportIds /\ asks[c][q].server \in Objects
      BY DEF TypeOK, Asks, CapIds
    <2>7. /\ exports[c][asks[c][q].id].used = 1
          /\ exports[c][asks[c][q].id].server = asks[c][q].server
      BY <2>6 DEF Exact, Owed
    <2>8. asks[c][q].id \in Used(exports[c])
      BY <2>6, <2>7 DEF Used, TypeOK
    <2>9. asks[c][q].id \in resolve_promised_answer(c, q)
      BY <2>1, <2>5, <2>8 DEF resolve_promised_answer
    <2>10. resolve_target(c, [kind |-> "promisedAnswer", qid |-> q])
             = resolve_promised_answer(c, q)
      BY DEF resolve_target
    <2> QED
      BY <2>7, <2>9, <2>10
  <1> HIDE DEF Held
  <1> QED
    BY <1>1, <1>2, <1>3, ScriptAlways, PTL DEF ScriptSpec
=============================================================================
