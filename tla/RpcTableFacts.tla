---------------------------- MODULE RpcTableFacts ---------------------------
(***************************************************************************)
(* What the proofs about both sides of a connection need to know of the    *)
(* tables of module RpcTables.                                             *)
(***************************************************************************)
EXTENDS RpcTables, WellFoundedInduction, TLAPS

\* A scan returns a slot it looked for.
LEMMA FirstIn == ASSUME NEW S PROVE First(S) \subseteq S
  BY DEF First

\* A scan that can match does.
LEMMA FirstExists ==
  ASSUME NEW S, S \subseteq Nat, S # {}
  PROVE  \E i \in S : First(S) = {i}
  <1> DEFINE Below == OpToRel(<, Nat)
  <1>1. IsWellFoundedOn(Below, Nat)
    BY NatLessThanWellFounded
  <1>2. ASSUME NEW i \in Nat, NEW j \in Nat PROVE <<j, i>> \in Below <=> j < i
    BY DEF OpToRel
  <1> HIDE DEF Below
  <1>3. PICK i \in S : \A j \in S : ~(<<j, i>> \in Below)
    BY <1>1, WFMin
  <1>4. ASSUME NEW j \in S PROVE i <= j
    <2>1. i \in Nat /\ j \in Nat /\ ~(j < i)
      BY <1>2, <1>3
    <2> QED
      BY <2>1
  <1>5. \A j \in S : (\A k \in S : j <= k) <=> j = i
    BY <1>4
  <1> QED
    BY <1>4, <1>5 DEF First

\* Writing a slot of the table's type keeps the table's type.
LEMMA PutType ==
  ASSUME NEW D, NEW V, NEW table \in [D -> V], NEW where, NEW slot \in V
  PROVE  Put(table, where, slot) \in [D -> V]
  BY DEF Put
=============================================================================
