------------------------------ MODULE LoopFacts -----------------------------
(***************************************************************************)
(* Loops.  What is computed one step at a time exists, and what holds at   *)
(* first and is kept by a step holds all the way.                          *)
(***************************************************************************)
EXTENDS Integers, WellFoundedInduction, TLAPS

\* Induction up to n, over a set in place of a predicate.
LEMMA StepByStep ==
  ASSUME NEW n \in Nat, NEW T, 0 \in T,
         \A i \in 1..n : i - 1 \in T => i \in T
  PROVE  0..n \subseteq T
  <1> DEFINE Below == OpToRel(<, Nat)
  <1> DEFINE U == (0..n) \ T
  <1>1. IsWellFoundedOn(Below, Nat)
    BY NatLessThanWellFounded
  <1>2. ASSUME NEW i \in Nat, NEW j \in Nat PROVE <<j, i>> \in Below <=> j < i
    BY DEF OpToRel
  <1> HIDE DEF Below
  <1>3. SUFFICES ASSUME U # {} PROVE FALSE
    OBVIOUS
  <1>4. U \subseteq Nat
    OBVIOUS
  <1>5. PICK i \in U : \A j \in U : ~(<<j, i>> \in Below)
    BY <1>1, <1>3, <1>4, WFMin
  <1>6. i \in 1..n /\ i - 1 \in Nat /\ i \in Nat
    BY <1>5
  <1>7. i - 1 \in T
    <2>1. CASE i - 1 \in U
      <3>1. ~(<<i - 1, i>> \in Below)
        BY <2>1, <1>5
      <3>2. <<i - 1, i>> \in Below
        <4>1. i - 1 < i
          BY <1>6
        <4> QED
          BY <4>1, <1>2, <1>6
      <3> QED
        BY <3>1, <3>2
    <2>2. CASE i - 1 \notin U
      BY <2>2, <1>6
    <2> QED
      BY <2>1, <2>2
  <1> QED
    BY <1>5, <1>6, <1>7

\* A loop of n turns from `first`, turn i taking v to step[<<i, v>>].
Loop(f, n, first, step) ==
  f[0] = first /\ \A i \in 1..n : f[i] = step[<<i, f[i - 1]>>]
LEMMA LoopExists ==
  ASSUME NEW n \in Nat, NEW V, NEW first \in V, NEW step \in [(1..n) \X V -> V]
  PROVE  \E f \in [0..n -> V] : Loop(f, n, first, step)
  <1> DEFINE Is(f, k) == Loop(f, k, first, step)
  <1> DEFINE T == {k \in 0..n : \E f \in [0..n -> V] : Is(f, k)}
  <1>1. 0 \in T
    <2>1. Is([i \in 0..n |-> first], 0)
      BY DEF Loop
    <2>2. [i \in 0..n |-> first] \in [0..n -> V]
      OBVIOUS
    <2> HIDE DEF Is
    <2> QED
      BY <2>1, <2>2
  <1>2. ASSUME NEW k \in 1..n, k - 1 \in T PROVE k \in T
    <2>1. PICK f \in [0..n -> V] : Is(f, k - 1)
      BY <1>2
    <2> DEFINE g == [f EXCEPT ![k] = step[<<k, f[k - 1]>>]]
    <2>2. f[k - 1] \in V
      OBVIOUS
    <2>3. g \in [0..n -> V]
      BY <2>2
    <2>4. g[0] = first
      BY <2>1 DEF Loop
    <2>5. ASSUME NEW i \in 1..k PROVE g[i] = step[<<i, g[i - 1]>>]
      <3>1. g[i - 1] = f[i - 1]
        OBVIOUS
      <3>2. CASE i = k
        <4>1. g[k] = step[<<k, f[k - 1]>>]
          OBVIOUS
        <4> HIDE DEF g
        <4> QED
          BY <4>1, <3>1, <3>2
      <3>3. CASE i # k
        <4>1. i \in 1..(k - 1) /\ g[i] = f[i]
          BY <3>3
        <4> QED
          BY <4>1, <3>1, <2>1 DEF Loop
      <3> QED
        BY <3>2, <3>3
    <2>6. Is(g, k)
      <3> HIDE DEF g
      <3> QED
        BY <2>4, <2>5 DEF Loop
    <2> HIDE DEF g, Is
    <2> QED
      BY <2>3, <2>6
  <1>3. n \in T
    <2> HIDE DEF T
    <2> QED
      BY <1>1, <1>2, StepByStep
  <1>4. PICK f \in [0..n -> V] : Is(f, n)
    BY <1>3
  <1> QED
    BY <1>4

-----------------------------------------------------------------------------
\* The powers of two.
Twofold(f) == f = [i \in Nat |-> IF i = 0 THEN 1 ELSE 2 * f[i - 1]]

Doubling(f, m) == f[0] = 1 /\ \A i \in 1..m : f[i] = 2 * f[i - 1]

LEMMA DoublingExists ==
  ASSUME NEW m \in Nat
  PROVE  \E f \in [0..m -> Nat \ {0}] : Doubling(f, m)
  <1> DEFINE V == Nat \ {0}
             step == [a \in (1..m) \X V |-> 2 * a[2]]
  <1>1. step \in [(1..m) \X V -> V] /\ \A i \in 1..m, x \in V : step[<<i, x>>] = 2 * x
    OBVIOUS
  <1>2. 1 \in V
    OBVIOUS
  <1> HIDE DEF step, V
  <1>3. PICK f \in [0..m -> V] : Loop(f, m, 1, step)
    BY <1>1, <1>2, LoopExists
  <1>4. \A i \in 1..m : f[i - 1] \in V
    BY DEF V
  <1> QED
    BY <1>1, <1>3, <1>4 DEF Loop, Doubling, V

LEMMA DoublingAgrees ==
  ASSUME NEW m \in Nat, NEW f \in [0..m -> Nat], Doubling(f, m), NEW l \in 0..m,
         NEW e \in [0..l -> Nat], Doubling(e, l)
  PROVE  \A i \in 0..l : f[i] = e[i]
  <1> DEFINE T == {i \in 0..l : f[i] = e[i]}
  <1>1. 0 \in T
    BY DEF Doubling
  <1>2. ASSUME NEW i \in 1..l, i - 1 \in T PROVE i \in T
    BY <1>2 DEF Doubling
  <1>3. 0..l \subseteq T
    <2>1. l \in Nat
      OBVIOUS
    <2> HIDE DEF T
    <2> QED
      BY <2>1, <1>1, <1>2, StepByStep
  <1> QED
    BY <1>3

LEMMA TwofoldExists == \E f : Twofold(f)
  <1> DEFINE upTo(m) == CHOOSE f \in [0..m -> Nat \ {0}] : Doubling(f, m)
             F == [m \in Nat |-> upTo(m)[m]]
             Turn(h, i) == IF i = 0 THEN 1 ELSE 2 * h[i - 1]
  <1>1. ASSUME NEW m \in Nat
        PROVE  upTo(m) \in [0..m -> Nat \ {0}] /\ upTo(m) \in [0..m -> Nat] /\ Doubling(upTo(m), m)
    <2>1. upTo(m) \in [0..m -> Nat \ {0}] /\ Doubling(upTo(m), m)
      BY DoublingExists
    <2> HIDE DEF upTo
    <2> QED
      BY <2>1
  <1> HIDE DEF upTo
  <1>3. ASSUME NEW i \in Nat PROVE F[i] = Turn(F, i)
    <2>1. CASE i = 0
      BY <2>1, <1>1 DEF Doubling
    <2>2. CASE i # 0
      <3>1. i - 1 \in Nat /\ i - 1 \in 0..i /\ i \in 1..i /\ i - 1 \in 0..(i - 1)
        BY <2>2
      <3>2. upTo(i)[i - 1] = upTo(i - 1)[i - 1]
        <4>1. /\ upTo(i) \in [0..i -> Nat] /\ Doubling(upTo(i), i)
              /\ upTo(i - 1) \in [0..(i - 1) -> Nat] /\ Doubling(upTo(i - 1), i - 1)
          BY <3>1, <1>1
        <4> QED
          BY <4>1, <3>1, DoublingAgrees
      <3>3. upTo(i)[i] = 2 * upTo(i)[i - 1]
        BY <3>1, <1>1 DEF Doubling
      <3> QED
        BY <3>1, <3>2, <3>3, <2>2
    <2> QED
      BY <2>1, <2>2
  <1>4. F = [i \in Nat |-> Turn(F, i)]
    <2>1. F = [i \in Nat |-> F[i]]
      OBVIOUS
    <2> HIDE DEF F, Turn
    <2> QED
      BY <2>1, <1>3
  <1> HIDE DEF F
  <1> QED
    BY <1>4 DEF Twofold

LEMMA TwofoldType ==
  ASSUME NEW f, Twofold(f)
  PROVE  /\ f \in [Nat -> Nat \ {0}] /\ f[0] = 1
         /\ \A i \in Nat \ {0} : f[i] = 2 * f[i - 1]
  <1>1. f[0] = 1 /\ \A i \in Nat \ {0} : f[i] = 2 * f[i - 1]
    BY DEF Twofold
  <1>2. ASSUME NEW m \in Nat PROVE f[m] \in Nat \ {0}
    <2> DEFINE T == {i \in 0..m : f[i] \in Nat \ {0}}
    <2>1. 0 \in T
      BY <1>1
    <2>2. ASSUME NEW i \in 1..m, i - 1 \in T PROVE i \in T
      BY <1>1, <2>2
    <2>3. 0..m \subseteq T
      <3> HIDE DEF T
      <3> QED
        BY <2>1, <2>2, StepByStep
    <2> QED
      BY <2>3
  <1>3. f = [i \in Nat |-> f[i]]
    BY DEF Twofold
  <1> QED
    BY <1>1, <1>2, <1>3
=============================================================================
