--------------------------- MODULE PackingProofs ---------------------------
(***************************************************************************)
(* Proofs about Packing: what is read is what was written, a stream        *)
(* written without error is read without one, and where the buffers end    *)
(* does not show in the stream.                                            *)
(***************************************************************************)
EXTENDS Packing, LoopFacts, FiniteSetTheorems, SequenceTheorems

-----------------------------------------------------------------------------
\* Sequences of bytes.

LEMMA Parts ==
  ASSUME NEW s \in Seq(Nat), NEW a \in Nat, NEW b \in Nat, a <= b, b <= Len(s)
  PROVE  /\ SubSeq(s, a + 1, b) \in Seq(Nat)
         /\ Len(SubSeq(s, a + 1, b)) = b - a
         /\ \A i \in 1..(b - a) : SubSeq(s, a + 1, b)[i] = s[a + i]
  <1>1. \A i \in (a + 1)..b : s[i] \in Nat
    OBVIOUS
  <1>2. /\ SubSeq(s, a + 1, b) \in Seq(Nat)
        /\ Len(SubSeq(s, a + 1, b)) = IF a + 1 <= b THEN b - (a + 1) + 1 ELSE 0
        /\ \A i \in 1..(b - (a + 1) + 1) : SubSeq(s, a + 1, b)[i] = s[(a + 1) + i - 1]
    <2>1. a + 1 \in Int /\ b \in Int
      OBVIOUS
    <2> QED
      BY <1>1, <2>1, SubSeqProperties
  <1> QED
    BY <1>2

LEMMA TakeFacts ==
  ASSUME NEW s \in Seq(Nat), NEW n \in Nat, n <= Len(s)
  PROVE  /\ Take(s, n) \in Seq(Nat) /\ Len(Take(s, n)) = n
         /\ \A i \in 1..n : Take(s, n)[i] = s[i]
  <1>1. /\ SubSeq(s, 0 + 1, n) \in Seq(Nat) /\ Len(SubSeq(s, 0 + 1, n)) = n - 0
        /\ \A i \in 1..(n - 0) : SubSeq(s, 0 + 1, n)[i] = s[0 + i]
    BY Parts
  <1>2. Take(s, n) = SubSeq(s, 0 + 1, n)
    BY DEF Take
  <1> QED
    BY <1>1, <1>2

LEMMA DropFacts ==
  ASSUME NEW s \in Seq(Nat), NEW n \in Nat, n <= Len(s)
  PROVE  /\ Drop(s, n) \in Seq(Nat) /\ Len(Drop(s, n)) = Len(s) - n
         /\ \A i \in 1..(Len(s) - n) : Drop(s, n)[i] = s[n + i]
  BY Parts DEF Drop

LEMMA Same ==
  ASSUME NEW s \in Seq(Nat), NEW t \in Seq(Nat), Len(s) = Len(t),
         \A i \in 1..Len(s) : s[i] = t[i]
  PROVE  s = t
  BY SeqEqual

LEMMA Both ==
  ASSUME NEW s \in Seq(Nat), NEW t \in Seq(Nat)
  PROVE  /\ s \o t \in Seq(Nat) /\ Len(s \o t) = Len(s) + Len(t)
         /\ \A i \in 1..Len(s) : (s \o t)[i] = s[i]
         /\ \A i \in 1..Len(t) : (s \o t)[Len(s) + i] = t[i]
  <1>1. /\ s \o t \in Seq(Nat) /\ Len(s \o t) = Len(s) + Len(t)
        /\ \A i \in 1..Len(s) + Len(t) :
             (s \o t)[i] = IF i <= Len(s) THEN s[i] ELSE t[i - Len(s)]
    BY ConcatProperties
  <1>2. Len(s) \in Nat /\ Len(t) \in Nat
    OBVIOUS
  <1>3. ASSUME NEW i \in 1..Len(s) PROVE (s \o t)[i] = s[i]
    BY <1>1, <1>2
  <1>4. ASSUME NEW i \in 1..Len(t) PROVE (s \o t)[Len(s) + i] = t[i]
    <2>1. Len(s) + i \in 1..Len(s) + Len(t) /\ ~(Len(s) + i <= Len(s))
          /\ (Len(s) + i) - Len(s) = i
      BY <1>2
    <2> QED
      BY <1>1, <2>1
  <1> QED
    BY <1>1, <1>3, <1>4

LEMMA DropDrop ==
  ASSUME NEW s \in Seq(Nat), NEW n \in Nat, NEW m \in Nat, n + m <= Len(s)
  PROVE  Drop(Drop(s, n), m) = Drop(s, n + m)
  <1>1. n <= Len(s) /\ m <= Len(s) - n /\ n + m \in Nat
    OBVIOUS
  <1>2. PICK t \in Seq(Nat) : Drop(s, n) = t /\ Len(t) = Len(s) - n
                              /\ \A i \in 1..(Len(s) - n) : t[i] = s[n + i]
    BY <1>1, DropFacts
  <1>3. PICK u \in Seq(Nat) : Drop(t, m) = u /\ Len(u) = Len(t) - m
                              /\ \A i \in 1..(Len(t) - m) : u[i] = t[m + i]
    BY <1>1, <1>2, DropFacts
  <1>4. PICK v \in Seq(Nat) : Drop(s, n + m) = v /\ Len(v) = Len(s) - (n + m)
                              /\ \A i \in 1..(Len(s) - (n + m)) : v[i] = s[(n + m) + i]
    BY <1>1, DropFacts
  <1>5. Len(u) = Len(v)
    BY <1>1, <1>2, <1>3, <1>4
  <1>7. ASSUME NEW i \in 1..Len(u) PROVE u[i] = v[i]
    <2>1. i \in 1..(Len(t) - m) /\ m + i \in 1..(Len(s) - n) /\ n + (m + i) = (n + m) + i
          /\ i \in 1..(Len(s) - (n + m))
      BY <1>1, <1>2, <1>3
    <2>2. u[i] = t[m + i] /\ t[m + i] = s[n + (m + i)] /\ v[i] = s[(n + m) + i]
      BY <2>1, <1>2, <1>3, <1>4
    <2> QED
      BY <2>1, <2>2
  <1>6. u = v
    BY <1>5, <1>7, Same
  <1> QED
    BY <1>2, <1>3, <1>4, <1>6

LEMMA TakeDrop ==
  ASSUME NEW s \in Seq(Nat), NEW n \in Nat, NEW m \in Nat, n <= m, m <= Len(s)
  PROVE  Take(s, m) = Take(s, n) \o Take(Drop(s, n), m - n)
  <1>1. n <= Len(s) /\ m - n \in Nat /\ m - n <= Len(s) - n
    OBVIOUS
  <1>2. PICK t \in Seq(Nat) : Drop(s, n) = t /\ Len(t) = Len(s) - n
                              /\ \A i \in 1..(Len(s) - n) : t[i] = s[n + i]
    BY <1>1, DropFacts
  <1>3. PICK u \in Seq(Nat) : Take(t, m - n) = u /\ Len(u) = m - n
                              /\ \A i \in 1..(m - n) : u[i] = t[i]
    BY <1>1, <1>2, TakeFacts
  <1>4. PICK v \in Seq(Nat) : Take(s, n) = v /\ Len(v) = n /\ \A i \in 1..n : v[i] = s[i]
    BY <1>1, TakeFacts
  <1>5. PICK w \in Seq(Nat) : Take(s, m) = w /\ Len(w) = m /\ \A i \in 1..m : w[i] = s[i]
    BY <1>1, TakeFacts
  <1>6. PICK x \in Seq(Nat) : v \o u = x /\ Len(x) = Len(v) + Len(u)
                              /\ (\A i \in 1..Len(v) : x[i] = v[i])
                              /\ \A i \in 1..Len(u) : x[Len(v) + i] = u[i]
    <2>1. /\ v \o u \in Seq(Nat) /\ Len(v \o u) = Len(v) + Len(u)
          /\ \A i \in 1..Len(v) : (v \o u)[i] = v[i]
          /\ \A i \in 1..Len(u) : (v \o u)[Len(v) + i] = u[i]
      BY Both
    <2> QED
      BY <2>1, Zenon
  <1>7. Len(w) = Len(x)
    BY <1>1, <1>3, <1>4, <1>5, <1>6
  <1>9. ASSUME NEW i \in 1..m PROVE w[i] = x[i]
    <2>1. CASE i <= n
      <3>1. i \in 1..n /\ i \in 1..Len(v)
        BY <2>1, <1>4
      <3>2. w[i] = s[i] /\ v[i] = s[i] /\ x[i] = v[i]
        BY <3>1, <1>4, <1>5, <1>6
      <3> QED
        BY <3>2
    <2>2. CASE i > n
      <3>1. i - n \in 1..(m - n) /\ n + (i - n) = i /\ i - n \in 1..(Len(s) - n)
        BY <2>2
      <3>2. x[n + (i - n)] = u[i - n] /\ u[i - n] = t[i - n] /\ t[i - n] = s[n + (i - n)]
        BY <3>1, <1>2, <1>3, <1>4, <1>6
      <3> QED
        BY <3>1, <3>2, <1>5
    <2> QED
      BY <2>1, <2>2
  <1>8. w = x
    BY <1>5, <1>7, <1>9, Same
  <1> QED
    BY <1>2, <1>3, <1>4, <1>5, <1>6, <1>8

LEMMA TakeNone == ASSUME NEW s PROVE Take(s, 0) = <<>>
  BY SubSeqEmpty DEF Take

LEMMA TakePrefix ==
  ASSUME NEW s \in Seq(Nat), NEW t \in Seq(Nat), NEW u \in Seq(Nat)
  PROVE  s = Take((s \o t) \o u, Len(s))
  <1>1. PICK n \in Nat : n = Len(s)
    OBVIOUS
  <1>2. PICK x \in Seq(Nat) : s \o t = x /\ Len(x) = n + Len(t) /\ \A i \in 1..n : x[i] = s[i]
    BY <1>1, Both, ZenonT(60)
  <1>3. PICK y \in Seq(Nat) : x \o u = y /\ Len(y) = Len(x) + Len(u)
                              /\ \A i \in 1..Len(x) : y[i] = x[i]
    BY <1>2, Both, ZenonT(60)
  <1>4. n <= Len(y) /\ \A i \in 1..n : y[i] = s[i]
    BY <1>1, <1>2, <1>3
  <1>5. PICK z \in Seq(Nat) : Take(y, n) = z /\ Len(z) = n /\ \A i \in 1..n : z[i] = y[i]
    BY <1>4, TakeFacts
  <1>6. z = s
    BY <1>1, <1>4, <1>5, Same
  <1> QED
    BY <1>1, <1>2, <1>3, <1>5, <1>6

-----------------------------------------------------------------------------
\* The message's segments joined.

Joins(g, f, n) == g[0] = <<>> /\ \A k \in 1..n : g[k] = g[k - 1] \o f[k]

LEMMA JoinsExists ==
  ASSUME NEW n \in Nat, NEW f \in [1..n -> Seq(Nat)]
  PROVE  \E g \in [0..n -> Seq(Nat)] : Joins(g, f, n) /\ \A k \in 0..n : Joined(f, k) = g[k]
  <1> DEFINE V == Seq(Nat)
             step == [a \in (1..n) \X V |-> a[2] \o f[a[1]]]
  <1>1. step \in [(1..n) \X V -> V] /\ \A i \in 1..n, x \in V : step[<<i, x>>] = x \o f[i]
    BY ConcatProperties
  <1>2. <<>> \in V
    OBVIOUS
  <1> HIDE DEF step, V
  <1>3. PICK g \in [0..n -> V] : Loop(g, n, <<>>, step)
    BY <1>1, <1>2, LoopExists
  <1>4. Joins(g, f, n)
    <2>1. g[0] = <<>> /\ \A i \in 1..n : g[i] = step[<<i, g[i - 1]>>]
      BY <1>3 DEF Loop
    <2>2. \A i \in 1..n : g[i - 1] \in V
      OBVIOUS
    <2>3. \A i \in 1..n : g[i] = g[i - 1] \o f[i]
      BY <1>1, <2>1, <2>2
    <2> QED
      BY <2>1, <2>3 DEF Joins
  <1>5. ASSUME NEW k \in 0..n PROVE Joined(f, k) = g[k]
    <2> DEFINE up == CHOOSE h : h = [i \in 0..k |-> IF i = 0 THEN <<>> ELSE h[i - 1] \o f[i]]
               e == [i \in 0..k |-> g[i]]
    <2>1. Joined(f, k) = up[k]
      BY DEF Joined
    <2>0. \A i \in 1..k : i \in 1..n
      OBVIOUS
    <2>8. g[0] = <<>> /\ \A i \in 1..k : g[i] = g[i - 1] \o f[i]
      BY <1>4, <2>0 DEF Joins
    <2>9. ASSUME NEW i \in 0..k PROVE e[i] = IF i = 0 THEN <<>> ELSE e[i - 1] \o f[i]
      <3>1. CASE i = 0
        BY <3>1, <2>8
      <3>2. CASE i # 0
        <4>1. i \in 1..k /\ i - 1 \in 0..k
          BY <3>2
        <4>2. e[i] = g[i] /\ e[i - 1] = g[i - 1]
          BY <4>1
        <4> HIDE DEF e
        <4> QED
          BY <4>1, <4>2, <2>8, <3>2
      <3> QED
        BY <3>1, <3>2
    <2>2. e = [i \in 0..k |-> IF i = 0 THEN <<>> ELSE e[i - 1] \o f[i]]
      <3>1. e = [i \in 0..k |-> e[i]]
        OBVIOUS
      <3> HIDE DEF e
      <3> QED
        BY <3>1, <2>9
    <2>3. up = [i \in 0..k |-> IF i = 0 THEN <<>> ELSE up[i - 1] \o f[i]]
      <3> HIDE DEF e
      <3> QED
        BY <2>2
    <2> HIDE DEF up, e
    <2> DEFINE T == {i \in 0..k : up[i] = g[i]}
    <2>4. 0 \in T
      BY <2>3, <1>4 DEF Joins
    <2>5. ASSUME NEW i \in 1..k, i - 1 \in T PROVE i \in T
      <3>1. i \in 0..k /\ i # 0 /\ up[i - 1] = g[i - 1]
        BY <2>5
      <3>2. up[i] = up[i - 1] \o f[i]
        BY <2>3, <3>1
      <3> QED
        BY <2>8, <3>1, <3>2
    <2>6. k \in 0..k /\ k \in Nat
      OBVIOUS
    <2>7. 0..k \subseteq T
      <3> HIDE DEF T
      <3> QED
        BY <2>4, <2>5, <2>6, StepByStep
    <2> QED
      BY <2>1, <2>6, <2>7
  <1> QED
    BY <1>3, <1>4, <1>5 DEF V

LEMMA JoinedNext ==
  ASSUME NEW n \in Nat, NEW f \in [1..n -> Seq(Nat)]
  PROVE  /\ Joined(f, 0) = <<>>
         /\ \A k \in 0..n : Joined(f, k) \in Seq(Nat)
         /\ \A k \in 1..n : Joined(f, k) = Joined(f, k - 1) \o f[k]
  <1>1. PICK g \in [0..n -> Seq(Nat)] : Joins(g, f, n) /\ \A k \in 0..n : Joined(f, k) = g[k]
    BY JoinsExists
  <1>2. 0 \in 0..n /\ \A k \in 1..n : k \in 0..n /\ k - 1 \in 0..n
    OBVIOUS
  <1> QED
    BY <1>1, <1>2 DEF Joins

LEMMA JoinedPrefix ==
  ASSUME NEW n \in Nat, NEW f \in [1..n -> Seq(Nat)], NEW k \in 0..n
  PROVE  /\ Len(Joined(f, k)) <= Len(Joined(f, n))
         /\ \A i \in 1..Len(Joined(f, k)) : Joined(f, n)[i] = Joined(f, k)[i]
  <1> DEFINE Starts(m) == /\ Len(Joined(f, k)) <= Len(Joined(f, k + m))
                          /\ \A i \in 1..Len(Joined(f, k)) : Joined(f, k + m)[i] = Joined(f, k)[i]
             T == {m \in 0..(n - k) : Starts(m)}
  <1>0. Joined(f, k) \in Seq(Nat)
    BY JoinedNext
  <1>1. Len(Joined(f, k)) \in Nat /\ n - k \in Nat /\ k + 0 = k /\ k + (n - k) = n
    BY <1>0
  <1>2. 0 \in T
    BY <1>1
  <1>3. ASSUME NEW m \in 1..(n - k), m - 1 \in T PROVE m \in T
    <2>1. k + m \in 1..n /\ (k + m) - 1 = k + (m - 1) /\ k + (m - 1) \in 0..n
      OBVIOUS
    <2>2. Joined(f, k + m) = Joined(f, k + (m - 1)) \o f[k + m]
      BY <2>1, JoinedNext
    <2>3. PICK s \in Seq(Nat) : Joined(f, k + (m - 1)) = s
      BY <2>1, JoinedNext
    <2>4. PICK t \in Seq(Nat) : f[k + m] = t
      BY <2>1
    <2>5. PICK c \in Seq(Nat) : s \o t = c /\ Len(c) = Len(s) + Len(t)
                                /\ \A i \in 1..Len(s) : c[i] = s[i]
      BY Both
    <2>6. Starts(m - 1)
      BY <1>3
    <2>7. Joined(f, k + m) = c
      BY <2>2, <2>3, <2>4, <2>5
    <2>8. PICK d \in Seq(Nat) : Joined(f, k) = d
      BY <1>0
    <2>9. Len(d) <= Len(s) /\ \A i \in 1..Len(d) : s[i] = d[i]
      BY <2>3, <2>6, <2>8
    <2>10. Len(d) <= Len(c) /\ \A i \in 1..Len(d) : c[i] = d[i]
      <3>1. Len(d) \in Nat /\ Len(s) \in Nat /\ Len(t) \in Nat
        OBVIOUS
      <3> QED
        BY <2>5, <2>9, <3>1
    <2>11. Starts(m)
      BY <2>7, <2>8, <2>10
    <2> QED
      BY <2>11
  <1>4. 0..(n - k) \subseteq T
    <2> HIDE DEF T
    <2> QED
      BY <1>1, <1>2, <1>3, StepByStep
  <1>5. n - k \in T
    <2> HIDE DEF T
    <2> QED
      BY <1>1, <1>4
  <1>6. Starts(n - k)
    BY <1>5
  <1> QED
    BY <1>1, <1>6

-----------------------------------------------------------------------------
\* Tags.

Words == {w \in Seq(Nat) : Len(w) = Word}

LEMMA WordSize == Word \in Nat /\ Word >= 2 /\ MaxCount \in Nat
  BY PackingAssumption

LEMMA Powers ==
  /\ power \in [Nat -> Nat \ {0}] /\ power[0] = 1
  /\ \A i \in Nat \ {0} : power[i] = 2 * power[i - 1]
  <1>1. PICK twos : Twofold(twos)
    BY TwofoldExists
  <1>2. power = CHOOSE f : f = [i \in Nat |-> IF i = 0 THEN 1 ELSE 2 * f[i - 1]]
    BY DEF power
  <1>3. Twofold(power)
    BY <1>1, <1>2 DEF Twofold
  <1> QED
    BY <1>3, TwofoldType

\* The loop of Tag.
Bit(w, i) == IF w[i] # 0 THEN 1 ELSE 0
Summed(b, w) == b[0] = 0 /\ \A i \in 1..Word : b[i] = b[i - 1] + Bit(w, i) * power[i - 1]

LEMMA TagLoop ==
  ASSUME NEW w \in Words
  PROVE  \E b \in [0..Word -> Nat] : Summed(b, w) /\ b[Word] = Tag(w)
  <1> DEFINE step == [a \in (1..Word) \X Nat |-> a[2] + Bit(w, a[1]) * power[a[1] - 1]]
             bits == CHOOSE g : g = [i \in 0..Word |->
                       IF i = 0 THEN 0 ELSE g[i - 1] + (IF w[i] # 0 THEN power[i - 1] ELSE 0)]
  <1>0. \A i \in 1..Word : Bit(w, i) \in {0, 1} /\ power[i - 1] \in Nat /\ i - 1 \in Nat
    BY Powers, WordSize DEF Bit
  <1>1. step \in [(1..Word) \X Nat -> Nat]
        /\ \A i \in 1..Word, x \in Nat : step[<<i, x>>] = x + Bit(w, i) * power[i - 1]
    <2>1. \A i \in 1..Word, x \in Nat : x + Bit(w, i) * power[i - 1] \in Nat
      BY <1>0
    <2> QED
      BY <2>1
  <1> HIDE DEF step
  <1>2. PICK b \in [0..Word -> Nat] : Loop(b, Word, 0, step)
    BY <1>1, LoopExists, WordSize
  <1>3. Summed(b, w)
    <2>1. \A i \in 1..Word : b[i - 1] \in Nat
      BY WordSize
    <2> QED
      BY <1>1, <1>2, <2>1 DEF Loop, Summed
  <1>4. \A i \in 1..Word : b[i] = b[i - 1] + (IF w[i] # 0 THEN power[i - 1] ELSE 0)
    <2>1. \A i \in 1..Word : b[i - 1] \in Nat
      BY WordSize
    <2> QED
      BY <1>0, <1>3, <2>1 DEF Summed, Bit
  <1>5. b = [i \in 0..Word |-> IF i = 0 THEN 0 ELSE b[i - 1] + (IF w[i] # 0 THEN power[i - 1] ELSE 0)]
    <2>1. \A i \in 0..Word : i = 0 \/ i \in 1..Word
      BY WordSize
    <2>2. b[0] = 0
      BY <1>3 DEF Summed
    <2>3. b = [i \in 0..Word |-> b[i]]
      OBVIOUS
    <2> QED
      BY <1>4, <2>1, <2>2, <2>3
  <1>6. bits = [i \in 0..Word |-> IF i = 0 THEN 0 ELSE bits[i - 1] + (IF w[i] # 0 THEN power[i - 1] ELSE 0)]
    BY <1>5
  <1>7. Tag(w) = bits[Word]
    BY DEF Tag
  <1> HIDE DEF bits
  <1> DEFINE T == {i \in 0..Word : bits[i] = b[i]}
  <1>8. 0 \in T
    BY <1>3, <1>6, WordSize DEF Summed
  <1>9. ASSUME NEW i \in 1..Word, i - 1 \in T PROVE i \in T
    <2>1. i \in 0..Word /\ i # 0 /\ bits[i - 1] = b[i - 1]
      BY <1>9
    <2>2. bits[i] = bits[i - 1] + (IF w[i] # 0 THEN power[i - 1] ELSE 0)
      BY <1>6, <2>1
    <2> QED
      BY <1>4, <2>1, <2>2
  <1>10. 0..Word \subseteq T
    <2> HIDE DEF T
    <2> QED
      BY <1>8, <1>9, WordSize, StepByStep
  <1>11. Word \in T
    <2> HIDE DEF T
    <2> QED
      BY <1>10, WordSize
  <1> QED
    BY <1>3, <1>7, <1>11

\* What is summed after place i is a multiple of the next power.
LEMMA BitsAbove ==
  ASSUME NEW w \in Words, NEW b \in [0..Word -> Nat], Summed(b, w), NEW i \in 0..Word
  PROVE  \E c \in Nat : b[Word] = b[i] + power[i] * c
  <1> DEFINE Above(k) == \E c, d \in Nat : b[i + k] = b[i] + power[i] * c /\ power[i + k] = power[i] * d
             T == {k \in 0..(Word - i) : Above(k)}
  <1>0. Word - i \in Nat /\ i \in Nat /\ power[i] \in Nat /\ b[i] \in Nat
    <2>1. Word - i \in Nat /\ i \in Nat
      BY WordSize
    <2>2. power[i] \in Nat
      BY <2>1, Powers
    <2> QED
      BY <2>1, <2>2
  <1>1. 0 \in T
    <2>1. i + 0 = i /\ b[i] = b[i] + power[i] * 0 /\ power[i] = power[i] * 1
      BY <1>0
    <2>2. Above(0)
      BY <2>1
    <2> QED
      BY <1>0, <2>2
  <1>2. ASSUME NEW k \in 1..(Word - i), k - 1 \in T PROVE k \in T
    <2>1. PICK c \in Nat, d \in Nat : /\ b[i + (k - 1)] = b[i] + power[i] * c
                                      /\ power[i + (k - 1)] = power[i] * d
      BY <1>2
    <2>2. i + k \in 1..Word /\ (i + k) - 1 = i + (k - 1) /\ i + k \in Nat \ {0}
      BY <1>0, WordSize
    <2>3. b[i + k] = b[i + (k - 1)] + Bit(w, i + k) * power[i + (k - 1)]
      BY <2>2 DEF Summed
    <2>4. power[i + k] = 2 * power[i + (k - 1)]
      BY <2>2, Powers
    <2>5. PICK x \in {0, 1} : Bit(w, i + k) = x
      BY DEF Bit
    <2>6. PICK p \in Nat : power[i] = p
      BY <1>0
    <2>7. b[i + k] = b[i] + p * c + x * (p * d)
      BY <2>1, <2>3, <2>5, <2>6
    <2>8. p * c + x * (p * d) = p * (c + x * d)
      <3>1. CASE x = 0
        BY <3>1
      <3>2. CASE x = 1
        BY <3>2
      <3> QED
        BY <3>1, <3>2
    <2>9. c + x * d \in Nat /\ 2 * d \in Nat
      OBVIOUS
    <2>10. 2 * (p * d) = p * (2 * d)
      OBVIOUS
    <2>11. b[i + k] = b[i] + power[i] * (c + x * d)
      <3>1. p * c \in Nat /\ x * (p * d) \in Nat
        <4>1. p * c \in Nat /\ p * d \in Nat
          OBVIOUS
        <4> QED
          BY <4>1
      <3> QED
        BY <2>6, <2>7, <2>8, <3>1, <1>0
    <2>12. power[i + k] = power[i] * (2 * d)
      BY <2>1, <2>4, <2>6, <2>10
    <2>13. Above(k)
      BY <2>9, <2>11, <2>12
    <2> QED
      BY <2>13
  <1>3. 0..(Word - i) \subseteq T
    <2> HIDE DEF T
    <2> QED
      BY <1>0, <1>1, <1>2, StepByStep
  <1>4. Above(Word - i)
    <2>1. Word - i \in T
      <3> HIDE DEF T
      <3> QED
        BY <1>0, <1>3
    <2> QED
      BY <2>1
  <1>5. i + (Word - i) = Word
    BY <1>0, WordSize
  <1> QED
    BY <1>4, <1>5

LEMMA BitsBelow ==
  ASSUME NEW w \in Words, NEW b \in [0..Word -> Nat], Summed(b, w)
  PROVE  \A i \in 0..Word : b[i] < power[i]
  <1> DEFINE T == {i \in 0..Word : b[i] < power[i]}
  <1>1. 0 \in T
    BY WordSize, Powers DEF Summed
  <1>2. ASSUME NEW i \in 1..Word, i - 1 \in T PROVE i \in T
    <2>0. i \in Nat \ {0} /\ i - 1 \in Nat
      BY WordSize
    <2>1. PICK p \in Nat : power[i - 1] = p /\ power[i] = 2 * p /\ b[i - 1] < p
      <3>1. power[i - 1] \in Nat /\ power[i] = 2 * power[i - 1]
        BY <2>0, Powers
      <3> QED
        BY <1>2, <3>1
    <2>2. PICK x \in {0, 1} : Bit(w, i) = x
      BY DEF Bit
    <2>3. b[i] = b[i - 1] + x * p /\ b[i - 1] \in Nat /\ i \in 0..Word
      BY <2>1, <2>2, WordSize DEF Summed
    <2>4. x * p <= p /\ x * p \in Nat
      BY <2>2
    <2> QED
      BY <2>1, <2>3, <2>4
  <1>3. 0..Word \subseteq T
    <2> HIDE DEF T
    <2> QED
      BY <1>1, <1>2, WordSize, StepByStep
  <1> QED
    BY <1>3

\* The bits of a word's tag are the bytes that are not zero.
LEMMA BitsOfTag ==
  ASSUME NEW w \in Words
  PROVE  Tag(w) \in Nat /\ TagBits(Tag(w)) = NonZero(w)
  <1>1. PICK b \in [0..Word -> Nat] : Summed(b, w) /\ b[Word] = Tag(w)
    BY TagLoop
  <1>2. Tag(w) \in Nat
    BY <1>1, WordSize
  <1>3. ASSUME NEW i \in 1..Word
        PROVE  (Tag(w) \div power[i - 1]) % 2 = 1 <=> w[i] # 0
    <2>1. i \in 0..Word /\ i - 1 \in 0..Word /\ i - 1 \in Nat /\ i \in Nat \ {0}
      BY WordSize
    <2>2. PICK c \in Nat : b[Word] = b[i] + power[i] * c
      BY <1>1, <2>1, BitsAbove
    <2>3. PICK p \in Nat \ {0} : power[i - 1] = p /\ power[i] = 2 * p
      BY <2>1, Powers
    <2>4. PICK x \in {0, 1} : Bit(w, i) = x
      BY DEF Bit
    <2>5. PICK r \in Nat : b[i - 1] = r /\ r < p
      BY <1>1, <2>1, <2>3, BitsBelow
    <2>6. b[i] = r + x * p
      BY <1>1, <2>3, <2>4, <2>5 DEF Summed
    <2>7. PICK m \in Nat : m = x + 2 * c
      OBVIOUS
    <2>8. r + x * p + 2 * p * c = r + p * m
      <3>1. CASE x = 0
        BY <3>1, <2>7
      <3>2. CASE x = 1
        BY <3>2, <2>7
      <3> QED
        BY <3>1, <3>2
    <2>9. Tag(w) = r + p * m
      BY <1>1, <2>2, <2>3, <2>6, <2>8
    <2>10. Tag(w) \div p = m
      <3>1. PICK t \in Nat : t = r + p * m
        BY <2>9, <1>2
      <3>2. t \div p = m
        BY <3>1, <2>5
      <3> QED
        BY <3>1, <3>2, <2>9
    <2>11. m % 2 = x
      BY <2>7
    <2>12. x = 1 <=> w[i] # 0
      BY <2>4 DEF Bit
    <2> QED
      BY <2>3, <2>10, <2>11, <2>12
  <1> QED
    BY <1>2, <1>3 DEF TagBits, NonZero

LEMMA TagOfZeros ==
  ASSUME NEW w \in Words
  PROVE  Tag(w) = 0 <=> AllZero(w)
  <1>1. PICK b \in [0..Word -> Nat] : Summed(b, w) /\ b[Word] = Tag(w)
    BY TagLoop
  <1>2. ASSUME AllZero(w) PROVE Tag(w) = 0
    <2> DEFINE T == {i \in 0..Word : b[i] = 0}
    <2>1. 0 \in T
      BY <1>1, WordSize DEF Summed
    <2>2. ASSUME NEW i \in 1..Word, i - 1 \in T PROVE i \in T
      <3>1. Bit(w, i) = 0
        BY <1>2 DEF AllZero, NonZero, Bit
      <3>2. i \in 0..Word /\ b[i - 1] = 0 /\ power[i - 1] \in Nat
        BY <2>2, Powers, WordSize
      <3>3. b[i] = b[i - 1] + Bit(w, i) * power[i - 1]
        BY <1>1 DEF Summed
      <3> QED
        BY <3>1, <3>2, <3>3
    <2>3. 0..Word \subseteq T
      <3> HIDE DEF T
      <3> QED
        BY <2>1, <2>2, WordSize, StepByStep
    <2> QED
      BY <1>1, <2>3, WordSize
  <1>3. ASSUME Tag(w) = 0 PROVE AllZero(w)
    <2>1. ASSUME NEW i \in TagBits(0) PROVE FALSE
      <3>1. i \in 1..Word /\ (0 \div power[i - 1]) % 2 = 1
        BY <2>1 DEF TagBits
      <3>2. i - 1 \in Nat
        BY <3>1, WordSize
      <3>3. PICK p \in Nat \ {0} : power[i - 1] = p
        BY <3>2, Powers
      <3>4. 0 \div p = 0
        OBVIOUS
      <3> QED
        BY <3>1, <3>3, <3>4
    <2>2. TagBits(0) = NonZero(w)
      BY <1>3, BitsOfTag
    <2> QED
      BY <2>1, <2>2 DEF AllZero
  <1> QED
    BY <1>2, <1>3

LEMMA TagOfFull ==
  ASSUME NEW w \in Words
  PROVE  Tag(w) = FullTag <=> ZeroBytes(w) = {}
  <1>1. ASSUME NEW u \in Words, ZeroBytes(u) = {} PROVE Tag(u) = FullTag
    <2>1. PICK b \in [0..Word -> Nat] : Summed(b, u) /\ b[Word] = Tag(u)
      BY TagLoop
    <2> DEFINE T == {i \in 0..Word : b[i] = power[i] - 1}
    <2>2. 0 \in T
      BY <2>1, WordSize, Powers DEF Summed
    <2>3. ASSUME NEW i \in 1..Word, i - 1 \in T PROVE i \in T
      <3>1. Bit(u, i) = 1
        BY <1>1 DEF ZeroBytes, Bit
      <3>0. i - 1 \in Nat /\ i \in Nat \ {0} /\ i \in 0..Word
        BY WordSize
      <3>2. b[i - 1] = power[i - 1] - 1 /\ power[i - 1] \in Nat /\ power[i] = 2 * power[i - 1]
        BY <2>3, <3>0, Powers
      <3>3. b[i] = b[i - 1] + Bit(u, i) * power[i - 1]
        BY <2>1 DEF Summed
      <3> QED
        BY <3>0, <3>1, <3>2, <3>3
    <2>4. 0..Word \subseteq T
      <3> HIDE DEF T
      <3> QED
        BY <2>2, <2>3, WordSize, StepByStep
    <2> QED
      BY <2>1, <2>4, WordSize DEF FullTag
  <1>2. ASSUME Tag(w) = FullTag PROVE ZeroBytes(w) = {}
    <2> DEFINE u == [i \in 1..Word |-> 1]
    <2>1. u \in Words /\ ZeroBytes(u) = {} /\ NonZero(u) = 1..Word
      <3>1. \A i \in 1..Word : u[i] = 1
        OBVIOUS
      <3>2. u \in Seq(Nat) /\ Len(u) = Word
        BY WordSize
      <3> HIDE DEF u
      <3> QED
        BY <3>1, <3>2 DEF Words, ZeroBytes, NonZero
    <2> HIDE DEF u
    <2>2. Tag(u) = FullTag
      BY <2>1, <1>1
    <2>3. NonZero(w) = 1..Word
      BY <1>2, <2>1, <2>2, BitsOfTag
    <2> QED
      BY <2>3 DEF NonZero, ZeroBytes
  <1> QED
    BY <1>1, <1>2

-----------------------------------------------------------------------------
\* Which one of a set a place is.

LEMMA OrdinalFacts ==
  ASSUME NEW S \in SUBSET (1..Word)
  PROVE  /\ IsFiniteSet(S) /\ Cardinality(S) \in Nat /\ Cardinality(S) <= Word
         /\ Ordinal(S, Word) = Cardinality(S)
         /\ \A i \in S : Ordinal(S, i) \in 1..Cardinality(S)
         /\ \A i \in S, j \in S : Ordinal(S, i) = Ordinal(S, j) => i = j
  <1> DEFINE upTo(i) == {j \in S : j <= i}
  <1>1. IsFiniteSet(S) /\ Cardinality(S) \in Nat /\ Cardinality(S) <= Word
    <2>1. IsFiniteSet(1..Word) /\ Cardinality(1..Word) = Word
      BY WordSize, FS_Interval
    <2>2. IsFiniteSet(S) /\ Cardinality(S) <= Cardinality(1..Word)
      BY <2>1, FS_Subset
    <2> QED
      BY <2>1, <2>2, FS_CardinalityType
  <1>2. ASSUME NEW i PROVE /\ upTo(i) \in SUBSET S /\ IsFiniteSet(upTo(i))
                           /\ Cardinality(upTo(i)) \in Nat
                           /\ Cardinality(upTo(i)) <= Cardinality(S)
    <2>1. upTo(i) \in SUBSET S
      OBVIOUS
    <2> HIDE DEF upTo
    <2>2. IsFiniteSet(upTo(i)) /\ Cardinality(upTo(i)) <= Cardinality(S)
      BY <1>1, <2>1, FS_Subset
    <2> QED
      BY <2>1, <2>2, FS_CardinalityType
  <1>3. \A i : Ordinal(S, i) = Cardinality(upTo(i))
    BY DEF Ordinal
  <1>0. \A j \in S : j \in Nat /\ j <= Word
    BY WordSize
  <1>4. upTo(Word) = S
    BY <1>0
  <1>5. ASSUME NEW i \in S PROVE Ordinal(S, i) \in 1..Cardinality(S)
    <2>1. i \in upTo(i)
      BY WordSize
    <2> HIDE DEF upTo
    <2>2. Cardinality(upTo(i)) # 0
      BY <1>2, <2>1, FS_EmptySet
    <2> QED
      BY <1>1, <1>2, <1>3, <2>2
  <1>6. ASSUME NEW i \in S, NEW j \in S, i < j PROVE Ordinal(S, i) # Ordinal(S, j)
    <2>1. upTo(i) \in SUBSET upTo(j) /\ j \in upTo(j) /\ j \notin upTo(i)
      <3>1. i \in Nat /\ j \in Nat /\ \A a \in S : a \in Nat
        BY <1>0
      <3>2. \A a \in S : a <= i => a <= j
        BY <1>6, <3>1
      <3>3. j <= j /\ ~(j <= i)
        BY <1>6, <3>1
      <3> QED
        BY <3>2, <3>3
    <2> HIDE DEF upTo
    <2>2. Cardinality(upTo(i)) # Cardinality(upTo(j))
      BY <1>2, <2>1, FS_Subset
    <2> QED
      BY <1>3, <2>2
  <1>7. \A i \in S, j \in S : i < j \/ j < i \/ i = j
    BY WordSize
  <1> HIDE DEF upTo
  <1>8. Ordinal(S, Word) = Cardinality(S)
    BY <1>3, <1>4
  <1>9. \A i \in S, j \in S : Ordinal(S, i) = Ordinal(S, j) => i = j
    BY <1>6, <1>7
  <1> QED
    BY <1>1, <1>5, <1>8, <1>9

LEMMA OrdinalOnto ==
  ASSUME NEW S \in SUBSET (1..Word), NEW k \in 1..Cardinality(S)
  PROVE  \E i \in S : Ordinal(S, i) = k
  <1> DEFINE n == Cardinality(S)
             f == [i \in S |-> Ordinal(S, i)]
  <1>1. IsFiniteSet(S) /\ n \in Nat
    BY OrdinalFacts
  <1>2. f \in [S -> 1..n] /\ \A i \in S, j \in S : f[i] = f[j] => i = j
    BY OrdinalFacts
  <1>3. IsFiniteSet(1..n) /\ Cardinality(1..n) = n
    BY <1>1, FS_Interval
  <1>4. f \in Injection(S, 1..n)
    <2> HIDE DEF f, n
    <2> QED
      BY <1>2 DEF Injection, IsInjective
  <1>5. f \in Surjection(S, 1..n)
    <2> HIDE DEF f
    <2> QED
      BY <1>3, <1>4, FS_Injection
  <1>6. \E i \in S : f[i] = k
    <2> HIDE DEF f, n
    <2>1. k \in 1..n
      BY DEF n
    <2> QED
      BY <1>5, <2>1 DEF Surjection
  <1> QED
    BY <1>6

LEMMA PackedFacts ==
  ASSUME NEW w \in Words
  PROVE  /\ Packed(w) \in Seq(Nat) /\ Len(Packed(w)) = Cardinality(NonZero(w))
         /\ \A i \in NonZero(w) : /\ Ordinal(NonZero(w), i) \in 1..Cardinality(NonZero(w))
                                  /\ Packed(w)[Ordinal(NonZero(w), i)] = w[i]
  <1> DEFINE S == NonZero(w)
             n == Cardinality(S)
             place(k) == CHOOSE i \in S : Ordinal(S, i) = k
  <1>1. S \in SUBSET (1..Word)
    BY DEF NonZero
  <1>2. n \in Nat
    BY <1>1, OrdinalFacts
  <1>3. ASSUME NEW k \in 1..n PROVE place(k) \in S /\ Ordinal(S, place(k)) = k
    <2>1. \E i \in S : Ordinal(S, i) = k
      <3> HIDE DEF S
      <3> QED
        BY <1>1, OrdinalOnto
    <2> QED
      BY <2>1
  <1>4. Packed(w) = [k \in 1..n |-> w[place(k)]]
    BY DEF Packed
  <1>5. \A i \in S : w[i] \in Nat
    BY WordSize DEF Words, NonZero
  <1> HIDE DEF place, n, S
  <1>6. Packed(w) \in Seq(Nat) /\ Len(Packed(w)) = n
    BY <1>2, <1>3, <1>4, <1>5
  <1>7. ASSUME NEW i \in S PROVE Ordinal(S, i) \in 1..n /\ Packed(w)[Ordinal(S, i)] = w[i]
    <2>1. Ordinal(S, i) \in 1..n
      BY <1>1, OrdinalFacts DEF n
    <2>2. place(Ordinal(S, i)) \in S /\ Ordinal(S, place(Ordinal(S, i))) = Ordinal(S, i)
      BY <1>3, <2>1
    <2>3. place(Ordinal(S, i)) = i
      BY <1>1, <2>2, OrdinalFacts
    <2> QED
      BY <1>4, <2>1, <2>3
  <1> QED
    BY <1>6, <1>7 DEF n, S

-----------------------------------------------------------------------------
\* Runs of words.

LEMMA FirstOut ==
  ASSUME NEW n \in Nat, NEW T
  PROVE  \E j \in 0..n : (\A i \in 0..(j - 1) : i \in T) /\ (j = n \/ j \notin T)
  <1> DEFINE Is(m) == \E j \in 0..m : (\A i \in 0..(j - 1) : i \in T) /\ (j = m \/ j \notin T)
             U == {m \in 0..n : Is(m)}
  <1>1. 0 \in U
    OBVIOUS
  <1>2. ASSUME NEW m \in 1..n, m - 1 \in U PROVE m \in U
    <2>1. PICK j \in 0..(m - 1) : (\A i \in 0..(j - 1) : i \in T) /\ (j = m - 1 \/ j \notin T)
      BY <1>2
    <2>2. CASE j \notin T
      BY <2>1, <2>2
    <2>3. CASE j \in T
      <3>1. m \in 0..m /\ \A i \in 0..(m - 1) : i \in T
        BY <2>1, <2>3
      <3> QED
        BY <3>1
    <2> QED
      BY <2>2, <2>3
  <1>3. 0..n \subseteq U
    <2> HIDE DEF U
    <2> QED
      BY <1>1, <1>2, StepByStep
  <1> QED
    BY <1>3

\* The words of a sequence that ends on a word.
LEMMA WordIs ==
  ASSUME NEW s \in Seq(Nat), NEW j \in Nat, (j + 1) * Word <= Len(s)
  PROVE  /\ WordAt(s, j) \in Words
         /\ \A i \in 1..Word : WordAt(s, j)[i] = s[j * Word + i]
  <1>1. j * Word \in Nat /\ (j + 1) * Word = j * Word + Word /\ (j + 1) * Word \in Nat
    BY WordSize
  <1>2. PICK a \in Nat : j * Word = a
    BY <1>1
  <1>3. PICK b \in Nat : (j + 1) * Word = b
    BY <1>1
  <1>4. a <= b /\ b <= Len(s) /\ b - a = Word
    BY <1>1, <1>2, <1>3, WordSize
  <1>5. /\ SubSeq(s, a + 1, b) \in Seq(Nat) /\ Len(SubSeq(s, a + 1, b)) = b - a
        /\ \A i \in 1..(b - a) : SubSeq(s, a + 1, b)[i] = s[a + i]
    BY <1>4, Parts
  <1>6. WordAt(s, j) = SubSeq(s, a + 1, b)
    BY <1>2, <1>3 DEF WordAt
  <1> QED
    BY <1>2, <1>4, <1>5, <1>6 DEF Words

ZeroRun(s, limit, j) == /\ \A i \in 0..(j - 1) : AllZero(WordAt(s, i))
                        /\ j = limit \/ ~AllZero(WordAt(s, j))

LEMMA ZerosChosen ==
  ASSUME NEW s, NEW t, t = s, NEW limit, limit = Least(MaxCount + 1, Len(t) \div Word),
         \E j \in 0..limit : ZeroRun(t, limit, j)
  PROVE  Zeros(s) \in 0..limit /\ ZeroRun(t, limit, Zeros(s))
  BY DEF Zeros, Leading, ZeroRun

LEMMA ZerosFacts ==
  ASSUME NEW s \in Seq(Nat), NEW n \in Nat \ {0}, Len(s) = n * Word, AllZero(WordAt(s, 0))
  PROVE  /\ Zeros(s) \in 1..(MaxCount + 1) /\ Zeros(s) <= n
         /\ \A i \in 1..(Zeros(s) * Word) : s[i] = 0
  <1>0. PICK limit : Least(MaxCount + 1, Len(s) \div Word) = limit
    OBVIOUS
  <1> DEFINE T == {j \in Nat : AllZero(WordAt(s, j))}
  <1>1. Len(s) \div Word = n
    <2>1. PICK x \in Nat : x = Len(s)
      OBVIOUS
    <2>2. x = n * Word /\ x \div Word = n
      BY <2>1, WordSize
    <2> QED
      BY <2>1, <2>2
  <1>2. limit \in Nat /\ limit >= 1 /\ limit <= MaxCount + 1 /\ limit <= n
    BY <1>0, <1>1, WordSize DEF Least
  <1>3. \E j \in 0..limit : ZeroRun(s, limit, j)
    <2>1. \E j \in 0..limit : (\A i \in 0..(j - 1) : i \in T) /\ (j = limit \/ j \notin T)
      <3> HIDE DEF T
      <3> QED
        BY <1>2, FirstOut
    <2>2. PICK j \in 0..limit : (\A i \in 0..(j - 1) : i \in T) /\ (j = limit \/ j \notin T)
      BY <2>1
    <2>3. j \in Nat /\ \A i \in 0..(j - 1) : i \in Nat
      BY <1>2
    <2> QED
      BY <2>2, <2>3 DEF ZeroRun
  <1>4. Zeros(s) \in 0..limit /\ ZeroRun(s, limit, Zeros(s))
    BY <1>0, <1>3, ZerosChosen, Zenon
  <1>6. Zeros(s) # 0
    BY <1>2, <1>4 DEF ZeroRun
  <1>7. PICK z \in Nat \ {0} : Zeros(s) = z /\ z <= limit
    BY <1>2, <1>4, <1>6
  <1>8. ASSUME NEW i \in 1..(z * Word) PROVE s[i] = 0
    <2>1. PICK a \in Nat, b \in 1..Word : i = a * Word + b
      <3>1. PICK x \in Nat : x = i - 1
        OBVIOUS
      <3>4. PICK W \in Nat \ {0} : W = Word
        BY WordSize
      <3>5. x \div W \in Nat /\ x % W \in 0..(W - 1) /\ x = W * (x \div W) + (x % W)
        <4>1. x \div W \in Nat
          OBVIOUS
        <4>2. x % W \in 0..(W - 1)
          OBVIOUS
        <4>3. x = W * (x \div W) + (x % W)
          OBVIOUS
        <4> QED
          BY <4>1, <4>2, <4>3
      <3>2. x \div Word \in Nat /\ x % Word \in 0..(Word - 1) /\ x = (x \div Word) * Word + (x % Word)
        BY <3>4, <3>5
      <3>3. i = (x \div Word) * Word + ((x % Word) + 1) /\ (x % Word) + 1 \in 1..Word
        <4>1. PICK y \in Nat : y = (x \div Word) * Word
          BY <3>2, WordSize
        <4> QED
          BY <3>1, <3>2, <4>1, WordSize
      <3> QED
        BY <3>2, <3>3
    <2>2. a < z
      <3>1. CASE a >= z
        <4>1. PICK d \in Nat : a = z + d
          BY <3>1
        <4>2. a * Word = z * Word + d * Word /\ d * Word \in Nat /\ z * Word \in Nat
          BY <4>1, WordSize
        <4> QED
          BY <2>1, <4>2, WordSize
      <3> QED
        BY <3>1
    <2>3. AllZero(WordAt(s, a))
      <3>1. a \in 0..(z - 1)
        BY <2>2
      <3> QED
        BY <1>4, <1>7, <3>1 DEF ZeroRun
    <2>4. (a + 1) * Word <= Len(s)
      <3>1. PICK d \in Nat : n = (a + 1) + d
        <4>1. a + 1 <= n
          BY <1>2, <1>7, <2>2
        <4>2. n - (a + 1) \in Nat /\ n = (a + 1) + (n - (a + 1))
          BY <4>1
        <4> QED
          BY <4>2
      <3>2. n * Word = (a + 1) * Word + d * Word /\ d * Word \in Nat
        BY <3>1, WordSize
      <3>3. (a + 1) * Word \in Nat
        BY WordSize
      <3> QED
        BY <3>2, <3>3
    <2>5. WordAt(s, a)[b] = s[a * Word + b]
      BY <2>4, WordIs
    <2>6. WordAt(s, a)[b] = 0
      BY <2>3 DEF AllZero, NonZero
    <2> QED
      BY <2>1, <2>5, <2>6
  <1>9. Zeros(s) \in 1..(MaxCount + 1) /\ Zeros(s) <= n
    <2> QED
      BY <1>2, <1>7, WordSize
  <1> QED
    BY <1>7, <1>8, <1>9

ExtraRun(s, limit, j) == /\ \A i \in 0..(j - 1) : HasFewZeros(WordAt(s, i))
                         /\ j = limit \/ ~HasFewZeros(WordAt(s, j))

LEMMA ExtraChosen ==
  ASSUME NEW s, NEW t, t = Drop(s, Word), NEW limit, limit = Least(MaxCount, Len(t) \div Word),
         \E j \in 0..limit : ExtraRun(t, limit, j)
  PROVE  Extra(s) \in 0..limit /\ ExtraRun(t, limit, Extra(s))
  BY DEF Extra, Leading, ExtraRun

LEMMA ExtraFacts ==
  ASSUME NEW s \in Seq(Nat), NEW n \in Nat \ {0}, Len(s) = n * Word
  PROVE  Extra(s) \in 0..MaxCount /\ Extra(s) + 1 <= n
  <1>0. PICK t : Drop(s, Word) = t
    OBVIOUS
  <1>9. PICK limit : Least(MaxCount, Len(t) \div Word) = limit
    OBVIOUS
  <1> DEFINE T == {j \in Nat : HasFewZeros(WordAt(t, j))}
  <1>1. Len(t) \div Word = n - 1
    <2>0. PICK m \in Nat : m = n - 1
      OBVIOUS
    <2>1. n * Word = Word + m * Word /\ m * Word \in Nat
      BY <2>0, WordSize
    <2>2. Word <= Len(s)
      BY <2>1, WordSize
    <2>3. Len(t) = m * Word
      <3>1. Len(t) = Len(s) - Word
        BY <1>0, <2>2, DropFacts, WordSize
      <3> QED
        BY <2>1, <3>1, WordSize
    <2>4. PICK x \in Nat : x = m * Word
      BY <2>1
    <2>5. x \div Word = m
      BY <2>4, WordSize
    <2> QED
      BY <2>0, <2>3, <2>4, <2>5
  <1>2. limit \in Nat /\ limit <= MaxCount /\ limit + 1 <= n
    <2> QED
      BY <1>0, <1>1, <1>9, WordSize DEF Least
  <1>3. \E j \in 0..limit : ExtraRun(t, limit, j)
    <2>1. \E j \in 0..limit : (\A i \in 0..(j - 1) : i \in T) /\ (j = limit \/ j \notin T)
      <3> HIDE DEF T
      <3> QED
        BY <1>2, FirstOut
    <2>2. PICK j \in 0..limit : (\A i \in 0..(j - 1) : i \in T) /\ (j = limit \/ j \notin T)
      BY <2>1
    <2>3. j \in Nat /\ \A i \in 0..(j - 1) : i \in Nat
      BY <1>2
    <2> QED
      BY <2>2, <2>3 DEF ExtraRun
  <1>4. Extra(s) \in 0..limit /\ ExtraRun(t, limit, Extra(s))
    BY <1>0, <1>3, <1>9, ExtraChosen, Zenon
  <1> QED
    BY <1>2, <1>4, WordSize

-----------------------------------------------------------------------------
\* What a packed stream P stands for.  A point <<p, q, r>> says that the
\* first p bytes of P stand for the first q bytes of M, and that r bytes of a
\* raw run follow.

Zero_token(P, M, p, q, p2, q2, r2) ==
  /\ p2 = p + 2 /\ p2 <= Len(P) /\ r2 = 0
  /\ P[p + 1] = 0 /\ P[p + 2] \in 0..MaxCount
  /\ q2 = q + (P[p + 2] + 1) * Word
  /\ \A i \in 1..((P[p + 2] + 1) * Word) : M[q + i] = 0

Full_token(P, M, p, q, p2, q2, r2) ==
  /\ p2 = p + Word + 2 /\ p2 <= Len(P)
  /\ P[p + 1] = FullTag /\ P[p2] \in 0..MaxCount
  /\ q2 = q + Word /\ r2 = P[p2] * Word
  /\ \A i \in 1..Word : M[q + i] = P[p + 1 + i]

Some_token(P, M, p, q, p2, q2, r2) ==
  /\ p2 = p + 1 + Rank(P[p + 1], Word) /\ p2 <= Len(P) /\ p2 >= p + 2 /\ r2 = 0
  /\ P[p + 1] # 0 /\ P[p + 1] # FullTag
  /\ q2 = q + Word
  /\ \A i \in 1..Word :
       M[q + i] = IF i \in TagBits(P[p + 1]) THEN P[p + 1 + Rank(P[p + 1], i)] ELSE 0

Token(P, M, p, q, p2, q2, r2) ==
  \/ Zero_token(P, M, p, q, p2, q2, r2)
  \/ Full_token(P, M, p, q, p2, q2, r2)
  \/ Some_token(P, M, p, q, p2, q2, r2)

\* Where the points of C lead from one of them.
Runs(C, P, M, p, q, r) ==
  \A i \in 1..r : p + i <= Len(P) =>
    P[p + i] = M[q + i] /\ <<p + i, q + i, r - i>> \in C

Reads(C, P, M, p, q) ==
  \E p2, q2, r2 \in Nat : <<p2, q2, r2>> \in C /\ Token(P, M, p, q, p2, q2, r2)

Within(P, M, p, q, r) == p <= Len(P) /\ q <= Len(M) /\ r <= MaxCount * Word

Meaning(C, P, M) ==
  /\ <<0, 0, 0>> \in C
  /\ \A p, q, r \in Nat : <<p, q, r>> \in C =>
       /\ Within(P, M, p, q, r)
       /\ r > 0 => Runs(C, P, M, p, q, r)
       /\ r = 0 /\ p < Len(P) => Reads(C, P, M, p, q)

\* The point where P ends.
End(C, P, q, r) ==
  /\ <<Len(P), q, r>> \in C
  /\ \A q2, r2 \in Nat : <<Len(P), q2, r2>> \in C => q2 = q /\ r2 = r

\* The packed bytes that follow do not change what a token stands for.
LEMMA TokenKept ==
  ASSUME NEW P \in Seq(Nat), NEW X \in Seq(Nat), Len(X) >= Len(P),
         \A i \in 1..Len(P) : X[i] = P[i],
         NEW M, NEW p \in Nat, NEW q \in Nat, NEW p2 \in Nat, NEW q2 \in Nat, NEW r2 \in Nat,
         Token(P, M, p, q, p2, q2, r2)
  PROVE  Token(X, M, p, q, p2, q2, r2)
  <1>0. PICK l \in Nat : Len(P) = l /\ l <= Len(X) /\ \A i \in 1..l : X[i] = P[i]
    OBVIOUS
  <1>1. CASE Zero_token(P, M, p, q, p2, q2, r2)
    <2>1. p + 1 \in 1..l /\ p + 2 \in 1..l
      BY <1>0, <1>1 DEF Zero_token
    <2>2. X[p + 1] = P[p + 1] /\ X[p + 2] = P[p + 2] /\ p2 <= Len(X)
      BY <1>0, <1>1, <2>1, SMTT(60) DEF Zero_token
    <2>3. Zero_token(X, M, p, q, p2, q2, r2)
      BY <1>1, <2>2 DEF Zero_token
    <2> QED
      BY <2>3 DEF Token
  <1>2. CASE Full_token(P, M, p, q, p2, q2, r2)
    <2>1. p + 1 \in 1..l /\ p2 \in 1..l /\ \A i \in 1..Word : p + 1 + i \in 1..l
      BY <1>0, <1>2, WordSize DEF Full_token
    <2>4. X[p + 1] = P[p + 1] /\ X[p2] = P[p2]
      BY <1>0, <2>1, ZenonT(60)
    <2>5. p2 <= Len(X)
      BY <1>0, <2>1
    <2>6. \A i \in 1..Word : X[p + 1 + i] = P[p + 1 + i]
      BY <1>0, <2>1, ZenonT(60)
    <2>2. X[p + 1] = P[p + 1] /\ X[p2] = P[p2] /\ p2 <= Len(X)
          /\ \A i \in 1..Word : X[p + 1 + i] = P[p + 1 + i]
      BY <2>4, <2>5, <2>6
    <2>3. Full_token(X, M, p, q, p2, q2, r2)
      BY <1>2, <2>2 DEF Full_token
    <2> QED
      BY <2>3 DEF Token
  <1>3. CASE Some_token(P, M, p, q, p2, q2, r2)
    <2>1. PICK t : P[p + 1] = t
      OBVIOUS
    <2>2. TagBits(t) \in SUBSET (1..Word)
      BY DEF TagBits
    <2>3. PICK n \in Nat : Rank(t, Word) = n /\ \A i \in TagBits(t) : Rank(t, i) \in 1..n
      BY <2>2, OrdinalFacts DEF Rank
    <2>4. p2 = p + 1 + n /\ p2 <= l /\ p2 >= p + 2
      BY <1>0, <1>3, <2>1, <2>3 DEF Some_token
    <2>5. p + 1 \in 1..l /\ \A i \in TagBits(t) : p + 1 + Rank(t, i) \in 1..l
      BY <2>3, <2>4
    <2>6. X[p + 1] = t /\ p2 <= Len(X) /\ \A i \in TagBits(t) : X[p + 1 + Rank(t, i)] = P[p + 1 + Rank(t, i)]
      BY <1>0, <2>1, <2>4, <2>5
    <2>7. Some_token(X, M, p, q, p2, q2, r2)
      BY <1>3, <2>1, <2>6 DEF Some_token
    <2> QED
      BY <2>7 DEF Token
  <1> QED
    BY <1>1, <1>2, <1>3 DEF Token

LEMMA TokenLonger ==
  ASSUME NEW P, NEW M, NEW p \in Nat, NEW q \in Nat, NEW p2 \in Nat, NEW q2 \in Nat, NEW r2 \in Nat,
         Token(P, M, p, q, p2, q2, r2)
  PROVE  p2 >= p + 2 /\ p2 <= Len(P) /\ q2 >= q + Word
  <1>1. CASE Zero_token(P, M, p, q, p2, q2, r2)
    <2>1. PICK c \in Nat : P[p + 2] = c
      BY <1>1, WordSize DEF Zero_token
    <2>2. (c + 1) * Word = c * Word + Word /\ c * Word \in Nat
      BY WordSize
    <2> QED
      BY <1>1, <2>1, <2>2, WordSize DEF Zero_token
  <1>2. CASE Full_token(P, M, p, q, p2, q2, r2)
    BY <1>2, WordSize DEF Full_token
  <1>3. CASE Some_token(P, M, p, q, p2, q2, r2)
    BY <1>3, WordSize DEF Some_token
  <1> QED
    BY <1>1, <1>2, <1>3 DEF Token

LEMMA RunsAt ==
  ASSUME NEW C, NEW P, NEW M, NEW p, NEW q, NEW r, Runs(C, P, M, p, q, r),
         NEW i \in 1..r, p + i <= Len(P)
  PROVE  P[p + i] = M[q + i] /\ <<p + i, q + i, r - i>> \in C
  BY DEF Runs

\* A point whose run ends behind the stream leads to the end of the stream.
LEMMA RunToEnd ==
  ASSUME NEW P \in Seq(Nat), NEW M, NEW C, Meaning(C, P, M),
         NEW at \in Nat, NEW raw \in Nat, End(C, P, at, raw),
         NEW p \in Nat, NEW q \in Nat, NEW r \in Nat, <<p, q, r>> \in C,
         r >= Len(P) - p
  PROVE  p <= Len(P) /\ at = q + (Len(P) - p) /\ raw = r - (Len(P) - p)
  <1>1. PICK l \in Nat : Len(P) = l
    OBVIOUS
  <1>2. p <= l
    BY <1>1 DEF Meaning, Within
  <1>3. CASE p = l
    BY <1>1, <1>3 DEF End
  <1>4. CASE p < l
    <2>1. PICK d \in Nat : l - p = d /\ d \in 1..r /\ p + d = l /\ r > 0
      BY <1>1, <1>4
    <2>2. Runs(C, P, M, p, q, r)
      BY <2>1 DEF Meaning
    <2>3. <<p + d, q + d, r - d>> \in C
      <3>1. d \in 1..r /\ p + d <= Len(P)
        BY <1>1, <2>1
      <3> QED
        BY <2>2, <3>1, RunsAt
    <2>4. <<l, q + d, r - d>> \in C /\ q + d \in Nat /\ r - d \in Nat
      BY <2>1, <2>3, SMTT(60)
    <2> QED
      BY <1>1, <2>1, <2>4 DEF End
  <1> QED
    BY <1>1, <1>2, <1>3, <1>4

\* A token at the end of the stream.
LEMMA GrowToken ==
  ASSUME NEW P \in Seq(Nat), NEW x \in Seq(Nat), NEW M \in Seq(Nat), NEW C, Meaning(C, P, M),
         NEW at \in Nat, End(C, P, at, 0),
         NEW at2 \in Nat, NEW raw2 \in Nat, at2 <= Len(M), raw2 <= MaxCount * Word,
         Token(P \o x, M, Len(P), at, Len(P) + Len(x), at2, raw2)
  PROVE  \E C2 : Meaning(C2, P \o x, M) /\ End(C2, P \o x, at2, raw2) /\ C \subseteq C2
  <1>1. PICK l \in Nat : Len(P) = l
    OBVIOUS
  <1>2. PICK n \in Nat : Len(x) = n
    OBVIOUS
  <1>3. PICK X \in Seq(Nat) : P \o x = X /\ Len(X) = l + n /\ \A i \in 1..l : X[i] = P[i]
    <2>1. P \o x \in Seq(Nat)
      BY Both, ZenonT(60)
    <2>2. PICK X \in Seq(Nat) : P \o x = X
      BY <2>1
    <2>3. Len(P \o x) = Len(P) + Len(x) /\ \A i \in 1..Len(P) : (P \o x)[i] = P[i]
      BY Both, ZenonT(60)
    <2> QED
      BY <1>1, <1>2, <2>2, <2>3
  <1>4. Token(X, M, l, at, l + n, at2, raw2)
    BY <1>1, <1>2, <1>3
  <1>5. n >= 2
    BY <1>4, TokenLonger
  <1>6. PICK C2 : C2 = C \cup {<<l + n, at2, raw2>>}
    OBVIOUS
  <1>7. ASSUME NEW p \in Nat, NEW q \in Nat, NEW r \in Nat, <<p, q, r>> \in C
        PROVE  /\ Within(X, M, p, q, r)
               /\ r > 0 => Runs(C2, X, M, p, q, r)
               /\ r = 0 /\ p < Len(X) => Reads(C2, X, M, p, q)
    <2>1. p <= l /\ q <= Len(M) /\ r <= MaxCount * Word
      BY <1>1, <1>7 DEF Meaning, Within
    <2>2. p + r <= l
      <3>1. CASE r >= l - p
        <4>0. r >= Len(P) - p /\ 0 \in Nat
          BY <1>1, <3>1
        <4>1. 0 = r - (Len(P) - p)
          BY <1>7, <4>0, RunToEnd
        <4> QED
          BY <1>1, <2>1, <4>1
      <3>2. CASE r < l - p
        BY <3>2
      <3> QED
        BY <3>1, <3>2
    <2>3. r > 0 => Runs(C2, X, M, p, q, r)
      <3>1. SUFFICES ASSUME r > 0, NEW i \in 1..r
                     PROVE  X[p + i] = M[q + i] /\ <<p + i, q + i, r - i>> \in C2
        BY DEF Runs
      <3>2. Runs(C, P, M, p, q, r)
        BY <1>7, <3>1 DEF Meaning
      <3>3. p + i \in 1..l
        BY <2>2
      <3>4. P[p + i] = M[q + i] /\ <<p + i, q + i, r - i>> \in C
        BY <1>1, <3>2, <3>3, SMTT(60) DEF Runs
      <3> QED
        BY <1>3, <1>6, <3>3, <3>4
    <2>4. ASSUME r = 0, p < Len(X) PROVE Reads(C2, X, M, p, q)
      <3>1. CASE p < l
        <4>1. Reads(C, P, M, p, q)
          BY <1>1, <1>7, <2>4, <3>1 DEF Meaning
        <4>2. PICK p2, q2, r2 \in Nat : <<p2, q2, r2>> \in C /\ Token(P, M, p, q, p2, q2, r2)
          BY <4>1 DEF Reads
        <4>3. Len(X) >= Len(P)
          BY <1>1, <1>3, SMTT(60)
        <4>4. \A i \in 1..Len(P) : X[i] = P[i]
          BY <1>1, <1>3, ZenonT(60)
        <4>5. Token(X, M, p, q, p2, q2, r2)
          BY <4>2, <4>3, <4>4, TokenKept
        <4> QED
          BY <1>6, <4>2, <4>5 DEF Reads
      <3>2. CASE p = l
        <4>1. q = at
          BY <1>1, <1>7, <3>2 DEF End
        <4>2. l + n \in Nat /\ <<l + n, at2, raw2>> \in C2
          BY <1>6
        <4> QED
          BY <1>4, <3>2, <4>1, <4>2 DEF Reads
      <3> QED
        BY <2>1, <3>1, <3>2
    <2>5. Within(X, M, p, q, r)
      BY <1>3, <2>1 DEF Within
    <2> QED
      BY <2>3, <2>4, <2>5
  <1>8. Within(X, M, l + n, at2, raw2) /\ Runs(C2, X, M, l + n, at2, raw2) /\ ~(l + n < Len(X))
    BY <1>3 DEF Within, Runs
  <1>9. Meaning(C2, X, M)
    <2>1. <<0, 0, 0>> \in C2
      BY <1>6 DEF Meaning
    <2>2. ASSUME NEW p \in Nat, NEW q \in Nat, NEW r \in Nat, <<p, q, r>> \in C2
          PROVE  /\ Within(X, M, p, q, r)
                 /\ r > 0 => Runs(C2, X, M, p, q, r)
                 /\ r = 0 /\ p < Len(X) => Reads(C2, X, M, p, q)
      <3>1. CASE <<p, q, r>> \in C
        BY <1>7, <3>1
      <3>2. CASE <<p, q, r>> = <<l + n, at2, raw2>>
        <4>1. p = l + n /\ q = at2 /\ r = raw2
          BY <3>2
        <4> QED
          BY <1>8, <4>1
      <3> QED
        BY <1>6, <2>2, <3>1, <3>2
    <2> QED
      BY <2>1, <2>2 DEF Meaning
  <1>10. End(C2, X, at2, raw2)
    <2>1. ASSUME NEW q \in Nat, NEW r \in Nat, <<l + n, q, r>> \in C PROVE FALSE
      <3>1. l + n <= l
        <4>1. l + n \in Nat
          OBVIOUS
        <4> QED
          BY <1>1, <2>1, <4>1 DEF Meaning, Within
      <3> QED
        BY <1>5, <3>1
    <2> QED
      BY <1>3, <1>6, <2>1 DEF End
  <1> QED
    BY <1>3, <1>6, <1>9, <1>10

\* n more bytes of a raw run.
LEMMA GrowRun ==
  ASSUME NEW P \in Seq(Nat), NEW x \in Seq(Nat), NEW M \in Seq(Nat), NEW C, Meaning(C, P, M),
         NEW at \in Nat, NEW raw \in Nat, End(C, P, at, raw),
         Len(x) <= raw, at + Len(x) <= Len(M), \A i \in 1..Len(x) : M[at + i] = x[i]
  PROVE  \E C2 : /\ Meaning(C2, P \o x, M) /\ End(C2, P \o x, at + Len(x), raw - Len(x))
                 /\ C \subseteq C2
  <1>1. PICK l \in Nat : Len(P) = l
    OBVIOUS
  <1>2. PICK n \in Nat : Len(x) = n
    OBVIOUS
  <1>3. PICK X \in Seq(Nat) : /\ P \o x = X /\ Len(X) = l + n /\ (\A i \in 1..l : X[i] = P[i])
                              /\ \A i \in 1..n : X[l + i] = x[i]
    <2>1. /\ P \o x \in Seq(Nat) /\ Len(P \o x) = l + n /\ (\A i \in 1..l : (P \o x)[i] = P[i])
          /\ \A i \in 1..n : (P \o x)[l + i] = x[i]
      BY <1>1, <1>2, Both
    <2> QED
      BY <2>1, Zenon
  <1>4. PICK C2 : C2 = C \cup {<<l + i, at + i, raw - i>> : i \in 0..n}
    OBVIOUS
  <1>5. n <= raw /\ at + n <= Len(M) /\ raw <= MaxCount * Word /\ MaxCount * Word \in Nat
        /\ \A i \in 1..n : M[at + i] = x[i]
    <2>1. <<l, at, raw>> \in C
      BY <1>1 DEF End
    <2>2. raw <= MaxCount * Word
      BY <1>1, <2>1 DEF Meaning, Within
    <2> QED
      BY <1>2, <2>2, WordSize
  <1>6. \A i \in 0..n : <<l + i, at + i, raw - i>> \in C2
    BY <1>4
  <1>7. ASSUME NEW p \in Nat, NEW q \in Nat, NEW r \in Nat, <<p, q, r>> \in C
        PROVE  /\ Within(X, M, p, q, r)
               /\ r > 0 => Runs(C2, X, M, p, q, r)
               /\ r = 0 /\ p < Len(X) => Reads(C2, X, M, p, q)
    <2>1. p <= l /\ q <= Len(M) /\ r <= MaxCount * Word
      BY <1>1, <1>7 DEF Meaning, Within
    <2>3. r > 0 => Runs(C2, X, M, p, q, r)
      <3>1. SUFFICES ASSUME r > 0, NEW i \in 1..r, p + i <= l + n
                     PROVE  X[p + i] = M[q + i] /\ <<p + i, q + i, r - i>> \in C2
        BY <1>3 DEF Runs
      <3>2. Runs(C, P, M, p, q, r)
        BY <1>7, <3>1 DEF Meaning
      <3>3. CASE p + i <= l
        <4>1. p + i \in 1..l
          BY <3>3
        <4>2. P[p + i] = M[q + i] /\ <<p + i, q + i, r - i>> \in C
          BY <1>1, <3>2, <3>3, RunsAt
        <4> QED
          BY <1>3, <1>4, <4>1, <4>2
      <3>4. CASE p + i > l
        <4>1. at = q + (l - p) /\ raw = r - (l - p)
          <5>1. r >= Len(P) - p
            BY <1>1, <3>4
          <5>2. at = q + (Len(P) - p) /\ raw = r - (Len(P) - p)
            BY <1>7, <5>1, RunToEnd
          <5> QED
            BY <1>1, <5>2
        <4>2. PICK k \in 1..n : p + i = l + k
          <5>1. (p + i) - l \in 1..n /\ p + i = l + ((p + i) - l)
            BY <3>1, <3>4
          <5> QED
            BY <5>1
        <4>3. q + i = at + k /\ r - i = raw - k
          <5>1. l + k = p + i
            BY <4>2
          <5> QED
            BY <4>1, <5>1
        <4>4. X[l + k] = M[at + k] /\ <<l + k, at + k, raw - k>> \in C2
          <5>1. k \in 0..n
            OBVIOUS
          <5>2. X[l + k] = x[k] /\ M[at + k] = x[k]
            BY <1>3, <1>5
          <5> QED
            BY <1>6, <5>1, <5>2
        <4> QED
          BY <4>2, <4>3, <4>4
      <3> QED
        BY <3>3, <3>4
    <2>4. ASSUME r = 0, p < Len(X) PROVE Reads(C2, X, M, p, q)
      <3>1. CASE p < l
        <4>1. Reads(C, P, M, p, q)
          BY <1>1, <1>7, <2>4, <3>1 DEF Meaning
        <4>2. PICK p2, q2, r2 \in Nat : <<p2, q2, r2>> \in C /\ Token(P, M, p, q, p2, q2, r2)
          BY <4>1 DEF Reads
        <4>3. Len(X) >= Len(P) /\ \A i \in 1..Len(P) : X[i] = P[i]
          BY <1>1, <1>3
        <4>4. Token(X, M, p, q, p2, q2, r2)
          BY <4>2, <4>3, TokenKept
        <4> QED
          BY <1>4, <4>2, <4>4 DEF Reads
      <3>2. CASE p = l
        <4>1. r = raw
          BY <1>1, <1>7, <3>2 DEF End
        <4> QED
          BY <1>3, <1>5, <2>4, <3>2, <4>1
      <3> QED
        BY <2>1, <3>1, <3>2
    <2>5. Within(X, M, p, q, r)
      BY <1>3, <2>1 DEF Within
    <2> QED
      BY <2>3, <2>4, <2>5
  <1>8. ASSUME NEW k \in 0..n
        PROVE  /\ Within(X, M, l + k, at + k, raw - k)
               /\ Runs(C2, X, M, l + k, at + k, raw - k)
               /\ raw - k = 0 => ~(l + k < Len(X))
    <2>1. Within(X, M, l + k, at + k, raw - k) /\ (raw - k = 0 => ~(l + k < Len(X)))
      <3>1. PICK m \in Nat : Len(M) = m
        OBVIOUS
      <3>2. PICK most \in Nat : MaxCount * Word = most
        BY <1>5
      <3>3. l + k <= l + n /\ at + k <= m /\ raw - k <= most /\ (raw - k = 0 => k = n)
        BY <1>5, <3>1, <3>2
      <3> QED
        BY <1>3, <3>1, <3>2, <3>3 DEF Within
    <2>2. ASSUME NEW i \in 1..(raw - k), (l + k) + i <= Len(X)
          PROVE  X[(l + k) + i] = M[(at + k) + i] /\ <<(l + k) + i, (at + k) + i, (raw - k) - i>> \in C2
      <3>1. PICK j \in 1..n : j = k + i
        BY <1>3, <2>2
      <3>2. (l + k) + i = l + j /\ (at + k) + i = at + j /\ (raw - k) - i = raw - j /\ j \in 0..n
        BY <3>1
      <3>3. X[l + j] = M[at + j] /\ <<l + j, at + j, raw - j>> \in C2
        BY <1>3, <1>5, <1>6, <3>2
      <3> QED
        BY <3>2, <3>3
    <2> QED
      BY <2>1, <2>2 DEF Runs
  <1>9. Meaning(C2, X, M)
    <2>1. <<0, 0, 0>> \in C2
      BY <1>4 DEF Meaning
    <2>2. ASSUME NEW p \in Nat, NEW q \in Nat, NEW r \in Nat, <<p, q, r>> \in C2
          PROVE  /\ Within(X, M, p, q, r)
                 /\ r > 0 => Runs(C2, X, M, p, q, r)
                 /\ r = 0 /\ p < Len(X) => Reads(C2, X, M, p, q)
      <3>1. CASE <<p, q, r>> \in C
        BY <1>7, <3>1
      <3>2. CASE <<p, q, r>> \notin C
        <4>1. PICK k \in 0..n : <<p, q, r>> = <<l + k, at + k, raw - k>>
          BY <1>4, <2>2, <3>2
        <4>2. p = l + k /\ q = at + k /\ r = raw - k
          BY <4>1
        <4> QED
          BY <1>8, <4>2
      <3> QED
        BY <3>1, <3>2
    <2> QED
      BY <2>1, <2>2 DEF Meaning
  <1>10. End(C2, X, at + n, raw - n)
    <2>1. n \in 0..n /\ <<l + n, at + n, raw - n>> \in C2
      BY <1>6
    <2>2. ASSUME NEW q \in Nat, NEW r \in Nat, <<l + n, q, r>> \in C2
          PROVE  q = at + n /\ r = raw - n
      <3>1. CASE <<l + n, q, r>> \in C
        <4>1. l + n <= l
          <5>1. l + n \in Nat
            OBVIOUS
          <5> QED
            BY <1>1, <3>1, <5>1 DEF Meaning, Within
        <4>2. n = 0 /\ l + n = l
          BY <4>1
        <4> QED
          BY <1>1, <3>1, <4>2 DEF End
      <3>2. CASE <<l + n, q, r>> \notin C
        <4>1. PICK k \in 0..n : <<l + n, q, r>> = <<l + k, at + k, raw - k>>
          BY <1>4, <2>2, <3>2
        <4>2. l + n = l + k /\ q = at + k /\ r = raw - k
          BY <4>1
        <4> QED
          BY <4>2
      <3> QED
        BY <3>1, <3>2
    <2> QED
      BY <1>3, <2>1, <2>2 DEF End
  <1> QED
    BY <1>2, <1>3, <1>4, <1>9, <1>10

-----------------------------------------------------------------------------
\* What capn_deflate writes for the words at the head of its input are tokens.

LEMMA Follows ==
  \A s \in Seq(Nat), t \in Seq(Nat) :
    /\ Len(s \o t) = Len(s) + Len(t)
    /\ \A i \in 1..Len(t) : (s \o t)[Len(s) + i] = t[i]
  BY Both

\* The bytes of s are those of M behind the first `at`.
Faces(M, at, s) == at + Len(s) <= Len(M) /\ \A i \in 1..Len(s) : M[at + i] = s[i]

\* The three.
ZerosBytes(s) == <<0, Zeros(s) - 1>>
FullBytes(s) == <<FullTag>> \o WordAt(s, 0) \o <<Extra(s)>>
SomeBytes(s) == <<Tag(WordAt(s, 0))>> \o Packed(WordAt(s, 0))

LEMMA FirstWord ==
  ASSUME NEW s \in Seq(Nat), NEW n \in Nat \ {0}, Len(s) = n * Word
  PROVE  /\ WordAt(s, 0) \in Words /\ WordAt(s, 0) \in Seq(Nat) /\ Len(WordAt(s, 0)) = Word
         /\ Word <= Len(s) /\ \A i \in 1..Word : i \in 1..Len(s) /\ WordAt(s, 0)[i] = s[i]
  <1>1. (0 + 1) * Word <= Len(s) /\ Word <= Len(s)
    <2>1. PICK m \in Nat : n = m + 1
      <3>1. n - 1 \in Nat /\ n = (n - 1) + 1
        OBVIOUS
      <3> QED
        BY <3>1
    <2>2. n * Word = m * Word + Word /\ m * Word \in Nat
      BY <2>1, WordSize
    <2> QED
      BY <2>2, WordSize
  <1>2. WordAt(s, 0) \in Words /\ \A i \in 1..Word : WordAt(s, 0)[i] = s[0 * Word + i]
    BY <1>1, WordIs
  <1>3. \A i \in 1..Word : 0 * Word + i = i
    BY WordSize
  <1>4. \A i \in 1..Word : i \in 1..Len(s)
    BY <1>1, WordSize
  <1> QED
    BY <1>1, <1>2, <1>3, <1>4 DEF Words

LEMMA ZerosWritten ==
  ASSUME NEW P \in Seq(Nat), NEW M \in Seq(Nat), NEW at \in Nat,
         NEW s \in Seq(Nat), NEW n \in Nat \ {0}, Len(s) = n * Word,
         Faces(M, at, s),
         AllZero(WordAt(s, 0)), NEW x, ZerosBytes(s) = x
  PROVE  /\ x \in Seq(Nat) /\ at + Zeros(s) * Word <= Len(M)
         /\ Token(P \o x, M, Len(P), at, Len(P) + Len(x), at + Zeros(s) * Word, 0)
  <1>1. PICK z \in 1..(MaxCount + 1) : Zeros(s) = z /\ z <= n /\ \A i \in 1..(z * Word) : s[i] = 0
    BY ZerosFacts
  <1>2. x \in Seq(Nat) /\ Len(x) = 2 /\ x[1] = 0 /\ x[2] = z - 1 /\ z - 1 \in 0..MaxCount
    <2>1. z - 1 \in Nat /\ z - 1 \in 0..MaxCount
      BY WordSize
    <2>2. <<0, z - 1>> = x
      BY <1>1 DEF ZerosBytes
    <2>3. <<0, z - 1>> \in Seq(Nat) /\ Len(<<0, z - 1>>) = 2 /\ <<0, z - 1>>[1] = 0 /\ <<0, z - 1>>[2] = z - 1
      BY <2>1
    <2> QED
      BY <2>1, <2>2, <2>3
  <1>3. PICK l \in Nat : Len(P) = l
    OBVIOUS
  <1>4. PICK X : P \o x = X /\ Len(X) = l + 2 /\ X[l + 1] = 0 /\ X[l + 2] = z - 1
    <2>4. /\ Len(P \o x) = Len(P) + Len(x)
          /\ \A i \in 1..Len(x) : (P \o x)[Len(P) + i] = x[i]
      BY <1>2, Follows, Zenon
    <2>1. Len(P \o x) = l + 2 /\ \A i \in 1..2 : (P \o x)[l + i] = x[i]
      BY <1>2, <1>3, <2>4
    <2>2. 1 \in 1..2 /\ 2 \in 1..2
      OBVIOUS
    <2>3. (P \o x)[l + 1] = 0 /\ (P \o x)[l + 2] = z - 1
      BY <1>2, <2>1, <2>2
    <2> QED
      BY <2>1, <2>3
  <1>5. z * Word \in Nat /\ z * Word <= Len(s) /\ (z - 1) + 1 = z
    <2>1. PICK d \in Nat : n = z + d
      <3>1. n - z \in Nat /\ n = z + (n - z)
        BY <1>1
      <3> QED
        BY <3>1
    <2>2. n * Word = z * Word + d * Word /\ d * Word \in Nat /\ z * Word \in Nat
      BY <2>1, WordSize
    <2> QED
      BY <2>2
  <1>6. \A i \in 1..(z * Word) : M[at + i] = 0
    <2>1. \A i \in 1..(z * Word) : i \in 1..Len(s)
      BY <1>5
    <2> QED
      BY <1>1, <2>1 DEF Faces
  <1>7. Zero_token(X, M, l, at, l + 2, at + z * Word, 0)
    BY <1>2, <1>4, <1>5, <1>6 DEF Zero_token
  <1>8. at + z * Word <= Len(M)
    <2>1. PICK a \in Nat : z * Word = a
      BY <1>5
    <2>2. PICK k \in Nat : Len(s) = k
      OBVIOUS
    <2> QED
      BY <1>5, <2>1, <2>2 DEF Faces
  <1> QED
    BY <1>1, <1>2, <1>3, <1>4, <1>7, <1>8 DEF Token

LEMMA FullWritten ==
  ASSUME NEW P \in Seq(Nat), NEW M \in Seq(Nat), NEW at \in Nat,
         NEW s \in Seq(Nat), NEW n \in Nat \ {0}, Len(s) = n * Word,
         Faces(M, at, s),
         ZeroBytes(WordAt(s, 0)) = {},
         NEW x, FullBytes(s) = x
  PROVE  /\ x \in Seq(Nat) /\ Len(x) = Word + 2 /\ at + Word <= Len(M)
         /\ Extra(s) * Word <= MaxCount * Word
         /\ Token(P \o x, M, Len(P), at, Len(P) + Len(x), at + Word, Extra(s) * Word)
  <1>1. PICK e \in 0..MaxCount : Extra(s) = e
    BY ExtraFacts
  <1>2. PICK w \in Words : /\ WordAt(s, 0) = w /\ w \in Seq(Nat) /\ Len(w) = Word
                           /\ Word <= Len(s) /\ \A i \in 1..Word : i \in 1..Len(s) /\ w[i] = s[i]
    BY FirstWord
  <1>3. PICK f \in Nat : FullTag = f
    <2>1. Tag(w) = FullTag
      BY <1>2, TagOfFull
    <2> QED
      BY <2>1, BitsOfTag
  <1>4. PICK u \in Seq(Nat) : <<f>> \o w = u /\ Len(u) = Word + 1 /\ u[1] = f /\ \A i \in 1..Word : u[1 + i] = w[i]
    <2>1. <<f>> \in Seq(Nat) /\ Len(<<f>>) = 1 /\ <<f>>[1] = f
      OBVIOUS
    <2>2. /\ <<f>> \o w \in Seq(Nat) /\ Len(<<f>> \o w) = 1 + Word
          /\ \A i \in 1..1 : (<<f>> \o w)[i] = <<f>>[i]
          /\ \A i \in 1..Word : (<<f>> \o w)[1 + i] = w[i]
      BY <1>2, <2>1, Both
    <2>3. (<<f>> \o w)[1] = f /\ Len(<<f>> \o w) = Word + 1
      BY <2>1, <2>2, WordSize
    <2> QED
      BY <2>2, <2>3, Zenon
  <1>5. /\ x \in Seq(Nat) /\ Len(x) = Word + 2 /\ x[1] = f /\ x[Word + 2] = e
        /\ \A i \in 1..Word : x[1 + i] = w[i]
    <2>0. e \in Nat
      BY WordSize
    <2>1. <<e>> \in Seq(Nat) /\ Len(<<e>>) = 1 /\ <<e>>[1] = e
      BY <2>0
    <2>2. u \o <<e>> = x
      BY <1>1, <1>2, <1>3, <1>4 DEF FullBytes
    <2>3. /\ u \o <<e>> \in Seq(Nat) /\ Len(u \o <<e>>) = (Word + 1) + 1
          /\ \A i \in 1..(Word + 1) : (u \o <<e>>)[i] = u[i]
          /\ \A i \in 1..1 : (u \o <<e>>)[(Word + 1) + i] = <<e>>[i]
      BY <1>4, <2>1, Both, SMTT(60)
    <2>4. (Word + 1) + 1 = Word + 2 /\ 1 \in 1..(Word + 1) /\ 1 \in 1..1
          /\ \A i \in 1..Word : 1 + i \in 1..(Word + 1)
      BY WordSize
    <2>6. (u \o <<e>>)[(Word + 1) + 1] = <<e>>[1]
      BY <2>3, <2>4
    <2>7. (u \o <<e>>)[Word + 2] = <<e>>[1]
      BY <2>4, <2>6
    <2>8. (u \o <<e>>)[1] = u[1] /\ \A i \in 1..Word : (u \o <<e>>)[1 + i] = u[1 + i]
      BY <2>3, <2>4
    <2>5. x[1] = u[1] /\ x[Word + 2] = <<e>>[1] /\ \A i \in 1..Word : x[1 + i] = u[1 + i]
      BY <2>2, <2>7, <2>8
    <2> QED
      BY <1>4, <2>1, <2>2, <2>3, <2>4, <2>5
  <1>6. PICK l \in Nat : Len(P) = l
    OBVIOUS
  <1>7. PICK X : /\ P \o x = X /\ Len(X) = l + (Word + 2)
                 /\ \A i \in 1..(Word + 2) : X[l + i] = x[i]
    <2>1. PICK m \in Nat : Word + 2 = m
      BY WordSize
    <2>2. Len(x) = m /\ x \in Seq(Nat)
      BY <1>5, <2>1
    <2>3. /\ Len(P \o x) = Len(P) + Len(x)
          /\ \A i \in 1..Len(x) : (P \o x)[Len(P) + i] = x[i]
      BY <2>2, Follows, Zenon
    <2>4. Len(P \o x) = l + m /\ \A i \in 1..m : (P \o x)[l + i] = x[i]
      BY <1>6, <2>2, <2>3
    <2> QED
      BY <2>1, <2>4
  <1>8. X[l + 1] = f /\ X[l + Word + 2] = e /\ \A i \in 1..Word : X[l + 1 + i] = w[i]
    <2>1. 1 \in 1..(Word + 2) /\ Word + 2 \in 1..(Word + 2) /\ l + Word + 2 = l + (Word + 2)
          /\ \A i \in 1..Word : 1 + i \in 1..(Word + 2) /\ l + 1 + i = l + (1 + i)
      BY WordSize
    <2> QED
      BY <1>5, <1>7, <2>1
  <1>9. \A i \in 1..Word : M[at + i] = w[i]
    BY <1>2 DEF Faces
  <1>10. Full_token(X, M, l, at, l + (Word + 2), at + Word, e * Word)
    <2>1. l + (Word + 2) = l + Word + 2
      BY WordSize
    <2> QED
      BY <1>3, <1>7, <1>8, <1>9, <2>1, SMTT(60) DEF Full_token
  <1>11. at + Word <= Len(M)
    <2>1. PICK k \in Nat : Len(s) = k
      OBVIOUS
    <2>2. PICK m \in Nat : Len(M) = m
      OBVIOUS
    <2>3. Word <= k /\ at + k <= m
      BY <1>2, <2>1, <2>2 DEF Faces
    <2> QED
      BY <2>2, <2>3, WordSize
  <1>12. e * Word <= MaxCount * Word
    <2>1. PICK d \in Nat : MaxCount = e + d
      <3>1. MaxCount - e \in Nat /\ MaxCount = e + (MaxCount - e)
        BY WordSize
      <3> QED
        BY <3>1
    <2>2. MaxCount * Word = e * Word + d * Word /\ d * Word \in Nat /\ e * Word \in Nat
      BY <2>1, WordSize
    <2> QED
      BY <2>2
  <1> QED
    BY <1>1, <1>5, <1>6, <1>7, <1>10, <1>11, <1>12 DEF Token

LEMMA SomeWritten ==
  ASSUME NEW P \in Seq(Nat), NEW M \in Seq(Nat), NEW at \in Nat,
         NEW s \in Seq(Nat), NEW n \in Nat \ {0}, Len(s) = n * Word,
         Faces(M, at, s),
         ~AllZero(WordAt(s, 0)), ZeroBytes(WordAt(s, 0)) # {},
         NEW x, SomeBytes(s) = x
  PROVE  /\ x \in Seq(Nat) /\ at + Word <= Len(M) /\ Len(x) = 1 + Len(Packed(WordAt(s, 0)))
         /\ Token(P \o x, M, Len(P), at, Len(P) + Len(x), at + Word, 0)
  <1>1. PICK w \in Words : /\ WordAt(s, 0) = w /\ w \in Seq(Nat) /\ Len(w) = Word
                           /\ Word <= Len(s) /\ \A i \in 1..Word : i \in 1..Len(s) /\ w[i] = s[i]
    BY FirstWord
  <1>2. PICK t \in Nat : Tag(w) = t /\ TagBits(t) = NonZero(w) /\ t # 0 /\ t # FullTag
    BY <1>1, BitsOfTag, TagOfZeros, TagOfFull
  <1>3. PICK S \in SUBSET (1..Word) : NonZero(w) = S
    BY DEF NonZero
  <1>4. PICK c \in Nat : /\ Cardinality(S) = c /\ Ordinal(S, Word) = c
                         /\ (\A i \in S : Ordinal(S, i) \in 1..c) /\ c >= 1
    <2>1. IsFiniteSet(S) /\ S # {}
      BY <1>1, <1>3, OrdinalFacts DEF AllZero
    <2>2. Cardinality(S) # 0
      BY <2>1, FS_EmptySet
    <2>3. Cardinality(S) \in Nat /\ Ordinal(S, Word) = Cardinality(S) /\ \A i \in S : Ordinal(S, i) \in 1..Cardinality(S)
      BY OrdinalFacts
    <2>4. Cardinality(S) >= 1
      BY <2>2, <2>3
    <2> QED
      BY <2>3, <2>4, Zenon
  <1>5. PICK y \in Seq(Nat) : Packed(w) = y /\ Len(y) = c /\ \A i \in S : y[Ordinal(S, i)] = w[i]
    BY <1>3, <1>4, PackedFacts
  <1>6. /\ x \in Seq(Nat) /\ Len(x) = 1 + c /\ x[1] = t
        /\ \A k \in 1..c : x[1 + k] = y[k]
    <2>1. <<t>> \in Seq(Nat) /\ Len(<<t>>) = 1 /\ <<t>>[1] = t /\ 1 \in 1..1
      OBVIOUS
    <2>2. <<t>> \o y = x
      BY <1>1, <1>2, <1>5 DEF SomeBytes
    <2>3. /\ <<t>> \o y \in Seq(Nat) /\ Len(<<t>> \o y) = 1 + c
          /\ \A i \in 1..1 : (<<t>> \o y)[i] = <<t>>[i]
          /\ \A i \in 1..c : (<<t>> \o y)[1 + i] = y[i]
      BY <1>5, <2>1, Both
    <2> QED
      BY <2>1, <2>2, <2>3
  <1>7. PICK l \in Nat : Len(P) = l
    OBVIOUS
  <1>8. PICK X : /\ P \o x = X /\ Len(X) = l + (1 + c)
                 /\ \A i \in 1..(1 + c) : X[l + i] = x[i]
    <2>1. PICK m \in Nat : 1 + c = m
      OBVIOUS
    <2>2. Len(x) = m /\ x \in Seq(Nat)
      BY <1>6, <2>1
    <2>3. /\ Len(P \o x) = Len(P) + Len(x)
          /\ \A i \in 1..Len(x) : (P \o x)[Len(P) + i] = x[i]
      BY <2>2, Follows, Zenon
    <2>4. Len(P \o x) = l + m /\ \A i \in 1..m : (P \o x)[l + i] = x[i]
      BY <1>7, <2>2, <2>3
    <2> QED
      BY <2>1, <2>4
  <1>9. X[l + 1] = t /\ \A k \in 1..c : X[l + 1 + k] = y[k]
    <2>1. 1 \in 1..(1 + c) /\ \A k \in 1..c : 1 + k \in 1..(1 + c) /\ l + 1 + k = l + (1 + k)
      OBVIOUS
    <2> QED
      BY <1>6, <1>8, <2>1
  <1>10. Rank(t, Word) = c /\ \A i \in S : Rank(t, i) = Ordinal(S, i)
    BY <1>2, <1>3, <1>4 DEF Rank
  <1>11. ASSUME NEW i \in 1..Word
         PROVE  M[at + i] = IF i \in TagBits(t) THEN X[l + 1 + Rank(t, i)] ELSE 0
    <2>1. M[at + i] = w[i]
      BY <1>1 DEF Faces
    <2>2. CASE i \in S
      <3>1. Rank(t, i) \in 1..c /\ y[Rank(t, i)] = w[i]
        BY <1>4, <1>5, <1>10, <2>2
      <3>2. X[l + 1 + Rank(t, i)] = w[i]
        BY <1>9, <3>1
      <3> QED
        BY <1>2, <1>3, <2>1, <2>2, <3>2
    <2>3. CASE i \notin S
      <3>1. w[i] = 0
        BY <1>3, <2>3 DEF NonZero
      <3> QED
        BY <1>2, <1>3, <2>1, <2>3, <3>1
    <2> QED
      BY <2>2, <2>3
  <1>12. Some_token(X, M, l, at, l + (1 + c), at + Word, 0)
    <2>1. l + (1 + c) = l + 1 + c /\ l + (1 + c) >= l + 2
      BY <1>4
    <2> QED
      BY <1>2, <1>8, <1>9, <1>10, <1>11, <2>1 DEF Some_token
  <1>13. at + Word <= Len(M)
    <2>1. PICK k \in Nat : Len(s) = k
      OBVIOUS
    <2>2. PICK m \in Nat : Len(M) = m
      OBVIOUS
    <2>3. Word <= k /\ at + k <= m
      BY <1>1, <2>1, <2>2 DEF Faces
    <2> QED
      BY <2>2, <2>3, WordSize
  <1> QED
    BY <1>1, <1>5, <1>6, <1>7, <1>8, <1>12, <1>13 DEF Token

-----------------------------------------------------------------------------
\* The writer.

\* The packed bytes so far, and how many bytes of the message they stand for
\* once the raw run is through.
Sent == stream \o writer.out
At == Len(Joined(message, writer.seg)) - Len(writer.in)

\* The input is the end of a segment, and ends on a word behind its raw run.
Rest(segment, in, raw) ==
  /\ Len(in) <= Len(segment) /\ in = Drop(segment, Len(segment) - Len(in))
  /\ \E m \in Nat : Len(in) = raw + m * Word

WriterInv ==
  /\ message \in Messages
  /\ writer \in [pc: {"deflating", "done", "failed"}, seg: 1..Len(message),
                 in: Seq(Nat), out: Seq(Nat), raw: Nat, cap: Caps]
  /\ stream \in Seq(Nat)
  /\ Len(writer.out) <= writer.cap
  /\ Rest(message[writer.seg], writer.in, writer.raw)
  /\ writer.pc = "done" => writer.seg = Len(message) /\ writer.in = <<>>
  /\ writer.pc # "deflating" => writer.out = <<>>

LEMMA MessageFacts ==
  ASSUME NEW f \in Messages
  PROVE  /\ Len(f) \in Nat \ {0} /\ f \in [1..Len(f) -> Seq(Nat)]
         /\ \A k \in 1..Len(f) : \E m \in Nat : Len(f[k]) = m * Word
  <1>1. f \in Seq(Seq(Nat)) /\ f # <<>> /\ \A k \in DOMAIN f : Len(f[k]) % Word = 0
    BY PackingAssumption
  <1>2. Len(f) \in Nat \ {0} /\ f \in [1..Len(f) -> Seq(Nat)] /\ DOMAIN f = 1..Len(f)
    BY <1>1
  <1>3. ASSUME NEW k \in 1..Len(f) PROVE \E m \in Nat : Len(f[k]) = m * Word
    <2>1. PICK x \in Nat : Len(f[k]) = x
      <3>1. f[k] \in Seq(Nat)
        BY <1>2
      <3> QED
        BY <3>1
    <2>2. x % Word = 0
      BY <1>1, <1>2, <2>1
    <2>3. PICK W \in Nat \ {0} : W = Word
      BY WordSize
    <2>4. x = (x \div W) * W + (x % W)
      BY Z3
    <2>5. x \div W \in Nat
      OBVIOUS
    <2>6. x = (x \div Word) * Word
      <3>1. PICK y \in Nat : y = x \div W
        BY <2>5
      <3>2. x % W = 0
        BY <2>2, <2>3
      <3>3. x = y * W
        BY <2>4, <3>1, <3>2
      <3> QED
        BY <2>3, <3>1, <3>3
    <2> QED
      BY <2>1, <2>3, <2>5, <2>6
  <1> QED
    BY <1>2, <1>3

LEMMA JoinedFacts ==
  ASSUME NEW f \in Messages
  PROVE  /\ Joined(f, 0) = <<>> /\ \A k \in 0..Len(f) : Joined(f, k) \in Seq(Nat)
         /\ \A k \in 1..Len(f) : Len(Joined(f, k)) = Len(Joined(f, k - 1)) + Len(f[k])
  <1>1. PICK n \in Nat : Len(f) = n /\ f \in [1..n -> Seq(Nat)]
    BY MessageFacts
  <1>2. /\ Joined(f, 0) = <<>>
        /\ \A k \in 0..n : Joined(f, k) \in Seq(Nat)
        /\ \A k \in 1..n : Joined(f, k) = Joined(f, k - 1) \o f[k]
    BY <1>1, JoinedNext
  <1>3. ASSUME NEW k \in 1..n PROVE Len(Joined(f, k)) = Len(Joined(f, k - 1)) + Len(f[k])
    <2>0. k - 1 \in 0..n /\ k \in 1..n
      OBVIOUS
    <2>1. Joined(f, k - 1) \in Seq(Nat) /\ f[k] \in Seq(Nat)
      BY <1>1, <1>2, <2>0
    <2>2. Len(Joined(f, k - 1) \o f[k]) = Len(Joined(f, k - 1)) + Len(f[k])
      BY <2>1, Follows, Zenon
    <2> QED
      BY <1>2, <2>2
  <1> QED
    BY <1>1, <1>2, <1>3

\* What is left of segment k is in its place in the message.
LEMMA InPlace ==
  ASSUME NEW f \in Messages, NEW k \in 1..Len(f), NEW in \in Seq(Nat), NEW raw, Rest(f[k], in, raw)
  PROVE  /\ Len(Joined(f, k)) - Len(in) \in Nat
         /\ Len(Joined(f, k)) <= Len(Joined(f, Len(f)))
         /\ Faces(Joined(f, Len(f)), Len(Joined(f, k)) - Len(in), in)
  <1>1. PICK n \in Nat \ {0} : Len(f) = n /\ f \in [1..n -> Seq(Nat)]
    BY MessageFacts
  <1>20. k \in 1..n /\ k - 1 \in 0..n /\ k \in 0..n /\ n \in 0..n
    BY <1>1
  <1>21. /\ \A i \in 0..n : Joined(f, i) \in Seq(Nat)
         /\ \A i \in 1..n : Joined(f, i) = Joined(f, i - 1) \o f[i]
    BY <1>1, JoinedNext
  <1>2. PICK g \in Seq(Nat) : f[k] = g
    BY <1>1, <1>20
  <1>3. PICK j \in Seq(Nat) : Joined(f, k - 1) = j
    BY <1>20, <1>21
  <1>4. PICK h \in Seq(Nat) : Joined(f, k) = h /\ j \o g = h
    BY <1>2, <1>3, <1>20, <1>21
  <1>5. PICK w \in Seq(Nat) : Joined(f, n) = w
    BY <1>20, <1>21
  <1>22. /\ Len(Joined(f, k)) <= Len(Joined(f, n))
         /\ \A i \in 1..Len(Joined(f, k)) : Joined(f, n)[i] = Joined(f, k)[i]
    BY <1>1, <1>20, JoinedPrefix
  <1>6. Len(h) <= Len(w) /\ \A i \in 1..Len(h) : w[i] = h[i]
    BY <1>4, <1>5, <1>22
  <1>7. Len(h) = Len(j) + Len(g) /\ \A i \in 1..Len(g) : h[Len(j) + i] = g[i]
    <2>1. Len(j \o g) = Len(j) + Len(g) /\ \A i \in 1..Len(g) : (j \o g)[Len(j) + i] = g[i]
      BY Follows, Zenon
    <2> QED
      BY <1>4, <2>1
  <1>8. PICK a \in Nat : Len(in) = a
    OBVIOUS
  <1>9. PICK b \in Nat : Len(g) = b /\ a <= b
    BY <1>2, <1>8 DEF Rest
  <1>10. PICK d \in Nat : b = d + a
    <2>1. b - a \in Nat /\ b = (b - a) + a
      BY <1>9
    <2> QED
      BY <2>1
  <1>11. in = Drop(g, d)
    <2>1. b - a = d
      BY <1>10
    <2> QED
      BY <1>2, <1>8, <1>9, <2>1 DEF Rest
  <1>12. \A i \in 1..a : in[i] = g[d + i]
    <2>1. d <= Len(g) /\ Len(g) - d = a
      BY <1>9, <1>10
    <2>2. \A i \in 1..(Len(g) - d) : Drop(g, d)[i] = g[d + i]
      BY <2>1, DropFacts
    <2> QED
      BY <1>11, <2>1, <2>2
  <1>13. PICK l \in Nat : Len(j) = l
    OBVIOUS
  <1>14. PICK e \in Nat : Len(h) = e /\ e = l + b
    BY <1>7, <1>9, <1>13
  <1>15. ASSUME NEW i \in 1..a PROVE w[(e - a) + i] = in[i]
    <2>1. (e - a) + i = l + (d + i) /\ d + i \in 1..b /\ l + (d + i) \in 1..e
      BY <1>10, <1>14
    <2>2. w[l + (d + i)] = h[l + (d + i)] /\ h[l + (d + i)] = g[d + i]
      BY <1>6, <1>7, <1>9, <1>13, <1>14, <2>1
    <2> QED
      BY <1>12, <2>1, <2>2
  <1>16. PICK m \in Nat : Len(w) = m
    OBVIOUS
  <1>17. e - a \in Nat /\ (e - a) + a <= m
    BY <1>6, <1>10, <1>14, <1>16
  <1>18. Faces(w, e - a, in)
    BY <1>8, <1>15, <1>16, <1>17 DEF Faces
  <1> QED
    BY <1>1, <1>4, <1>5, <1>6, <1>8, <1>14, <1>17, <1>18

LEMMA Assoc ==
  \A s \in Seq(Nat), t \in Seq(Nat), u \in Seq(Nat) : (s \o t) \o u = s \o (t \o u)
  <1>1. ASSUME NEW S
        PROVE  \A s \in Seq(S), t \in Seq(S), u \in Seq(S) : (s \o t) \o u = s \o (t \o u)
    BY ConcatAssociative
  <1> QED
    BY <1>1, SMTT(60)

\* A step of capn_deflate that takes n bytes, writes x and leaves a run of r.
LEMMA PutKeeps ==
  ASSUME WriterInv, writer.pc = "deflating", NEW n \in Nat, NEW x \in Seq(Nat), NEW r \in Nat,
         Put(n, x, r), Len(x) <= Room, NEW m \in Nat, Len(writer.in) = n + (r + m * Word)
  PROVE  /\ WriterInv' /\ Sent' = Sent \o x /\ At' = At + n /\ writer'.raw = r
         /\ Plain' = Plain /\ reader' = reader /\ stream' = stream /\ message' = message
         /\ writer'.pc = "deflating"
  <1>1. /\ writer' = [writer EXCEPT !.in = Drop(@, n), !.out = @ \o x, !.raw = r]
        /\ UNCHANGED <<message, stream, reader>>
    BY DEF Put
  <1>2. writer \in [pc: {"deflating", "done", "failed"}, seg: 1..Len(message),
                    in: Seq(Nat), out: Seq(Nat), raw: Nat, cap: Caps]
    BY DEF WriterInv
  <1>3. PICK s \in Seq(Nat) : writer.in = s
    BY <1>2
  <1>4. PICK k \in Nat : Len(s) = k
    OBVIOUS
  <1>5. m * Word \in Nat /\ n <= k /\ k - n = r + m * Word
    <2>1. PICK a \in Nat : m * Word = a
      BY WordSize
    <2>2. k = n + (r + a)
      BY <1>3, <1>4, <2>1
    <2> QED
      BY <2>1, <2>2
  <1>6. PICK t \in Seq(Nat) : Drop(s, n) = t /\ Len(t) = k - n
    BY <1>4, <1>5, DropFacts
  <1>7. PICK o \in Seq(Nat) : writer.out \o x = o /\ Len(o) = Len(writer.out) + Len(x)
    <2>1. writer.out \in Seq(Nat)
      BY <1>2
    <2> QED
      BY <2>1, Both
  <1>8. /\ writer'.pc = "deflating" /\ writer'.seg = writer.seg /\ writer'.in = t
        /\ writer'.out = o /\ writer'.raw = r /\ writer'.cap = writer.cap
    BY <1>1, <1>2, <1>3, <1>6, <1>7
  <1>9. writer' \in [pc: {"deflating", "done", "failed"}, seg: 1..Len(message),
                     in: Seq(Nat), out: Seq(Nat), raw: Nat, cap: Caps]
    BY <1>1, <1>2, <1>3, <1>6, <1>7
  <1>10. Len(o) <= writer.cap
    <2>1. writer.cap \in Nat /\ Len(writer.out) \in Nat /\ Len(x) \in Nat
      BY <1>2, PackingAssumption
    <2> QED
      BY <1>7, <2>1 DEF Room
  <1>11. message \in Messages /\ stream \in Seq(Nat) /\ Rest(message[writer.seg], s, writer.raw)
    BY <1>3 DEF WriterInv
  <1>12. PICK g \in Seq(Nat) : message[writer.seg] = g
    BY <1>2, <1>11, MessageFacts
  <1>13. Rest(g, t, r)
    <2>1. PICK l \in Nat : Len(g) = l
      OBVIOUS
    <2>2. k <= l /\ s = Drop(g, l - k)
      BY <1>4, <1>11, <1>12, <2>1 DEF Rest
    <2>3. (l - k) \in Nat /\ (l - k) + n <= l /\ (l - k) + n = l - (k - n)
      BY <1>5, <2>2
    <2>4. Drop(Drop(g, l - k), n) = Drop(g, (l - k) + n)
      BY <2>1, <2>3, DropDrop
    <2>5. t = Drop(g, l - (k - n))
      BY <1>6, <2>2, <2>3, <2>4
    <2>6. k - n <= l
      BY <1>5, <2>2
    <2> QED
      BY <1>5, <1>6, <2>1, <2>5, <2>6 DEF Rest
  <1>14. WriterInv'
    BY <1>1, <1>8, <1>9, <1>10, <1>11, <1>12, <1>13 DEF WriterInv
  <1>15. Sent' = Sent \o x
    <2>1. PICK a, b \in Seq(Nat) : stream = a /\ writer.out = b
      BY <1>2, <1>11
    <2>3. (a \o b) \o x = a \o (b \o x)
      BY Assoc, ZenonT(60)
    <2>2. (stream \o writer.out) \o x = stream \o (writer.out \o x)
      BY <2>1, <2>3
    <2> QED
      BY <1>1, <1>7, <1>8, <2>2 DEF Sent
  <1>16. At' = At + n
    <2>0. writer.seg \in 0..Len(message)
      BY <1>2, <1>11, MessageFacts
    <2>4. Joined(message, writer.seg) \in Seq(Nat)
      BY <1>11, <2>0, JoinedFacts
    <2>1. PICK j \in Nat : Len(Joined(message, writer.seg)) = j
      BY <2>4
    <2>2. At' = j - (k - n)
      BY <1>1, <1>6, <1>8, <2>1 DEF At
    <2>3. At = j - k
      BY <1>3, <1>4, <2>1 DEF At
    <2> QED
      BY <2>2, <2>3
  <1> QED
    BY <1>1, <1>8, <1>14, <1>15, <1>16 DEF Plain

\* The points of C are what the packed bytes so far stand for.
Meant(C) == Meaning(C, Sent, Plain) /\ End(C, Sent, At, writer.raw)

LEMMA AtFacts ==
  ASSUME WriterInv
  PROVE  /\ Sent \in Seq(Nat) /\ Plain \in Seq(Nat) /\ At \in Nat /\ writer.in \in Seq(Nat)
         /\ Faces(Plain, At, writer.in) /\ At + Len(writer.in) = Len(Joined(message, writer.seg))
  <1>1. /\ message \in Messages /\ stream \in Seq(Nat) /\ writer.out \in Seq(Nat)
        /\ writer.in \in Seq(Nat) /\ writer.seg \in 1..Len(message)
        /\ Rest(message[writer.seg], writer.in, writer.raw)
    BY DEF WriterInv
  <1>2. Sent \in Seq(Nat)
    BY <1>1, Both DEF Sent
  <1>3. /\ At \in Nat /\ Faces(Plain, At, writer.in)
    BY <1>1, InPlace DEF At, Plain
  <1>4. Len(message) \in Nat
    BY <1>1, MessageFacts
  <1>5. Len(message) \in 0..Len(message) /\ writer.seg \in 0..Len(message)
    BY <1>1, <1>4
  <1>6. Plain \in Seq(Nat) /\ Joined(message, writer.seg) \in Seq(Nat)
    BY <1>1, <1>5, JoinedFacts DEF Plain
  <1>7. At + Len(writer.in) = Len(Joined(message, writer.seg))
    <2>1. PICK j \in Nat : Len(Joined(message, writer.seg)) = j
      BY <1>6
    <2>2. PICK k \in Nat : Len(writer.in) = k
      BY <1>1
    <2> QED
      BY <2>1, <2>2 DEF At
  <1> QED
    BY <1>1, <1>2, <1>3, <1>6, <1>7

\* What a step of capn_deflate does: the packed bytes go on meaning the message.
Deflated(C) ==
  /\ WriterInv' /\ message' = message /\ reader' = reader /\ stream' = stream
  /\ writer'.pc = "deflating"
  /\ \E D : C \subseteq D /\ Meant(D)'

\* A step that writes one token.
LEMMA TokenPut ==
  ASSUME WriterInv, writer.pc = "deflating", writer.raw = 0,
         NEW n \in Nat, NEW x \in Seq(Nat), NEW r \in Nat,
         Put(n, x, r), Len(x) <= Room, NEW m \in Nat, Len(writer.in) = n + (r + m * Word),
         r <= MaxCount * Word, At + n <= Len(Plain),
         Token(Sent \o x, Plain, Len(Sent), At, Len(Sent) + Len(x), At + n, r),
         NEW C, Meant(C)
  PROVE  Deflated(C)
  <1>1. /\ WriterInv' /\ Sent' = Sent \o x /\ At' = At + n /\ writer'.raw = r
        /\ Plain' = Plain /\ reader' = reader /\ stream' = stream /\ message' = message
        /\ writer'.pc = "deflating"
    BY PutKeeps
  <1>2. PICK P \in Seq(Nat), M \in Seq(Nat), at \in Nat : Sent = P /\ Plain = M /\ At = at
    BY AtFacts
  <1>3. PICK at2 \in Nat : at + n = at2
    OBVIOUS
  <1>4. /\ Meaning(C, P, M) /\ End(C, P, at, 0)
        /\ Token(P \o x, M, Len(P), at, Len(P) + Len(x), at2, r) /\ at2 <= Len(M)
    BY <1>2, <1>3 DEF Meant
  <1>5. PICK C2 : Meaning(C2, P \o x, M) /\ End(C2, P \o x, at2, r) /\ C \subseteq C2
    BY <1>4, GrowToken
  <1>6. Meant(C2)'
    BY <1>1, <1>2, <1>3, <1>5 DEF Meant
  <1> QED
    BY <1>1, <1>5, <1>6 DEF Deflated

\* What the writer is at when a word fits.
LEMMA FitsFacts ==
  ASSUME WriterInv, Fits
  PROVE  /\ writer.pc = "deflating" /\ writer.raw = 0
         /\ \E n \in Nat \ {0} : Len(writer.in) = n * Word
  <1>1. writer.pc = "deflating" /\ writer.raw = 0 /\ writer.in # <<>> /\ Len(writer.in) >= Word
    BY DEF Fits, Deflating
  <1>2. writer.in \in Seq(Nat) /\ Rest(message[writer.seg], writer.in, writer.raw)
    BY DEF WriterInv
  <1>3. PICK m \in Nat : Len(writer.in) = 0 + m * Word
    BY <1>1, <1>2 DEF Rest
  <1>4. PICK k \in Nat : Len(writer.in) = k /\ k >= 2
    BY <1>1, <1>2, WordSize
  <1>5. m # 0
    <2>1. SUFFICES ASSUME m = 0 PROVE FALSE
      OBVIOUS
    <2>2. m * Word = 0
      BY <2>1, WordSize
    <2> QED
      BY <1>3, <1>4, <2>2
  <1>6. m * Word \in Nat
    BY WordSize
  <1> QED
    BY <1>1, <1>3, <1>5, <1>6

LEMMA ZerosStep ==
  ASSUME WriterInv, deflate_zeros, NEW C, Meant(C)
  PROVE  Deflated(C)
  <1>1. /\ Fits /\ AllZero(WordAt(writer.in, 0))
        /\ Put(Zeros(writer.in) * Word, <<0, Zeros(writer.in) - 1>>, 0)
    BY DEF deflate_zeros, NextWord
  <1>2. PICK k \in Nat \ {0} : Len(writer.in) = k * Word
    BY <1>1, FitsFacts
  <1>3. writer.pc = "deflating" /\ writer.raw = 0
    BY <1>1, FitsFacts
  <1>4. PICK P \in Seq(Nat), M \in Seq(Nat), at \in Nat, s \in Seq(Nat) :
          Sent = P /\ Plain = M /\ At = at /\ writer.in = s /\ Faces(M, at, s)
    BY AtFacts
  <1>5. PICK z \in 1..k : Zeros(s) = z
    BY <1>1, <1>2, <1>4, ZerosFacts
  <1>6. PICK x : ZerosBytes(s) = x
    OBVIOUS
  <1>7. /\ x \in Seq(Nat) /\ at + Zeros(s) * Word <= Len(M)
        /\ Token(P \o x, M, Len(P), at, Len(P) + Len(x), at + Zeros(s) * Word, 0)
    BY <1>1, <1>2, <1>4, <1>6, ZerosWritten
  <1>8. PICK n \in Nat : z * Word = n
    BY WordSize
  <1>15. PICK r \in Nat : 0 = r
    OBVIOUS
  <1>9. Len(x) = 2 /\ Put(n, x, r)
    BY <1>1, <1>4, <1>5, <1>6, <1>8, <1>15 DEF ZerosBytes
  <1>10. Len(x) <= Room
    BY <1>1, <1>9 DEF Fits, Needed, NextWord
  <1>11. PICK m \in Nat : k = z + m
    <2>1. k - z \in Nat /\ k = z + (k - z)
      OBVIOUS
    <2> QED
      BY <2>1
  <1>12. Len(writer.in) = n + (r + m * Word)
    <2>1. (z + m) * Word = z * Word + m * Word /\ m * Word \in Nat
      BY WordSize
    <2> QED
      BY <1>2, <1>8, <1>11, <1>15, <2>1
  <1>13. r <= MaxCount * Word
    BY <1>15, WordSize
  <1>14. At + n <= Len(Plain) /\ Token(Sent \o x, Plain, Len(Sent), At, Len(Sent) + Len(x), At + n, r)
    BY <1>4, <1>15, <1>5, <1>7, <1>8
  <1> QED
    BY <1>3, <1>7, <1>9, <1>10, <1>12, <1>13, <1>14, TokenPut

LEMMA FullStep ==
  ASSUME WriterInv, deflate_full, NEW C, Meant(C)
  PROVE  Deflated(C)
  <1>1. /\ Fits /\ ZeroBytes(WordAt(writer.in, 0)) = {}
        /\ Put(Word, FullBytes(writer.in), Extra(writer.in) * Word)
    BY DEF deflate_full, NextWord, FullBytes
  <1>2. PICK k \in Nat \ {0} : Len(writer.in) = k * Word
    BY <1>1, FitsFacts
  <1>3. writer.pc = "deflating" /\ writer.raw = 0
    BY <1>1, FitsFacts
  <1>4. PICK P \in Seq(Nat), M \in Seq(Nat), at \in Nat, s \in Seq(Nat) :
          Sent = P /\ Plain = M /\ At = at /\ writer.in = s /\ Faces(M, at, s)
    BY AtFacts
  <1>5. PICK e \in 0..MaxCount : Extra(s) = e /\ e <= k - 1
    BY <1>2, <1>4, ExtraFacts
  <1>6. PICK x : FullBytes(s) = x
    OBVIOUS
  <1>7. /\ x \in Seq(Nat) /\ Len(x) = Word + 2 /\ at + Word <= Len(M)
        /\ Extra(s) * Word <= MaxCount * Word
        /\ Token(P \o x, M, Len(P), at, Len(P) + Len(x), at + Word, Extra(s) * Word)
    BY <1>1, <1>2, <1>4, <1>6, FullWritten
  <1>8. PICK r \in Nat : e * Word = r
    BY WordSize
  <1>9. Put(Word, x, r)
    BY <1>1, <1>4, <1>5, <1>6, <1>8
  <1>10. Len(x) <= Room
    <2>1. ~AllZero(WordAt(s, 0))
      <3>1. WordAt(s, 0) \in Seq(Nat) /\ 1 \in 1..Word
        BY <1>2, <1>4, FirstWord, WordSize
      <3> QED
        BY <1>1, <1>4, <3>1 DEF AllZero, NonZero, ZeroBytes
    <2> QED
      BY <1>1, <1>4, <1>7, <2>1 DEF Fits, Needed, NextWord
  <1>11. PICK m \in Nat : k = 1 + (e + m)
    <2>1. (k - 1) - e \in Nat /\ k = 1 + (e + ((k - 1) - e))
      BY <1>5
    <2> QED
      BY <2>1
  <1>12. Len(writer.in) = Word + (r + m * Word)
    <2>1. (1 + (e + m)) * Word = Word + (e * Word + m * Word) /\ m * Word \in Nat
      BY WordSize
    <2> QED
      BY <1>2, <1>8, <1>11, <2>1
  <1>13. r <= MaxCount * Word /\ Word \in Nat
    BY <1>5, <1>7, <1>8, WordSize
  <1>14. At + Word <= Len(Plain)
         /\ Token(Sent \o x, Plain, Len(Sent), At, Len(Sent) + Len(x), At + Word, r)
    BY <1>4, <1>5, <1>7, <1>8
  <1> QED
    BY <1>3, <1>7, <1>9, <1>10, <1>12, <1>13, <1>14, TokenPut

LEMMA SomeStep ==
  ASSUME WriterInv, deflate_some, NEW C, Meant(C)
  PROVE  Deflated(C)
  <1>1. /\ Fits /\ ~AllZero(WordAt(writer.in, 0)) /\ ZeroBytes(WordAt(writer.in, 0)) # {}
        /\ Put(Word, SomeBytes(writer.in), 0)
    BY DEF deflate_some, NextWord, SomeBytes
  <1>2. PICK k \in Nat \ {0} : Len(writer.in) = k * Word
    BY <1>1, FitsFacts
  <1>3. writer.pc = "deflating" /\ writer.raw = 0
    BY <1>1, FitsFacts
  <1>4. PICK P \in Seq(Nat), M \in Seq(Nat), at \in Nat, s \in Seq(Nat) :
          Sent = P /\ Plain = M /\ At = at /\ writer.in = s /\ Faces(M, at, s)
    BY AtFacts
  <1>6. PICK x : SomeBytes(s) = x
    OBVIOUS
  <1>7. /\ x \in Seq(Nat) /\ at + Word <= Len(M) /\ Len(x) = 1 + Len(Packed(WordAt(s, 0)))
        /\ Token(P \o x, M, Len(P), at, Len(P) + Len(x), at + Word, 0)
    <2>1. ~AllZero(WordAt(s, 0)) /\ ZeroBytes(WordAt(s, 0)) # {} /\ Len(s) = k * Word
      BY <1>1, <1>2, <1>4
    <2> QED
      BY <1>4, <1>6, <2>1, SomeWritten, ZenonT(90)
  <1>15. PICK r \in Nat : 0 = r
    OBVIOUS
  <1>9. Put(Word, x, r)
    BY <1>1, <1>4, <1>6, <1>15
  <1>10. Len(x) <= Room
    BY <1>1, <1>4, <1>7 DEF Fits, Needed, NextWord
  <1>11. PICK m \in Nat : k = 1 + m
    <2>1. k - 1 \in Nat /\ k = 1 + (k - 1)
      OBVIOUS
    <2> QED
      BY <2>1
  <1>12. Len(writer.in) = Word + (r + m * Word)
    <2>1. (1 + m) * Word = Word + m * Word /\ m * Word \in Nat
      BY WordSize
    <2> QED
      BY <1>2, <1>11, <1>15, <2>1
  <1>13. r <= MaxCount * Word /\ Word \in Nat
    BY <1>15, WordSize
  <1>14. At + Word <= Len(Plain)
         /\ Token(Sent \o x, Plain, Len(Sent), At, Len(Sent) + Len(x), At + Word, r)
    BY <1>4, <1>7, <1>15
  <1> QED
    BY <1>3, <1>7, <1>9, <1>10, <1>12, <1>13, <1>14, TokenPut

LEMMA RawStep ==
  ASSUME WriterInv, deflate_raw, NEW C, Meant(C)
  PROVE  Deflated(C)
  <1>1. PICK s \in Seq(Nat), raw \in Nat, room \in Nat :
          writer.in = s /\ writer.raw = raw /\ Room = room /\ room > 0 /\ raw > 0
    <2>1. writer.in \in Seq(Nat) /\ writer.raw \in Nat /\ writer.raw > 0 /\ Room > 0
      BY DEF WriterInv, deflate_raw
    <2>2. writer.cap \in Nat /\ Len(writer.out) \in Nat
      BY PackingAssumption DEF WriterInv
    <2>3. Room \in Nat
      BY <2>1, <2>2 DEF Room
    <2> QED
      BY <2>1, <2>3
  <1>2. PICK k \in Nat : Len(s) = k
    OBVIOUS
  <1>3. PICK n : n = Least(raw, Least(k, room))
    OBVIOUS
  <1>4. n \in Nat /\ n <= raw /\ n <= k /\ n <= room
    BY <1>3 DEF Least
  <1>5. PICK x \in Seq(Nat) : Take(s, n) = x /\ Len(x) = n /\ \A i \in 1..n : x[i] = s[i]
    BY <1>2, <1>4, TakeFacts
  <1>6. PICK r \in Nat : raw - n = r
    BY <1>4
  <1>7. writer.pc = "deflating" /\ Put(n, x, r)
    BY <1>1, <1>2, <1>3, <1>5, <1>6 DEF deflate_raw, Deflating
  <1>8. PICK m \in Nat : Len(s) = raw + m * Word
    BY <1>1 DEF WriterInv, Rest
  <1>9. Len(writer.in) = n + (r + m * Word)
    <2>1. PICK a \in Nat : m * Word = a
      BY WordSize
    <2>2. Len(s) = raw + a
      BY <1>8, <2>1
    <2> QED
      BY <1>1, <1>4, <1>6, <2>1, <2>2
  <1>10. Len(x) <= Room
    BY <1>1, <1>4, <1>5
  <1>11. /\ WriterInv' /\ Sent' = Sent \o x /\ At' = At + n /\ writer'.raw = r
         /\ Plain' = Plain /\ reader' = reader /\ stream' = stream /\ message' = message
         /\ writer'.pc = "deflating"
    BY <1>4, <1>7, <1>9, <1>10, PutKeeps
  <1>12. PICK P \in Seq(Nat), M \in Seq(Nat), at \in Nat :
           Sent = P /\ Plain = M /\ At = at /\ Faces(M, at, s)
    BY <1>1, AtFacts
  <1>13. Meaning(C, P, M) /\ End(C, P, at, raw)
    BY <1>1, <1>12 DEF Meant
  <1>14. at + n <= Len(M) /\ \A i \in 1..n : M[at + i] = x[i]
    <2>1. at + k <= Len(M) /\ \A i \in 1..k : M[at + i] = s[i]
      BY <1>2, <1>12 DEF Faces
    <2>2. PICK l \in Nat : Len(M) = l
      OBVIOUS
    <2>3. at + n <= l
      BY <1>4, <2>1, <2>2
    <2>4. \A i \in 1..n : i \in 1..k
      BY <1>4
    <2> QED
      BY <1>5, <2>1, <2>2, <2>3, <2>4
  <1>15. /\ Len(x) <= raw /\ at + Len(x) <= Len(M) /\ \A i \in 1..Len(x) : M[at + i] = x[i]
    BY <1>4, <1>5, <1>14
  <1>16. PICK D : /\ Meaning(D, P \o x, M) /\ End(D, P \o x, at + Len(x), raw - Len(x))
                  /\ C \subseteq D
    BY <1>13, <1>15, GrowRun
  <1>17. Meant(D)'
    BY <1>5, <1>6, <1>11, <1>12, <1>16 DEF Meant
  <1> QED
    BY <1>11, <1>16, <1>17 DEF Deflated

\* A segment that nothing is packed of yet.
LEMMA WholeLeft ==
  ASSUME NEW f \in Messages, NEW k \in 1..Len(f), NEW t \in Seq(Nat), f[k] = t
  PROVE  Rest(t, t, 0)
  <1>1. PICK l \in Nat : Len(t) = l
    OBVIOUS
  <1>2. PICK m \in Nat : Len(t) = m * Word
    BY MessageFacts
  <1>3. t = Drop(t, l - l)
    <2>1. l - l = 0 /\ 0 \in Nat /\ 0 <= Len(t) /\ Len(t) - 0 = Len(t)
      BY <1>1
    <2>2. /\ Drop(t, 0) \in Seq(Nat) /\ Len(Drop(t, 0)) = Len(t)
          /\ \A i \in 1..Len(t) : Drop(t, 0)[i] = t[0 + i]
      <3>1. /\ Drop(t, 0) \in Seq(Nat) /\ Len(Drop(t, 0)) = Len(t) - 0
            /\ \A i \in 1..(Len(t) - 0) : Drop(t, 0)[i] = t[0 + i]
        BY <2>1, DropFacts
      <3> QED
        BY <2>1, <3>1
    <2>3. Drop(t, 0) = t
      BY <2>2, Same
    <2> QED
      BY <2>1, <2>3
  <1>4. Len(t) = 0 + m * Word
    <2>1. m * Word \in Nat
      BY WordSize
    <2> QED
      BY <1>2, <2>1
  <1> QED
    BY <1>1, <1>3, <1>4 DEF Rest

\* The writer's other steps write nothing.
LEMMA EmitChunkStep ==
  ASSUME WriterInv, emit_chunk, NEW C, Meant(C)
  PROVE  /\ WriterInv' /\ Meant(C)' /\ message' = message /\ reader' = reader
         /\ writer.pc = "deflating" /\ stream' = stream \o writer.out
  <1>1. /\ writer.pc = "deflating" /\ stream' = stream \o writer.out
        /\ writer' = [writer EXCEPT !.out = <<>>, !.raw = @,
             !.pc = IF writer.out = <<>> \/ Len(writer.in) % Word # 0 THEN "failed" ELSE @]
        /\ message' = message /\ reader' = reader
    BY DEF emit_chunk, Carried, NeedsRoom, Deflating
  <1>2. writer \in [pc: {"deflating", "done", "failed"}, seg: 1..Len(message),
                    in: Seq(Nat), out: Seq(Nat), raw: Nat, cap: Caps]
    BY DEF WriterInv
  <1>3. /\ writer'.pc \in {"deflating", "failed"} /\ writer'.seg = writer.seg
        /\ writer'.in = writer.in /\ writer'.out = <<>> /\ writer'.raw = writer.raw
        /\ writer'.cap = writer.cap
    BY <1>1, <1>2
  <1>4. writer' \in [pc: {"deflating", "done", "failed"}, seg: 1..Len(message),
                     in: Seq(Nat), out: Seq(Nat), raw: Nat, cap: Caps]
    <2>1. PICK pc \in {"deflating", "done", "failed"} :
            writer' = [writer EXCEPT !.out = <<>>, !.raw = writer.raw, !.pc = pc]
      BY <1>1, <1>2
    <2>2. <<>> \in Seq(Nat)
      OBVIOUS
    <2>3. PICK sg \in 1..Len(message), in \in Seq(Nat), out \in Seq(Nat), raw \in Nat, cap \in Caps :
            writer = [pc |-> writer.pc, seg |-> sg, in |-> in, out |-> out, raw |-> raw, cap |-> cap]
      BY <1>2
    <2>4. writer' = [pc |-> pc, seg |-> sg, in |-> in, out |-> <<>>, raw |-> raw, cap |-> cap]
      <3>1. writer.raw = raw
        BY <2>3
      <3>2. writer' = [[pc |-> writer.pc, seg |-> sg, in |-> in, out |-> out, raw |-> raw, cap |-> cap]
                        EXCEPT !.out = <<>>, !.raw = raw, !.pc = pc]
        BY <2>1, <2>3, <3>1, Zenon
      <3> QED
        BY <3>2
    <2> QED
      BY <2>2, <2>4
  <1>5. Len(writer'.out) <= writer'.cap
    <2>1. writer.cap \in Nat
      BY <1>2, PackingAssumption
    <2> QED
      BY <1>3, <2>1
  <1>6. Rest(message'[writer'.seg], writer'.in, writer'.raw)
    BY <1>1, <1>3 DEF WriterInv
  <1>7. PICK a, b \in Seq(Nat) : stream = a /\ writer.out = b
    BY DEF WriterInv
  <1>8. a \o b \in Seq(Nat) /\ (a \o b) \o <<>> = a \o b
    OBVIOUS
  <1>9. stream' \in Seq(Nat) /\ Sent' = Sent
    BY <1>1, <1>3, <1>7, <1>8 DEF Sent
  <1>10. WriterInv'
    BY <1>1, <1>3, <1>4, <1>5, <1>6, <1>9 DEF WriterInv
  <1>11. At' = At /\ Plain' = Plain
    BY <1>1, <1>3 DEF At, Plain
  <1> QED
    BY <1>1, <1>3, <1>9, <1>10, <1>11 DEF Meant

LEMMA EmitLastStep ==
  ASSUME WriterInv, emit_last, NEW C, Meant(C)
  PROVE  /\ WriterInv' /\ Meant(C)' /\ message' = message /\ reader' = reader
         /\ writer.pc = "deflating" /\ stream' = stream \o writer.out
  <1>1. /\ writer.pc = "deflating" /\ writer.in = <<>> /\ stream' = stream \o writer.out
        /\ writer' = IF writer.seg = Len(message)
                     THEN [writer EXCEPT !.pc = "done", !.out = <<>>]
                     ELSE [writer EXCEPT !.seg = @ + 1, !.in = message[writer.seg + 1],
                                         !.out = <<>>, !.raw = 0]
        /\ message' = message /\ reader' = reader
    BY DEF emit_last
  <1>2. writer \in [pc: {"deflating", "done", "failed"}, seg: 1..Len(message),
                    in: Seq(Nat), out: Seq(Nat), raw: Nat, cap: Caps]
    BY DEF WriterInv
  <1>3. message \in Messages /\ stream \in Seq(Nat)
        /\ Rest(message[writer.seg], writer.in, writer.raw)
    BY DEF WriterInv
  <1>4. writer.raw = 0
    <2>1. PICK m \in Nat : Len(writer.in) = writer.raw + m * Word
      BY <1>3 DEF Rest
    <2>2. PICK a \in Nat : m * Word = a
      BY WordSize
    <2>3. 0 = writer.raw + a
      BY <1>1, <2>1, <2>2
    <2> QED
      BY <1>2, <2>3
  <1>5. PICK a, b \in Seq(Nat) : stream = a /\ writer.out = b
    BY <1>2, <1>3
  <1>6. a \o b \in Seq(Nat) /\ (a \o b) \o <<>> = a \o b
    OBVIOUS
  <1>7. writer'.out = <<>> /\ writer'.cap = writer.cap
    BY <1>1, <1>2
  <1>8. stream' \in Seq(Nat) /\ Sent' = Sent /\ Plain' = Plain
    BY <1>1, <1>5, <1>6, <1>7 DEF Sent, Plain
  <1>9. writer.cap \in Nat /\ Len(writer'.out) <= writer'.cap
    BY <1>2, <1>7, PackingAssumption
  <1>13. PICK n \in Nat \ {0} : Len(message) = n
    BY <1>3, MessageFacts
  <1>10. PICK seg \in 1..n : Len(message) = n /\ writer.seg = seg
    BY <1>2, <1>13
  <1>11. CASE seg = n
    <2>1. /\ writer'.pc = "done" /\ writer'.seg = n /\ writer'.in = <<>> /\ writer'.raw = 0
          /\ writer' \in [pc: {"deflating", "done", "failed"}, seg: 1..Len(message),
                          in: Seq(Nat), out: Seq(Nat), raw: Nat, cap: Caps]
      BY <1>1, <1>2, <1>4, <1>10, <1>11
    <2>2. Rest(message'[writer'.seg], writer'.in, writer'.raw)
      BY <1>1, <1>3, <1>4, <1>10, <1>11, <2>1
    <2>3. WriterInv'
      BY <1>1, <1>3, <1>7, <1>8, <1>9, <1>10, <2>1, <2>2 DEF WriterInv
    <2>4. At' = At
      BY <1>1, <1>10, <1>11, <2>1 DEF At
    <2> QED
      BY <1>1, <1>4, <1>8, <2>1, <2>3, <2>4 DEF Meant
  <1>12. CASE seg # n
    <2>0. seg + 1 \in 1..n /\ (seg + 1) - 1 = seg /\ seg + 1 \in 0..n /\ seg \in 0..n
      BY <1>12
    <2>1. PICK f \in Messages : message = f
      BY <1>3
    <2>2. f \in [1..n -> Seq(Nat)] /\ Len(f) = n
      BY <1>10, <2>1, MessageFacts
    <2>3. PICK t \in Seq(Nat) : f[seg + 1] = t
      BY <2>0, <2>2
    <2>4. /\ writer'.pc = "deflating" /\ writer'.seg = seg + 1 /\ writer'.in = t /\ writer'.raw = 0
          /\ writer' \in [pc: {"deflating", "done", "failed"}, seg: 1..Len(message),
                          in: Seq(Nat), out: Seq(Nat), raw: Nat, cap: Caps]
      BY <1>1, <1>2, <1>10, <1>12, <2>0, <2>1, <2>3
    <2>5. PICK l \in Nat : Len(t) = l
      OBVIOUS
    <2>6. Rest(t, t, 0)
      BY <2>0, <2>2, <2>3, WholeLeft
    <2>7. Rest(message'[writer'.seg], writer'.in, writer'.raw)
      BY <1>1, <2>1, <2>3, <2>4, <2>6
    <2>8. WriterInv'
      BY <1>1, <1>3, <1>7, <1>8, <1>9, <2>4, <2>7 DEF WriterInv
    <2>9. At' = At
      <3>1. Joined(f, seg) \in Seq(Nat) /\ Joined(f, seg + 1) \in Seq(Nat)
            /\ Len(Joined(f, seg + 1)) = Len(Joined(f, seg)) + Len(f[seg + 1])
        BY <2>0, <2>2, JoinedFacts
      <3>2. PICK j \in Nat : Len(Joined(f, seg)) = j
        BY <3>1
      <3>3. Len(Joined(f, seg + 1)) = j + l
        BY <2>3, <2>5, <3>1, <3>2
      <3>4. At' = (j + l) - l
        BY <1>1, <2>1, <2>4, <2>5, <3>3 DEF At
      <3>5. At = j - 0
        BY <1>1, <1>10, <2>1, <3>2 DEF At
      <3> QED
        BY <3>4, <3>5
    <2> QED
      BY <1>1, <1>4, <1>8, <2>4, <2>8, <2>9 DEF Meant
  <1> QED
    BY <1>11, <1>12

-----------------------------------------------------------------------------
\* The reader.

\* What the reader has is what it was sent: `in` the last of the `taken` packed
\* bytes, `got` the beginning of the message, `buf` or `zeros` what comes next,
\* and what it has used up a point of C.
Holds(C, S, M, taken, in, zeros, raw, buf, got) ==
  /\ Len(in) <= ZBUF_SZ /\ Len(buf) <= Word /\ zeros <= (MaxCount + 1) * Word
  /\ taken <= Len(S) /\ Len(in) <= taken
  /\ \A i \in 1..Len(in) : in[i] = S[(taken - Len(in)) + i]
  /\ <<taken - Len(in), Len(got) + (Len(buf) + zeros), raw>> \in C
  /\ \A i \in 1..Len(got) : got[i] = M[i]
  /\ \A i \in 1..Len(buf) : buf[i] = M[Len(got) + i]
  /\ \A i \in 1..zeros : M[Len(got) + i] = 0
  /\ buf = <<>> \/ zeros = 0

\* More packed bytes, and the points that they bring, change nothing of that.
LEMMA HoldsLater ==
  ASSUME NEW C, NEW D, C \subseteq D, NEW S \in Seq(Nat), NEW x \in Seq(Nat), NEW M,
         NEW taken \in Nat, NEW in \in Seq(Nat), NEW zeros \in Nat, NEW raw \in Nat,
         NEW buf \in Seq(Nat), NEW got \in Seq(Nat),
         Holds(C, S, M, taken, in, zeros, raw, buf, got)
  PROVE  Holds(D, S \o x, M, taken, in, zeros, raw, buf, got)
  <1>1. PICK T \in Seq(Nat) : S \o x = T /\ Len(T) = Len(S) + Len(x) /\ \A i \in 1..Len(S) : T[i] = S[i]
    BY Both, ZenonT(60)
  <1>2. taken <= Len(T)
    <2>1. PICK a, b \in Nat : Len(S) = a /\ Len(x) = b
      OBVIOUS
    <2> QED
      BY <1>1, <2>1 DEF Holds
  <1>3. ASSUME NEW i \in 1..Len(in) PROVE in[i] = T[(taken - Len(in)) + i]
    <2>1. PICK k \in Nat : Len(in) = k
      OBVIOUS
    <2>2. k <= taken /\ taken <= Len(S) /\ Len(S) \in Nat
      BY <2>1 DEF Holds
    <2>3. (taken - k) + i \in 1..Len(S)
      BY <2>1, <2>2
    <2>4. in[i] = S[(taken - k) + i]
      BY <2>1 DEF Holds
    <2> QED
      BY <1>1, <2>1, <2>3, <2>4
  <1>4. <<taken - Len(in), Len(got) + (Len(buf) + zeros), raw>> \in D
    BY DEF Holds
  <1> QED
    BY <1>1, <1>2, <1>3, <1>4 DEF Holds

\* The n bytes of s are those of M behind the first `at`.
Copies(M, at, s, n) == Len(s) = n /\ \A i \in 1..n : s[i] = M[at + i]

\* The beginning of M and what follows it there.
LEMMA GotMore ==
  ASSUME NEW M, NEW got \in Seq(Nat), NEW t \in Seq(Nat), NEW g \in Nat, NEW n \in Nat,
         Copies(M, 0, got, g), Copies(M, g, t, n)
  PROVE  /\ got \o t \in Seq(Nat) /\ Len(got \o t) = g + n
         /\ \A i \in 1..(g + n) : (got \o t)[i] = M[i]
  <1>0. /\ Len(got) = g /\ Len(t) = n
        /\ (\A i \in 1..g : got[i] = M[0 + i]) /\ \A i \in 1..n : t[i] = M[g + i]
    BY DEF Copies
  <1>1. PICK h \in Seq(Nat) : got \o t = h
    BY Both
  <1>2. Len(h) = g + n /\ (\A i \in 1..g : h[i] = got[i]) /\ \A i \in 1..n : h[g + i] = t[i]
    <2>1. /\ Len(got \o t) = Len(got) + Len(t)
          /\ (\A i \in 1..Len(got) : (got \o t)[i] = got[i])
          /\ \A i \in 1..Len(t) : (got \o t)[Len(got) + i] = t[i]
      BY Both
    <2> QED
      BY <1>0, <1>1, <2>1
  <1>3. ASSUME NEW i \in 1..(g + n) PROVE h[i] = M[i]
    <2>1. CASE i <= g
      <3>1. i \in 1..g /\ 0 + i = i
        BY <2>1
      <3> QED
        BY <1>0, <1>2, <3>1
    <2>2. CASE i > g
      <3>1. PICK j \in 1..n : i = g + j
        <4>1. i - g \in 1..n /\ i = g + (i - g)
          BY <2>2
        <4> QED
          BY <4>1
      <3> QED
        BY <1>0, <1>2, <3>1
    <2> QED
      BY <2>1, <2>2
  <1> QED
    BY <1>1, <1>2, <1>3

Begins(M, s, n) == Len(s) = n /\ \A i \in 1..n : s[i] = M[i]

LEMMA GotMoreOf ==
  \A M : \A got \in Seq(Nat), t \in Seq(Nat), g \in Nat, n \in Nat :
    Copies(M, 0, got, g) /\ Copies(M, g, t, n) =>
      got \o t \in Seq(Nat) /\ Begins(M, got \o t, g + n)
  BY GotMore DEF Begins

\* capn_inflate gives from its buffer,
LEMMA GaveBuffered ==
  ASSUME NEW C, NEW S \in Seq(Nat), NEW M,
         NEW taken \in Nat, NEW in \in Seq(Nat), NEW zeros \in Nat, NEW raw \in Nat,
         NEW buf \in Seq(Nat), NEW got \in Seq(Nat), NEW n \in Nat, n <= Len(buf), buf # <<>>,
         Holds(C, S, M, taken, in, zeros, raw, buf, got)
  PROVE  Holds(C, S, M, taken, in, zeros, raw, Drop(buf, n), got \o Take(buf, n))
  <1>0. zeros = 0
    BY DEF Holds
  <1>1. PICK b, g \in Nat : Len(buf) = b /\ Len(got) = g
    OBVIOUS
  <1>2. PICK t \in Seq(Nat) : Take(buf, n) = t /\ Len(t) = n /\ \A i \in 1..n : t[i] = buf[i]
    BY TakeFacts
  <1>3. PICK d \in Seq(Nat) : Drop(buf, n) = d /\ Len(d) = b - n /\ \A i \in 1..(b - n) : d[i] = buf[n + i]
    BY <1>1, DropFacts, ZenonT(60)
  <1>4. /\ (\A i \in 1..g : got[i] = M[i]) /\ \A i \in 1..b : buf[i] = M[g + i]
    BY <1>1 DEF Holds
  <1>5. n <= b
    BY <1>1
  <1>6. \A i \in 1..n : t[i] = M[g + i]
    <2>1. \A i \in 1..n : i \in 1..b
      BY <1>5
    <2> QED
      BY <1>2, <1>4, <2>1
  <1>7. PICK h \in Seq(Nat) : got \o t = h /\ Len(h) = g + n /\ \A i \in 1..(g + n) : h[i] = M[i]
    <2>1. Copies(M, 0, got, g) /\ Copies(M, g, t, n)
      BY <1>1, <1>2, <1>4, <1>6 DEF Copies
    <2>2. got \o t \in Seq(Nat) /\ Begins(M, got \o t, g + n)
      BY <2>1, GotMoreOf
    <2> QED
      BY <2>2 DEF Begins
  <1>8. \A i \in 1..(b - n) : d[i] = M[(g + n) + i]
    <2>1. \A i \in 1..(b - n) : n + i \in 1..b /\ g + (n + i) = (g + n) + i
      BY <1>5
    <2> QED
      BY <1>3, <1>4, <2>1
  <1>9. <<taken - Len(in), (g + n) + ((b - n) + zeros), raw>> \in C
    <2>1. <<taken - Len(in), g + (b + zeros), raw>> \in C
      BY <1>1 DEF Holds
    <2>2. (g + n) + ((b - n) + zeros) = g + (b + zeros)
      OBVIOUS
    <2> QED
      BY <2>1, <2>2
  <1>10. b - n <= Word /\ b - n \in Nat
    <2>1. b <= Word
      BY <1>1 DEF Holds
    <2> QED
      BY <1>5, <2>1, WordSize
  <1>11. \A i \in 1..zeros : M[(g + n) + i] = 0
    BY <1>0
  <1>12. /\ Len(in) <= ZBUF_SZ /\ zeros <= (MaxCount + 1) * Word
         /\ taken <= Len(S) /\ Len(in) <= taken
         /\ \A i \in 1..Len(in) : in[i] = S[(taken - Len(in)) + i]
    BY DEF Holds
  <1>13. Holds(C, S, M, taken, in, zeros, raw, d, h)
    BY <1>0, <1>3, <1>7, <1>8, <1>9, <1>10, <1>11, <1>12 DEF Holds
  <1> QED
    BY <1>2, <1>3, <1>7, <1>13

\* from the zeros it has yet to give,
LEMMA GaveZeros ==
  ASSUME NEW C, NEW S \in Seq(Nat), NEW M,
         NEW taken \in Nat, NEW in \in Seq(Nat), NEW zeros \in Nat, NEW raw \in Nat,
         NEW got \in Seq(Nat), NEW n \in Nat, n <= zeros,
         Holds(C, S, M, taken, in, zeros, raw, <<>>, got)
  PROVE  Holds(C, S, M, taken, in, zeros - n, raw, <<>>, got \o [i \in 1..n |-> 0])
  <1>1. PICK g \in Nat : Len(got) = g
    OBVIOUS
  <1>2. PICK t \in Seq(Nat) : [i \in 1..n |-> 0] = t /\ Len(t) = n /\ \A i \in 1..n : t[i] = 0
    <2> DEFINE t == [i \in 1..n |-> 0]
    <2>1. t \in [1..n -> Nat] /\ \A i \in 1..n : t[i] = 0
      OBVIOUS
    <2> HIDE DEF t
    <2>2. t \in Seq(Nat) /\ Len(t) = n
      BY <2>1
    <2>3. [i \in 1..n |-> 0] = t
      BY DEF t
    <2> QED
      BY <2>1, <2>2, <2>3
  <1>3. /\ (\A i \in 1..g : got[i] = M[i]) /\ \A i \in 1..zeros : M[g + i] = 0
    BY <1>1 DEF Holds
  <1>4. \A i \in 1..n : t[i] = M[g + i]
    <2>1. \A i \in 1..n : i \in 1..zeros
      OBVIOUS
    <2> QED
      BY <1>2, <1>3, <2>1
  <1>5. PICK h \in Seq(Nat) : got \o t = h /\ Len(h) = g + n /\ \A i \in 1..(g + n) : h[i] = M[i]
    <2>1. Copies(M, 0, got, g) /\ Copies(M, g, t, n)
      BY <1>1, <1>2, <1>3, <1>4 DEF Copies
    <2>2. got \o t \in Seq(Nat) /\ Begins(M, got \o t, g + n)
      BY <2>1, GotMoreOf
    <2> QED
      BY <2>2 DEF Begins
  <1>6. PICK z \in Nat : zeros - n = z
    OBVIOUS
  <1>7. \A i \in 1..z : M[(g + n) + i] = 0
    <2>1. \A i \in 1..z : n + i \in 1..zeros /\ g + (n + i) = (g + n) + i
      BY <1>6
    <2> QED
      BY <1>3, <2>1
  <1>8. <<taken - Len(in), (g + n) + (0 + z), raw>> \in C
    <2>1. <<taken - Len(in), g + (0 + zeros), raw>> \in C
      BY <1>1 DEF Holds
    <2>2. (g + n) + (0 + z) = g + (0 + zeros)
      BY <1>6
    <2> QED
      BY <2>1, <2>2
  <1>9. z <= (MaxCount + 1) * Word
    <2>1. PICK a \in Nat : (MaxCount + 1) * Word = a
      BY WordSize
    <2>2. zeros <= a
      BY <2>1 DEF Holds
    <2> QED
      BY <1>6, <2>1, <2>2
  <1>10. /\ Len(in) <= ZBUF_SZ /\ taken <= Len(S) /\ Len(in) <= taken
         /\ \A i \in 1..Len(in) : in[i] = S[(taken - Len(in)) + i]
    BY DEF Holds
  <1>11. Holds(C, S, M, taken, in, z, raw, <<>>, h)
    BY <1>5, <1>7, <1>8, <1>9, <1>10, WordSize DEF Holds
  <1> QED
    BY <1>2, <1>5, <1>6, <1>11

\* and from a raw run in the input.
LEMMA GaveRaw ==
  ASSUME NEW C, NEW S \in Seq(Nat), NEW M, Meaning(C, S, M),
         NEW taken \in Nat, NEW in \in Seq(Nat), NEW raw \in Nat,
         NEW got \in Seq(Nat), NEW n \in Nat, n <= raw, n <= Len(in), n > 0,
         Holds(C, S, M, taken, in, 0, raw, <<>>, got)
  PROVE  Holds(C, S, M, taken, Drop(in, n), 0, raw - n, <<>>, got \o Take(in, n))
  <1>1. PICK g, k \in Nat : Len(got) = g /\ Len(in) = k
    OBVIOUS
  <1>2. PICK t \in Seq(Nat) : Take(in, n) = t /\ Len(t) = n /\ \A i \in 1..n : t[i] = in[i]
    BY TakeFacts
  <1>3. PICK d \in Seq(Nat) : Drop(in, n) = d /\ Len(d) = k - n /\ \A i \in 1..(k - n) : d[i] = in[n + i]
    BY <1>1, DropFacts, ZenonT(60)
  <1>4. /\ k <= taken /\ taken <= Len(S) /\ k <= ZBUF_SZ
        /\ \A i \in 1..k : in[i] = S[(taken - k) + i]
        /\ \A i \in 1..g : got[i] = M[i]
    BY <1>1 DEF Holds
  <1>5. PICK p \in Nat : taken - k = p
    BY <1>4
  <1>6. PICK r \in Nat : raw - n = r
    OBVIOUS
  <1>7. <<p, g, raw>> \in C
    <2>1. <<taken - k, g + (0 + 0), raw>> \in C
      BY <1>1 DEF Holds
    <2> QED
      BY <1>5, <2>1
  <1>8. Runs(C, S, M, p, g, raw)
    <2>1. raw > 0
      OBVIOUS
    <2> QED
      BY <1>7, <2>1 DEF Meaning
  <1>9. PICK l \in Nat : Len(S) = l
    OBVIOUS
  <1>10. p + n <= l /\ n <= k /\ taken = p + k
    BY <1>1, <1>4, <1>5, <1>9, SMTT(60)
  <1>11. ASSUME NEW i \in 1..n PROVE t[i] = M[g + i]
    <2>1. i \in 1..raw /\ p + i <= Len(S) /\ i \in 1..k
      BY <1>9, <1>10
    <2>2. S[p + i] = M[g + i]
      BY <1>8, <2>1 DEF Runs
    <2> QED
      BY <1>2, <1>4, <1>5, <2>1, <2>2
  <1>12. <<p + n, g + n, raw - n>> \in C
    <2>1. n \in 1..raw /\ p + n <= Len(S)
      BY <1>9, <1>10
    <2> QED
      BY <1>8, <2>1, RunsAt
  <1>13. PICK h \in Seq(Nat) : got \o t = h /\ Len(h) = g + n /\ \A i \in 1..(g + n) : h[i] = M[i]
    <2>1. Copies(M, 0, got, g) /\ Copies(M, g, t, n)
      BY <1>1, <1>2, <1>4, <1>11 DEF Copies
    <2>2. got \o t \in Seq(Nat) /\ Begins(M, got \o t, g + n)
      BY <2>1, GotMoreOf
    <2> QED
      BY <2>2 DEF Begins
  <1>14. PICK c \in Nat : k - n = c
    BY <1>10
  <1>15. taken - c = p + n /\ c <= taken /\ c <= k
    BY <1>10, <1>14
  <1>16. ASSUME NEW i \in 1..c PROVE d[i] = S[(p + n) + i]
    <2>1. n + i \in 1..k /\ p + (n + i) = (p + n) + i
      BY <1>10, <1>14
    <2> QED
      BY <1>3, <1>4, <1>5, <1>14, <2>1
  <1>17. c <= ZBUF_SZ
    BY <1>4, <1>15, PackingAssumption
  <1>18. Holds(C, S, M, taken, d, 0, r, <<>>, h)
    <2>1. <<taken - c, (g + n) + (0 + 0), r>> \in C
      BY <1>6, <1>12, <1>15
    <2>2. Len(d) = c /\ 0 <= (MaxCount + 1) * Word
      BY <1>3, <1>14, WordSize
    <2> QED
      BY <1>4, <1>13, <1>15, <1>16, <1>17, <2>1, <2>2, WordSize DEF Holds
  <1> QED
    BY <1>2, <1>3, <1>6, <1>13, <1>18

\* read_fp reads on.
LEMMA Refills ==
  ASSUME NEW C, NEW S \in Seq(Nat), NEW M,
         NEW taken \in Nat, NEW in \in Seq(Nat), NEW zeros \in Nat, NEW raw \in Nat,
         NEW buf \in Seq(Nat), NEW got \in Seq(Nat), NEW n \in Nat,
         Len(in) + n <= ZBUF_SZ, taken + n <= Len(S),
         Holds(C, S, M, taken, in, zeros, raw, buf, got)
  PROVE  /\ in \o SubSeq(S, taken + 1, taken + n) \in Seq(Nat)
         /\ Holds(C, S, M, taken + n, in \o SubSeq(S, taken + 1, taken + n), zeros, raw, buf, got)
  <1>1. PICK k \in Nat : Len(in) = k
    OBVIOUS
  <1>2. PICK t \in Seq(Nat) : /\ SubSeq(S, taken + 1, taken + n) = t /\ Len(t) = n
                              /\ \A i \in 1..n : t[i] = S[taken + i]
    <2>1. /\ SubSeq(S, taken + 1, taken + n) \in Seq(Nat)
          /\ Len(SubSeq(S, taken + 1, taken + n)) = (taken + n) - taken
          /\ \A i \in 1..((taken + n) - taken) : SubSeq(S, taken + 1, taken + n)[i] = S[taken + i]
      BY Parts
    <2>2. (taken + n) - taken = n
      OBVIOUS
    <2> QED
      BY <2>1, <2>2
  <1>3. PICK u \in Seq(Nat) : /\ in \o t = u /\ Len(u) = k + n
                              /\ (\A i \in 1..k : u[i] = in[i]) /\ \A i \in 1..n : u[k + i] = t[i]
    <2>1. /\ in \o t \in Seq(Nat) /\ Len(in \o t) = k + n
          /\ (\A i \in 1..k : (in \o t)[i] = in[i]) /\ \A i \in 1..n : (in \o t)[k + i] = t[i]
      <3>1. /\ in \o t \in Seq(Nat) /\ Len(in \o t) = Len(in) + Len(t)
            /\ (\A i \in 1..Len(in) : (in \o t)[i] = in[i])
            /\ \A i \in 1..Len(t) : (in \o t)[Len(in) + i] = t[i]
        BY Both
      <3> QED
        BY <1>1, <1>2, <3>1
    <2> QED
      BY <2>1, Zenon
  <1>4. k <= taken /\ \A i \in 1..k : in[i] = S[(taken - k) + i]
    BY <1>1 DEF Holds
  <1>5. PICK p \in Nat : taken - k = p
    BY <1>4
  <1>6. (taken + n) - (k + n) = p /\ k + n <= taken + n
    BY <1>4, <1>5
  <1>7. ASSUME NEW i \in 1..(k + n) PROVE u[i] = S[p + i]
    <2>1. CASE i <= k
      <3>1. i \in 1..k
        BY <2>1
      <3> QED
        BY <1>3, <1>4, <1>5, <3>1
    <2>2. CASE i > k
      <3>1. PICK j \in 1..n : i = k + j
        <4>1. i - k \in 1..n /\ i = k + (i - k)
          BY <2>2
        <4> QED
          BY <4>1
      <3>2. p + i = taken + j
        BY <1>4, <1>5, <3>1
      <3> QED
        BY <1>2, <1>3, <3>1, <3>2
    <2> QED
      BY <2>1, <2>2
  <1>8. <<p, Len(got) + (Len(buf) + zeros), raw>> \in C
    BY <1>1, <1>5 DEF Holds
  <1>9. k + n <= ZBUF_SZ /\ taken + n <= Len(S)
    BY <1>1
  <1>10. Holds(C, S, M, taken + n, u, zeros, raw, buf, got)
    <2>1. Len(u) = k + n
      BY <1>3
    <2>2. \A i \in 1..Len(u) : u[i] = S[((taken + n) - Len(u)) + i]
      BY <1>6, <1>7, <2>1
    <2>3. <<(taken + n) - Len(u), Len(got) + (Len(buf) + zeros), raw>> \in C
      BY <1>6, <1>8, <2>1
    <2>4. Len(u) <= ZBUF_SZ /\ Len(u) <= taken + n
      BY <1>6, <1>9, <2>1
    <2> QED
      BY <1>9, <2>2, <2>3, <2>4 DEF Holds
  <1> QED
    BY <1>2, <1>3, <1>10

-----------------------------------------------------------------------------
\* A tag is read with what goes with it.

LEMMA FullTagIs == FullTag \in Nat /\ FullTag # 0
  <1>1. PICK a \in Nat \ {0} : power[Word - 1] = a
    BY Powers, WordSize
  <1>2. power[Word] = 2 * a
    BY <1>1, Powers, WordSize
  <1> QED
    BY <1>2 DEF FullTag

HeaderOf(in) ==
  IF Len(in) < 2 \/ in[1] = 0 THEN 2
  ELSE IF in[1] = FullTag THEN Word + 2 ELSE 1 + Rank(in[1], Word)

Heads(S, p, in) == Len(in) >= 2 => in[1] = S[p + 1]

LEMMA HeaderIs ==
  ASSUME NEW S, NEW M, NEW p \in Nat, NEW q \in Nat, NEW p2 \in Nat, NEW q2 \in Nat, NEW r2 \in Nat,
         Token(S, M, p, q, p2, q2, r2), NEW in \in Seq(Nat), Heads(S, p, in)
  PROVE  /\ HeaderOf(in) \in Nat /\ p + HeaderOf(in) <= p2 /\ p2 <= p + (Word + 2)
         /\ Len(in) >= 2 => p2 = p + HeaderOf(in)
  <1>1. PICK t : S[p + 1] = t
    OBVIOUS
  <1>2. Rank(t, Word) \in 0..Word
    <2>1. PICK B \in SUBSET (1..Word) : TagBits(t) = B
      BY DEF TagBits
    <2>2. Cardinality(B) \in Nat /\ Cardinality(B) <= Word /\ Ordinal(B, Word) = Cardinality(B)
      BY OrdinalFacts
    <2> QED
      BY <2>1, <2>2, WordSize DEF Rank
  <1>8. Len(in) >= 2 => in[1] = t
    BY <1>1 DEF Heads
  <1>3. PICK k \in Nat : Len(in) = k
    OBVIOUS
  <1>4. PICK d \in Nat : p2 = p + d /\ d >= 2
    <2>1. p2 >= p + 2
      BY TokenLonger
    <2>2. p2 - p \in Nat /\ p2 = p + (p2 - p) /\ p2 - p >= 2
      BY <2>1
    <2> QED
      BY <2>2
  <1>5. CASE Zero_token(S, M, p, q, p2, q2, r2)
    <2>1. d = 2 /\ t = 0
      BY <1>1, <1>4, <1>5 DEF Zero_token
    <2>2. HeaderOf(in) = 2
      BY <1>1, <1>8, <2>1 DEF HeaderOf
    <2> QED
      BY <1>4, <2>1, <2>2, WordSize
  <1>6. CASE Full_token(S, M, p, q, p2, q2, r2)
    <2>1. d = Word + 2 /\ t = FullTag
      BY <1>1, <1>4, <1>6, WordSize DEF Full_token
    <2>2. HeaderOf(in) = IF k < 2 THEN 2 ELSE Word + 2
      BY <1>1, <1>3, <1>8, <2>1, FullTagIs DEF HeaderOf
    <2> QED
      BY <1>3, <1>4, <2>1, <2>2, WordSize
  <1>7. CASE Some_token(S, M, p, q, p2, q2, r2)
    <2>1. d = 1 + Rank(t, Word) /\ t # 0 /\ t # FullTag
      BY <1>1, <1>2, <1>4, <1>7 DEF Some_token
    <2>2. HeaderOf(in) = IF k < 2 THEN 2 ELSE 1 + Rank(t, Word)
      BY <1>1, <1>3, <1>8, <2>1 DEF HeaderOf
    <2> QED
      BY <1>2, <1>3, <1>4, <2>1, <2>2, WordSize, SMTT(60)
  <1> QED
    BY <1>5, <1>6, <1>7 DEF Token

\* The token that a reader with nothing pending is at.
Heading(C, S, M, taken, in, got, p, p2, q2, r2) ==
  /\ taken - Len(in) = p /\ (\A i \in 1..Len(in) : in[i] = S[p + i])
  /\ <<p2, q2, r2>> \in C /\ Token(S, M, p, Len(got), p2, q2, r2)
  /\ HeaderOf(in) \in Nat /\ p + HeaderOf(in) <= p2 /\ p2 <= p + (Word + 2)
  /\ Len(in) >= 2 => p2 = p + HeaderOf(in)

LEMMA AtToken ==
  ASSUME NEW C, NEW S \in Seq(Nat), NEW M, Meaning(C, S, M),
         NEW taken \in Nat, NEW in \in Seq(Nat), NEW got \in Seq(Nat),
         Holds(C, S, M, taken, in, 0, 0, <<>>, got), taken - Len(in) < Len(S)
  PROVE  \E p, p2, q2, r2 \in Nat : Heading(C, S, M, taken, in, got, p, p2, q2, r2)
  <1>1. PICK k, g \in Nat : Len(in) = k /\ Len(got) = g
    OBVIOUS
  <1>2. k <= taken /\ \A i \in 1..k : in[i] = S[(taken - k) + i]
    BY <1>1 DEF Holds
  <1>3. PICK p \in Nat : taken - k = p
    BY <1>2
  <1>4. <<p, g, 0>> \in C
    <2>1. <<taken - k, g + (0 + 0), 0>> \in C
      BY <1>1 DEF Holds
    <2> QED
      BY <1>3, <2>1
  <1>5. Reads(C, S, M, p, g)
    <2>1. 0 \in Nat /\ p < Len(S)
      BY <1>1, <1>3
    <2> QED
      BY <1>4, <2>1 DEF Meaning
  <1>6. PICK p2, q2, r2 \in Nat : <<p2, q2, r2>> \in C /\ Token(S, M, p, g, p2, q2, r2)
    BY <1>5 DEF Reads
  <1>7. k >= 2 => in[1] = S[p + 1]
    <2>1. k >= 2 => 1 \in 1..k
      OBVIOUS
    <2> QED
      BY <1>2, <1>3, <2>1
  <1>8. /\ HeaderOf(in) \in Nat /\ p + HeaderOf(in) <= p2 /\ p2 <= p + (Word + 2)
        /\ k >= 2 => p2 = p + HeaderOf(in)
    <2>1. Heads(S, p, in)
      BY <1>1, <1>7 DEF Heads
    <2>2. /\ HeaderOf(in) \in Nat /\ p + HeaderOf(in) <= p2 /\ p2 <= p + (Word + 2)
          /\ Len(in) >= 2 => p2 = p + HeaderOf(in)
      BY <1>6, <2>1, HeaderIs
    <2> QED
      BY <1>1, <2>2
  <1> QED
    BY <1>1, <1>2, <1>3, <1>6, <1>8 DEF Heading

\* What follows the first `at` bytes of M.
Comes(M, at, buf, zeros) ==
  /\ Len(buf) <= Word /\ zeros <= (MaxCount + 1) * Word
  /\ \A i \in 1..Len(buf) : buf[i] = M[at + i]
  /\ \A i \in 1..zeros : M[at + i] = 0
  /\ buf = <<>> \/ zeros = 0

LEMMA HeadTaken ==
  ASSUME NEW C, NEW S \in Seq(Nat), NEW M,
         NEW taken \in Nat, NEW in \in Seq(Nat), NEW got \in Seq(Nat),
         Holds(C, S, M, taken, in, 0, 0, <<>>, got),
         NEW h \in Nat, h <= Len(in), NEW p \in Nat, taken - Len(in) = p,
         NEW zeros \in Nat, NEW raw \in Nat, NEW buf \in Seq(Nat),
         Comes(M, Len(got), buf, zeros),
         <<p + h, Len(got) + (Len(buf) + zeros), raw>> \in C
  PROVE  Drop(in, h) \in Seq(Nat) /\ Holds(C, S, M, taken, Drop(in, h), zeros, raw, buf, got)
  <1>1. PICK k \in Nat : Len(in) = k
    OBVIOUS
  <1>2. PICK d \in Seq(Nat) : Drop(in, h) = d /\ Len(d) = k - h /\ \A i \in 1..(k - h) : d[i] = in[h + i]
    BY <1>1, DropFacts, ZenonT(60)
  <1>3. k <= taken /\ k <= ZBUF_SZ /\ taken <= Len(S) /\ \A i \in 1..k : in[i] = S[p + i]
    BY <1>1 DEF Holds
  <1>4. PICK c \in Nat : k - h = c /\ c <= k
    BY <1>1
  <1>5. taken - c = p + h /\ c <= taken /\ c <= ZBUF_SZ
    BY <1>1, <1>3, <1>4, PackingAssumption
  <1>6. ASSUME NEW i \in 1..c PROVE d[i] = S[(p + h) + i]
    <2>1. h + i \in 1..k /\ p + (h + i) = (p + h) + i
      BY <1>1, <1>4
    <2> QED
      BY <1>2, <1>3, <1>4, <2>1
  <1>7. \A i \in 1..Len(got) : got[i] = M[i]
    BY DEF Holds
  <1>8. Holds(C, S, M, taken, d, zeros, raw, buf, got)
    <2>1. Len(d) = c
      BY <1>2, <1>4
    <2> QED
      BY <1>3, <1>5, <1>6, <1>7, <2>1 DEF Holds, Comes
  <1> QED
    BY <1>2, <1>8

LEMMA TookZero ==
  ASSUME NEW C, NEW S \in Seq(Nat), NEW M, Meaning(C, S, M),
         NEW taken \in Nat, NEW in \in Seq(Nat), NEW got \in Seq(Nat),
         Holds(C, S, M, taken, in, 0, 0, <<>>, got), Len(in) >= HeaderOf(in), in[1] = 0
  PROVE  /\ Drop(in, 2) \in Seq(Nat) /\ Zero_bytes(in[2]) \in Nat
         /\ Holds(C, S, M, taken, Drop(in, 2), Zero_bytes(in[2]), 0, <<>>, got)
  <1>1. PICK k, g \in Nat : Len(in) = k /\ Len(got) = g
    OBVIOUS
  <1>2. HeaderOf(in) = 2 /\ k >= 2
    BY <1>1 DEF HeaderOf
  <1>3. taken - Len(in) < Len(S)
    BY <1>1, <1>2 DEF Holds
  <1>20. PICK p, p2, q2, r2 \in Nat : Heading(C, S, M, taken, in, got, p, p2, q2, r2)
    BY <1>3, AtToken
  <1>4. /\ taken - Len(in) = p /\ (\A i \in 1..Len(in) : in[i] = S[p + i])
        /\ <<p2, q2, r2>> \in C /\ Token(S, M, p, Len(got), p2, q2, r2)
        /\ HeaderOf(in) \in Nat /\ p + HeaderOf(in) <= p2 /\ p2 <= p + (Word + 2)
        /\ Len(in) >= 2 => p2 = p + HeaderOf(in)
    BY <1>20 DEF Heading
  <1>5. in[1] = S[p + 1] /\ in[2] = S[p + 2] /\ p2 = p + 2
    <2>1. 1 \in 1..Len(in) /\ 2 \in 1..Len(in)
      BY <1>1, <1>2
    <2> QED
      BY <1>1, <1>2, <1>4, <2>1
  <1>6. Zero_token(S, M, p, Len(got), p2, q2, r2)
    BY <1>4, <1>5, FullTagIs DEF Token, Full_token, Some_token
  <1>7. PICK c \in 0..MaxCount : in[2] = c
    BY <1>5, <1>6 DEF Zero_token
  <1>8. PICK z \in Nat : (c + 1) * Word = z
    BY WordSize
  <1>9. r2 = 0 /\ q2 = g + z /\ \A i \in 1..z : M[g + i] = 0
    BY <1>1, <1>5, <1>6, <1>7, <1>8 DEF Zero_token
  <1>10. z <= (MaxCount + 1) * Word
    <2>1. PICK e \in Nat : MaxCount + 1 = (c + 1) + e
      <3>1. MaxCount - c \in Nat /\ MaxCount + 1 = (c + 1) + (MaxCount - c)
        BY WordSize
      <3> QED
        BY <3>1
    <2>2. ((c + 1) + e) * Word = (c + 1) * Word + e * Word /\ e * Word \in Nat
      BY WordSize
    <2> QED
      BY <1>8, <2>1, <2>2
  <1>14. PICK b \in Seq(Nat) : <<>> = b /\ Len(b) = 0
    <2>1. <<>> \in Seq(Nat) /\ Len(<<>>) = 0
      OBVIOUS
    <2> QED
      BY <2>1
  <1>15. PICK r \in Nat : 0 = r
    OBVIOUS
  <1>11. Comes(M, Len(got), b, z)
    <2>1. Len(b) = 0 /\ (\A i \in 1..0 : FALSE) /\ 0 <= Word
      BY <1>14, WordSize
    <2> QED
      BY <1>1, <1>9, <1>10, <1>14, <2>1 DEF Comes
  <1>12. <<p + 2, Len(got) + (Len(b) + z), r>> \in C
    <2>1. Len(got) + (Len(b) + z) = q2
      BY <1>1, <1>9, <1>14
    <2>2. <<p2, q2, r2>> \in C /\ p2 = p + 2 /\ r2 = r
      BY <1>4, <1>5, <1>9, <1>15
    <2> QED
      BY <2>1, <2>2
  <1>13. Drop(in, 2) \in Seq(Nat) /\ Holds(C, S, M, taken, Drop(in, 2), z, r, b, got)
    <2>1. taken - Len(in) = p /\ 2 <= Len(in)
      BY <1>1, <1>2, <1>4
    <2> QED
      BY <1>11, <1>12, <2>1, HeadTaken
  <1> QED
    BY <1>7, <1>8, <1>13, <1>14, <1>15 DEF Zero_bytes

LEMMA TookFull ==
  ASSUME NEW C, NEW S \in Seq(Nat), NEW M, Meaning(C, S, M),
         NEW taken \in Nat, NEW in \in Seq(Nat), NEW got \in Seq(Nat),
         Holds(C, S, M, taken, in, 0, 0, <<>>, got), Len(in) >= HeaderOf(in), in[1] = FullTag
  PROVE  /\ Drop(in, Word + 2) \in Seq(Nat) /\ in[Word + 2] * Word \in Nat
         /\ SubSeq(in, 2, Word + 1) \in Seq(Nat)
         /\ Holds(C, S, M, taken, Drop(in, Word + 2), 0, in[Word + 2] * Word,
                  SubSeq(in, 2, Word + 1), got)
  <1>1. PICK k, g \in Nat : Len(in) = k /\ Len(got) = g
    OBVIOUS
  <1>2. HeaderOf(in) = Word + 2 /\ k >= Word + 2
    BY <1>1, FullTagIs, WordSize DEF HeaderOf
  <1>3. taken - Len(in) < Len(S)
    BY <1>1, <1>2, WordSize DEF Holds
  <1>20. PICK p, p2, q2, r2 \in Nat : Heading(C, S, M, taken, in, got, p, p2, q2, r2)
    BY <1>3, AtToken
  <1>4. /\ taken - Len(in) = p /\ (\A i \in 1..Len(in) : in[i] = S[p + i])
        /\ <<p2, q2, r2>> \in C /\ Token(S, M, p, Len(got), p2, q2, r2)
        /\ HeaderOf(in) \in Nat /\ p + HeaderOf(in) <= p2 /\ p2 <= p + (Word + 2)
        /\ Len(in) >= 2 => p2 = p + HeaderOf(in)
    BY <1>20 DEF Heading
  <1>5. in[1] = S[p + 1] /\ in[Word + 2] = S[p2] /\ p2 = p + (Word + 2)
    <2>1. 1 \in 1..Len(in) /\ Word + 2 \in 1..Len(in)
      BY <1>1, <1>2, WordSize
    <2>2. p2 = p + (Word + 2)
      BY <1>1, <1>2, <1>4, WordSize
    <2> QED
      BY <1>4, <2>1, <2>2
  <1>6. Full_token(S, M, p, Len(got), p2, q2, r2)
    BY <1>4, <1>5, FullTagIs DEF Token, Zero_token, Some_token
  <1>7. PICK c \in 0..MaxCount : in[Word + 2] = c
    BY <1>5, <1>6 DEF Full_token
  <1>8. PICK r \in Nat : c * Word = r
    BY WordSize
  <1>9. r2 = r /\ q2 = g + Word /\ \A i \in 1..Word : M[g + i] = S[p + 1 + i]
    BY <1>1, <1>5, <1>6, <1>7, <1>8 DEF Full_token
  <1>10. PICK b \in Seq(Nat) : /\ SubSeq(in, 2, Word + 1) = b /\ Len(b) = Word
                               /\ \A i \in 1..Word : b[i] = in[1 + i]
    <2>1. /\ SubSeq(in, 1 + 1, Word + 1) \in Seq(Nat)
          /\ Len(SubSeq(in, 1 + 1, Word + 1)) = (Word + 1) - 1
          /\ \A i \in 1..((Word + 1) - 1) : SubSeq(in, 1 + 1, Word + 1)[i] = in[1 + i]
      <3>1. 1 \in Nat /\ Word + 1 \in Nat /\ 1 <= Word + 1 /\ Word + 1 <= Len(in)
        BY <1>1, <1>2, WordSize
      <3> QED
        BY <3>1, Parts, SMTT(60)
    <2>2. 1 + 1 = 2 /\ (Word + 1) - 1 = Word
      BY WordSize
    <2> QED
      BY <2>1, <2>2
  <1>11. Comes(M, Len(got), b, 0)
    <2>1. \A i \in 1..Word : 1 + i \in 1..k /\ p + (1 + i) = p + 1 + i
      BY <1>2, WordSize
    <2>2. ASSUME NEW i \in 1..Word PROVE b[i] = M[g + i]
      <3>1. b[i] = in[1 + i]
        BY <1>10, ZenonT(60)
      <3>2. 1 + i \in 1..Len(in) /\ p + (1 + i) = p + 1 + i
        BY <1>1, <2>1, ZenonT(60)
      <3>3. in[1 + i] = S[p + (1 + i)]
        BY <1>4, <3>2, ZenonT(60)
      <3>4. M[g + i] = S[p + 1 + i]
        BY <1>9, ZenonT(60)
      <3> QED
        BY <3>1, <3>2, <3>3, <3>4, ZenonT(60)
    <2>3. 0 <= (MaxCount + 1) * Word /\ Word <= Word /\ \A i \in 1..0 : FALSE
      BY WordSize
    <2> QED
      BY <1>1, <1>10, <2>2, <2>3 DEF Comes
  <1>12. <<p + (Word + 2), Len(got) + (Len(b) + 0), r>> \in C
    <2>1. Len(b) + 0 = Word
      BY <1>10, WordSize
    <2> QED
      BY <1>1, <1>4, <1>5, <1>9, <2>1
  <1>13. Drop(in, Word + 2) \in Seq(Nat) /\ Holds(C, S, M, taken, Drop(in, Word + 2), 0, r, b, got)
    <2>1. taken - Len(in) = p /\ Word + 2 <= Len(in) /\ Word + 2 \in Nat
      BY <1>1, <1>2, <1>4, WordSize
    <2> QED
      BY <1>11, <1>12, <2>1, HeadTaken
  <1> QED
    BY <1>7, <1>8, <1>10, <1>13

LEMMA TookSome ==
  ASSUME NEW C, NEW S \in Seq(Nat), NEW M, Meaning(C, S, M),
         NEW taken \in Nat, NEW in \in Seq(Nat), NEW got \in Seq(Nat),
         Holds(C, S, M, taken, in, 0, 0, <<>>, got), Len(in) >= HeaderOf(in),
         in[1] # 0, in[1] # FullTag
  PROVE  /\ Drop(in, HeaderOf(in)) \in Seq(Nat) /\ Unpacked(in[1], Drop(in, 1)) \in Seq(Nat)
         /\ Holds(C, S, M, taken, Drop(in, HeaderOf(in)), 0, 0, Unpacked(in[1], Drop(in, 1)), got)
  <1>1. PICK k, g \in Nat : Len(in) = k /\ Len(got) = g
    OBVIOUS
  <1>2. k >= 2
    BY <1>1 DEF HeaderOf
  <1>14. PICK t : in[1] = t /\ t # 0 /\ t # FullTag
    OBVIOUS
  <1>15. PICK h : HeaderOf(in) = h /\ h = 1 + Rank(t, Word)
    BY <1>1, <1>2, <1>14 DEF HeaderOf
  <1>3. taken - Len(in) < Len(S)
    BY <1>1, <1>2, WordSize DEF Holds
  <1>20. PICK p, p2, q2, r2 \in Nat : Heading(C, S, M, taken, in, got, p, p2, q2, r2)
    BY <1>3, AtToken
  <1>4. /\ taken - Len(in) = p /\ (\A i \in 1..Len(in) : in[i] = S[p + i])
        /\ <<p2, q2, r2>> \in C /\ Token(S, M, p, Len(got), p2, q2, r2)
        /\ HeaderOf(in) \in Nat /\ p + HeaderOf(in) <= p2 /\ p2 <= p + (Word + 2)
        /\ Len(in) >= 2 => p2 = p + HeaderOf(in)
    BY <1>20 DEF Heading
  <1>5. S[p + 1] = t /\ p2 = p + h /\ h \in Nat /\ h <= k
    <2>1. 1 \in 1..Len(in)
      BY <1>1, <1>2
    <2> QED
      BY <1>1, <1>2, <1>4, <1>14, <1>15, <2>1
  <1>6. Some_token(S, M, p, Len(got), p2, q2, r2)
    BY <1>4, <1>5, <1>14 DEF Token, Zero_token, Full_token
  <1>7. PICK B \in SUBSET (1..Word) : TagBits(t) = B
    BY DEF TagBits
  <1>8. PICK n \in Nat : Rank(t, Word) = n /\ \A i \in B : Rank(t, i) \in 1..n
    BY <1>7, OrdinalFacts DEF Rank
  <1>9. /\ h = 1 + n /\ r2 = 0 /\ q2 = g + Word
        /\ \A i \in 1..Word : M[g + i] = IF i \in B THEN S[p + 1 + Rank(t, i)] ELSE 0
    BY <1>1, <1>5, <1>6, <1>7, <1>8, <1>15 DEF Some_token
  <1>10. PICK d \in Seq(Nat) : Drop(in, 1) = d /\ Len(d) = k - 1 /\ \A i \in 1..(k - 1) : d[i] = in[1 + i]
    <2>1. 1 \in Nat /\ 1 <= Len(in)
      BY <1>1, <1>2
    <2>2. /\ Drop(in, 1) \in Seq(Nat) /\ Len(Drop(in, 1)) = Len(in) - 1
          /\ \A i \in 1..(Len(in) - 1) : Drop(in, 1)[i] = in[1 + i]
      BY <2>1, DropFacts
    <2> QED
      BY <1>1, <2>2
  <1>16. PICK b : Unpacked(t, d) = b
    OBVIOUS
  <1>17. b = [i \in 1..Word |-> IF i \in B THEN d[Rank(t, i)] ELSE 0]
    BY <1>7, <1>16 DEF Unpacked
  <1>18. ASSUME NEW i \in B
         PROVE  d[Rank(t, i)] = S[p + 1 + Rank(t, i)] /\ d[Rank(t, i)] \in Nat
    <2>1. PICK j \in 1..n : Rank(t, i) = j
      BY <1>8
    <2>2. j \in 1..(k - 1) /\ 1 + j \in 1..k /\ p + (1 + j) = p + 1 + j
      BY <1>5, <1>9
    <2>4. d[j] = in[1 + j] /\ d[j] \in Nat
      BY <1>10, <2>2, SMTT(60)
    <2>5. \A e \in 1..k : in[e] = S[p + e]
      BY <1>1, <1>4
    <2>3. d[j] = in[1 + j] /\ in[1 + j] = S[p + (1 + j)] /\ d[j] \in Nat
      BY <2>2, <2>4, <2>5
    <2> QED
      BY <2>1, <2>2, <2>3
  <1>19. b \in Seq(Nat) /\ Len(b) = Word /\ \A i \in 1..Word : b[i] = M[g + i]
    <2>1. ASSUME NEW i \in 1..Word PROVE b[i] = M[g + i] /\ b[i] \in Nat
      BY <1>9, <1>17, <1>18
    <2>2. b \in [1..Word -> Nat]
      <3>1. b = [i \in 1..Word |-> b[i]]
        BY <1>17
      <3> QED
        BY <2>1, <3>1
    <2>3. b \in Seq(Nat) /\ Len(b) = Word
      BY <2>2, WordSize
    <2> QED
      BY <2>1, <2>3
  <1>11. Comes(M, Len(got), b, 0)
    <2>3. 0 <= (MaxCount + 1) * Word /\ Word <= Word /\ \A i \in 1..0 : FALSE
      BY WordSize
    <2> QED
      BY <1>1, <1>19, <2>3 DEF Comes
  <1>12. <<p + h, Len(got) + (Len(b) + 0), 0>> \in C
    <2>1. Len(b) + 0 = Word
      BY <1>19, WordSize
    <2> QED
      BY <1>1, <1>4, <1>5, <1>9, <2>1
  <1>13. Drop(in, h) \in Seq(Nat) /\ Holds(C, S, M, taken, Drop(in, h), 0, 0, b, got)
    <2>1. taken - Len(in) = p /\ h <= Len(in) /\ h \in Nat
      BY <1>1, <1>4, <1>5
    <2> QED
      BY <1>11, <1>12, <1>19, <2>1, HeadTaken
  <1> QED
    BY <1>10, <1>13, <1>14, <1>15, <1>16, <1>19

-----------------------------------------------------------------------------
\* The reader's steps.

Readers ==
  [pc: {"asking", "inflating", "done", "failed"}, taken: Nat, in: Seq(Nat), zeros: Nat,
   raw: Nat, buf: Seq(Nat), room: Nat, got: Seq(Nat)]

ReaderInv(C) ==
  /\ reader \in Readers
  /\ Holds(C, stream, Plain, reader.taken, reader.in, reader.zeros, reader.raw,
           reader.buf, reader.got)
  /\ reader.pc = "inflating" => Len(reader.got) + reader.room <= Total
  /\ reader.pc = "done" => Len(reader.got) = Total
  /\ reader.pc = "failed" => writer.pc # "done"
  /\ writer.pc = "deflating" => reader.pc = "asking"

\* Once there is something to read it is all that was packed.
LEMMA AllSent ==
  ASSUME WriterInv, writer.pc # "deflating", NEW C, Meant(C)
  PROVE  /\ stream \in Seq(Nat) /\ Meaning(C, stream, Plain)
         /\ writer.pc = "done" => End(C, stream, Total, 0)
  <1>1. /\ writer \in [pc: {"deflating", "done", "failed"}, seg: 1..Len(message),
                       in: Seq(Nat), out: Seq(Nat), raw: Nat, cap: Caps]
        /\ stream \in Seq(Nat) /\ writer.out = <<>>
        /\ Rest(message[writer.seg], writer.in, writer.raw)
        /\ writer.pc = "done" => writer.seg = Len(message) /\ writer.in = <<>>
    BY DEF WriterInv
  <1>2. Sent = stream
    BY <1>1 DEF Sent
  <1>3. ASSUME writer.pc = "done" PROVE At = Total /\ writer.raw = 0
    <2>1. writer.seg = Len(message) /\ writer.in = <<>> /\ Len(writer.in) = 0
      BY <1>1, <1>3
    <2>2. Plain \in Seq(Nat)
      BY AtFacts
    <2>3. At = Len(Plain) - 0
      BY <2>1 DEF At, Plain
    <2>4. PICK m \in Nat : Len(writer.in) = writer.raw + m * Word
      BY <1>1 DEF Rest
    <2>5. PICK a \in Nat : m * Word = a
      BY WordSize
    <2>6. 0 = writer.raw + a
      BY <2>1, <2>4, <2>5
    <2>7. writer.raw \in Nat /\ Len(Plain) \in Nat
      BY <1>1, <2>2
    <2> QED
      BY <2>3, <2>6, <2>7 DEF Total
  <1> QED
    BY <1>1, <1>2, <1>3 DEF Meant

\* What every step of capn_inflate does.
LEMMA Given ==
  ASSUME NEW C, WriterInv, ReaderInv(C), reader.pc = "inflating", UNCHANGED <<message, writer, stream>>,
         NEW taken \in Nat, NEW in \in Seq(Nat), NEW zeros \in Nat, NEW raw \in Nat,
         NEW buf \in Seq(Nat), NEW got \in Seq(Nat), NEW n \in Nat,
         reader' = [pc |-> "inflating", taken |-> taken, in |-> in, zeros |-> zeros, raw |-> raw,
                    buf |-> buf, room |-> reader.room - n, got |-> got],
         n <= reader.room, Len(got) = Len(reader.got) + n,
         Holds(C, stream, Plain, taken, in, zeros, raw, buf, got)
  PROVE  ReaderInv(C)'
  <1>1. reader.room \in Nat /\ reader.got \in Seq(Nat) /\ Len(reader.got) + reader.room <= Total
        /\ writer.pc # "deflating"
    BY DEF ReaderInv, Readers
  <1>2. PICK room, g \in Nat : reader.room = room /\ Len(reader.got) = g
    BY <1>1
  <1>3. PICK t \in Nat : Total = t
    <2>1. Plain \in Seq(Nat)
      BY AtFacts
    <2> QED
      BY <2>1 DEF Total
  <1>4. PICK m \in Nat : room - n = m
    BY <1>2
  <1>5. reader' = [pc |-> "inflating", taken |-> taken, in |-> in, zeros |-> zeros, raw |-> raw,
                   buf |-> buf, room |-> m, got |-> got]
    BY <1>2, <1>4
  <1>6. reader' \in Readers
    BY <1>5 DEF Readers
  <1>7. /\ reader'.pc = "inflating" /\ reader'.taken = taken /\ reader'.in = in
        /\ reader'.zeros = zeros /\ reader'.raw = raw /\ reader'.buf = buf
        /\ reader'.room = m /\ reader'.got = got
    BY <1>5
  <1>8. Plain' = Plain /\ stream' = stream /\ writer' = writer /\ Total' = Total
    BY DEF Plain, Total
  <1>9. Len(got) + m <= t
    BY <1>1, <1>2, <1>3, <1>4
  <1> QED
    BY <1>1, <1>3, <1>6, <1>7, <1>8, <1>9 DEF ReaderInv

LEMMA Inflates ==
  ASSUME NEW C, WriterInv, ReaderInv(C), reader.pc = "inflating", Meant(C)
  PROVE  /\ stream \in Seq(Nat) /\ Meaning(C, stream, Plain)
         /\ \E taken, zeros, raw, room \in Nat, in, buf, got \in Seq(Nat) :
              /\ reader = [pc |-> "inflating", taken |-> taken, in |-> in, zeros |-> zeros,
                           raw |-> raw, buf |-> buf, room |-> room, got |-> got]
              /\ Holds(C, stream, Plain, taken, in, zeros, raw, buf, got)
  <1>1. writer.pc # "deflating"
    BY DEF ReaderInv
  <1>2. stream \in Seq(Nat) /\ Meaning(C, stream, Plain)
    BY <1>1, AllSent
  <1>3. reader \in Readers
    BY DEF ReaderInv
  <1>4. /\ reader = [pc |-> "inflating", taken |-> reader.taken, in |-> reader.in,
                     zeros |-> reader.zeros, raw |-> reader.raw, buf |-> reader.buf,
                     room |-> reader.room, got |-> reader.got]
        /\ reader.taken \in Nat /\ reader.zeros \in Nat /\ reader.raw \in Nat
        /\ reader.room \in Nat /\ reader.in \in Seq(Nat) /\ reader.buf \in Seq(Nat)
        /\ reader.got \in Seq(Nat)
    BY <1>3 DEF Readers
  <1>5. Holds(C, stream, Plain, reader.taken, reader.in, reader.zeros, reader.raw,
              reader.buf, reader.got)
    BY DEF ReaderInv
  <1> QED
    BY <1>2, <1>4, <1>5

LEMMA BufferedStep ==
  ASSUME NEW C, WriterInv, ReaderInv(C), Meant(C), inflate_buffered
  PROVE  ReaderInv(C)'
  <1>1. reader.pc = "inflating" /\ reader.buf # <<>> /\ UNCHANGED <<message, writer, stream>>
    BY DEF inflate_buffered, Inflating, Give
  <1>2. stream \in Seq(Nat)
    BY <1>1, Inflates
  <1>4. PICK taken, zeros, raw, room \in Nat, in, buf, got \in Seq(Nat) :
          /\ reader = [pc |-> "inflating", taken |-> taken, in |-> in, zeros |-> zeros,
                       raw |-> raw, buf |-> buf, room |-> room, got |-> got]
          /\ Holds(C, stream, Plain, taken, in, zeros, raw, buf, got)
    BY <1>1, Inflates
  <1>5. PICK n : Least(room, Len(buf)) = n
    OBVIOUS
  <1>6. n \in Nat /\ n <= room /\ n <= Len(buf)
    BY <1>5 DEF Least
  <1>7. PICK t \in Seq(Nat) : Take(buf, n) = t /\ Len(t) = n
    BY <1>6, TakeFacts
  <1>8. PICK d \in Seq(Nat) : Drop(buf, n) = d
    BY <1>6, DropFacts
  <1>9. PICK h \in Seq(Nat) : got \o t = h /\ Len(h) = Len(got) + n
    <2>1. got \o t \in Seq(Nat) /\ Len(got \o t) = Len(got) + Len(t)
      BY Both
    <2> QED
      BY <1>7, <2>1
  <1>10. reader' = [pc |-> "inflating", taken |-> taken, in |-> in, zeros |-> zeros, raw |-> raw,
                    buf |-> d, room |-> room - n, got |-> h]
    BY <1>4, <1>5, <1>7, <1>8, <1>9 DEF inflate_buffered, Give
  <1>11. Holds(C, stream, Plain, taken, in, zeros, raw, d, h)
    <2>1. buf # <<>>
      BY <1>1, <1>4
    <2>2. PICK S \in Seq(Nat) : stream = S
      BY <1>2
    <2>3. Holds(C, S, Plain, taken, in, zeros, raw, Drop(buf, n), got \o Take(buf, n))
      BY <1>4, <1>6, <2>1, <2>2, GaveBuffered
    <2> QED
      BY <1>7, <1>8, <1>9, <2>2, <2>3
  <1>12. reader.room = room /\ reader.got = got
    BY <1>4
  <1> QED
    BY <1>1, <1>6, <1>9, <1>10, <1>11, <1>12, Given

LEMMA ZerosGivenStep ==
  ASSUME NEW C, WriterInv, ReaderInv(C), Meant(C), inflate_zeros
  PROVE  ReaderInv(C)'
  <1>1. reader.pc = "inflating" /\ reader.buf = <<>> /\ UNCHANGED <<message, writer, stream>>
    BY DEF inflate_zeros, Inflating, Give
  <1>2. stream \in Seq(Nat)
    BY <1>1, Inflates
  <1>4. PICK taken, zeros, raw, room \in Nat, in, buf, got \in Seq(Nat) :
          /\ reader = [pc |-> "inflating", taken |-> taken, in |-> in, zeros |-> zeros,
                       raw |-> raw, buf |-> buf, room |-> room, got |-> got]
          /\ Holds(C, stream, Plain, taken, in, zeros, raw, buf, got)
    BY <1>1, Inflates
  <1>5. PICK n : Least(room, zeros) = n
    OBVIOUS
  <1>6. n \in Nat /\ n <= room /\ n <= zeros
    BY <1>5 DEF Least
  <1>7. PICK t \in Seq(Nat) : [i \in 1..n |-> 0] = t /\ Len(t) = n
    <2> DEFINE u == [i \in 1..n |-> 0]
    <2>1. u \in [1..n -> Nat]
      OBVIOUS
    <2> HIDE DEF u
    <2>2. u \in Seq(Nat) /\ Len(u) = n
      BY <1>6, <2>1
    <2>3. [i \in 1..n |-> 0] = u
      BY DEF u
    <2> QED
      BY <2>2, <2>3
  <1>8. PICK z \in Nat : zeros - n = z
    BY <1>6
  <1>9. PICK h \in Seq(Nat) : got \o t = h /\ Len(h) = Len(got) + n
    <2>1. got \o t \in Seq(Nat) /\ Len(got \o t) = Len(got) + Len(t)
      BY Both
    <2> QED
      BY <1>7, <2>1
  <1>13. buf = <<>>
    BY <1>1, <1>4
  <1>10. reader' = [pc |-> "inflating", taken |-> taken, in |-> in, zeros |-> z, raw |-> raw,
                    buf |-> buf, room |-> room - n, got |-> h]
    BY <1>4, <1>5, <1>7, <1>8, <1>9 DEF inflate_zeros, Give
  <1>11. Holds(C, stream, Plain, taken, in, z, raw, buf, h)
    <2>2. PICK S \in Seq(Nat) : stream = S
      BY <1>2
    <2>4. Holds(C, S, Plain, taken, in, zeros, raw, <<>>, got)
      BY <1>4, <1>13, <2>2
    <2>3. Holds(C, S, Plain, taken, in, zeros - n, raw, <<>>, got \o [i \in 1..n |-> 0])
      BY <1>6, <2>4, GaveZeros
    <2> QED
      BY <1>7, <1>8, <1>9, <1>13, <2>2, <2>3
  <1>12. reader.room = room /\ reader.got = got
    BY <1>4
  <1> QED
    BY <1>1, <1>6, <1>9, <1>10, <1>11, <1>12, Given

LEMMA RawGivenStep ==
  ASSUME NEW C, WriterInv, ReaderInv(C), Meant(C), inflate_raw
  PROVE  ReaderInv(C)'
  <1>1. /\ reader.pc = "inflating" /\ reader.buf = <<>> /\ reader.zeros = 0 /\ reader.room > 0
        /\ reader.raw > 0 /\ reader.in # <<>> /\ UNCHANGED <<message, writer, stream>>
    BY DEF inflate_raw, Inflating, Give
  <1>2. stream \in Seq(Nat) /\ Meaning(C, stream, Plain)
    BY <1>1, Inflates
  <1>4. PICK taken, zeros, raw, room \in Nat, in, buf, got \in Seq(Nat) :
          /\ reader = [pc |-> "inflating", taken |-> taken, in |-> in, zeros |-> zeros,
                       raw |-> raw, buf |-> buf, room |-> room, got |-> got]
          /\ Holds(C, stream, Plain, taken, in, zeros, raw, buf, got)
    BY <1>1, Inflates
  <1>13. buf = <<>> /\ zeros = 0 /\ raw > 0 /\ in # <<>> /\ room > 0
    BY <1>1, <1>4
  <1>14. PICK k \in Nat \ {0} : Len(in) = k
    BY <1>13
  <1>5. PICK n : Least(Least(room, raw), Len(in)) = n
    OBVIOUS
  <1>6. n \in Nat /\ n <= room /\ n <= raw /\ n <= Len(in) /\ n > 0
    BY <1>5, <1>13, <1>14 DEF Least
  <1>7. PICK t \in Seq(Nat) : Take(in, n) = t /\ Len(t) = n
    BY <1>6, TakeFacts
  <1>8. PICK d \in Seq(Nat) : Drop(in, n) = d
    BY <1>6, DropFacts
  <1>15. PICK r \in Nat : raw - n = r
    BY <1>6
  <1>9. PICK h \in Seq(Nat) : got \o t = h /\ Len(h) = Len(got) + n
    <2>1. got \o t \in Seq(Nat) /\ Len(got \o t) = Len(got) + Len(t)
      BY Both
    <2> QED
      BY <1>7, <2>1
  <1>10. reader' = [pc |-> "inflating", taken |-> taken, in |-> d, zeros |-> zeros, raw |-> r,
                    buf |-> buf, room |-> room - n, got |-> h]
    BY <1>4, <1>5, <1>7, <1>8, <1>9, <1>15 DEF inflate_raw, Give
  <1>11. Holds(C, stream, Plain, taken, d, zeros, r, buf, h)
    <2>2. PICK S \in Seq(Nat) : stream = S
      BY <1>2
    <2>4. Holds(C, S, Plain, taken, in, 0, raw, <<>>, got) /\ Meaning(C, S, Plain)
      BY <1>2, <1>4, <1>13, <2>2
    <2>3. Holds(C, S, Plain, taken, Drop(in, n), 0, raw - n, <<>>, got \o Take(in, n))
      BY <1>6, <2>4, GaveRaw
    <2> QED
      BY <1>7, <1>8, <1>9, <1>13, <1>15, <2>2, <2>3
  <1>12. reader.room = room /\ reader.got = got
    BY <1>4
  <1> QED
    BY <1>1, <1>6, <1>9, <1>10, <1>11, <1>12, Given

LEMMA FullTagStep ==
  ASSUME NEW C, WriterInv, ReaderInv(C), Meant(C), inflate_full_tag
  PROVE  ReaderInv(C)'
  <1>1. /\ reader.pc = "inflating" /\ reader.buf = <<>> /\ reader.zeros = 0 /\ reader.raw = 0
        /\ Len(reader.in) >= HeaderOf(reader.in) /\ reader.in[1] = FullTag
        /\ UNCHANGED <<message, writer, stream>>
    BY DEF inflate_full_tag, HeaderIn, Between, Inflating, Give, HeaderSize, HeaderOf
  <1>2. stream \in Seq(Nat) /\ Meaning(C, stream, Plain)
    BY <1>1, Inflates
  <1>4. PICK taken, zeros, raw, room \in Nat, in, buf, got \in Seq(Nat) :
          /\ reader = [pc |-> "inflating", taken |-> taken, in |-> in, zeros |-> zeros,
                       raw |-> raw, buf |-> buf, room |-> room, got |-> got]
          /\ Holds(C, stream, Plain, taken, in, zeros, raw, buf, got)
    BY <1>1, Inflates
  <1>5. /\ buf = <<>> /\ zeros = 0 /\ raw = 0 /\ Len(in) >= HeaderOf(in) /\ in[1] = FullTag
    BY <1>1, <1>4
  <1>6. /\ Drop(in, Word + 2) \in Seq(Nat) /\ in[Word + 2] * Word \in Nat /\ SubSeq(in, 2, Word + 1) \in Seq(Nat)
        /\ Holds(C, stream, Plain, taken, Drop(in, Word + 2), 0, in[Word + 2] * Word, SubSeq(in, 2, Word + 1), got)
    <2>1. PICK S \in Seq(Nat) : stream = S
      BY <1>2
    <2>2. Holds(C, S, Plain, taken, in, 0, 0, <<>>, got) /\ Meaning(C, S, Plain)
      BY <1>2, <1>4, <1>5, <2>1
    <2> QED
      BY <1>5, <2>1, <2>2, TookFull
  <1>7. PICK z, r \in Nat, d, b \in Seq(Nat) : 0 = z /\ in[Word + 2] * Word = r /\ Drop(in, Word + 2) = d /\ SubSeq(in, 2, Word + 1) = b
    BY <1>5, <1>6
  <1>9. got \o <<>> = got /\ Len(<<>>) = 0 /\ room - 0 = room
    OBVIOUS
  <1>10. reader' = [pc |-> "inflating", taken |-> taken, in |-> d, zeros |-> z, raw |-> r,
                    buf |-> b, room |-> room - 0, got |-> got]
    BY <1>4, <1>5, <1>7, <1>9 DEF inflate_full_tag, Give
  <1>11. Holds(C, stream, Plain, taken, d, z, r, b, got)
    BY <1>6, <1>7
  <1>12. reader.room = room /\ reader.got = got /\ 0 <= room /\ Len(got) = Len(got) + 0
    BY <1>4
  <1> QED
    BY <1>1, <1>10, <1>11, <1>12, Given

LEMMA ZeroTagStep ==
  ASSUME NEW C, WriterInv, ReaderInv(C), Meant(C), inflate_zero_tag
  PROVE  ReaderInv(C)'
  <1>1. /\ reader.pc = "inflating" /\ reader.buf = <<>> /\ reader.zeros = 0 /\ reader.raw = 0
        /\ Len(reader.in) >= HeaderOf(reader.in) /\ reader.in[1] = 0
        /\ UNCHANGED <<message, writer, stream>>
    BY DEF inflate_zero_tag, HeaderIn, Between, Inflating, Give, HeaderSize, HeaderOf
  <1>2. stream \in Seq(Nat) /\ Meaning(C, stream, Plain)
    BY <1>1, Inflates
  <1>4. PICK taken, zeros, raw, room \in Nat, in, buf, got \in Seq(Nat) :
          /\ reader = [pc |-> "inflating", taken |-> taken, in |-> in, zeros |-> zeros,
                       raw |-> raw, buf |-> buf, room |-> room, got |-> got]
          /\ Holds(C, stream, Plain, taken, in, zeros, raw, buf, got)
    BY <1>1, Inflates
  <1>5. /\ buf = <<>> /\ zeros = 0 /\ raw = 0 /\ Len(in) >= HeaderOf(in) /\ in[1] = 0
    BY <1>1, <1>4
  <1>6. /\ Drop(in, 2) \in Seq(Nat) /\ Zero_bytes(in[2]) \in Nat
        /\ Holds(C, stream, Plain, taken, Drop(in, 2), Zero_bytes(in[2]), 0, <<>>, got)
    <2>1. PICK S \in Seq(Nat) : stream = S
      BY <1>2
    <2>2. Holds(C, S, Plain, taken, in, 0, 0, <<>>, got) /\ Meaning(C, S, Plain)
      BY <1>2, <1>4, <1>5, <2>1
    <2> QED
      BY <1>5, <2>1, <2>2, TookZero
  <1>7. PICK z, r \in Nat, d, b \in Seq(Nat) : Zero_bytes(in[2]) = z /\ 0 = r /\ Drop(in, 2) = d /\ <<>> = b
    BY <1>5, <1>6
  <1>9. got \o <<>> = got /\ Len(<<>>) = 0 /\ room - 0 = room
    OBVIOUS
  <1>10. reader' = [pc |-> "inflating", taken |-> taken, in |-> d, zeros |-> z, raw |-> r,
                    buf |-> b, room |-> room - 0, got |-> got]
    BY <1>4, <1>5, <1>7, <1>9 DEF inflate_zero_tag, Give
  <1>11. Holds(C, stream, Plain, taken, d, z, r, b, got)
    BY <1>6, <1>7
  <1>12. reader.room = room /\ reader.got = got /\ 0 <= room /\ Len(got) = Len(got) + 0
    BY <1>4
  <1> QED
    BY <1>1, <1>10, <1>11, <1>12, Given

LEMMA TagStep ==
  ASSUME NEW C, WriterInv, ReaderInv(C), Meant(C), inflate_tag
  PROVE  ReaderInv(C)'
  <1>1. /\ reader.pc = "inflating" /\ reader.buf = <<>> /\ reader.zeros = 0 /\ reader.raw = 0
        /\ Len(reader.in) >= HeaderOf(reader.in) /\ reader.in[1] # 0 /\ reader.in[1] # FullTag
        /\ UNCHANGED <<message, writer, stream>>
    BY DEF inflate_tag, HeaderIn, Between, Inflating, Give, HeaderSize, HeaderOf
  <1>2. stream \in Seq(Nat) /\ Meaning(C, stream, Plain)
    BY <1>1, Inflates
  <1>4. PICK taken, zeros, raw, room \in Nat, in, buf, got \in Seq(Nat) :
          /\ reader = [pc |-> "inflating", taken |-> taken, in |-> in, zeros |-> zeros,
                       raw |-> raw, buf |-> buf, room |-> room, got |-> got]
          /\ Holds(C, stream, Plain, taken, in, zeros, raw, buf, got)
    BY <1>1, Inflates
  <1>5. /\ buf = <<>> /\ zeros = 0 /\ raw = 0 /\ Len(in) >= HeaderOf(in) /\ in[1] # 0 /\ in[1] # FullTag
    BY <1>1, <1>4
  <1>6. /\ Drop(in, HeaderOf(in)) \in Seq(Nat) /\ Unpacked(in[1], Drop(in, 1)) \in Seq(Nat)
        /\ Holds(C, stream, Plain, taken, Drop(in, HeaderOf(in)), 0, 0, Unpacked(in[1], Drop(in, 1)), got)
    <2>1. PICK S \in Seq(Nat) : stream = S
      BY <1>2
    <2>2. Holds(C, S, Plain, taken, in, 0, 0, <<>>, got) /\ Meaning(C, S, Plain)
      BY <1>2, <1>4, <1>5, <2>1
    <2> QED
      BY <1>5, <2>1, <2>2, TookSome
  <1>7. PICK z, r \in Nat, d, b \in Seq(Nat) : 0 = z /\ 0 = r /\ Drop(in, HeaderOf(in)) = d /\ Unpacked(in[1], Drop(in, 1)) = b
    BY <1>5, <1>6
  <1>9. got \o <<>> = got /\ Len(<<>>) = 0 /\ room - 0 = room
    OBVIOUS
  <1>10. reader' = [pc |-> "inflating", taken |-> taken, in |-> d, zeros |-> z, raw |-> r,
                    buf |-> b, room |-> room - 0, got |-> got]
    BY <1>4, <1>5, <1>7, <1>9 DEF inflate_tag, Give, HeaderSize, HeaderOf
  <1>11. Holds(C, stream, Plain, taken, d, z, r, b, got)
    BY <1>6, <1>7
  <1>12. reader.room = room /\ reader.got = got /\ 0 <= room /\ Len(got) = Len(got) + 0
    BY <1>4
  <1> QED
    BY <1>1, <1>10, <1>11, <1>12, Given

\* Steps of read_fp that give nothing.
LEMMA Sought ==
  ASSUME NEW C, WriterInv, ReaderInv(C), writer.pc # "deflating",
         UNCHANGED <<message, writer, stream>>,
         NEW pc \in {"asking", "inflating", "done"}, NEW n \in Nat,
         reader' = [reader EXCEPT !.pc = pc, !.room = n],
         pc = "inflating" => Len(reader.got) + n <= Total,
         pc = "done" => Len(reader.got) = Total
  PROVE  ReaderInv(C)'
  <1>1. reader \in Readers
    BY DEF ReaderInv
  <1>2. reader' \in Readers
    BY <1>1 DEF Readers
  <1>3. /\ reader'.pc = pc /\ reader'.taken = reader.taken /\ reader'.in = reader.in
        /\ reader'.zeros = reader.zeros /\ reader'.raw = reader.raw /\ reader'.buf = reader.buf
        /\ reader'.room = n /\ reader'.got = reader.got
    BY <1>1 DEF Readers
  <1>4. Plain' = Plain /\ stream' = stream /\ writer' = writer /\ Total' = Total
    BY DEF Plain, Total
  <1> QED
    BY <1>2, <1>3, <1>4 DEF ReaderInv

\* A reader that needs input has not had all of it, and has room for more.
LEMMA MoreToTake ==
  ASSUME NEW C, NEW S \in Seq(Nat), NEW M \in Seq(Nat), Meaning(C, S, M), End(C, S, Len(M), 0),
         NEW taken \in Nat, NEW in \in Seq(Nat), NEW raw \in Nat, NEW got \in Seq(Nat),
         Holds(C, S, M, taken, in, 0, raw, <<>>, got), Len(got) < Len(M),
         \/ raw > 0 /\ in = <<>>
         \/ raw = 0 /\ Len(in) < HeaderOf(in)
  PROVE  Len(in) < ZBUF_SZ /\ taken < Len(S)
  <1>1. PICK k, g, m, l \in Nat : Len(in) = k /\ Len(got) = g /\ Len(M) = m /\ Len(S) = l
    OBVIOUS
  <1>2. k <= taken /\ taken <= l
    BY <1>1 DEF Holds
  <1>3. PICK p \in Nat : taken - k = p
    BY <1>2
  <1>4. <<p, g, raw>> \in C
    <2>1. <<taken - k, g + (0 + 0), raw>> \in C
      BY <1>1 DEF Holds
    <2> QED
      BY <1>3, <2>1
  <1>5. p < l
    <2>1. SUFFICES ASSUME p = l PROVE FALSE
      BY <1>2, <1>3
    <2>2. <<Len(S), g, raw>> \in C
      BY <1>1, <1>4, <2>1
    <2>3. g = Len(M)
      BY <2>2 DEF End
    <2> QED
      BY <1>1, <2>3
  <1>6. CASE raw > 0 /\ in = <<>>
    <2>1. k = 0
      BY <1>1, <1>6
    <2> QED
      BY <1>1, <1>3, <1>5, <2>1, PackingAssumption, WordSize
  <1>7. CASE raw = 0 /\ Len(in) < HeaderOf(in)
    <2>1. Holds(C, S, M, taken, in, 0, 0, <<>>, got) /\ taken - Len(in) < Len(S)
      BY <1>1, <1>3, <1>5, <1>7
    <2>2. PICK p1, p2, q2, r2 \in Nat : Heading(C, S, M, taken, in, got, p1, p2, q2, r2)
      BY <2>1, AtToken
    <2>3. /\ p1 = p /\ HeaderOf(in) \in Nat /\ p1 + HeaderOf(in) <= p2 /\ p2 <= p1 + (Word + 2)
          /\ Token(S, M, p1, Len(got), p2, q2, r2)
      BY <1>1, <1>3, <2>2 DEF Heading
    <2>4. p2 <= l
      BY <1>1, <2>3, TokenLonger
    <2>5. PICK h \in Nat : HeaderOf(in) = h
      BY <2>3
    <2>6. k < h /\ p + h <= p2 /\ p2 <= p + (Word + 2)
      BY <1>1, <1>7, <2>3, <2>5
    <2> QED
      BY <1>1, <1>2, <1>3, <2>4, <2>6, PackingAssumption, WordSize
  <1> QED
    BY <1>6, <1>7

\* A reader that got all of the message has had all of the stream.
LEMMA AllTaken ==
  ASSUME NEW C, NEW S \in Seq(Nat), NEW M \in Seq(Nat), Meaning(C, S, M), End(C, S, Len(M), 0),
         NEW taken \in Nat, NEW in \in Seq(Nat), NEW zeros \in Nat, NEW raw \in Nat,
         NEW buf \in Seq(Nat), NEW got \in Seq(Nat),
         Holds(C, S, M, taken, in, zeros, raw, buf, got), Len(got) = Len(M)
  PROVE  taken = Len(S) /\ in = <<>> /\ buf = <<>> /\ zeros = 0 /\ raw = 0
  <1>1. PICK k, b, m, l \in Nat : Len(in) = k /\ Len(buf) = b /\ Len(M) = m /\ Len(S) = l
    OBVIOUS
  <1>2. k <= taken /\ taken <= l
    BY <1>1 DEF Holds
  <1>3. PICK p \in Nat : taken - k = p
    BY <1>2
  <1>4. <<p, m + (b + zeros), raw>> \in C
    BY <1>1, <1>3 DEF Holds
  <1>5. Within(S, M, p, m + (b + zeros), raw)
    <2>1. m + (b + zeros) \in Nat
      OBVIOUS
    <2> QED
      BY <1>4, <2>1 DEF Meaning
  <1>6. b = 0 /\ zeros = 0
    BY <1>1, <1>5 DEF Within
  <1>7. <<p, m, raw>> \in C
    <2>1. m + (b + zeros) = m
      BY <1>6
    <2> QED
      BY <1>4, <2>1
  <1>8. p = l
    <2>1. SUFFICES ASSUME p < l PROVE FALSE
      BY <1>2, <1>3
    <2>2. CASE raw > 0
      <3>1. Runs(C, S, M, p, m, raw)
        BY <1>7, <2>2 DEF Meaning
      <3>2. <<p + 1, m + 1, raw - 1>> \in C
        <4>1. 1 \in 1..raw /\ p + 1 <= Len(S)
          BY <1>1, <2>1, <2>2
        <4> QED
          BY <3>1, <4>1 DEF Runs
      <3>3. Within(S, M, p + 1, m + 1, raw - 1)
        <4>1. p + 1 \in Nat /\ m + 1 \in Nat /\ raw - 1 \in Nat
          BY <2>2
        <4> QED
          BY <3>2, <4>1 DEF Meaning
      <3> QED
        BY <1>1, <3>3 DEF Within
    <2>3. CASE raw = 0
      <3>1. Reads(C, S, M, p, m)
        BY <1>1, <1>7, <2>1, <2>3 DEF Meaning
      <3>2. PICK p2, q2, r2 \in Nat : <<p2, q2, r2>> \in C /\ Token(S, M, p, m, p2, q2, r2)
        BY <3>1 DEF Reads
      <3>3. q2 >= m + Word
        BY <3>2, TokenLonger
      <3>4. Within(S, M, p2, q2, r2)
        BY <3>2 DEF Meaning
      <3> QED
        BY <1>1, <3>3, <3>4, WordSize DEF Within
    <2> QED
      BY <2>2, <2>3
  <1>9. raw = 0
    <2>1. <<Len(S), m, raw>> \in C
      BY <1>1, <1>7, <1>8
    <2> QED
      BY <2>1 DEF End
  <1>10. taken = l /\ k = 0
    BY <1>2, <1>3, <1>8
  <1>11. in = <<>> /\ buf = <<>>
    BY <1>1, <1>6, <1>10
  <1> QED
    BY <1>1, <1>6, <1>9, <1>10, <1>11

LEMMA GotWithin ==
  ASSUME NEW C, WriterInv, ReaderInv(C), Meant(C)
  PROVE  /\ Len(reader.got) \in Nat /\ Total \in Nat /\ Len(reader.got) <= Total
         /\ reader.raw <= MaxCount * Word
  <1>1. Meaning(C, Sent, Plain)
    BY DEF Meant
  <1>2. reader.got \in Seq(Nat) /\ reader.buf \in Seq(Nat) /\ reader.in \in Seq(Nat)
        /\ reader.zeros \in Nat /\ reader.raw \in Nat /\ reader.taken \in Nat
    BY DEF ReaderInv, Readers
  <1>3. PICK g, b, k, z, r, t \in Nat :
          /\ Len(reader.got) = g /\ Len(reader.buf) = b /\ Len(reader.in) = k
          /\ reader.zeros = z /\ reader.raw = r /\ reader.taken = t
    <2>1. Len(reader.got) \in Nat /\ Len(reader.buf) \in Nat /\ Len(reader.in) \in Nat
      BY <1>2
    <2> QED
      BY <1>2, <2>1, Zenon
  <1>4. k <= t /\ <<t - k, g + (b + z), r>> \in C
    BY <1>3 DEF ReaderInv, Holds
  <1>5. t - k \in Nat /\ g + (b + z) \in Nat
    BY <1>4
  <1>6. Within(Sent, Plain, t - k, g + (b + z), r)
    BY <1>1, <1>4, <1>5 DEF Meaning
  <1>7. PICK m \in Nat : Len(Plain) = m
    <2>1. Plain \in Seq(Nat)
      BY AtFacts
    <2> QED
      BY <2>1
  <1> QED
    BY <1>3, <1>6, <1>7 DEF Within, Total

LEMMA AskStep ==
  ASSUME NEW C, WriterInv, ReaderInv(C), Meant(C), NEW n \in Sizes, read_fp(n)
  PROVE  ReaderInv(C)'
  <1>1. /\ writer.pc # "deflating" /\ UNCHANGED <<message, writer, stream>>
        /\ reader' = [reader EXCEPT !.pc = "inflating", !.room = n]
    BY DEF read_fp
  <1>2. PICK g, t \in Nat : Len(reader.got) = g /\ Total = t /\ g <= t
    BY <1>1, GotWithin
  <1>3. n \in IF t - g = 0 THEN {0} ELSE 1..(t - g)
    BY <1>2 DEF Sizes
  <1>4. n \in Nat /\ g + n <= t
    BY <1>2, <1>3
  <1> QED
    BY <1>1, <1>2, <1>4, Sought

LEMMA DoneStep ==
  ASSUME NEW C, WriterInv, ReaderInv(C), read_done
  PROVE  ReaderInv(C)'
  <1>1. /\ writer.pc # "deflating" /\ UNCHANGED <<message, writer, stream>>
        /\ reader \in Readers /\ reader.room = 0
        /\ reader' = [reader EXCEPT !.pc = IF Len(reader.got) = Total THEN "done" ELSE "asking"]
    BY DEF read_done, ReaderInv
  <1>2. PICK pc \in {"asking", "inflating", "done"} :
          /\ (IF Len(reader.got) = Total THEN "done" ELSE "asking") = pc
          /\ pc # "inflating" /\ (pc = "done" => Len(reader.got) = Total)
    OBVIOUS
  <1>3. reader' = [reader EXCEPT !.pc = pc, !.room = 0]
    BY <1>1, <1>2 DEF Readers
  <1>4. PICK n \in Nat : 0 = n
    OBVIOUS
  <1> QED
    BY <1>1, <1>2, <1>3, <1>4, Sought

LEMMA RefillStep ==
  ASSUME NEW C, WriterInv, ReaderInv(C), Meant(C), NEW n \in Portions, refill(n)
  PROVE  ReaderInv(C)'
  <1>1. /\ reader.pc = "inflating" /\ reader.room > 0 /\ reader.buf = <<>> /\ reader.zeros = 0
        /\ \/ reader.raw > 0 /\ reader.in = <<>>
           \/ reader.raw = 0 /\ Len(reader.in) < HeaderOf(reader.in)
        /\ UNCHANGED <<message, writer, stream>>
        /\ reader' = [reader EXCEPT
             !.in = @ \o SubSeq(stream, reader.taken + 1, reader.taken + n),
             !.taken = @ + n, !.pc = IF n = 0 THEN "failed" ELSE "inflating"]
    BY DEF refill, NeedsInput, Between, Inflating, HeaderSize, HeaderOf, Refilled, After_read
  <1>2. writer.pc # "deflating" /\ Len(reader.got) + reader.room <= Total
    BY <1>1 DEF ReaderInv
  <1>3. PICK S \in Seq(Nat) : stream = S /\ Meaning(C, S, Plain)
    BY <1>2, AllSent
  <1>4. PICK taken, zeros, raw, room \in Nat, in, buf, got \in Seq(Nat) :
          /\ reader = [pc |-> "inflating", taken |-> taken, in |-> in, zeros |-> zeros,
                       raw |-> raw, buf |-> buf, room |-> room, got |-> got]
          /\ Holds(C, stream, Plain, taken, in, zeros, raw, buf, got)
    BY <1>1, Inflates
  <1>5. PICK k, l \in Nat : Len(in) = k /\ Len(S) = l
    OBVIOUS
  <1>6. k <= ZBUF_SZ /\ taken <= l /\ Holds(C, S, Plain, taken, in, zeros, raw, buf, got)
    BY <1>3, <1>4, <1>5 DEF Holds
  <1>7. /\ n \in Nat /\ k + n <= ZBUF_SZ /\ taken + n <= l
        /\ n = 0 => ~(k < ZBUF_SZ /\ taken < l)
    <2>1. PICK a, b \in Nat : ZBUF_SZ - k = a /\ l - taken = b
      BY <1>6, PackingAssumption
    <2>2. n \in IF Least(a, b) = 0 THEN {0} ELSE 1..Least(a, b)
      BY <1>3, <1>4, <1>5, <2>1 DEF Portions
    <2>3. n \in Nat /\ n <= a /\ n <= b /\ (n = 0 => a = 0 \/ b = 0)
      BY <2>2 DEF Least
    <2> QED
      BY <1>6, <2>1, <2>3, PackingAssumption
  <1>8. PICK u \in Seq(Nat) : /\ in \o SubSeq(S, taken + 1, taken + n) = u
                              /\ Holds(C, S, Plain, taken + n, u, zeros, raw, buf, got)
    <2>1. Len(in) + n <= ZBUF_SZ /\ taken + n <= Len(S) /\ n \in Nat
      BY <1>5, <1>7
    <2>2. /\ in \o SubSeq(S, taken + 1, taken + n) \in Seq(Nat)
          /\ Holds(C, S, Plain, taken + n, in \o SubSeq(S, taken + 1, taken + n), zeros, raw, buf, got)
      BY <1>6, <2>1, Refills
    <2> QED
      BY <2>2
  <1>9. PICK pc \in {"inflating", "failed"} :
          /\ (IF n = 0 THEN "failed" ELSE "inflating") = pc /\ (pc = "failed" => n = 0)
    OBVIOUS
  <1>10. reader' = [pc |-> pc, taken |-> taken + n, in |-> u, zeros |-> zeros, raw |-> raw,
                    buf |-> buf, room |-> room, got |-> got]
    BY <1>1, <1>3, <1>4, <1>8, <1>9
  <1>11. reader' \in Readers
    BY <1>7, <1>10 DEF Readers
  <1>12. Plain' = Plain /\ stream' = stream /\ writer' = writer /\ Total' = Total
    BY <1>1 DEF Plain, Total
  <1>13. Len(got) + room <= Total
    BY <1>2, <1>4
  <1>14. ASSUME n = 0 PROVE writer.pc # "done"
    <2>1. SUFFICES ASSUME writer.pc = "done" PROVE FALSE
      OBVIOUS
    <2>2. PICK M \in Seq(Nat) : Plain = M
      BY AtFacts
    <2>3. Meaning(C, S, M) /\ End(C, S, Len(M), 0)
      BY <1>3, <2>1, <2>2, AllSent DEF Total
    <2>4. /\ buf = <<>> /\ zeros = 0 /\ room > 0
          /\ \/ raw > 0 /\ in = <<>>
             \/ raw = 0 /\ Len(in) < HeaderOf(in)
      BY <1>1, <1>4
    <2>5. Holds(C, S, M, taken, in, 0, raw, <<>>, got)
      BY <1>6, <2>2, <2>4
    <2>6. Len(got) < Len(M)
      <3>1. PICK g, m \in Nat : Len(got) = g /\ Len(M) = m
        OBVIOUS
      <3>2. g + room <= m
        BY <1>13, <2>2, <3>1 DEF Total
      <3> QED
        BY <2>4, <3>1, <3>2
    <2>7. Len(in) < ZBUF_SZ /\ taken < Len(S)
      BY <2>3, <2>4, <2>5, <2>6, MoreToTake
    <2> QED
      BY <1>5, <1>7, <1>14, <2>7
  <1> QED
    BY <1>2, <1>3, <1>8, <1>9, <1>10, <1>11, <1>12, <1>13, <1>14 DEF ReaderInv

\* The writer's steps leave the reader as it is.
LEMMA ReaderStays ==
  ASSUME NEW C, NEW D, C \subseteq D, ReaderInv(C), writer.pc = "deflating",
         stream \in Seq(Nat), NEW x \in Seq(Nat), stream' = stream \o x,
         reader' = reader, message' = message
  PROVE  ReaderInv(D)'
  <1>1. reader \in Readers /\ reader.pc = "asking"
    BY DEF ReaderInv
  <1>2. PICK taken, zeros, raw, room \in Nat, in, buf, got \in Seq(Nat) :
          reader = [pc |-> "asking", taken |-> taken, in |-> in, zeros |-> zeros,
                    raw |-> raw, buf |-> buf, room |-> room, got |-> got]
    BY <1>1 DEF Readers
  <1>3. PICK S \in Seq(Nat) : stream = S
    OBVIOUS
  <1>4. Holds(C, S, Plain, taken, in, zeros, raw, buf, got)
    BY <1>2, <1>3 DEF ReaderInv
  <1>5. Holds(D, S \o x, Plain, taken, in, zeros, raw, buf, got)
    BY <1>4, HoldsLater
  <1>6. Plain' = Plain
    BY DEF Plain
  <1>7. Holds(D, stream', Plain', reader'.taken, reader'.in, reader'.zeros, reader'.raw,
              reader'.buf, reader'.got)
    BY <1>2, <1>3, <1>5, <1>6
  <1> QED
    BY <1>1, <1>7 DEF ReaderInv

\* Some set of points says what the packed bytes stand for, ends where the
\* writer is, and has the reader at one of its points.
PackingInv == WriterInv /\ \E C : Meant(C) /\ ReaderInv(C)

LEMMA PackingInvInit == Init => PackingInv
  <1> SUFFICES ASSUME Init PROVE PackingInv
    OBVIOUS
  <1>1. PICK c \in Caps : writer = [pc |-> "deflating", seg |-> 1, in |-> message[1],
                                    out |-> <<>>, raw |-> 0, cap |-> c]
    BY DEF Init
  <1>2. /\ message \in Messages /\ stream = <<>>
        /\ reader = [pc |-> "asking", taken |-> 0, in |-> <<>>, zeros |-> 0, raw |-> 0,
                     buf |-> <<>>, room |-> 0, got |-> <<>>]
    BY DEF Init
  <1>3. PICK f \in Messages : message = f
    BY <1>2
  <1>4. PICK n \in Nat \ {0} : Len(f) = n /\ f \in [1..n -> Seq(Nat)]
    BY MessageFacts
  <1>5. 1 \in 1..n /\ 0 \in 0..n /\ 1 - 1 = 0
    OBVIOUS
  <1>6. PICK s \in Seq(Nat) : f[1] = s
    BY <1>4, <1>5
  <1>7. PICK l \in Nat : Len(s) = l
    OBVIOUS
  <1>8. <<>> \in Seq(Nat) /\ Len(<<>>) = 0 /\ <<>> \o <<>> = <<>>
    OBVIOUS
  <1>9. c \in Nat
    BY PackingAssumption
  <1>10. writer \in [pc: {"deflating", "done", "failed"}, seg: 1..Len(message),
                     in: Seq(Nat), out: Seq(Nat), raw: Nat, cap: Caps]
    BY <1>1, <1>3, <1>4, <1>5, <1>6, <1>8
  <1>11. WriterInv
    <2>1. Rest(s, s, 0)
      BY <1>3, <1>4, <1>5, <1>6, WholeLeft
    <2> QED
      BY <1>1, <1>2, <1>3, <1>6, <1>8, <1>9, <1>10, <2>1 DEF WriterInv
  <1>12. At = 0 /\ Sent = <<>>
    <2>1. Joined(f, 0) = <<>> /\ Len(Joined(f, 1)) = Len(Joined(f, 1 - 1)) + Len(f[1])
      BY <1>4, <1>5, JoinedFacts
    <2>2. Len(Joined(f, 1)) = l
      BY <1>5, <1>6, <1>7, <1>8, <2>1
    <2>3. At = l - l
      BY <1>1, <1>3, <1>6, <1>7, <2>2 DEF At
    <2> QED
      BY <1>1, <1>2, <1>8, <2>3 DEF Sent
  <1>13. PICK C : C = {<<0, 0, 0>>}
    OBVIOUS
  <1>14. PICK M \in Seq(Nat) : Plain = M
    BY <1>11, AtFacts
  <1>15. Meaning(C, <<>>, M)
    <2>1. <<0, 0, 0>> \in C
      BY <1>13
    <2>2. ASSUME NEW p \in Nat, NEW q \in Nat, NEW r \in Nat, <<p, q, r>> \in C
          PROVE  p = 0 /\ q = 0 /\ r = 0
      BY <1>13, <2>2
    <2>3. Within(<<>>, M, 0, 0, 0)
      <3>1. Len(M) \in Nat /\ MaxCount * Word \in Nat
        BY WordSize
      <3> QED
        BY <1>8, <3>1 DEF Within
    <2> QED
      BY <1>8, <2>1, <2>2, <2>3 DEF Meaning
  <1>16. End(C, <<>>, 0, 0)
    BY <1>8, <1>13 DEF End
  <1>17. Meant(C)
    BY <1>1, <1>12, <1>14, <1>15, <1>16 DEF Meant
  <1>18. ReaderInv(C)
    <2>1. reader \in Readers
      BY <1>2, <1>8 DEF Readers
    <2>2. Holds(C, <<>>, M, 0, <<>>, 0, 0, <<>>, <<>>)
      <3>1. 0 <= (MaxCount + 1) * Word /\ 0 <= Word /\ 0 <= ZBUF_SZ /\ \A i \in 1..0 : FALSE
        BY WordSize, PackingAssumption
      <3>2. <<0 - 0, 0 + (0 + 0), 0>> \in C
        BY <1>13
      <3>3. PICK e \in Seq(Nat) : <<>> = e /\ Len(e) = 0
        BY <1>8
      <3>4. Holds(C, e, M, 0, e, 0, 0, e, e)
        BY <3>1, <3>2, <3>3 DEF Holds
      <3> QED
        BY <3>3, <3>4
    <2> QED
      BY <1>1, <1>2, <1>14, <2>1, <2>2 DEF ReaderInv
  <1> QED
    BY <1>11, <1>17, <1>18 DEF PackingInv

LEMMA WriterSteps ==
  ASSUME WriterInv, NEW C, Meant(C), ReaderInv(C), Write
  PROVE  PackingInv'
  <1>0. stream \in Seq(Nat) /\ writer.out \in Seq(Nat)
    BY DEF WriterInv
  <1>1. ASSUME Deflated(C), writer.pc = "deflating" PROVE PackingInv'
    <2>1. /\ WriterInv' /\ message' = message /\ reader' = reader /\ stream' = stream
          /\ \E D : C \subseteq D /\ Meant(D)'
      BY <1>1 DEF Deflated
    <2>2. PICK D : C \subseteq D /\ Meant(D)'
      BY <2>1
    <2>3. PICK x \in Seq(Nat) : stream' = stream \o x
      <3>1. <<>> \in Seq(Nat) /\ stream \o <<>> = stream
        BY <1>0
      <3> QED
        BY <2>1, <3>1
    <2>4. ReaderInv(D)'
      BY <1>0, <1>1, <2>1, <2>2, <2>3, ReaderStays
    <2> QED
      BY <2>1, <2>2, <2>4 DEF PackingInv
  <1>2. ASSUME WriterInv', Meant(C)', message' = message, reader' = reader,
               writer.pc = "deflating", stream' = stream \o writer.out
        PROVE  PackingInv'
    <2>1. PICK x \in Seq(Nat) : stream' = stream \o x
      BY <1>0, <1>2
    <2>2. ReaderInv(C)'
      BY <1>0, <1>2, <2>1, ReaderStays
    <2> QED
      BY <1>2, <2>2 DEF PackingInv
  <1>3. CASE deflate_raw
    <2>1. writer.pc = "deflating" /\ Deflated(C)
      BY <1>3, RawStep DEF deflate_raw, Deflating
    <2> QED
      BY <1>1, <2>1
  <1>4. CASE deflate_zeros
    <2>1. writer.pc = "deflating" /\ Deflated(C)
      BY <1>4, ZerosStep DEF deflate_zeros, Fits, Deflating
    <2> QED
      BY <1>1, <2>1
  <1>5. CASE deflate_full
    <2>1. writer.pc = "deflating" /\ Deflated(C)
      BY <1>5, FullStep DEF deflate_full, Fits, Deflating
    <2> QED
      BY <1>1, <2>1
  <1>6. CASE deflate_some
    <2>1. writer.pc = "deflating" /\ Deflated(C)
      BY <1>6, SomeStep DEF deflate_some, Fits, Deflating
    <2> QED
      BY <1>1, <2>1
  <1>7. CASE emit_chunk
    BY <1>2, <1>7, EmitChunkStep
  <1>8. CASE emit_last
    BY <1>2, <1>8, EmitLastStep
  <1> QED
    BY <1>3, <1>4, <1>5, <1>6, <1>7, <1>8 DEF Write

LEMMA ReaderSteps ==
  ASSUME WriterInv, NEW C, Meant(C), ReaderInv(C), Read
  PROVE  PackingInv'
  <1>1. ReaderInv(C)' /\ UNCHANGED <<message, writer, stream>>
    <2>1. CASE \E n \in Sizes : read_fp(n)
      BY <2>1, AskStep DEF read_fp
    <2>2. CASE inflate_buffered
      BY <2>2, BufferedStep DEF inflate_buffered, Give
    <2>3. CASE inflate_zeros
      BY <2>3, ZerosGivenStep DEF inflate_zeros, Give
    <2>4. CASE inflate_raw
      BY <2>4, RawGivenStep DEF inflate_raw, Give
    <2>5. CASE inflate_full_tag
      BY <2>5, FullTagStep DEF inflate_full_tag, Give
    <2>6. CASE inflate_zero_tag
      BY <2>6, ZeroTagStep DEF inflate_zero_tag, Give
    <2>7. CASE inflate_tag
      BY <2>7, TagStep DEF inflate_tag, Give
    <2>8. CASE \E n \in Portions : refill(n)
      BY <2>8, RefillStep DEF refill
    <2>9. CASE read_done
      BY <2>9, DoneStep DEF read_done
    <2> QED
      BY <2>1, <2>2, <2>3, <2>4, <2>5, <2>6, <2>7, <2>8, <2>9 DEF Read
  <1>2. WriterInv' /\ Meant(C)'
    <2>1. Sent' = Sent /\ Plain' = Plain /\ At' = At
      BY <1>1 DEF Sent, Plain, At
    <2>2. Meant(C)'
      BY <1>1, <2>1 DEF Meant
    <2>3. WriterInv'
      BY <1>1 DEF WriterInv
    <2> QED
      BY <2>2, <2>3
  <1> QED
    BY <1>1, <1>2 DEF PackingInv

LEMMA PackingInvNext == PackingInv /\ [Next]_vars => PackingInv'
  <1> SUFFICES ASSUME PackingInv, [Next]_vars PROVE PackingInv'
    OBVIOUS
  <1>1. WriterInv
    BY DEF PackingInv
  <1>2. PICK C : Meant(C) /\ ReaderInv(C)
    BY DEF PackingInv
  <1>3. CASE Write
    BY <1>1, <1>2, <1>3, WriterSteps
  <1>4. CASE Read
    BY <1>1, <1>2, <1>4, ReaderSteps
  <1>5. CASE UNCHANGED vars
    <2>1. /\ message' = message /\ writer' = writer /\ stream' = stream /\ reader' = reader
      BY <1>5 DEF vars
    <2>2. Sent' = Sent /\ Plain' = Plain /\ At' = At /\ Total' = Total
      BY <2>1 DEF Sent, Plain, At, Total
    <2>3. Meant(C)'
      BY <1>2, <2>1, <2>2 DEF Meant
    <2>4. WriterInv'
      BY <1>1, <2>1 DEF WriterInv
    <2>5. ReaderInv(C)'
      BY <1>2, <2>1, <2>2 DEF ReaderInv
    <2> QED
      BY <2>3, <2>4, <2>5 DEF PackingInv
  <1> QED
    BY <1>3, <1>4, <1>5 DEF Next

LEMMA PackingInvAlways == Spec => []PackingInv
  BY PackingInvInit, PackingInvNext, PTL DEF Spec

LEMMA NothingLost == PackingInv => Lossless
  <1> SUFFICES ASSUME PackingInv PROVE Lossless
    OBVIOUS
  <1>1. WriterInv
    BY DEF PackingInv
  <1>2. PICK C : Meant(C) /\ ReaderInv(C)
    BY DEF PackingInv
  <1>3. PICK M \in Seq(Nat) : Plain = M
    BY <1>1, AtFacts
  <1>4. PICK s \in Seq(Nat) : reader.got = s
    BY <1>2 DEF ReaderInv, Readers
  <1>5. Len(s) <= Len(M)
    BY <1>1, <1>2, <1>3, <1>4, GotWithin DEF Total
  <1>6. \A i \in 1..Len(s) : s[i] = M[i]
    BY <1>2, <1>3, <1>4 DEF ReaderInv, Holds
  <1>7. s = Take(M, Len(s))
    <2>1. PICK n \in Nat : Len(s) = n
      OBVIOUS
    <2>2. PICK t \in Seq(Nat) : Take(M, n) = t /\ Len(t) = n /\ \A i \in 1..n : t[i] = M[i]
      BY <1>5, <2>1, TakeFacts
    <2>3. Len(s) = Len(t) /\ \A i \in 1..Len(s) : s[i] = t[i]
      BY <1>6, <2>1, <2>2
    <2>4. s = t
      BY <2>3, Same
    <2> QED
      BY <2>1, <2>2, <2>4
  <1> QED
    BY <1>2, <1>3, <1>4, <1>7 DEF Lossless, ReaderInv

LEMMA NothingLeft == PackingInv => ReadsBack
  <1> SUFFICES ASSUME PackingInv, writer.pc = "done"
               PROVE  /\ reader.pc # "failed"
                      /\ reader.pc = "done" =>
                           /\ reader.taken = Len(stream) /\ reader.in = <<>>
                           /\ reader.buf = <<>> /\ reader.zeros = 0 /\ reader.raw = 0
    BY DEF ReadsBack
  <1>1. WriterInv
    BY DEF PackingInv
  <1>2. PICK C : Meant(C) /\ ReaderInv(C)
    BY DEF PackingInv
  <1>3. PICK S, M \in Seq(Nat) : stream = S /\ Plain = M
    BY <1>1, AtFacts DEF WriterInv
  <1>4. Meaning(C, S, M) /\ End(C, S, Len(M), 0)
    BY <1>1, <1>2, <1>3, AllSent DEF Total
  <1>5. reader.pc # "failed"
    BY <1>2 DEF ReaderInv
  <1>6. ASSUME reader.pc = "done"
        PROVE  /\ reader.taken = Len(S) /\ reader.in = <<>>
               /\ reader.buf = <<>> /\ reader.zeros = 0 /\ reader.raw = 0
    <2>1. PICK taken, zeros, raw \in Nat, in, buf, got \in Seq(Nat) :
            /\ reader.taken = taken /\ reader.in = in /\ reader.zeros = zeros /\ reader.raw = raw
            /\ reader.buf = buf /\ reader.got = got
      BY <1>2 DEF ReaderInv, Readers
    <2>2. Holds(C, S, M, taken, in, zeros, raw, buf, got) /\ Len(got) = Len(M)
      BY <1>2, <1>3, <1>6, <2>1 DEF ReaderInv, Total
    <2>3. taken = Len(S) /\ in = <<>> /\ buf = <<>> /\ zeros = 0 /\ raw = 0
      BY <1>4, <2>2, AllTaken
    <2> QED
      BY <2>1, <2>3
  <1> QED
    BY <1>3, <1>5, <1>6

\* However packed_emit_seg cuts its buffers and read_fp its portions and its
\* output, capn_inflate gives back the bytes that capn_deflate was given.
THEOREM RoundTrip == Spec => []Lossless
  BY PackingInvAlways, NothingLost, PTL

\* The reader of a stream that was written to its end never finds it cut short;
\* when it has the message it has read every byte, and capn_inflate has none of
\* its counters left.
THEOREM NothingPending == Spec => []ReadsBack
  BY PackingInvAlways, NothingLeft, PTL

LEMMA Typed == PackingInv => TypeOK
  <1> SUFFICES ASSUME PackingInv PROVE TypeOK
    OBVIOUS
  <1>1. WriterInv
    BY DEF PackingInv
  <1>2. PICK C : Meant(C) /\ ReaderInv(C)
    BY DEF PackingInv
  <1>3. PICK limit, more \in Nat : MaxCount * Word = limit /\ (MaxCount + 1) * Word = more
    BY WordSize
  <1>4. writer \in [pc: {"deflating", "done", "failed"}, seg: 1..Len(message),
                    in: Seq(Nat), out: Seq(Nat), raw: Nat, cap: Caps]
        /\ message \in Messages /\ stream \in Seq(Nat) /\ Len(writer.out) <= writer.cap
    BY <1>1 DEF WriterInv
  <1>5. writer.raw \in 0..limit
    <2>1. PICK P, M \in Seq(Nat), at \in Nat : Sent = P /\ Plain = M /\ At = at
      BY <1>1, AtFacts
    <2>2. PICK raw \in Nat : writer.raw = raw
      BY <1>4
    <2>3. <<Len(P), at, raw>> \in C /\ Meaning(C, P, M) /\ Len(P) \in Nat
      BY <1>2, <2>1, <2>2 DEF Meant, End
    <2>4. Within(P, M, Len(P), at, raw)
      BY <2>3 DEF Meaning
    <2> QED
      BY <1>3, <2>2, <2>4 DEF Within
  <1>6. writer \in [pc: {"deflating", "done", "failed"}, seg: 1..Len(message),
                    in: Seq(Nat), out: Seq(Nat), raw: 0..limit, cap: Caps]
    BY <1>4, <1>5
  <1>7. reader \in Readers
    BY <1>2 DEF ReaderInv
  <1>8. /\ Len(reader.in) <= ZBUF_SZ /\ Len(reader.buf) <= Word /\ reader.zeros <= more
        /\ reader.taken <= Len(stream)
    BY <1>2, <1>3 DEF ReaderInv, Holds
  <1>9. reader.raw <= limit
    BY <1>1, <1>2, <1>3, GotWithin
  <1>10. PICK l \in Nat : Len(stream) = l
    BY <1>4
  <1>11. /\ reader.taken \in 0..l /\ reader.zeros \in 0..more /\ reader.raw \in 0..limit
    BY <1>7, <1>8, <1>9, <1>10 DEF Readers
  <1>12. reader \in [pc: {"asking", "inflating", "done", "failed"}, taken: 0..l,
                     in: Seq(Nat), zeros: 0..more, raw: 0..limit, buf: Seq(Nat), room: Nat,
                     got: Seq(Nat)]
    BY <1>7, <1>11 DEF Readers
  <1> QED
    BY <1>3, <1>4, <1>6, <1>8, <1>10, <1>12 DEF TypeOK, Bytes

\* The counters of capn_deflate and capn_inflate keep to their ranges, and what
\* is in the buffers fits.
THEOREM PackingTypes == Spec => []TypeOK
  BY PackingInvAlways, Typed, PTL

-----------------------------------------------------------------------------
\* Where the buffers end does not show.

\* A loop that runs backwards and may look further ahead than one step.
Backward(f, n, head, next) ==
  f[n] = <<>> /\ \A j \in 0..(n - 1) : f[j] = head[j] \o f[next[j]]

LEMMA BackwardExists ==
  ASSUME NEW n \in Nat, NEW head \in [0..(n - 1) -> Seq(Nat)],
         NEW next \in [0..(n - 1) -> 0..n], \A j \in 0..(n - 1) : next[j] > j
  PROVE  \E f \in [0..n -> Seq(Nat)] : Backward(f, n, head, next)
  <1> DEFINE F == [0..n -> Seq(Nat)]
             Upon(f, m) == f[n] = <<>> /\ \A j \in (n - m)..(n - 1) : f[j] = head[j] \o f[next[j]]
             T == {m \in 0..n : \E f \in F : Upon(f, m)}
  <1>1. 0 \in T
    <2>1. PICK f : f = [j \in 0..n |-> <<>>]
      OBVIOUS
    <2>2. f \in F /\ f[n] = <<>>
      BY <2>1
    <2>3. Upon(f, 0)
      BY <2>2
    <2>4. f \in F /\ 0 \in 0..n
      BY <2>2
    <2> HIDE DEF F, Upon
    <2> QED
      BY <2>3, <2>4
  <1>2. ASSUME NEW m \in 1..n, m - 1 \in T PROVE m \in T
    <2>1. PICK f \in F : Upon(f, m - 1)
      BY <1>2
    <2>2. PICK i \in 0..(n - 1) : n - m = i
      OBVIOUS
    <2>3. PICK k \in 0..n : next[i] = k /\ k > i
      BY <2>2
    <2>4. PICK v \in Seq(Nat) : head[i] \o f[k] = v
      <3>1. head[i] \in Seq(Nat) /\ f[k] \in Seq(Nat)
        BY <2>2, <2>3
      <3> QED
        BY <3>1, Both
    <2>5. PICK g : g = [f EXCEPT ![i] = v]
      OBVIOUS
    <2>6. g \in F /\ \A j \in 0..n : g[j] = IF j = i THEN v ELSE f[j]
      BY <2>5
    <2>7. i \in 0..n /\ n \in 0..n /\ n # i /\ k # i
      BY <2>2, <2>3
    <2>8. g[n] = <<>>
      BY <2>1, <2>6, <2>7
    <2>9. ASSUME NEW j \in (n - m)..(n - 1) PROVE g[j] = head[j] \o g[next[j]]
      <3>1. CASE j = i
        BY <2>3, <2>4, <2>6, <2>7, <3>1
      <3>2. CASE j # i
        <4>1. j \in (n - (m - 1))..(n - 1) /\ j \in 0..n /\ j \in 0..(n - 1) /\ j > i
          BY <2>2, <3>2
        <4>2. next[j] \in 0..n /\ next[j] # i
          BY <4>1
        <4>3. f[j] = head[j] \o f[next[j]]
          BY <2>1, <4>1
        <4> QED
          BY <2>6, <3>2, <4>1, <4>2, <4>3
      <3> QED
        BY <3>1, <3>2
    <2>10. Upon(g, m)
      BY <2>8, <2>9
    <2>11. g \in F /\ m \in 0..n
      BY <2>6
    <2> HIDE DEF F, Upon
    <2> QED
      BY <2>10, <2>11
  <1>3. n \in T
    <2> HIDE DEF T
    <2>1. n \in 0..n
      OBVIOUS
    <2> QED
      BY <1>1, <1>2, <2>1, StepByStep
  <1>4. PICK f \in F : Upon(f, n)
    BY <1>3
  <1>5. Backward(f, n, head, next)
    <2>1. n - n = 0
      OBVIOUS
    <2> QED
      BY <1>4, <2>1 DEF Backward
  <1> QED
    BY <1>4, <1>5

LEMMA WordCount ==
  ASSUME NEW s \in Seq(Nat), NEW n \in Nat, Len(s) = n * Word
  PROVE  Len(s) \div Word = n
  <1>1. PICK x \in Nat : x = Len(s)
    OBVIOUS
  <1>2. x = n * Word /\ x \div Word = n
    BY <1>1, WordSize
  <1> QED
    BY <1>1, <1>2

\* What the words at the head of s are packed to, with their raw run, and how
\* many they are.
Ahead(s) ==
  IF AllZero(WordAt(s, 0)) THEN Zeros(s)
  ELSE IF ZeroBytes(WordAt(s, 0)) = {} THEN 1 + Extra(s) ELSE 1

Coded(s) ==
  IF AllZero(WordAt(s, 0)) THEN ZerosBytes(s)
  ELSE IF ZeroBytes(WordAt(s, 0)) = {}
  THEN FullBytes(s) \o Take(Drop(s, Word), Extra(s) * Word)
  ELSE SomeBytes(s)

LEMMA CodedFacts ==
  ASSUME NEW s \in Seq(Nat), NEW n \in Nat \ {0}, Len(s) = n * Word
  PROVE  Ahead(s) \in 1..n /\ Coded(s) \in Seq(Nat)
  <1>0. PICK P \in Seq(Nat), at \in Nat : <<>> = P /\ 0 = at
    <2>1. <<>> \in Seq(Nat)
      OBVIOUS
    <2> QED
      BY <2>1
  <1>1. Faces(s, at, s)
    <2>1. PICK l \in Nat : Len(s) = l
      OBVIOUS
    <2>2. \A i \in 1..l : at + i = i /\ at + l <= l
      BY <1>0
    <2>3. at + l <= l
      BY <1>0
    <2> QED
      BY <2>1, <2>2, <2>3 DEF Faces
  <1>2. CASE AllZero(WordAt(s, 0))
    <2>1. PICK x : ZerosBytes(s) = x
      OBVIOUS
    <2>2. x \in Seq(Nat)
      BY <1>1, <1>2, <2>1, ZerosWritten
    <2>3. Zeros(s) \in 1..n
      BY <1>2, ZerosFacts
    <2> QED
      BY <1>2, <2>1, <2>2, <2>3 DEF Ahead, Coded
  <1>3. CASE ~AllZero(WordAt(s, 0)) /\ ZeroBytes(WordAt(s, 0)) = {}
    <2>1. PICK x : FullBytes(s) = x
      OBVIOUS
    <2>2. x \in Seq(Nat)
      BY <1>1, <1>3, <2>1, FullWritten
    <2>3. PICK e \in Nat : Extra(s) = e /\ e + 1 <= n
      BY ExtraFacts
    <2>4. PICK a, d \in Nat : n = (1 + e) + d /\ e * Word = a
      <3>1. n - (1 + e) \in Nat /\ n = (1 + e) + (n - (1 + e)) /\ e * Word \in Nat
        BY <2>3, WordSize
      <3> QED
        BY <3>1
    <2>5. Word + a <= Len(s)
      <3>1. ((1 + e) + d) * Word = (Word + e * Word) + d * Word /\ d * Word \in Nat
        BY WordSize
      <3> QED
        BY <2>4, <3>1, WordSize
    <2>6. Take(Drop(s, Word), a) \in Seq(Nat)
      <3>1. Word \in Nat /\ Word <= Len(s)
        BY <2>5, WordSize
      <3>2. PICK t \in Seq(Nat) : Drop(s, Word) = t /\ Len(t) = Len(s) - Word
        BY <3>1, DropFacts
      <3>3. a <= Len(t)
        BY <2>5, <3>1, <3>2
      <3> QED
        BY <3>2, <3>3, TakeFacts
    <2>7. x \o Take(Drop(s, Word), a) \in Seq(Nat)
      BY <2>2, <2>6, Both
    <2>8. 1 + e \in 1..n
      BY <2>3
    <2> QED
      BY <1>3, <2>1, <2>3, <2>4, <2>7, <2>8 DEF Ahead, Coded
  <1>4. CASE ~AllZero(WordAt(s, 0)) /\ ZeroBytes(WordAt(s, 0)) # {}
    <2>1. PICK x : SomeBytes(s) = x
      OBVIOUS
    <2>2. x \in Seq(Nat)
      BY <1>1, <1>4, <2>1, SomeWritten, ZenonT(30)
    <2> QED
      BY <1>4, <2>1, <2>2 DEF Ahead, Coded
  <1> QED
    BY <1>2, <1>3, <1>4

LEMMA FromWord ==
  ASSUME NEW s \in Seq(Nat), NEW n \in Nat, Len(s) = n * Word, NEW j \in 0..n
  PROVE  /\ Drop(s, j * Word) \in Seq(Nat) /\ Len(Drop(s, j * Word)) = (n - j) * Word
         /\ j * Word \in Nat /\ j * Word <= Len(s) /\ (n - j) * Word \in Nat
  <1>1. PICK m \in Nat : n = j + m
    <2>1. n - j \in Nat /\ n = j + (n - j)
      OBVIOUS
    <2> QED
      BY <2>1
  <1>2. (j + m) * Word = j * Word + m * Word /\ j * Word \in Nat /\ m * Word \in Nat
    BY WordSize
  <1>3. PICK a, b \in Nat : j * Word = a /\ m * Word = b /\ Len(s) = a + b
    BY <1>1, <1>2
  <1>4. Drop(s, a) \in Seq(Nat) /\ Len(Drop(s, a)) = b
    <2>1. a <= Len(s) /\ Len(s) - a = b
      BY <1>3
    <2> QED
      BY <2>1, DropFacts
  <1>5. n - j = m
    BY <1>1
  <1> QED
    BY <1>3, <1>4, <1>5

\* f[j] is what the words of s from word j on are packed to.
Turns(f, s, n) ==
  /\ f \in [0..n -> Seq(Nat)] /\ f[n] = <<>>
  /\ \A j \in 0..(n - 1) :
       f[j] = Coded(Drop(s, j * Word)) \o f[j + Ahead(Drop(s, j * Word))]

LEMMA TurnsExist ==
  ASSUME NEW s \in Seq(Nat), NEW n \in Nat, Len(s) = n * Word
  PROVE  \E f : Turns(f, s, n)
  <1> DEFINE head == [j \in 0..(n - 1) |-> Coded(Drop(s, j * Word))]
             next == [j \in 0..(n - 1) |-> j + Ahead(Drop(s, j * Word))]
  <1>1. ASSUME NEW j \in 0..(n - 1)
        PROVE  Coded(Drop(s, j * Word)) \in Seq(Nat) /\ Ahead(Drop(s, j * Word)) \in 1..(n - j)
    <2>1. PICK t \in Seq(Nat) : Drop(s, j * Word) = t /\ Len(t) = (n - j) * Word
      <3>1. j \in 0..n
        OBVIOUS
      <3> QED
        BY <3>1, FromWord
    <2>2. n - j \in Nat \ {0}
      OBVIOUS
    <2> QED
      BY <2>1, <2>2, CodedFacts
  <1>2. head \in [0..(n - 1) -> Seq(Nat)]
    BY <1>1
  <1>3. next \in [0..(n - 1) -> 0..n] /\ \A j \in 0..(n - 1) : next[j] > j
    <2>1. ASSUME NEW j \in 0..(n - 1)
          PROVE  j + Ahead(Drop(s, j * Word)) \in 0..n /\ j + Ahead(Drop(s, j * Word)) > j
      BY <1>1
    <2> QED
      BY <2>1
  <1>4. \A j \in 0..(n - 1) : /\ head[j] = Coded(Drop(s, j * Word))
                              /\ next[j] = j + Ahead(Drop(s, j * Word))
    OBVIOUS
  <1> HIDE DEF head, next
  <1>5. PICK f \in [0..n -> Seq(Nat)] : Backward(f, n, head, next)
    BY <1>2, <1>3, BackwardExists
  <1> QED
    BY <1>4, <1>5, ZenonT(60) DEF Backward, Turns

LEMMA WholeFacts ==
  ASSUME NEW s \in Seq(Nat), NEW n \in Nat, Len(s) = n * Word
  PROVE  \E f : Turns(f, s, n) /\ Whole(s) = f[0]
  <1> DEFINE Turn(f, j) ==
               IF j = Len(s) \div Word THEN <<>>
               ELSE LET rest == Drop(s, j * Word)
                        w == WordAt(rest, 0)
                    IN  IF AllZero(w) THEN <<0, Zeros(rest) - 1>> \o f[j + Zeros(rest)]
                        ELSE IF ZeroBytes(w) = {}
                        THEN <<FullTag>> \o w \o <<Extra(rest)>>
                               \o Take(Drop(rest, Word), Extra(rest) * Word)
                               \o f[j + 1 + Extra(rest)]
                        ELSE <<Tag(w)>> \o Packed(w) \o f[j + 1]
             packed == CHOOSE f : f = [j \in 0..(Len(s) \div Word) |-> Turn(f, j)]
  <1>1. Whole(s) = packed[0]
    BY DEF Whole
  <1>2. Len(s) \div Word = n
    BY WordCount
  <1>3. ASSUME NEW f, NEW j \in 0..n
        PROVE  Turn(f, j) = IF j = n THEN <<>>
                            ELSE Coded(Drop(s, j * Word)) \o f[j + Ahead(Drop(s, j * Word))]
    <2>1. CASE j = n
      BY <1>2, <2>1
    <2>2. CASE j # n
      <3>1. PICK t \in Seq(Nat) : Drop(s, j * Word) = t
        BY FromWord
      <3>2. PICK e \in Nat : Extra(t) = e /\ j + (1 + e) = j + 1 + e
        <4>1. Len(t) = (n - j) * Word /\ n - j \in Nat \ {0}
          BY <2>2, <3>1, FromWord
        <4>2. Extra(t) \in 0..MaxCount
          BY <4>1, ExtraFacts
        <4> QED
          BY <4>2
      <3>3. CASE AllZero(WordAt(t, 0))
        BY <1>2, <2>2, <3>1, <3>3 DEF Ahead, Coded, ZerosBytes
      <3>4. CASE ~AllZero(WordAt(t, 0)) /\ ZeroBytes(WordAt(t, 0)) = {}
        BY <1>2, <2>2, <3>1, <3>2, <3>4 DEF Ahead, Coded, FullBytes
      <3>5. CASE ~AllZero(WordAt(t, 0)) /\ ZeroBytes(WordAt(t, 0)) # {}
        BY <1>2, <2>2, <3>1, <3>5 DEF Ahead, Coded, SomeBytes
      <3> QED
        BY <3>3, <3>4, <3>5
    <2> QED
      BY <2>1, <2>2
  <1> HIDE DEF Turn
  <1>4. \E f : f = [j \in 0..(Len(s) \div Word) |-> Turn(f, j)]
    <2>1. PICK f : Turns(f, s, n)
      BY TurnsExist
    <2>2. ASSUME NEW j \in 0..n PROVE f[j] = Turn(f, j)
      <3>1. CASE j = n
        BY <1>3, <2>1, <3>1 DEF Turns
      <3>2. CASE j # n
        <4>1. j \in 0..(n - 1)
          BY <3>2
        <4> QED
          BY <1>3, <2>1, <3>2, <4>1 DEF Turns
      <3> QED
        BY <3>1, <3>2
    <2>3. f = [j \in 0..n |-> f[j]]
      BY <2>1 DEF Turns
    <2> QED
      BY <1>2, <2>2, <2>3
  <1>5. packed = [j \in 0..n |-> Turn(packed, j)]
    BY <1>2, <1>4
  <1> HIDE DEF packed
  <1>6. packed[n] = <<>> /\ \A j \in 0..(n - 1) :
          packed[j] = Coded(Drop(s, j * Word)) \o packed[j + Ahead(Drop(s, j * Word))]
    <2>1. ASSUME NEW j \in 0..n
          PROVE  packed[j] = IF j = n THEN <<>>
                             ELSE Coded(Drop(s, j * Word)) \o packed[j + Ahead(Drop(s, j * Word))]
      BY <1>3, <1>5
    <2>2. n \in 0..n /\ \A j \in 0..(n - 1) : j \in 0..n /\ j # n
      OBVIOUS
    <2> QED
      BY <2>1, <2>2
  <1>7. packed \in [0..n -> Seq(Nat)]
    <2> DEFINE T == {m \in 0..n : \A j \in (n - m)..n : packed[j] \in Seq(Nat)}
    <2>1. 0 \in T
      <3>1. \A j \in (n - 0)..n : j = n
        OBVIOUS
      <3>2. packed[n] = <<>> /\ <<>> \in Seq(Nat)
        BY <1>6
      <3>3. packed[n] \in Seq(Nat)
        BY <3>2
      <3> QED
        BY <3>1, <3>3
    <2>2. ASSUME NEW m \in 1..n, m - 1 \in T PROVE m \in T
      <3>1. PICK i \in 0..(n - 1) : n - m = i
        OBVIOUS
      <3>2. \A j \in (i + 1)..n : packed[j] \in Seq(Nat)
        <4>1. n - (m - 1) = i + 1
          BY <3>1
        <4> QED
          BY <2>2, <4>1
      <3>3. PICK t \in Seq(Nat) : Drop(s, i * Word) = t /\ Len(t) = (n - i) * Word
        <4>1. i \in 0..n
          OBVIOUS
        <4> QED
          BY <4>1, FromWord
      <3>4. Coded(t) \in Seq(Nat) /\ Ahead(t) \in 1..(n - i)
        <4>1. n - i \in Nat \ {0}
          OBVIOUS
        <4> QED
          BY <3>3, <4>1, CodedFacts
      <3>5. i + Ahead(t) \in (i + 1)..n
        BY <3>4
      <3>6. PICK a, b \in Seq(Nat) : Coded(t) = a /\ packed[i + Ahead(t)] = b
        BY <3>2, <3>4, <3>5
      <3>7. packed[i] = a \o b
        BY <1>6, <3>3, <3>6
      <3>8. packed[i] \in Seq(Nat)
        BY <3>7, Both
      <3>9. \A j \in (n - m)..n : j = i \/ j \in (i + 1)..n
        BY <3>1
      <3>10. \A j \in (n - m)..n : packed[j] \in Seq(Nat)
        BY <3>2, <3>8, <3>9
      <3> QED
        BY <3>10
    <2>3. n \in T
      <3> HIDE DEF T
      <3>1. n \in 0..n
        OBVIOUS
      <3> QED
        BY <2>1, <2>2, <3>1, StepByStep
    <2>4. \A j \in 0..n : packed[j] \in Seq(Nat)
      <3>1. n - n = 0
        OBVIOUS
      <3> QED
        BY <2>3, <3>1
    <2> QED
      BY <1>5, <2>4
  <1> QED
    BY <1>1, <1>6, <1>7 DEF Turns

\* The packed segments, each packed into a buffer that never fills.
PackedAll(m) == [k \in 1..Len(m) |-> Whole(m[k])]
Wholes == PackedAll(message)

\* The writer is behind word j of its segment, or will be once it is through
\* its raw run: what it has packed so far, that run and what the rest of the
\* segment is packed to are the packed segments.
BetweenWords(n, j, f) ==
  /\ j <= n /\ Len(message[writer.seg]) = n * Word /\ Turns(f, message[writer.seg], n)
  /\ Len(writer.in) = writer.raw + (n - j) * Word
  /\ (Sent \o Take(writer.in, writer.raw)) \o f[j] = Joined(Wholes, writer.seg)

ChunkInv == \E n, j \in Nat : \E f : BetweenWords(n, j, f)

\* What is left of the segment s of n words, behind its word j, is `in`.
LeftAt(s, n, f, j, in) ==
  /\ s \in Seq(Nat) /\ n \in Nat /\ Len(s) = n * Word /\ Turns(f, s, n)
  /\ j \in Nat /\ j <= n /\ in \in Seq(Nat) /\ Drop(s, Len(s) - Len(in)) = in
  /\ Len(in) = (n - j) * Word /\ in # <<>>

TurnAt(n, f, j, in) ==
  /\ n - j \in Nat \ {0} /\ Ahead(in) \in 1..(n - j)
  /\ Coded(in) \in Seq(Nat) /\ f[j + Ahead(in)] \in Seq(Nat)
  /\ f[j] = Coded(in) \o f[j + Ahead(in)]

LEMMA TurnLeft ==
  ASSUME NEW s \in Seq(Nat), NEW n \in Nat, Len(s) = n * Word, NEW f, Turns(f, s, n),
         NEW j \in Nat, j <= n, NEW in \in Seq(Nat), Drop(s, Len(s) - Len(in)) = in,
         Len(in) = (n - j) * Word, in # <<>>
  PROVE  TurnAt(n, f, j, in)
  <1>1. PICK k \in Nat \ {0} : Len(in) = k
    OBVIOUS
  <1>2. n - j # 0
    <2>1. SUFFICES ASSUME n - j = 0 PROVE FALSE
      OBVIOUS
    <2>2. Len(in) = 0 * Word /\ 0 * Word = 0
      BY <2>1, WordSize
    <2> QED
      BY <1>1, <2>2
  <1>3. n - j \in Nat \ {0} /\ j \in 0..n /\ j \in 0..(n - 1)
    BY <1>2
  <1>4. PICK a, b, l \in Nat : j * Word = a /\ (n - j) * Word = b /\ Len(s) = l
    BY <1>3, FromWord, SMTT(60)
  <1>5. Drop(s, a) \in Seq(Nat) /\ Len(Drop(s, a)) = b /\ a <= l
    BY <1>3, <1>4, FromWord
  <1>6. l - b = a
    <2>1. Len(Drop(s, a)) = l - a
      BY <1>4, <1>5, DropFacts
    <2> QED
      BY <1>5, <2>1
  <1>7. Drop(s, a) = in
    BY <1>4, <1>6
  <1>8. Ahead(in) \in 1..(n - j) /\ Coded(in) \in Seq(Nat)
    BY <1>3, CodedFacts
  <1>9. j + Ahead(in) \in 0..n
    BY <1>8
  <1>10. f[j] = Coded(in) \o f[j + Ahead(in)]
    BY <1>3, <1>4, <1>7 DEF Turns
  <1>11. f[j + Ahead(in)] \in Seq(Nat)
    BY <1>9 DEF Turns
  <1> QED
    BY <1>3, <1>8, <1>10, <1>11 DEF TurnAt

LEMMA AtWord == \A s, n, f, j, in : LeftAt(s, n, f, j, in) => TurnAt(n, f, j, in)
  BY TurnLeft, ZenonT(60) DEF LeftAt

LEMMA PutFacts ==
  ASSUME WriterInv, NEW c, NEW x \in Seq(Nat), NEW r, Put(c, x, r)
  PROVE  /\ Sent' = Sent \o x /\ writer'.in = Drop(writer.in, c) /\ writer'.raw = r
         /\ writer'.seg = writer.seg /\ message' = message /\ Wholes' = Wholes
  <1>1. /\ writer' = [writer EXCEPT !.in = Drop(@, c), !.out = @ \o x, !.raw = r]
        /\ UNCHANGED <<message, stream, reader>>
    BY DEF Put
  <1>2. writer \in [pc: {"deflating", "done", "failed"}, seg: 1..Len(message),
                    in: Seq(Nat), out: Seq(Nat), raw: Nat, cap: Caps]
        /\ stream \in Seq(Nat)
    BY DEF WriterInv
  <1>3. /\ writer'.in = Drop(writer.in, c) /\ writer'.raw = r /\ writer'.seg = writer.seg
        /\ writer'.out = writer.out \o x
    BY <1>1, <1>2
  <1>4. PICK a, b \in Seq(Nat) : stream = a /\ writer.out = b
    BY <1>2
  <1>5. (a \o b) \o x = a \o (b \o x)
    BY Assoc
  <1>6. Sent' = Sent \o x
    BY <1>1, <1>3, <1>4, <1>5 DEF Sent
  <1> QED
    BY <1>1, <1>3, <1>6 DEF Wholes

Cat2(s, t) == s \o t
Cat3(s, t, u) == (s \o t) \o u
Cat4(s, t, u, v) == ((s \o t) \o u) \o v

\* x and then the run t2 and the rest g2 are the run t and the rest g.
Moved(x, t2, g2, t, g) == Cat3(x, t2, g2) = Cat2(t, g)
Stands(P, x, t2, g2, t, g) == Cat4(P, x, t2, g2) = Cat3(P, t, g)

LEMMA Triple ==
  ASSUME NEW P \in Seq(Nat), NEW x \in Seq(Nat), NEW t \in Seq(Nat), NEW g \in Seq(Nat)
  PROVE  ((P \o x) \o t) \o g = P \o ((x \o t) \o g)
  <1>1. PICK y \in Seq(Nat) : y = x \o t
    BY Both
  <1>2. (P \o x) \o t = P \o y
    BY <1>1, Assoc, SMTT(60)
  <1>3. (P \o y) \o g = P \o (y \o g)
    BY Assoc, SMTT(60)
  <1> QED
    BY <1>1, <1>2, <1>3

LEMMA Regroup ==
  \A P \in Seq(Nat), x \in Seq(Nat), t2 \in Seq(Nat), g2 \in Seq(Nat), t \in Seq(Nat), g \in Seq(Nat) :
    Moved(x, t2, g2, t, g) => Stands(P, x, t2, g2, t, g)
  <1>1. \A s \in Seq(Nat), t \in Seq(Nat), u \in Seq(Nat), v \in Seq(Nat) :
          Cat4(s, t, u, v) = Cat2(s, Cat3(t, u, v))
    BY Triple DEF Cat4, Cat3, Cat2
  <1>2. \A s \in Seq(Nat), t \in Seq(Nat), u \in Seq(Nat) : Cat3(s, t, u) = Cat2(s, Cat2(t, u))
    BY Assoc DEF Cat3, Cat2
  <1>3. ASSUME NEW P \in Seq(Nat), NEW x \in Seq(Nat), NEW t2 \in Seq(Nat), NEW g2 \in Seq(Nat),
               NEW t \in Seq(Nat), NEW g \in Seq(Nat), Moved(x, t2, g2, t, g)
        PROVE  Stands(P, x, t2, g2, t, g)
    <2>1. Cat4(P, x, t2, g2) = Cat2(P, Cat3(x, t2, g2))
      BY <1>1, SMTT(60)
    <2>2. Cat3(P, t, g) = Cat2(P, Cat2(t, g))
      BY <1>2, ZenonT(60)
    <2>3. Cat3(x, t2, g2) = Cat2(t, g)
      BY <1>3, Zenon DEF Moved
    <2> QED
      BY <2>1, <2>2, <2>3, Zenon DEF Stands
  <1> QED
    BY <1>3, Zenon

\* A step of capn_deflate that writes x and comes to word j2.
LEMMA PutBetween ==
  ASSUME WriterInv, NEW n \in Nat, NEW j \in Nat, NEW f, BetweenWords(n, j, f),
         NEW c, NEW x \in Seq(Nat), NEW r \in Nat, Put(c, x, r),
         NEW j2 \in 0..n, NEW in2 \in Seq(Nat), Drop(writer.in, c) = in2,
         Len(in2) = r + (n - j2) * Word,
         Moved(x, Take(in2, r), f[j2], Take(writer.in, writer.raw), f[j])
  PROVE  ChunkInv'
  <1>1. /\ Sent' = Sent \o x /\ writer'.in = in2 /\ writer'.raw = r
        /\ writer'.seg = writer.seg /\ message' = message /\ Wholes' = Wholes
    BY PutFacts
  <1>2. j <= n /\ Len(message[writer.seg]) = n * Word /\ Turns(f, message[writer.seg], n)
        /\ Len(writer.in) = writer.raw + (n - j) * Word
        /\ (Sent \o Take(writer.in, writer.raw)) \o f[j] = Joined(Wholes, writer.seg)
    BY DEF BetweenWords
  <1>3. PICK P \in Seq(Nat), in \in Seq(Nat), raw \in Nat : Sent = P /\ writer.in = in /\ writer.raw = raw
    BY AtFacts DEF WriterInv
  <1>4. PICK g, g2 \in Seq(Nat) : f[j] = g /\ f[j2] = g2
    <2>1. j \in 0..n
      BY <1>2
    <2>2. f[j] \in Seq(Nat) /\ f[j2] \in Seq(Nat)
      BY <1>2, <2>1 DEF Turns
    <2> QED
      BY <2>2
  <1>5. PICK t \in Seq(Nat) : Take(in, raw) = t
    <2>1. (n - j) * Word \in Nat
      BY <1>2, WordSize
    <2>2. raw <= Len(in)
      BY <1>2, <1>3, <2>1, SMTT(60)
    <2> QED
      BY <2>2, TakeFacts
  <1>6. PICK t2 \in Seq(Nat) : Take(in2, r) = t2
    <2>1. (n - j2) * Word \in Nat
      BY WordSize
    <2>2. r <= Len(in2)
      BY <2>1, SMTT(60)
    <2> QED
      BY <2>2, TakeFacts
  <1>7. Moved(x, t2, g2, t, g)
    BY <1>3, <1>4, <1>5, <1>6
  <1>8. Stands(P, x, t2, g2, t, g)
    BY <1>7, Regroup, SMTT(60)
  <1>9. (Sent' \o Take(writer'.in, writer'.raw)) \o f[j2] = Joined(Wholes', writer'.seg)
    <2>1. ((P \o x) \o t2) \o g2 = (P \o t) \o g
      BY <1>8 DEF Stands, Cat4, Cat3
    <2> QED
      BY <1>1, <1>2, <1>3, <1>4, <1>5, <1>6, <2>1
  <1>10. BetweenWords(n, j2, f)'
    <2>1. j2 <= n /\ Len(message'[writer'.seg]) = n * Word /\ Turns(f, message'[writer'.seg], n)
          /\ Len(writer'.in) = writer'.raw + (n - j2) * Word
      BY <1>1, <1>2
    <2> QED
      BY <1>9, <2>1 DEF BetweenWords
  <1>11. j2 \in Nat
    OBVIOUS
  <1> QED
    BY <1>10, <1>11 DEF ChunkInv

\* With no run before and none after, and with a run after.
LEMMA MovedWord ==
  /\ \A x \in Seq(Nat), g2 \in Seq(Nat) : Moved(x, <<>>, g2, <<>>, x \o g2)
  /\ \A x \in Seq(Nat), t2 \in Seq(Nat), g2 \in Seq(Nat) : Moved(x, t2, g2, <<>>, (x \o t2) \o g2)
  /\ \A x \in Seq(Nat), t2 \in Seq(Nat), g2 \in Seq(Nat) : Moved(x, t2, g2, x \o t2, g2)
  <1>1. ASSUME NEW x \in Seq(Nat), NEW g2 \in Seq(Nat) PROVE Moved(x, <<>>, g2, <<>>, x \o g2)
    <2>1. PICK y \in Seq(Nat) : x \o g2 = y
      BY Both
    <2>2. x \o <<>> = x /\ <<>> \o y = y
      BY ConcatEmptySeq
    <2> QED
      BY <2>1, <2>2 DEF Moved, Cat2, Cat3
  <1>2. ASSUME NEW x \in Seq(Nat), NEW t2 \in Seq(Nat), NEW g2 \in Seq(Nat)
        PROVE  Moved(x, t2, g2, <<>>, (x \o t2) \o g2)
    <2>1. PICK y \in Seq(Nat) : x \o t2 = y
      BY Both
    <2>2. PICK z \in Seq(Nat) : y \o g2 = z
      BY Both
    <2>3. <<>> \o z = z
      BY ConcatEmptySeq
    <2> QED
      BY <2>1, <2>2, <2>3 DEF Moved, Cat2, Cat3
  <1>3. ASSUME NEW x \in Seq(Nat), NEW t2 \in Seq(Nat), NEW g2 \in Seq(Nat)
        PROVE  Moved(x, t2, g2, x \o t2, g2)
    BY DEF Moved, Cat2, Cat3
  <1> QED
    BY <1>1, <1>2, <1>3

LEMMA FitsAtWord ==
  ASSUME WriterInv, Fits, NEW n \in Nat, NEW j \in Nat, NEW f, BetweenWords(n, j, f),
         NEW in \in Seq(Nat), writer.in = in
  PROVE  /\ n - j \in Nat \ {0} /\ Len(in) = (n - j) * Word /\ j <= n
         /\ Ahead(in) \in 1..(n - j) /\ Coded(in) \in Seq(Nat) /\ f[j + Ahead(in)] \in Seq(Nat)
         /\ f[j] = Coded(in) \o f[j + Ahead(in)]
         /\ Take(writer.in, writer.raw) = <<>>
  <1>1. j <= n /\ Len(message[writer.seg]) = n * Word /\ Turns(f, message[writer.seg], n)
        /\ Len(writer.in) = writer.raw + (n - j) * Word
    BY DEF BetweenWords
  <1>2. writer.raw = 0 /\ writer.in # <<>>
    BY DEF Fits, Deflating
  <1>3. PICK m \in Nat : n - j = m
    BY <1>1
  <1>4. Len(in) = (n - j) * Word
    <2>1. PICK b \in Nat : (n - j) * Word = b
      BY <1>3, WordSize
    <2>2. Len(in) = 0 + b
      BY <1>1, <1>2, <2>1
    <2> QED
      BY <2>1, <2>2
  <1>5. PICK s \in Seq(Nat) : message[writer.seg] = s
    <2>1. message \in Messages /\ writer.seg \in 1..Len(message)
      BY DEF WriterInv
    <2> QED
      BY <2>1, MessageFacts
  <1>6. Drop(s, Len(s) - Len(in)) = in
    BY <1>5 DEF WriterInv, Rest
  <1>7. /\ n - j \in Nat \ {0} /\ Ahead(in) \in 1..(n - j)
        /\ Coded(in) \in Seq(Nat) /\ f[j + Ahead(in)] \in Seq(Nat)
        /\ f[j] = Coded(in) \o f[j + Ahead(in)]
    <2>1. Len(s) = n * Word /\ Turns(f, s, n) /\ in # <<>>
      BY <1>1, <1>2, <1>5
    <2>2. LeftAt(s, n, f, j, in)
      BY <1>1, <1>4, <1>6, <2>1 DEF LeftAt
    <2>3. TurnAt(n, f, j, in)
      BY <2>2, AtWord, Zenon
    <2> QED
      BY <2>3, Zenon DEF TurnAt
  <1>8. Take(writer.in, writer.raw) = <<>>
    BY <1>2, TakeNone
  <1> QED
    BY <1>1, <1>4, <1>7, <1>8

\* k words on, and e words of run behind them.
LEMMA WordsOn ==
  ASSUME NEW in \in Seq(Nat), NEW m \in Nat, Len(in) = m * Word,
         NEW k \in Nat, NEW e \in Nat, k + e <= m
  PROVE  /\ k * Word \in Nat /\ e * Word \in Nat
         /\ Drop(in, k * Word) \in Seq(Nat)
         /\ Len(Drop(in, k * Word)) = e * Word + (m - (k + e)) * Word
         /\ e * Word <= Len(Drop(in, k * Word))
  <1>1. PICK d \in Nat : m = (k + e) + d
    <2>1. m - (k + e) \in Nat /\ m = (k + e) + (m - (k + e))
      OBVIOUS
    <2> QED
      BY <2>1
  <1>2. ((k + e) + d) * Word = (k * Word + e * Word) + d * Word
        /\ k * Word \in Nat /\ e * Word \in Nat /\ d * Word \in Nat
    BY WordSize
  <1>3. PICK a, b, c \in Nat : k * Word = a /\ e * Word = b /\ d * Word = c
    BY <1>2
  <1>4. Len(in) = (a + b) + c
    BY <1>1, <1>2, <1>3
  <1>5. Drop(in, a) \in Seq(Nat) /\ Len(Drop(in, a)) = b + c
    <2>1. a <= Len(in) /\ Len(in) - a = b + c
      BY <1>4
    <2> QED
      BY <2>1, DropFacts
  <1>6. m - (k + e) = d
    BY <1>1
  <1> QED
    BY <1>3, <1>5, <1>6

LEMMA ZerosBetween ==
  ASSUME WriterInv, deflate_zeros, NEW n \in Nat, NEW j \in Nat, NEW f, BetweenWords(n, j, f)
  PROVE  ChunkInv'
  <1>1. /\ Fits /\ AllZero(WordAt(writer.in, 0))
        /\ Put(Zeros(writer.in) * Word, ZerosBytes(writer.in), 0)
    BY DEF deflate_zeros, NextWord, ZerosBytes
  <1>2. PICK in \in Seq(Nat) : writer.in = in
    BY DEF WriterInv
  <1>3. /\ n - j \in Nat \ {0} /\ Len(in) = (n - j) * Word /\ j <= n
        /\ Ahead(in) \in 1..(n - j) /\ Coded(in) \in Seq(Nat) /\ f[j + Ahead(in)] \in Seq(Nat)
        /\ f[j] = Coded(in) \o f[j + Ahead(in)]
        /\ Take(writer.in, writer.raw) = <<>>
    BY <1>1, <1>2, FitsAtWord
  <1>4. Ahead(in) = Zeros(in) /\ Coded(in) = ZerosBytes(in)
    BY <1>1, <1>2 DEF Ahead, Coded
  <1>5. PICK z \in 1..(n - j), x \in Seq(Nat), g2 \in Seq(Nat) :
          Zeros(in) = z /\ ZerosBytes(in) = x /\ f[j + z] = g2 /\ f[j] = x \o g2
    BY <1>3, <1>4
  <1>6. PICK j2 \in 0..n : j + z = j2 /\ (n - j) - (z + 0) = n - j2
    BY <1>3
  <1>7. PICK in2 \in Seq(Nat), r \in Nat :
          Drop(in, z * Word) = in2 /\ 0 = r /\ Len(in2) = r + (n - j2) * Word
    <2>1. PICK m \in Nat, o \in Nat : n - j = m /\ 0 = o /\ z \in Nat /\ z + o <= m
      BY <1>3
    <2>4. Len(in) = m * Word
      BY <1>3, <2>1
    <2>2. /\ Drop(in, z * Word) \in Seq(Nat)
          /\ Len(Drop(in, z * Word)) = o * Word + (m - (z + o)) * Word
      BY <2>1, <2>4, WordsOn
    <2>3. o * Word = o /\ m - (z + o) = n - j2
      BY <1>6, <2>1, WordSize
    <2> QED
      BY <2>1, <2>2, <2>3
  <1>8. Put(z * Word, x, r)
    BY <1>1, <1>2, <1>5, <1>7
  <1>9. Moved(x, Take(in2, r), f[j2], Take(writer.in, writer.raw), f[j])
    <2>1. Take(in2, r) = <<>>
      BY <1>7, TakeNone
    <2>2. Moved(x, <<>>, g2, <<>>, x \o g2)
      BY MovedWord
    <2> QED
      BY <1>3, <1>5, <1>6, <2>1, <2>2
  <1> QED
    BY <1>2, <1>7, <1>8, <1>9, PutBetween

LEMMA SomeBetween ==
  ASSUME WriterInv, deflate_some, NEW n \in Nat, NEW j \in Nat, NEW f, BetweenWords(n, j, f)
  PROVE  ChunkInv'
  <1>1. /\ Fits /\ ~AllZero(WordAt(writer.in, 0)) /\ ZeroBytes(WordAt(writer.in, 0)) # {}
        /\ Put(Word, SomeBytes(writer.in), 0)
    BY DEF deflate_some, NextWord, SomeBytes
  <1>2. PICK in \in Seq(Nat) : writer.in = in
    BY DEF WriterInv
  <1>3. /\ n - j \in Nat \ {0} /\ Len(in) = (n - j) * Word /\ j <= n
        /\ Ahead(in) \in 1..(n - j) /\ Coded(in) \in Seq(Nat) /\ f[j + Ahead(in)] \in Seq(Nat)
        /\ f[j] = Coded(in) \o f[j + Ahead(in)]
        /\ Take(writer.in, writer.raw) = <<>>
    BY <1>1, <1>2, FitsAtWord
  <1>4. Ahead(in) = 1 /\ Coded(in) = SomeBytes(in)
    BY <1>1, <1>2 DEF Ahead, Coded
  <1>5. PICK z \in 1..(n - j), x \in Seq(Nat), g2 \in Seq(Nat) :
          1 = z /\ SomeBytes(in) = x /\ f[j + z] = g2 /\ f[j] = x \o g2
    BY <1>3, <1>4
  <1>6. PICK j2 \in 0..n : j + z = j2 /\ (n - j) - (z + 0) = n - j2
    BY <1>3
  <1>7. PICK in2 \in Seq(Nat), r \in Nat :
          Drop(in, z * Word) = in2 /\ 0 = r /\ Len(in2) = r + (n - j2) * Word
    <2>1. PICK m \in Nat, o \in Nat : n - j = m /\ 0 = o /\ z \in Nat /\ z + o <= m
      BY <1>3
    <2>4. Len(in) = m * Word
      BY <1>3, <2>1
    <2>2. /\ Drop(in, z * Word) \in Seq(Nat)
          /\ Len(Drop(in, z * Word)) = o * Word + (m - (z + o)) * Word
      BY <2>1, <2>4, WordsOn
    <2>3. o * Word = o /\ m - (z + o) = n - j2
      BY <1>6, <2>1, WordSize
    <2> QED
      BY <2>1, <2>2, <2>3
  <1>8. Put(z * Word, x, r)
    <2>1. z * Word = Word
      BY <1>5, WordSize
    <2> QED
      BY <1>1, <1>2, <1>5, <1>7, <2>1
  <1>9. Moved(x, Take(in2, r), f[j2], Take(writer.in, writer.raw), f[j])
    <2>1. Take(in2, r) = <<>>
      BY <1>7, TakeNone
    <2>2. Moved(x, <<>>, g2, <<>>, x \o g2)
      BY MovedWord
    <2> QED
      BY <1>3, <1>5, <1>6, <2>1, <2>2
  <1> QED
    BY <1>2, <1>7, <1>8, <1>9, PutBetween

LEMMA FullBetween ==
  ASSUME WriterInv, deflate_full, NEW n \in Nat, NEW j \in Nat, NEW f, BetweenWords(n, j, f)
  PROVE  ChunkInv'
  <1>1. /\ Fits /\ ZeroBytes(WordAt(writer.in, 0)) = {}
        /\ Put(Word, FullBytes(writer.in), Extra(writer.in) * Word)
    BY DEF deflate_full, NextWord, FullBytes
  <1>2. PICK in \in Seq(Nat) : writer.in = in
    BY DEF WriterInv
  <1>3. /\ n - j \in Nat \ {0} /\ Len(in) = (n - j) * Word /\ j <= n
        /\ Ahead(in) \in 1..(n - j) /\ Coded(in) \in Seq(Nat) /\ f[j + Ahead(in)] \in Seq(Nat)
        /\ f[j] = Coded(in) \o f[j + Ahead(in)]
        /\ Take(writer.in, writer.raw) = <<>>
    BY <1>1, <1>2, FitsAtWord
  <1>4. ~AllZero(WordAt(in, 0))
    <2>1. 1 \in 1..Word
      BY WordSize
    <2>2. (1..Word) \cap ZeroBytes(WordAt(in, 0)) = {}
      BY <1>1, <1>2
    <2> QED
      BY <2>1, <2>2 DEF AllZero, NonZero, ZeroBytes
  <1>5. PICK e \in Nat, k \in Nat : Extra(in) = e /\ 1 = k /\ k + e <= n - j
    <2>1. Extra(in) \in 0..MaxCount /\ Extra(in) + 1 <= n - j
      BY <1>3, ExtraFacts
    <2>2. Extra(in) \in Nat /\ 1 + Extra(in) <= n - j
      BY <1>3, <2>1, WordSize
    <2> QED
      BY <2>2
  <1>6. k * Word = Word
    BY <1>5, WordSize
  <1>7. PICK j2 \in 0..n : j + (k + e) = j2 /\ (n - j) - (k + e) = n - j2
    BY <1>3, <1>5
  <1>8. PICK in2 \in Seq(Nat), r \in Nat :
          /\ Drop(in, k * Word) = in2 /\ e * Word = r /\ Len(in2) = r + (n - j2) * Word
          /\ r <= Len(in2)
    <2>1. n - j \in Nat
      BY <1>3
    <2>2. /\ Drop(in, k * Word) \in Seq(Nat) /\ e * Word \in Nat
          /\ Len(Drop(in, k * Word)) = e * Word + ((n - j) - (k + e)) * Word
          /\ e * Word <= Len(Drop(in, k * Word))
      BY <1>3, <1>5, <2>1, WordsOn
    <2> QED
      BY <1>7, <2>2
  <1>9. PICK t2 \in Seq(Nat) : Take(in2, r) = t2
    BY <1>8, TakeFacts
  <1>10. PICK x \in Seq(Nat) : FullBytes(in) = x
    <2>1. PICK P \in Seq(Nat), M \in Seq(Nat), at \in Nat : Faces(M, at, in)
      BY <1>2, AtFacts
    <2> QED
      BY <1>1, <1>2, <1>3, <2>1, FullWritten
  <1>11. PICK g2 \in Seq(Nat) : f[j2] = g2 /\ f[j] = (x \o t2) \o g2
    <2>1. Ahead(in) = k + e /\ Coded(in) = x \o t2
      BY <1>1, <1>2, <1>4, <1>5, <1>6, <1>8, <1>9, <1>10 DEF Ahead, Coded
    <2> QED
      BY <1>3, <1>7, <2>1
  <1>12. Put(k * Word, x, r)
    BY <1>1, <1>2, <1>5, <1>6, <1>8, <1>10
  <1>13. Moved(x, Take(in2, r), f[j2], Take(writer.in, writer.raw), f[j])
    <2>1. Moved(x, t2, g2, <<>>, (x \o t2) \o g2)
      BY MovedWord
    <2> QED
      BY <1>3, <1>9, <1>11, <2>1
  <1> QED
    BY <1>2, <1>8, <1>12, <1>13, PutBetween

LEMMA RawBetween ==
  ASSUME WriterInv, deflate_raw, NEW n \in Nat, NEW j \in Nat, NEW f, BetweenWords(n, j, f)
  PROVE  ChunkInv'
  <1>1. PICK s \in Seq(Nat), raw \in Nat, room \in Nat :
          writer.in = s /\ writer.raw = raw /\ Room = room /\ room > 0 /\ raw > 0
    <2>1. writer.in \in Seq(Nat) /\ writer.raw \in Nat /\ writer.raw > 0 /\ Room > 0
      BY DEF WriterInv, deflate_raw
    <2>2. writer.cap \in Nat /\ Len(writer.out) \in Nat
      BY PackingAssumption DEF WriterInv
    <2>3. Room \in Nat
      BY <2>1, <2>2 DEF Room
    <2> QED
      BY <2>1, <2>3
  <1>2. PICK k \in Nat : Len(s) = k
    OBVIOUS
  <1>3. PICK sz : sz = Least(raw, Least(k, room))
    OBVIOUS
  <1>4. sz \in Nat /\ sz <= raw /\ sz <= k
    BY <1>3 DEF Least
  <1>5. PICK x \in Seq(Nat) : Take(s, sz) = x
    BY <1>2, <1>4, TakeFacts
  <1>6. PICK r \in Nat : raw - sz = r
    BY <1>4
  <1>7. Put(sz, x, r)
    BY <1>1, <1>2, <1>3, <1>5, <1>6 DEF deflate_raw
  <1>8. PICK b \in Nat : (n - j) * Word = b /\ Len(s) = raw + b /\ j <= n
    <2>1. j <= n /\ Len(writer.in) = writer.raw + (n - j) * Word
      BY DEF BetweenWords
    <2>2. (n - j) * Word \in Nat
      BY <2>1, WordSize
    <2> QED
      BY <1>1, <2>1, <2>2
  <1>9. PICK in2 \in Seq(Nat) : Drop(s, sz) = in2 /\ Len(in2) = r + b
    <2>1. sz <= Len(s) /\ Len(s) - sz = r + b
      BY <1>2, <1>4, <1>6, <1>8
    <2> QED
      BY <1>4, <2>1, DropFacts
  <1>10. PICK t2 \in Seq(Nat) : Take(in2, r) = t2
    BY <1>9, TakeFacts
  <1>11. Take(s, raw) = x \o t2
    <2>1. sz <= raw /\ raw <= Len(s)
      BY <1>4, <1>8
    <2>2. Take(s, raw) = Take(s, sz) \o Take(Drop(s, sz), raw - sz)
      BY <1>4, <2>1, TakeDrop
    <2> QED
      BY <1>5, <1>6, <1>9, <1>10, <2>2
  <1>12. PICK g \in Seq(Nat) : f[j] = g
    <2>1. Turns(f, message[writer.seg], n) /\ j \in 0..n
      BY <1>8 DEF BetweenWords
    <2>2. f[j] \in Seq(Nat)
      BY <2>1 DEF Turns
    <2> QED
      BY <2>2
  <1>13. Moved(x, Take(in2, r), f[j], Take(writer.in, writer.raw), f[j])
    <2>1. Moved(x, t2, g, x \o t2, g)
      BY MovedWord
    <2> QED
      BY <1>1, <1>10, <1>11, <1>12, <2>1
  <1>14. j \in 0..n
    BY <1>8
  <1>15. Drop(writer.in, sz) = in2 /\ Len(in2) = r + (n - j) * Word
    BY <1>1, <1>8, <1>9
  <1> QED
    BY <1>7, <1>13, <1>14, <1>15, PutBetween

\* S is what is sent before segment k of message m.
Opens(m, k, S, n, f) ==
  /\ Len(m[k]) = n * Word /\ Turns(f, m[k], n)
  /\ (S \o Take(m[k], 0)) \o f[0] = Joined(PackedAll(m), k)

LEMMA WholesFacts ==
  ASSUME NEW m \in Messages
  PROVE  /\ Len(m) \in Nat \ {0} /\ PackedAll(m) \in [1..Len(m) -> Seq(Nat)]
         /\ \A k \in 1..Len(m) : \E n \in Nat : \E f :
              Len(m[k]) = n * Word /\ Turns(f, m[k], n) /\ PackedAll(m)[k] = f[0]
  <1>1. PICK l \in Nat \ {0} : Len(m) = l /\ m \in [1..l -> Seq(Nat)]
    BY MessageFacts
  <1>2. ASSUME NEW k \in 1..l
        PROVE  \E n \in Nat : \E f : /\ Len(m[k]) = n * Word /\ Turns(f, m[k], n)
                                     /\ Whole(m[k]) = f[0] /\ Whole(m[k]) \in Seq(Nat)
    <2>1. PICK s \in Seq(Nat) : m[k] = s
      BY <1>1
    <2>2. PICK n \in Nat : Len(s) = n * Word
      BY <1>1, <2>1, MessageFacts
    <2>3. PICK f : Turns(f, s, n) /\ Whole(s) = f[0]
      BY <2>2, WholeFacts
    <2>4. f[0] \in Seq(Nat)
      <3>1. 0 \in 0..n
        OBVIOUS
      <3> QED
        BY <2>3, <3>1 DEF Turns
    <2> QED
      BY <2>1, <2>2, <2>3, <2>4
  <1>3. PackedAll(m) = [k \in 1..l |-> Whole(m[k])]
    BY <1>1 DEF PackedAll
  <1>4. ASSUME NEW k \in 1..l PROVE Whole(m[k]) \in Seq(Nat)
    BY <1>2
  <1>5. PackedAll(m) \in [1..l -> Seq(Nat)]
    BY <1>3, <1>4
  <1>6. ASSUME NEW k \in 1..l
        PROVE  \E n \in Nat : \E f :
                 Len(m[k]) = n * Word /\ Turns(f, m[k], n) /\ PackedAll(m)[k] = f[0]
    <2>1. PackedAll(m)[k] = Whole(m[k])
      BY <1>3
    <2> QED
      BY <1>2, <2>1
  <1> QED
    BY <1>1, <1>5, <1>6

LEMMA Opening ==
  ASSUME NEW m \in Messages, NEW k \in 1..Len(m), NEW S, S = Joined(PackedAll(m), k - 1)
  PROVE  \E n \in Nat : \E f : Opens(m, k, S, n, f)
  <1>1. PICK l, W : l \in Nat \ {0} /\ Len(m) = l /\ PackedAll(m) = W /\ W \in [1..l -> Seq(Nat)]
    BY WholesFacts
  <1>2. PICK n \in Nat : \E f : Len(m[k]) = n * Word /\ Turns(f, m[k], n) /\ PackedAll(m)[k] = f[0]
    BY WholesFacts
  <1>3. PICK f : Len(m[k]) = n * Word /\ Turns(f, m[k], n) /\ PackedAll(m)[k] = f[0]
    BY <1>2
  <1>4. PICK P \in Seq(Nat), g \in Seq(Nat) :
          Joined(W, k - 1) = P /\ W[k] = g /\ Joined(W, k) = P \o g
    <2>1. k \in 1..l /\ k - 1 \in 0..l
      BY <1>1
    <2>2. Joined(W, k - 1) \in Seq(Nat) /\ W[k] \in Seq(Nat)
      BY <1>1, <2>1, JoinedNext
    <2>3. Joined(W, k) = Joined(W, k - 1) \o W[k]
      BY <1>1, <2>1, JoinedNext
    <2> QED
      BY <2>2, <2>3
  <1>5. S = P /\ f[0] = g
    BY <1>1, <1>3, <1>4
  <1>6. Take(m[k], 0) = <<>>
    BY TakeNone
  <1>7. P \o <<>> = P
    BY ConcatEmptySeq
  <1>8. (S \o Take(m[k], 0)) \o f[0] = Joined(PackedAll(m), k)
    BY <1>1, <1>4, <1>5, <1>6, <1>7
  <1> QED
    BY <1>3, <1>8 DEF Opens

\* A segment that is packed to its end is sent whole.
LEMMA SegmentSent ==
  ASSUME WriterInv, NEW n \in Nat, NEW j \in Nat, NEW f, BetweenWords(n, j, f),
         writer.in = <<>>
  PROVE  Sent = Joined(Wholes, writer.seg) /\ writer.raw = 0
  <1>1. /\ j <= n /\ Turns(f, message[writer.seg], n)
        /\ Len(writer.in) = writer.raw + (n - j) * Word
        /\ (Sent \o Take(writer.in, writer.raw)) \o f[j] = Joined(Wholes, writer.seg)
    BY DEF BetweenWords
  <1>2. PICK m \in Nat, raw \in Nat : n - j = m /\ writer.raw = raw
    <2>1. n - j \in Nat
      BY <1>1
    <2>2. writer.raw \in Nat
      BY DEF WriterInv
    <2> QED
      BY <2>1, <2>2
  <1>3. PICK a \in Nat : m * Word = a /\ (m # 0 => a >= 1)
    <2>1. m * Word \in Nat
      BY WordSize
    <2>2. ASSUME m # 0 PROVE m * Word >= 1
      <3>1. PICK d \in Nat : m = d + 1
        <4>1. m - 1 \in Nat /\ m = (m - 1) + 1
          BY <2>2
        <4> QED
          BY <4>1
      <3>2. (d + 1) * Word = d * Word + Word /\ d * Word \in Nat
        BY WordSize
      <3> QED
        BY <3>1, <3>2, WordSize
    <2> QED
      BY <2>1, <2>2
  <1>4. 0 = raw + a
    <2>1. Len(writer.in) = raw + a
      BY <1>1, <1>2, <1>3
    <2> QED
      BY <2>1
  <1>5. raw = 0 /\ m = 0
    BY <1>3, <1>4
  <1>6. j = n
    BY <1>1, <1>2, <1>5
  <1>7. f[j] = <<>> /\ Take(writer.in, writer.raw) = <<>>
    <2>1. f[n] = <<>>
      BY <1>1 DEF Turns
    <2> QED
      BY <1>2, <1>5, <1>6, <2>1, TakeNone
  <1>8. PICK P \in Seq(Nat) : Sent = P
    BY AtFacts
  <1>9. P \o <<>> = P
    BY ConcatEmptySeq
  <1>10. Sent = Joined(Wholes, writer.seg)
    BY <1>1, <1>7, <1>8, <1>9
  <1> QED
    BY <1>2, <1>5, <1>10

LEMMA ChunkInvInit == Init => ChunkInv
  <1> SUFFICES ASSUME Init PROVE ChunkInv
    OBVIOUS
  <1>1. /\ message \in Messages /\ stream = <<>> /\ writer.seg = 1 /\ writer.in = message[1]
        /\ writer.out = <<>> /\ writer.raw = 0
    BY DEF Init
  <1>2. PICK l \in Nat \ {0} : Len(message) = l /\ PackedAll(message) \in [1..l -> Seq(Nat)]
    BY <1>1, WholesFacts
  <1>3. PICK k \in 1..Len(message) : 1 = k
    BY <1>2
  <1>4. <<>> = Joined(PackedAll(message), k - 1)
    <2>1. PICK W : PackedAll(message) = W
      OBVIOUS
    <2>2. W \in [1..l -> Seq(Nat)] /\ l \in Nat
      BY <1>2, <2>1
    <2>3. Joined(W, 0) = <<>>
      BY <2>2, JoinedNext
    <2>4. k - 1 = 0
      BY <1>3
    <2> QED
      BY <2>1, <2>3, <2>4
  <1>5. PICK n \in Nat : \E f : Opens(message, k, <<>>, n, f)
    BY <1>1, <1>4, Opening
  <1>6. PICK f : Opens(message, k, <<>>, n, f)
    BY <1>5
  <1>7. Sent = <<>>
    <2>1. <<>> \o <<>> = <<>>
      OBVIOUS
    <2> QED
      BY <1>1, <2>1 DEF Sent
  <1>8. PICK j \in Nat : 0 = j
    OBVIOUS
  <1>9. BetweenWords(n, j, f)
    <2>1. /\ Len(message[k]) = n * Word /\ Turns(f, message[k], n)
          /\ (<<>> \o Take(message[k], 0)) \o f[0] = Joined(PackedAll(message), k)
      BY <1>6 DEF Opens
    <2>2. writer.seg = k /\ writer.in = message[k]
      BY <1>1, <1>3
    <2>3. j <= n /\ n - j = n
      BY <1>8
    <2>4. Len(writer.in) = writer.raw + (n - j) * Word
      <3>1. n * Word \in Nat
        BY WordSize
      <3> QED
        BY <1>1, <2>1, <2>2, <2>3, <3>1
    <2>5. (Sent \o Take(writer.in, writer.raw)) \o f[j] = Joined(Wholes, writer.seg)
      BY <1>1, <1>7, <1>8, <2>1, <2>2 DEF Wholes
    <2> QED
      BY <2>1, <2>2, <2>3, <2>4, <2>5 DEF BetweenWords
  <1> QED
    BY <1>9 DEF ChunkInv

\* What is packed and what is left of the segment did not change.
LEMMA BetweenStays ==
  ASSUME NEW n \in Nat, NEW j \in Nat, NEW f, BetweenWords(n, j, f), message' = message,
         Sent' = Sent, writer'.in = writer.in, writer'.raw = writer.raw, writer'.seg = writer.seg
  PROVE  ChunkInv'
  <1>1. Wholes' = Wholes
    BY DEF Wholes
  <1>2. BetweenWords(n, j, f)'
    BY <1>1 DEF BetweenWords
  <1> QED
    BY <1>2 DEF ChunkInv

LEMMA LastBetween ==
  ASSUME WriterInv, emit_last, NEW n \in Nat, NEW j \in Nat, NEW f, BetweenWords(n, j, f)
  PROVE  ChunkInv'
  <1>1. /\ writer.in = <<>> /\ stream' = stream \o writer.out
        /\ writer' = IF writer.seg = Len(message)
                     THEN [writer EXCEPT !.pc = "done", !.out = <<>>]
                     ELSE [writer EXCEPT !.seg = @ + 1, !.in = message[writer.seg + 1],
                                         !.out = <<>>, !.raw = 0]
        /\ message' = message
    BY DEF emit_last
  <1>2. writer \in [pc: {"deflating", "done", "failed"}, seg: 1..Len(message),
                    in: Seq(Nat), out: Seq(Nat), raw: Nat, cap: Caps]
        /\ stream \in Seq(Nat) /\ message \in Messages
    BY DEF WriterInv
  <1>3. Sent = Joined(Wholes, writer.seg) /\ writer.raw = 0
    BY <1>1, SegmentSent
  <1>4. Sent' = Sent
    <2>1. PICK a, b \in Seq(Nat) : stream = a /\ writer.out = b
      BY <1>2
    <2>2. a \o b \in Seq(Nat) /\ (a \o b) \o <<>> = a \o b
      OBVIOUS
    <2>3. writer'.out = <<>>
      BY <1>1, <1>2
    <2> QED
      BY <1>1, <2>1, <2>2, <2>3 DEF Sent
  <1>5. PICK l \in Nat \ {0} : Len(message) = l
    BY <1>2, WholesFacts
  <1>6. CASE writer.seg = Len(message)
    <2>1. writer'.in = writer.in /\ writer'.raw = writer.raw /\ writer'.seg = writer.seg
      BY <1>1, <1>2, <1>6
    <2> QED
      BY <1>1, <1>4, <2>1, BetweenStays
  <1>7. CASE writer.seg # Len(message)
    <2>1. PICK k \in 1..Len(message) : writer.seg + 1 = k /\ k - 1 = writer.seg
      BY <1>2, <1>5, <1>7
    <2>2. writer'.in = message[k] /\ writer'.raw = 0 /\ writer'.seg = k
      BY <1>1, <1>2, <1>7, <2>1
    <2>3. PICK S : Sent = S /\ S = Joined(PackedAll(message), k - 1)
      BY <1>3, <2>1 DEF Wholes
    <2>4. PICK n2 \in Nat : \E f2 : Opens(message, k, S, n2, f2)
      BY <1>2, <2>3, Opening
    <2>5. PICK f2 : Opens(message, k, S, n2, f2)
      BY <2>4
    <2>6. PICK o \in Nat : 0 = o
      OBVIOUS
    <2>7. /\ Len(message[k]) = n2 * Word /\ Turns(f2, message[k], n2)
          /\ (S \o Take(message[k], 0)) \o f2[0] = Joined(PackedAll(message), k)
      BY <2>5 DEF Opens
    <2>8. o <= n2 /\ n2 - o = n2
      BY <2>6
    <2>9. Len(writer'.in) = writer'.raw + (n2 - o) * Word
      <3>1. n2 * Word \in Nat
        BY WordSize
      <3> QED
        BY <2>2, <2>7, <2>8, <3>1
    <2>10. (Sent' \o Take(writer'.in, writer'.raw)) \o f2[o] = Joined(Wholes', writer'.seg)
      BY <1>1, <1>4, <2>2, <2>3, <2>6, <2>7 DEF Wholes
    <2>11. BetweenWords(n2, o, f2)'
      BY <1>1, <2>2, <2>7, <2>8, <2>9, <2>10 DEF BetweenWords
    <2> QED
      BY <2>11 DEF ChunkInv
  <1> QED
    BY <1>6, <1>7

LEMMA ChunkBetween ==
  ASSUME WriterInv, emit_chunk, NEW n \in Nat, NEW j \in Nat, NEW f, BetweenWords(n, j, f)
  PROVE  ChunkInv'
  <1>1. /\ stream' = stream \o writer.out
        /\ writer' = [writer EXCEPT !.out = <<>>, !.raw = @,
             !.pc = IF writer.out = <<>> \/ Len(writer.in) % Word # 0 THEN "failed" ELSE @]
        /\ message' = message
    BY DEF emit_chunk, Carried
  <1>2. writer \in [pc: {"deflating", "done", "failed"}, seg: 1..Len(message),
                    in: Seq(Nat), out: Seq(Nat), raw: Nat, cap: Caps]
        /\ stream \in Seq(Nat)
    BY DEF WriterInv
  <1>3. /\ writer'.seg = writer.seg /\ writer'.in = writer.in /\ writer'.out = <<>>
        /\ writer'.raw = writer.raw
    BY <1>1, <1>2
  <1>4. Sent' = Sent
    <2>1. PICK a, b \in Seq(Nat) : stream = a /\ writer.out = b
      BY <1>2
    <2>2. a \o b \in Seq(Nat) /\ (a \o b) \o <<>> = a \o b
      OBVIOUS
    <2> QED
      BY <1>1, <1>3, <2>1, <2>2 DEF Sent
  <1> QED
    BY <1>1, <1>3, <1>4, BetweenStays

LEMMA ChunkInvNext == PackingInv /\ ChunkInv /\ [Next]_vars => ChunkInv'
  <1> SUFFICES ASSUME PackingInv, ChunkInv, [Next]_vars PROVE ChunkInv'
    OBVIOUS
  <1>1. WriterInv
    BY DEF PackingInv
  <1>2. PICK n, j \in Nat : \E f : BetweenWords(n, j, f)
    BY DEF ChunkInv
  <1>3. PICK f : BetweenWords(n, j, f)
    BY <1>2
  <1>4. CASE Write
    <2>1. CASE deflate_raw
      BY <1>1, <1>3, <2>1, RawBetween
    <2>2. CASE deflate_zeros
      BY <1>1, <1>3, <2>2, ZerosBetween
    <2>3. CASE deflate_full
      BY <1>1, <1>3, <2>3, FullBetween
    <2>4. CASE deflate_some
      BY <1>1, <1>3, <2>4, SomeBetween
    <2>5. CASE emit_chunk
      BY <1>1, <1>3, <2>5, ChunkBetween
    <2>6. CASE emit_last
      BY <1>1, <1>3, <2>6, LastBetween
    <2> QED
      BY <1>4, <2>1, <2>2, <2>3, <2>4, <2>5, <2>6 DEF Write
  <1>5. CASE UNCHANGED <<message, writer, stream>>
    <2>1. Sent' = Sent
      BY <1>5 DEF Sent
    <2> QED
      BY <1>3, <1>5, <2>1, BetweenStays
  <1>6. CASE Read
    <2>1. UNCHANGED <<message, writer, stream>>
      BY <1>6 DEF Read, read_fp, inflate_buffered, inflate_zeros, inflate_raw,
        inflate_full_tag, inflate_zero_tag, inflate_tag, refill, read_done, Give
    <2> QED
      BY <1>5, <2>1
  <1>7. CASE UNCHANGED vars
    <2>1. UNCHANGED <<message, writer, stream>>
      BY <1>7 DEF vars
    <2> QED
      BY <1>5, <2>1
  <1> QED
    BY <1>4, <1>6, <1>7 DEF Next

StartsWith(a, J) == Len(a) <= Len(J) /\ \A i \in 1..Len(a) : J[i] = a[i]

LEMMA Beginning ==
  \A a \in Seq(Nat), b \in Seq(Nat), t \in Seq(Nat), g \in Seq(Nat) : StartsWith(a, Cat4(a, b, t, g))
  <1> SUFFICES ASSUME NEW a \in Seq(Nat), NEW b \in Seq(Nat), NEW t \in Seq(Nat), NEW g \in Seq(Nat)
               PROVE  StartsWith(a, Cat4(a, b, t, g))
    OBVIOUS
  <1>1. PICK s \in Seq(Nat) : a \o b = s /\ Len(s) = Len(a) + Len(b)
                              /\ \A i \in 1..Len(a) : s[i] = a[i]
    BY Both, ZenonT(60)
  <1>2. PICK u \in Seq(Nat) : s \o t = u /\ Len(u) = Len(s) + Len(t)
                              /\ \A i \in 1..Len(s) : u[i] = s[i]
    BY Both
  <1>3. PICK J \in Seq(Nat) : u \o g = J /\ Len(J) = Len(u) + Len(g)
                              /\ \A i \in 1..Len(u) : J[i] = u[i]
    BY Both, ZenonT(60)
  <1>4. PICK la, lb, lt, lg \in Nat : Len(a) = la /\ Len(b) = lb /\ Len(t) = lt /\ Len(g) = lg
    OBVIOUS
  <1>5. Len(s) = la + lb /\ Len(u) = (la + lb) + lt /\ Len(J) = ((la + lb) + lt) + lg
    BY <1>1, <1>2, <1>3, <1>4
  <1>6. ASSUME NEW i \in 1..la PROVE J[i] = a[i]
    <2>1. i \in 1..Len(s) /\ i \in 1..Len(u) /\ i \in 1..Len(a)
      BY <1>4, <1>5
    <2> QED
      BY <1>1, <1>2, <1>3, <2>1
  <1>7. la <= Len(J)
    BY <1>5
  <1>8. StartsWith(a, J)
    BY <1>4, <1>6, <1>7 DEF StartsWith
  <1> QED
    BY <1>1, <1>2, <1>3, <1>8 DEF Cat4

LEMMA ChunksHidden == PackingInv /\ ChunkInv => ChunkingInvisible
  <1> SUFFICES ASSUME PackingInv, ChunkInv PROVE ChunkingInvisible
    OBVIOUS
  <1>1. WriterInv
    BY DEF PackingInv
  <1>2. PICK n, j \in Nat : \E f : BetweenWords(n, j, f)
    BY DEF ChunkInv
  <1>3. PICK f : BetweenWords(n, j, f)
    BY <1>2
  <1>4. /\ message \in Messages /\ writer.seg \in 1..Len(message) /\ writer.out \in Seq(Nat)
        /\ stream \in Seq(Nat) /\ writer.in \in Seq(Nat) /\ writer.raw \in Nat
        /\ writer.pc = "done" => /\ writer.seg = Len(message) /\ writer.in = <<>>
                                 /\ writer.out = <<>>
    BY <1>1 DEF WriterInv
  <1>5. PICK l, W : l \in Nat \ {0} /\ Len(message) = l /\ Wholes = W /\ W \in [1..l -> Seq(Nat)]
    BY <1>4, WholesFacts DEF Wholes
  <1>6. PICK k \in 0..l : writer.seg = k
    BY <1>4, <1>5
  <1>7. PICK J \in Seq(Nat), T \in Seq(Nat) : Joined(W, k) = J /\ Joined(W, l) = T
    <2>1. l \in 0..l
      BY <1>5
    <2> QED
      BY <1>5, <1>6, <2>1, JoinedNext
  <1>8. Len(J) <= Len(T) /\ \A i \in 1..Len(J) : T[i] = J[i]
    BY <1>5, <1>7, JoinedPrefix
  <1>9. PICK a, b \in Seq(Nat) : stream = a /\ writer.out = b /\ Sent = a \o b
    BY <1>4 DEF Sent
  <1>10. PICK t \in Seq(Nat) : Take(writer.in, writer.raw) = t
    <2>1. j <= n /\ Len(writer.in) = writer.raw + (n - j) * Word
      BY <1>3 DEF BetweenWords
    <2>2. (n - j) * Word \in Nat
      BY <2>1, WordSize
    <2>3. writer.raw <= Len(writer.in)
      BY <1>4, <2>1, <2>2
    <2> QED
      BY <1>4, <2>3, TakeFacts
  <1>11. PICK g \in Seq(Nat) : f[j] = g
    <2>1. Turns(f, message[writer.seg], n) /\ j \in 0..n
      BY <1>3 DEF BetweenWords
    <2>2. f[j] \in Seq(Nat)
      BY <2>1 DEF Turns
    <2> QED
      BY <2>2
  <1>12. ((a \o b) \o t) \o g = J
    BY <1>3, <1>5, <1>6, <1>7, <1>9, <1>10, <1>11 DEF BetweenWords
  <1>13. Len(a) <= Len(J) /\ \A i \in 1..Len(a) : J[i] = a[i]
    <2>1. Cat4(a, b, t, g) = J
      BY <1>12 DEF Cat4
    <2>2. StartsWith(a, J)
      BY <2>1, Beginning, SMTT(60)
    <2> QED
      BY <2>2 DEF StartsWith
  <1>14. a = Take(T, Len(a))
    <2>1. PICK la, lj, lt \in Nat : Len(a) = la /\ Len(J) = lj /\ Len(T) = lt
      OBVIOUS
    <2>2. la <= lt /\ \A i \in 1..la : T[i] = a[i]
      <3>1. \A i \in 1..la : i \in 1..lj
        BY <1>13, <2>1
      <3>2. la <= lt
        BY <1>8, <1>13, <2>1
      <3> QED
        BY <1>8, <1>13, <2>1, <3>1, <3>2
    <2>3. PICK v \in Seq(Nat) : Take(T, la) = v /\ Len(v) = la /\ \A i \in 1..la : v[i] = T[i]
      BY <2>1, <2>2, TakeFacts
    <2>4. a = v
      BY <2>1, <2>2, <2>3, Same
    <2> QED
      BY <2>1, <2>3, <2>4
  <1>15. ASSUME writer.pc = "done" PROVE a = T
    <2>1. writer.in = <<>> /\ b = <<>> /\ k = l
      BY <1>4, <1>5, <1>6, <1>9, <1>15
    <2>2. Sent = J
      BY <1>1, <1>3, <1>5, <1>6, <1>7, <2>1, SegmentSent
    <2>3. a \o <<>> = a
      BY ConcatEmptySeq
    <2> QED
      BY <1>7, <1>9, <2>1, <2>2, <2>3
  <1>16. Joined([i \in 1..Len(message) |-> Whole(message[i])], Len(message)) = T
    BY <1>5, <1>7 DEF Wholes, PackedAll
  <1> QED
    BY <1>9, <1>14, <1>15, <1>16 DEF ChunkingInvisible

\* What capn_deflate and packed_emit_seg write does not tell how long their
\* buffer was: it is what capn_write_mem packs in one, or a beginning of that.
THEOREM BuffersDoNotShow == Spec => []ChunkingInvisible
  <1>1. Spec => []ChunkInv
    <2>1. Spec => []PackingInv
      BY PackingInvAlways
    <2> QED
      BY <2>1, ChunkInvInit, ChunkInvNext, PTL DEF Spec
  <1> QED
    BY <1>1, PackingInvAlways, ChunksHidden, PTL
=============================================================================
