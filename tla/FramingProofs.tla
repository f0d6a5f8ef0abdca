---------------------------- MODULE FramingProofs ---------------------------
(***************************************************************************)
(* Proofs about module Framing: for any messages a reader can take, any    *)
(* way the calls are cut short and any failure of a write, the stream is a *)
(* MessageStream, and it stays aligned with the messages.                  *)
(***************************************************************************)
EXTENDS Framing, LoopFacts, SequenceTheorems, TLAPS

\* Joined is what its loop computes, whatever function one takes for the loop.
Joins(f, ss) == f[0] = <<>> /\ \A i \in 1..Len(ss) : f[i] = f[i - 1] \o ss[i]

LEMMA JoinedBy ==
  ASSUME NEW S, NEW V, NEW ss \in Seq(S), NEW f \in [0..Len(ss) -> V]
  PROVE  Joins(f, ss) => Joined(ss) = f[Len(ss)]
  <1> DEFINE n == Len(ss)
  <1> DEFINE joined ==
        CHOOSE g : g = [i \in 0..n |-> IF i = 0 THEN <<>> ELSE g[i - 1] \o ss[i]]
  <1>0. SUFFICES ASSUME Joins(f, ss) PROVE Joined(ss) = f[n]
    OBVIOUS
  <1>1. n \in Nat
    OBVIOUS
  <1>2. Joined(ss) = joined[n]
    BY DEF Joined
  <1>3. joined = [i \in 0..n |-> IF i = 0 THEN <<>> ELSE joined[i - 1] \o ss[i]]
    <2>1. \A i \in 0..n : i = 0 \/ i \in 1..n
      BY <1>1
    <2>2. f = [i \in 0..n |-> IF i = 0 THEN <<>> ELSE f[i - 1] \o ss[i]]
      BY <1>0, <2>1 DEF Joins
    <2> QED
      BY <2>2
  <1> HIDE DEF joined
  <1> DEFINE T == {i \in 0..n : joined[i] = f[i]}
  <1>4. 0 \in T
    BY <1>0, <1>1, <1>3 DEF Joins
  <1>5. ASSUME NEW i \in 1..n, i - 1 \in T PROVE i \in T
    <2>0. i \in 0..n /\ i # 0 /\ joined[i - 1] = f[i - 1]
      BY <1>1, <1>5
    <2>1. joined[i] = joined[i - 1] \o ss[i] /\ f[i] = f[i - 1] \o ss[i]
      BY <1>0, <1>3, <2>0 DEF Joins
    <2> QED
      BY <2>0, <2>1
  <1>6. n \in T
    <2> HIDE DEF T, n
    <2>1. 0..n \subseteq T
      BY <1>1, <1>4, <1>5, StepByStep
    <2> QED
      BY <1>1, <2>1
  <1> QED
    BY <1>2, <1>6

\* There is such a function.
LEMMA JoinedLoop ==
  ASSUME NEW S, NEW ss \in Seq(Seq(S))
  PROVE  \E f \in [0..Len(ss) -> Seq(S)] : Joins(f, ss)
  <1> DEFINE n == Len(ss)
  <1> DEFINE step == [p \in (1..n) \X Seq(S) |-> p[2] \o ss[p[1]]]
  <1>1. n \in Nat /\ <<>> \in Seq(S)
    OBVIOUS
  <1>2. \A p \in (1..n) \X Seq(S) : ss[p[1]] \in Seq(S) /\ p[2] \in Seq(S)
    OBVIOUS
  <1>3. \A p \in (1..n) \X Seq(S) : p[2] \o ss[p[1]] \in Seq(S)
    BY <1>2, ConcatProperties
  <1>4. step \in [(1..n) \X Seq(S) -> Seq(S)]
    BY <1>3
  <1>5. \A i \in 1..n : \A v \in Seq(S) : step[<<i, v>>] = v \o ss[i]
    OBVIOUS
  <1> HIDE DEF step
  <1>6. PICK f \in [0..n -> Seq(S)] : Loop(f, n, <<>>, step)
    <2> HIDE DEF n
    <2> QED
      BY <1>1, <1>4, LoopExists
  <1>7. ASSUME NEW i \in 1..n PROVE f[i] = f[i - 1] \o ss[i]
    <2>1. i - 1 \in 0..n
      BY <1>1
    <2> QED
      BY <1>5, <1>6, <2>1 DEF Loop
  <1> QED
    BY <1>6, <1>7 DEF Loop, Joins

(***************************************************************************)
(* Sequences one after the other.                                          *)
(***************************************************************************)

LEMMA JoinedType ==
  ASSUME NEW S, NEW ss \in Seq(Seq(S))
  PROVE  Joined(ss) \in Seq(S)
  <1>1. PICK f \in [0..Len(ss) -> Seq(S)] : Joins(f, ss)
    BY JoinedLoop
  <1>2. Joined(ss) = f[Len(ss)]
    BY <1>1, JoinedBy
  <1> QED
    BY <1>2

LEMMA JoinedNone == Joined(<<>>) = <<>>
  <1> DEFINE f == [i \in 0..0 |-> <<>>]
  <1>1. <<>> \in Seq({}) /\ Len(<<>>) = 0
    OBVIOUS
  <1>2. f \in [0..0 -> {<<>>}] /\ f[0] = <<>>
    OBVIOUS
  <1>3. Joins(f, <<>>)
    BY <1>1, <1>2 DEF Joins
  <1> HIDE DEF f
  <1> QED
    BY <1>1, <1>2, <1>3, JoinedBy

LEMMA JoinedOne ==
  ASSUME NEW S, NEW s \in Seq(S)
  PROVE  Joined(<<s>>) = s
  <1> DEFINE ss == <<s>>
  <1>1. ss \in Seq(Seq(S)) /\ Len(ss) = 1 /\ ss[1] = s
    OBVIOUS
  <1> HIDE DEF ss
  <1>2. PICK f \in [0..Len(ss) -> Seq(S)] : Joins(f, ss)
    BY <1>1, JoinedLoop
  <1>3. Joined(ss) = f[1]
    BY <1>1, <1>2, JoinedBy
  <1>4. f[0] = <<>>
    BY <1>2 DEF Joins
  <1>5. f[1] = f[0] \o s
    <2>1. 1 \in 1..Len(ss) /\ 1 - 1 = 0
      BY <1>1
    <2>2. f[1] = f[1 - 1] \o ss[1]
      BY <1>2, <2>1 DEF Joins
    <2> QED
      BY <1>1, <2>1, <2>2
  <1>6. Joined(ss) = s
    BY <1>3, <1>4, <1>5, ConcatEmptySeq
  <1> QED
    BY <1>6 DEF ss

LEMMA JoinedConcat ==
  ASSUME NEW S, NEW s \in Seq(Seq(S)), NEW t \in Seq(Seq(S))
  PROVE  Joined(s \o t) = Joined(s) \o Joined(t)
  <1>1. PICK f \in [0..Len(s) -> Seq(S)] : Joins(f, s)
    BY JoinedLoop
  <1>2. PICK g \in [0..Len(t) -> Seq(S)] : Joins(g, t)
    BY JoinedLoop
  <1> DEFINE st == s \o t
  <1> DEFINE n == Len(s)
  <1> DEFINE m == Len(t)
  <1> DEFINE W == Seq(S)
  <1> DEFINE h == [i \in 0..(n + m) |-> IF i <= n THEN f[i] ELSE f[n] \o g[i - n]]
  <1>3. /\ st \in Seq(W) /\ Len(st) = n + m
        /\ \A i \in 1..(n + m) : st[i] = IF i <= n THEN s[i] ELSE t[i - n]
    BY ConcatProperties
  <1>4. n \in Nat /\ m \in Nat
    OBVIOUS
  <1>5. f[0] = <<>> /\ g[0] = <<>>
    BY <1>1, <1>2 DEF Joins
  <1>6. \A i \in 1..n : f[i] = f[i - 1] \o s[i]
    BY <1>1 DEF Joins
  <1>7. \A i \in 1..m : g[i] = g[i - 1] \o t[i]
    BY <1>2 DEF Joins
  <1>8. /\ \A i \in 1..n : s[i] \in W
        /\ \A i \in 1..m : t[i] \in W
    OBVIOUS
  <1>9. f \in [0..n -> W] /\ g \in [0..m -> W]
    OBVIOUS
  <1>10. \A i \in 0..(n + m) : h[i] = IF i <= n THEN f[i] ELSE f[n] \o g[i - n]
    OBVIOUS
  <1>11. \A u \in W, v \in W, w \in W : u \o (v \o w) = (u \o v) \o w
    <2>1. \A u \in Seq(S), v \in Seq(S), w \in Seq(S) : (u \o v) \o w = u \o (v \o w)
      BY ConcatAssociative, SMTT(60)
    <2> HIDE DEF st, n, m, h, W
    <2> QED
      BY <2>1 DEF W
  <1>12. \A u \in W : u \o <<>> = u /\ <<>> \o u = u
    BY ConcatEmptySeq
  <1>13. h \in [0..(n + m) -> W]
    <2>1. \A u \in W, v \in W : u \o v \in W
      BY ConcatProperties
    <2> HIDE DEF n, m, W
    <2>2. ASSUME NEW i \in 0..(n + m)
          PROVE  (IF i <= n THEN f[i] ELSE f[n] \o g[i - n]) \in W
      <3>1. CASE i <= n
        BY <1>4, <1>9, <3>1
      <3>2. CASE ~(i <= n)
        <4>1. i - n \in 0..m /\ n \in 0..n
          BY <1>4, <3>2
        <4> QED
          BY <1>9, <2>1, <3>2, <4>1
      <3> QED
        BY <3>1, <3>2
    <2> QED
      BY <2>2
  <1>14. Joined(s) = f[n] /\ Joined(t) = g[m]
    BY <1>1, <1>2, JoinedBy
  <1> HIDE DEF st, n, m, h, W
  <1>15. ASSUME NEW i \in 1..(n + m) PROVE h[i] = h[i - 1] \o st[i]
    <2>0. i \in 0..(n + m) /\ i - 1 \in 0..(n + m) /\ i \in Nat
      BY <1>4
    <2>1. CASE i <= n
      <3>1. i \in 1..n /\ i - 1 <= n
        BY <1>4, <2>0, <2>1
      <3> QED
        BY <1>3, <1>6, <1>10, <2>0, <2>1, <3>1
    <2>2. CASE i = n + 1
      <3>1. 1 \in 1..m /\ i - n = 1 /\ i - 1 = n /\ 1 - 1 = 0 /\ ~(i <= n)
        BY <1>4, <2>0, <2>2
      <3>2. g[1] = g[0] \o t[1]
        BY <1>7, <3>1
      <3>3. g[1] = t[1]
        BY <1>5, <1>8, <1>12, <3>1, <3>2
      <3>4. h[i] = f[n] \o g[1] /\ st[i] = t[1]
        BY <1>3, <1>10, <2>0, <3>1
      <3>5. h[i - 1] = f[n]
        BY <1>4, <1>10, <2>0, <3>1
      <3> QED
        BY <3>3, <3>4, <3>5
    <2>3. CASE n + 1 < i
      <3>1. /\ i - n \in 1..m /\ (i - n) - 1 = (i - 1) - n
            /\ ~(i <= n) /\ ~(i - 1 <= n)
            /\ (i - n) - 1 \in 0..m /\ n \in 0..n
        BY <1>4, <2>0, <2>3
      <3>2. g[i - n] = g[(i - n) - 1] \o t[i - n]
        BY <1>7, <3>1
      <3>3. h[i] = f[n] \o g[i - n] /\ st[i] = t[i - n]
        BY <1>3, <1>10, <2>0, <3>1
      <3>4. h[i - 1] = f[n] \o g[(i - n) - 1]
        BY <1>10, <2>0, <3>1
      <3>5. t[i - n] \in W /\ g[(i - n) - 1] \in W /\ f[n] \in W
        BY <1>8, <1>9, <3>1
      <3>6. f[n] \o (g[(i - n) - 1] \o t[i - n]) = (f[n] \o g[(i - n) - 1]) \o t[i - n]
        BY <1>11, <3>5
      <3> QED
        BY <3>2, <3>3, <3>4, <3>6
    <2>4. i <= n \/ i = n + 1 \/ n + 1 < i
      BY <1>4, <2>0
    <2> QED
      BY <2>1, <2>2, <2>3, <2>4
  <1>16. Joins(h, st)
    <2>1. h[0] = <<>>
      BY <1>4, <1>5, <1>10
    <2> QED
      BY <1>3, <1>15, <2>1 DEF Joins
  <1>17. h[n + m] = f[n] \o g[m]
    <2>1. CASE m = 0
      <3>1. n + m = n /\ n \in 0..(n + m) /\ n \in 0..n
        BY <1>4, <2>1
      <3>2. h[n + m] = f[n]
        BY <1>4, <1>10, <3>1
      <3>3. f[n] \o g[m] = f[n] \o <<>>
        BY <1>5, <2>1
      <3>4. f[n] \o <<>> = f[n]
        BY <1>9, <1>12, <3>1
      <3> QED
        BY <3>2, <3>3, <3>4
    <2>2. CASE m # 0
      <3>1. ~(n + m <= n) /\ n + m \in 0..(n + m) /\ (n + m) - n = m
        BY <1>4, <2>2
      <3> QED
        BY <1>10, <3>1
    <2> QED
      BY <2>1, <2>2
  <1>18. Joined(st) = h[n + m]
    <2>1. h \in [0..Len(st) -> W] /\ st \in Seq(W)
      BY <1>3, <1>13
    <2>2. Joined(st) = h[Len(st)]
      BY <1>16, <2>1, JoinedBy
    <2> QED
      BY <1>3, <2>2
  <1> QED
    BY <1>14, <1>17, <1>18 DEF st

LEMMA JoinedFirst ==
  ASSUME NEW S, NEW ss \in Seq(Seq(S)), ss # <<>>
  PROVE  Joined(ss) = Head(ss) \o Joined(Tail(ss))
  <1>1. /\ Head(ss) \in Seq(S) /\ Tail(ss) \in Seq(Seq(S))
        /\ <<Head(ss)>> \in Seq(Seq(S))
        /\ ss = <<Head(ss)>> \o Tail(ss)
    OBVIOUS
  <1>2. Joined(<<Head(ss)>>) = Head(ss)
    BY <1>1, JoinedOne
  <1>3. Joined(<<Head(ss)>> \o Tail(ss)) = Joined(<<Head(ss)>>) \o Joined(Tail(ss))
    BY <1>1, JoinedConcat
  <1> QED
    BY <1>1, <1>2, <1>3

LEMMA JoinedAppend ==
  ASSUME NEW S, NEW ss \in Seq(Seq(S)), NEW s \in Seq(S)
  PROVE  Joined(Append(ss, s)) = Joined(ss) \o s
  <1>1. <<s>> \in Seq(Seq(S)) /\ Append(ss, s) = ss \o <<s>>
    OBVIOUS
  <1>2. Joined(<<s>>) = s
    BY JoinedOne
  <1>3. Joined(ss \o <<s>>) = Joined(ss) \o Joined(<<s>>)
    BY <1>1, JoinedConcat
  <1> QED
    BY <1>1, <1>2, <1>3

\* The same for the running total of sizes.
Totals(f, sizes) == f[0] = 0 /\ \A i \in 1..Len(sizes) : f[i] = f[i - 1] + 2 * sizes[i]

LEMMA SumBy ==
  ASSUME NEW S, NEW V, NEW sizes \in Seq(S), NEW f \in [0..Len(sizes) -> V]
  PROVE  Totals(f, sizes) => Sum(sizes) = f[Len(sizes)]
  <1> DEFINE n == Len(sizes)
  <1> DEFINE total ==
        CHOOSE g : g = [i \in 0..n |-> IF i = 0 THEN 0 ELSE g[i - 1] + 2 * sizes[i]]
  <1>0. SUFFICES ASSUME Totals(f, sizes) PROVE Sum(sizes) = f[n]
    OBVIOUS
  <1>1. n \in Nat
    OBVIOUS
  <1>2. Sum(sizes) = total[n]
    BY DEF Sum
  <1>3. total = [i \in 0..n |-> IF i = 0 THEN 0 ELSE total[i - 1] + 2 * sizes[i]]
    <2>1. \A i \in 0..n : i = 0 \/ i \in 1..n
      BY <1>1
    <2>2. f = [i \in 0..n |-> IF i = 0 THEN 0 ELSE f[i - 1] + 2 * sizes[i]]
      BY <1>0, <2>1 DEF Totals
    <2> QED
      BY <2>2
  <1> HIDE DEF total
  <1> DEFINE T == {i \in 0..n : total[i] = f[i]}
  <1>4. 0 \in T
    BY <1>0, <1>1, <1>3 DEF Totals
  <1>5. ASSUME NEW i \in 1..n, i - 1 \in T PROVE i \in T
    <2>0. i \in 0..n /\ i # 0 /\ total[i - 1] = f[i - 1]
      BY <1>1, <1>5
    <2>1. total[i] = total[i - 1] + 2 * sizes[i] /\ f[i] = f[i - 1] + 2 * sizes[i]
      BY <1>0, <1>3, <2>0 DEF Totals
    <2> QED
      BY <2>0, <2>1
  <1>6. n \in T
    <2> HIDE DEF T, n
    <2>1. 0..n \subseteq T
      BY <1>1, <1>4, <1>5, StepByStep
    <2> QED
      BY <1>1, <2>1
  <1> QED
    BY <1>2, <1>6

\* What the sizes add up to is the length of what they are the sizes of.
LEMMA JoinedSum ==
  ASSUME NEW S, NEW ss \in Seq(Seq(S)), NEW sizes \in Seq(Int), Len(sizes) = Len(ss),
         \A i \in 1..Len(ss) : Len(ss[i]) = 2 * sizes[i]
  PROVE  Sum(sizes) = Len(Joined(ss))
  <1>1. PICK f \in [0..Len(ss) -> Seq(S)] : Joins(f, ss)
    BY JoinedLoop
  <1> DEFINE n == Len(ss)
  <1> DEFINE l == [i \in 0..n |-> Len(f[i])]
  <1>2. Joined(ss) = f[n]
    BY <1>1, JoinedBy
  <1>3. n \in Nat /\ \A i \in 1..n : ss[i] \in Seq(S)
    OBVIOUS
  <1>4. ASSUME NEW i \in 1..n PROVE Len(f[i]) = Len(f[i - 1]) + 2 * sizes[i]
    <2>1. i - 1 \in 0..n
      BY <1>3
    <2>2. f[i - 1] \in Seq(S) /\ ss[i] \in Seq(S) /\ f[i] = f[i - 1] \o ss[i]
      BY <1>1, <1>3, <2>1 DEF Joins
    <2>3. Len(f[i]) = Len(f[i - 1]) + Len(ss[i])
      BY <2>2, ConcatProperties
    <2> QED
      BY <2>3
  <1>5. \A i \in 0..n : l[i] = Len(f[i])
    OBVIOUS
  <1>6. l \in [0..n -> Nat]
    OBVIOUS
  <1>7. \A i \in 1..n : i \in 0..n /\ i - 1 \in 0..n
    BY <1>3
  <1>8. l[0] = 0 /\ l[n] = Len(f[n])
    <2>1. 0 \in 0..n /\ n \in 0..n /\ f[0] = <<>>
      BY <1>1, <1>3 DEF Joins
    <2> QED
      BY <1>5, <2>1
  <1> HIDE DEF l
  <1>9. Totals(l, sizes)
    BY <1>4, <1>5, <1>7, <1>8 DEF Totals
  <1>10. l \in [0..Len(sizes) -> Nat]
    BY <1>6
  <1>11. Sum(sizes) = l[Len(sizes)]
    BY <1>9, <1>10, SumBy
  <1> QED
    BY <1>2, <1>8, <1>11

(***************************************************************************)
(* The frame of a message.                                                 *)
(***************************************************************************)

Messages == Seq(Seq(Int))

\* The count, the sizes and the spare cell fill the header.
LEMMA HeaderSize ==
  ASSUME NEW n \in Nat \ {0}
  PROVE  /\ Headerlen(n) \in Nat /\ SizeCells(n) \in Nat
         /\ Headerlen(n) = 1 + SizeCells(n)
         /\ n <= SizeCells(n)
  <1>1. ASSUME NEW k \in Nat, n = 2 * k \/ n = 2 * k + 1
        PROVE  Headerlen(n) = 2 * k + 2 /\ SizeCells(n) = 2 * k + 1
    BY <1>1 DEF Headerlen, SizeCells
  <1>2. \E k \in Nat : n = 2 * k \/ n = 2 * k + 1
    <2>1. n \div 2 \in Nat /\ (n = 2 * (n \div 2) \/ n = 2 * (n \div 2) + 1)
      OBVIOUS
    <2> QED
      BY <2>1
  <1> QED
    BY <1>1, <1>2

LEMMA HeaderFacts ==
  ASSUME NEW m \in Messages, m # <<>>
  PROVE  /\ Header(m) \in Seq(Int)
         /\ Len(Header(m)) = 1 + SizeCells(Len(m))
         /\ Header(m)[1] = Len(m) - 1
         /\ \A i \in 1..Len(m) : Header(m)[i + 1] = Len(m[i])
  <1> DEFINE n == Len(m)
  <1>1. n \in Nat \ {0} /\ \A i \in 1..n : Len(m[i]) \in Nat
    BY DEF Messages
  <1>2. /\ Headerlen(n) \in Nat /\ SizeCells(n) \in Nat
        /\ Headerlen(n) = 1 + SizeCells(n) /\ n <= SizeCells(n)
    BY <1>1, HeaderSize
  <1> DEFINE cell(i) == CASE i = 1 -> n - 1
                          [] i \in 2..(n + 1) -> Len(m[i - 1])
                          [] OTHER -> 0
  <1>3. \A i \in 1..Headerlen(n) : cell(i) \in Int
    BY <1>1, <1>2
  <1>4. Header(m) = [i \in 1..Headerlen(n) |-> cell(i)]
    BY DEF Header
  <1>5. cell(1) = n - 1
    OBVIOUS
  <1>6. \A i \in 1..n : cell(i + 1) = Len(m[i]) /\ i + 1 \in 1..Headerlen(n)
    BY <1>1, <1>2
  <1> HIDE DEF cell, n
  <1> DEFINE H == Headerlen(n)
  <1>7. H \in Nat /\ 1 \in 1..H
    BY <1>1, <1>2
  <1>8. Header(m) \in Seq(Int) /\ Len(Header(m)) = H /\ DOMAIN Header(m) = 1..H
    BY <1>3, <1>4, <1>7
  <1>9. Header(m)[1] = n - 1 /\ \A i \in 1..n : Header(m)[i + 1] = Len(m[i])
    BY <1>4, <1>5, <1>6, <1>7
  <1> QED
    BY <1>2, <1>8, <1>9 DEF n

LEMMA CellsFacts ==
  ASSUME NEW s \in Seq(Int)
  PROVE  /\ Cells(s) \in Seq(Int)
         /\ Len(Cells(s)) = 2 * Len(s)
         /\ \A j \in 1..Len(s) : Cells(s)[2 * j] = s[j]
  <1>1. Len(s) \in Nat
    OBVIOUS
  <1>2. \A i \in 1..(2 * Len(s)) : (i + 1) \div 2 \in 1..Len(s)
    OBVIOUS
  <1>3. \A j \in 1..Len(s) : 2 * j \in 1..(2 * Len(s)) /\ (2 * j + 1) \div 2 = j
    OBVIOUS
  <1> QED
    BY <1>1, <1>2, <1>3, SMTT(60) DEF Cells

Blocks(m) == [i \in DOMAIN m |-> Cells(m[i])]

LEMMA BlocksFacts ==
  ASSUME NEW m \in Messages
  PROVE  /\ Blocks(m) \in Seq(Seq(Int)) /\ Len(Blocks(m)) = Len(m)
         /\ \A i \in 1..Len(m) : Blocks(m)[i] = Cells(m[i]) /\ m[i] \in Seq(Int)
         /\ Data(m) = Joined(Blocks(m))
         /\ SizesOf(m) \in Seq(Int) /\ Len(SizesOf(m)) = Len(m)
         /\ \A i \in 1..Len(m) : SizesOf(m)[i] = Len(m[i])
  <1>1. DOMAIN m = 1..Len(m) /\ Len(m) \in Nat /\ \A i \in 1..Len(m) : m[i] \in Seq(Int)
    BY DEF Messages
  <1>2. \A i \in 1..Len(m) : Cells(m[i]) \in Seq(Int)
    BY <1>1, CellsFacts
  <1> QED
    BY <1>1, <1>2 DEF Blocks, SizesOf, Data

LEMMA DataType ==
  ASSUME NEW m \in Messages
  PROVE  Data(m) \in Seq(Int) /\ Len(Data(m)) = Sum(SizesOf(m))
  <1>1. Data(m) \in Seq(Int)
    BY BlocksFacts, JoinedType
  <1>2. \A i \in 1..Len(Blocks(m)) : Len(Blocks(m)[i]) = 2 * SizesOf(m)[i]
    <2>1. ASSUME NEW i \in 1..Len(m)
          PROVE  Len(Blocks(m)[i]) = 2 * SizesOf(m)[i]
      <3>1. m[i] \in Seq(Int) /\ Blocks(m)[i] = Cells(m[i]) /\ SizesOf(m)[i] = Len(m[i])
        BY BlocksFacts
      <3> QED
        BY <3>1, CellsFacts
    <2> QED
      BY <2>1, BlocksFacts
  <1>3. Sum(SizesOf(m)) = Len(Joined(Blocks(m)))
    BY <1>2, BlocksFacts, JoinedSum
  <1> QED
    BY <1>1, <1>3, BlocksFacts

LEMMA DataConcat ==
  ASSUME NEW p \in Messages, NEW q \in Messages
  PROVE  Data(p \o q) = Data(p) \o Data(q)
  <1> DEFINE pq == p \o q
  <1>1. /\ pq \in Messages /\ Len(pq) = Len(p) + Len(q)
        /\ \A i \in 1..Len(pq) : pq[i] = IF i <= Len(p) THEN p[i] ELSE q[i - Len(p)]
    BY ConcatProperties DEF Messages
  <1>2. Len(p) \in Nat /\ Len(q) \in Nat
    BY DEF Messages
  <1> HIDE DEF pq
  <1>3. /\ Blocks(p) \in Seq(Seq(Int)) /\ Len(Blocks(p)) = Len(p)
        /\ Blocks(q) \in Seq(Seq(Int)) /\ Len(Blocks(q)) = Len(q)
        /\ Blocks(pq) \in Seq(Seq(Int)) /\ Len(Blocks(pq)) = Len(pq)
    BY <1>1, BlocksFacts
  <1> DEFINE B == Blocks(p) \o Blocks(q)
  <1>4. /\ B \in Seq(Seq(Int)) /\ Len(B) = Len(p) + Len(q)
        /\ \A i \in 1..Len(B) :
             B[i] = IF i <= Len(p) THEN Blocks(p)[i] ELSE Blocks(q)[i - Len(p)]
    <2> DEFINE P == Blocks(p)
    <2> DEFINE Q == Blocks(q)
    <2>1. P \in Seq(Seq(Int)) /\ Q \in Seq(Seq(Int)) /\ Len(P) = Len(p) /\ Len(Q) = Len(q)
      BY <1>3
    <2> HIDE DEF P, Q
    <2>2. /\ P \o Q \in Seq(Seq(Int)) /\ Len(P \o Q) = Len(P) + Len(Q)
          /\ \A i \in 1..(Len(P) + Len(Q)) :
               (P \o Q)[i] = IF i <= Len(P) THEN P[i] ELSE Q[i - Len(P)]
      BY <2>1, ConcatProperties
    <2> QED
      BY <2>1, <2>2 DEF P, Q
  <1> HIDE DEF B
  <1>5. ASSUME NEW i \in 1..Len(pq) PROVE Blocks(pq)[i] = B[i]
    <2>1. Blocks(pq)[i] = Cells(pq[i])
      BY <1>1, BlocksFacts
    <2>2. i \in 1..Len(B)
      BY <1>1, <1>4
    <2>3. CASE i <= Len(p)
      <3>1. i \in 1..Len(p)
        BY <1>1, <1>2, <2>3
      <3>2. Blocks(p)[i] = Cells(p[i])
        BY <3>1, BlocksFacts
      <3> QED
        BY <1>1, <1>4, <2>1, <2>2, <2>3, <3>2
    <2>4. CASE ~(i <= Len(p))
      <3>1. i - Len(p) \in 1..Len(q)
        BY <1>1, <1>2, <2>4
      <3>2. Blocks(q)[i - Len(p)] = Cells(q[i - Len(p)])
        BY <3>1, BlocksFacts
      <3> QED
        BY <1>1, <1>4, <2>1, <2>2, <2>4, <3>2
    <2> QED
      BY <2>3, <2>4
  <1>6. Blocks(pq) = B
    <2>1. Len(Blocks(pq)) = Len(B)
      BY <1>1, <1>3, <1>4
    <2>2. \A i \in 1..Len(Blocks(pq)) : Blocks(pq)[i] = B[i]
      BY <1>3, <1>5
    <2> QED
      BY <1>3, <1>4, <2>1, <2>2, SeqEqual
  <1>7. Joined(Blocks(pq)) = Joined(Blocks(p)) \o Joined(Blocks(q))
    BY <1>3, <1>6, JoinedConcat DEF B
  <1>8. /\ Data(pq) = Joined(Blocks(pq)) /\ Data(p) = Joined(Blocks(p))
        /\ Data(q) = Joined(Blocks(q))
    BY DEF Data, Blocks
  <1> QED
    BY <1>7, <1>8 DEF pq

LEMMA DataFirst ==
  ASSUME NEW m \in Messages, m # <<>>
  PROVE  Data(m) = Cells(Head(m)) \o Data(Tail(m))
  <1> DEFINE one == <<Head(m)>>
  <1>1. /\ Head(m) \in Seq(Int) /\ Tail(m) \in Messages /\ one \in Messages
        /\ m = one \o Tail(m)
    BY DEF Messages
  <1>2. Data(one \o Tail(m)) = Data(one) \o Data(Tail(m))
    BY <1>1, DataConcat
  <1>3. Data(one) = Cells(Head(m))
    <2>1. one[1] = Head(m) /\ DOMAIN one = 1..1
      OBVIOUS
    <2>2. Blocks(one) = <<Cells(Head(m))>>
      BY <2>1 DEF Blocks
    <2>3. Cells(Head(m)) \in Seq(Int)
      BY <1>1, CellsFacts
    <2>4. Joined(<<Cells(Head(m))>>) = Cells(Head(m))
      BY <2>3, JoinedOne
    <2>5. Data(one) = Joined(Blocks(one))
      BY DEF Data, Blocks
    <2> QED
      BY <2>2, <2>4, <2>5
  <1> HIDE DEF one
  <1> QED
    BY <1>1, <1>2, <1>3

\* A word of a segment is in the data at its offset from where the segment starts.
LEMMA DataAt ==
  ASSUME NEW m \in Messages, NEW i \in 1..Len(m), NEW j \in 1..Len(m[i])
  PROVE  Data(m)[Sum(SubSeq(SizesOf(m), 1, i - 1)) + 2 * j] = m[i][j]
  <1> DEFINE p == SubSeq(m, 1, i - 1)
  <1> DEFINE q == SubSeq(m, i, Len(m))
  <1>1. Len(m) \in Nat /\ \A k \in 1..Len(m) : m[k] \in Seq(Int)
    BY DEF Messages
  <1>2. p \in Messages /\ Len(p) = i - 1 /\ \A k \in 1..(i - 1) : p[k] = m[k]
    BY <1>1, SMTT(60) DEF Messages
  <1>3. q \in Messages /\ q # <<>> /\ Head(q) = m[i] /\ Tail(q) \in Messages
    <2>1. /\ q \in Messages /\ Len(q) = Len(m) - i + 1
          /\ \A k \in 1..(Len(m) - i + 1) : q[k] = m[i + k - 1]
      BY <1>1, SubSeqProperties DEF Messages
    <2>2. i + 1 - 1 = i /\ 1 \in 1..(Len(m) - i + 1)
      BY <1>1
    <2>3. q[1] = m[i]
      BY <2>1, <2>2
    <2> HIDE DEF q
    <2> QED
      BY <1>1, <2>1, <2>3, SMTT(60) DEF Messages
  <1>4. m = p \o q
    <2> DEFINE S == Seq(Int)
    <2>1. m \in Seq(S) /\ 1 \in 1..(Len(m) + 1) /\ i - 1 \in (1 - 1)..Len(m)
          /\ Len(m) \in (i - 1)..Len(m) /\ (i - 1) + 1 = i
      BY <1>1 DEF Messages
    <2> HIDE DEF S
    <2>2. SubSeq(m, 1, i - 1) \o SubSeq(m, (i - 1) + 1, Len(m)) = SubSeq(m, 1, Len(m))
      BY <2>1, ConcatAdjacentSubSeq
    <2>3. SubSeq(m, 1, Len(m)) = m
      BY <2>1, SubSeqFull
    <2> QED
      BY <2>1, <2>2, <2>3
  <1>5. SubSeq(SizesOf(m), 1, i - 1) = SizesOf(p)
    <2> DEFINE s == SubSeq(SizesOf(m), 1, i - 1)
    <2>1. SizesOf(m) \in Seq(Int) /\ Len(SizesOf(m)) = Len(m)
      BY BlocksFacts
    <2>2. s \in Seq(Int) /\ Len(s) = i - 1 /\ \A k \in 1..(i - 1) : s[k] = SizesOf(m)[k]
      BY <1>1, <2>1
    <2>3. \A k \in 1..(i - 1) : k \in 1..Len(m) /\ SizesOf(m)[k] = Len(m[k])
      BY <1>1, BlocksFacts, SMTT(60)
    <2> HIDE DEF p, s
    <2>4. SizesOf(p) \in Seq(Int) /\ Len(SizesOf(p)) = i - 1
      BY <1>2, BlocksFacts
    <2>5. \A k \in 1..(i - 1) : SizesOf(p)[k] = Len(p[k])
      BY <1>2, BlocksFacts
    <2>6. \A k \in 1..(i - 1) : s[k] = SizesOf(p)[k]
      BY <1>2, <2>2, <2>3, <2>5
    <2>7. s = SizesOf(p)
      BY <2>2, <2>4, <2>6, SeqEqual
    <2> QED
      BY <2>7 DEF s
  <1> HIDE DEF p, q
  <1>6. Data(p) \in Seq(Int) /\ Len(Data(p)) = Sum(SizesOf(p))
    BY <1>2, DataType
  <1> DEFINE C == Cells(m[i])
  <1>7. C \in Seq(Int) /\ Len(C) = 2 * Len(m[i]) /\ C[2 * j] = m[i][j]
    BY <1>1, CellsFacts
  <1>8. Data(Tail(q)) \in Seq(Int)
    BY <1>3, DataType
  <1>9. Data(m) = Data(p) \o (C \o Data(Tail(q)))
    BY <1>2, <1>3, <1>4, DataConcat, DataFirst, ZenonT(60)
  <1> HIDE DEF C
  <1>10. 2 * j \in 1..Len(C)
    <2>1. PICK l \in Nat : l = Len(m[i])
      BY <1>1
    <2>2. j \in 1..l /\ 2 * j \in 1..(2 * l)
      BY <2>1
    <2> QED
      BY <1>7, <2>1, <2>2
  <1> DEFINE D == Data(p)
  <1> DEFINE R == Data(Tail(q))
  <1>11. D \in Seq(Int) /\ R \in Seq(Int) /\ C \in Seq(Int)
    BY <1>6, <1>7, <1>8
  <1>12. Data(m) = D \o (C \o R)
    BY <1>9
  <1>13. Sum(SubSeq(SizesOf(m), 1, i - 1)) = Len(D)
    BY <1>5, <1>6
  <1> HIDE DEF D, R
  <1>14. (C \o R)[2 * j] = C[2 * j] /\ C \o R \in Seq(Int) /\ 2 * j \in 1..Len(C \o R)
    BY <1>10, <1>11
  <1> DEFINE E == C \o R
  <1>15. E \in Seq(Int) /\ 2 * j \in 1..Len(E) /\ E[2 * j] = C[2 * j]
    BY <1>14
  <1> HIDE DEF E
  <1>16. (D \o E)[Len(D) + 2 * j] = E[2 * j]
    BY <1>11, <1>15
  <1> QED
    BY <1>7, <1>12, <1>13, <1>15, <1>16 DEF E

\* So the segments of a message's data are the message.
LEMMA SegmentsAre ==
  ASSUME NEW m \in Messages, reader.have = Data(m), reader.sizes = SizesOf(m)
  PROVE  Segments = m
  <1>1. DOMAIN m = 1..Len(m) /\ DOMAIN SizesOf(m) = DOMAIN m
    BY DEF Messages, SizesOf
  <1>2. ASSUME NEW i \in 1..Len(m)
        PROVE  m[i] = [j \in 1..SizesOf(m)[i] |->
                         Data(m)[Sum(SubSeq(SizesOf(m), 1, i - 1)) + 2 * j]]
    <2>1. SizesOf(m)[i] = Len(m[i]) /\ m[i] \in Seq(Int)
      BY BlocksFacts
    <2>2. \A j \in 1..Len(m[i]) :
            Data(m)[Sum(SubSeq(SizesOf(m), 1, i - 1)) + 2 * j] = m[i][j]
      BY DataAt
    <2>3. m[i] = [j \in 1..Len(m[i]) |-> m[i][j]]
      BY <2>1
    <2> QED
      BY <2>1, <2>2, <2>3
  <1>3. m = [i \in DOMAIN m |-> m[i]]
    BY DEF Messages
  <1> QED
    BY <1>1, <1>2, <1>3 DEF Segments

(***************************************************************************)
(* The inductive invariant.                                                *)
(***************************************************************************)

\* A message has a segment: capn_write_* refuse one without.
Segmented == \A m \in Contents : m # <<>>

\* What a reader takes: the sizes of the segments and the spare cell after them
\* have a place in its array, init_fp gives up on more data than it can count,
\* and fread of no data at all fails.
Readable ==
  \A m \in Contents :
    m # <<>> /\ SizeCells(Len(m)) <= CAPN_MAX_SEGS /\ Sum(SizesOf(m)) \in 1..MaxCells

FramingType ==
  /\ via \in {"fp", "fd", "mem"}
  /\ wire \in Seq(Int) /\ closed \in BOOLEAN
  /\ writer \in [busy : BOOLEAN, failed : BOOLEAN, rest : Seq(Int), parts : Messages]
  /\ reader \in [part : {"count", "sizes", "data", "failed"}, need : Int,
                 have : Seq(Int), sizes : Seq(Int)]
  /\ sent \in Seq(Contents) /\ got \in Seq(Contents)

\* Only a write in progress has something left to write, and it is the one
\* that failed that leaves it.
WriterInv ==
  /\ writer.busy => ~closed /\ ~writer.failed
  /\ ~writer.busy => writer.rest = <<>> /\ writer.parts = <<>>
  /\ sent = <<>> => ~writer.busy /\ ~writer.failed

\* The messages read are the first that were written.
GotInv == Len(got) <= Len(sent) /\ got = SubSeq(sent, 1, Len(got))

\* After the count the reader knows which message it is reading.
ReaderInv ==
  LET m == Head(Unread)
  IN  /\ reader.part = "count" => reader.need = 1
      /\ reader.part = "sizes" =>
           /\ Unread # <<>>
           /\ reader.need = SizeCells(Len(m)) /\ reader.sizes = <<Len(m)>>
      /\ reader.part = "data" =>
           /\ Unread # <<>>
           /\ reader.need = Sum(SizesOf(m)) /\ reader.sizes = SizesOf(m)
      /\ reader.part # "failed" => Len(reader.have) <= reader.need

\* The cells of the message being read that were read, those that came after
\* them, and those that a write in progress has still to write.
ReadCells ==
  IF reader.part = "sizes" THEN <<Len(Head(Unread)) - 1>> \o reader.have
  ELSE IF reader.part = "data" THEN Header(Head(Unread)) \o reader.have
  ELSE reader.have
Arrived == ReadCells \o wire
ToWrite == writer.rest \o Data(writer.parts)

\* Together they are the frames of the messages not read; a write that failed
\* leaves out the end.
Aligned ==
  reader.part # "failed" =>
    /\ IsPrefix(Arrived \o ToWrite, Framed(Unread))
    /\ ~writer.failed => Arrived \o ToWrite = Framed(Unread)

FramingInv == FramingType /\ WriterInv /\ GotInv /\ ReaderInv /\ Aligned

(***************************************************************************)
(* Frames of messages that can be read.                                    *)
(***************************************************************************)

LEMMA ContentsFacts ==
  ASSUME Segmented, NEW m \in Contents
  PROVE  m \in Messages /\ m # <<>> /\ Sum(SizesOf(m)) \in Nat
  <1>1. m \in Messages /\ m # <<>>
    BY FramingAssumption DEF Segmented, Messages
  <1>2. Data(m) \in Seq(Int) /\ Len(Data(m)) = Sum(SizesOf(m))
    BY <1>1, DataType
  <1>3. Len(Data(m)) \in Nat
    BY <1>2
  <1> QED
    BY <1>1, <1>2, <1>3

LEMMA ReadableFacts ==
  ASSUME Readable
  PROVE  /\ Segmented
         /\ \A m \in Contents : /\ SizeCells(Len(m)) \in Nat
                                /\ ~(SizeCells(Len(m)) > CAPN_MAX_SEGS)
                                /\ Sum(SizesOf(m)) \in Nat \ {0}
                                /\ ~(Sum(SizesOf(m)) > MaxCells)
  <1>1. ASSUME NEW m \in Contents
        PROVE  /\ m # <<>> /\ SizeCells(Len(m)) \in Nat
               /\ ~(SizeCells(Len(m)) > CAPN_MAX_SEGS)
               /\ Sum(SizesOf(m)) \in Nat \ {0} /\ ~(Sum(SizesOf(m)) > MaxCells)
    <2>1. Len(m) \in Nat
      BY FramingAssumption
    <2>2. SizeCells(Len(m)) \in Nat
      BY <2>1 DEF SizeCells
    <2> QED
      BY <2>2, FramingAssumption DEF Readable
  <1> QED
    BY <1>1 DEF Segmented

LEMMA FrameFacts ==
  ASSUME Segmented, NEW m \in Contents
  PROVE  /\ Header(m) \in Seq(Int) /\ Data(m) \in Seq(Int) /\ Frame(m) \in Seq(Int)
         /\ Frame(m) = Header(m) \o Data(m)
         /\ Len(Header(m)) = 1 + SizeCells(Len(m)) /\ SizeCells(Len(m)) \in Nat
         /\ Len(m) <= SizeCells(Len(m)) /\ Len(m) \in Nat \ {0}
         /\ Len(Data(m)) = Sum(SizesOf(m))
         /\ Header(m)[1] = Len(m) - 1
         /\ \A i \in 1..Len(m) : Header(m)[i + 1] = Len(m[i])
  <1>1. m \in Messages /\ m # <<>> /\ Len(m) \in Nat \ {0}
    BY ContentsFacts DEF Messages
  <1>2. Header(m) \in Seq(Int) /\ Data(m) \in Seq(Int)
    BY <1>1, HeaderFacts, DataType
  <1>3. Frame(m) = Header(m) \o Data(m) /\ Frame(m) \in Seq(Int)
    BY <1>2, ConcatProperties DEF Frame
  <1> QED
    BY <1>1, <1>2, <1>3, HeaderFacts, HeaderSize, DataType

Frames(ms) == [i \in DOMAIN ms |-> Frame(ms[i])]

LEMMA FramesFacts ==
  ASSUME Segmented, NEW ms \in Seq(Contents)
  PROVE  /\ Frames(ms) \in Seq(Seq(Int)) /\ Len(Frames(ms)) = Len(ms)
         /\ Framed(ms) = Joined(Frames(ms)) /\ Framed(ms) \in Seq(Int)
  <1>1. DOMAIN ms = 1..Len(ms) /\ Len(ms) \in Nat /\ \A i \in 1..Len(ms) : ms[i] \in Contents
    OBVIOUS
  <1>2. \A i \in 1..Len(ms) : Frame(ms[i]) \in Seq(Int)
    BY <1>1, FrameFacts
  <1>3. Frames(ms) \in Seq(Seq(Int)) /\ Len(Frames(ms)) = Len(ms)
    BY <1>1, <1>2 DEF Frames
  <1>4. Framed(ms) = Joined(Frames(ms))
    BY DEF Framed, Frames
  <1> QED
    BY <1>3, <1>4, JoinedType

LEMMA FramedNone == Framed(<<>>) = <<>>
  <1>1. [i \in DOMAIN <<>> |-> Frame(<<>>[i])] = <<>>
    OBVIOUS
  <1> QED
    BY <1>1, JoinedNone DEF Framed

LEMMA FramedAppend ==
  ASSUME Segmented, NEW ms \in Seq(Contents), NEW m \in Contents
  PROVE  Framed(Append(ms, m)) = Framed(ms) \o Frame(m)
  <1> DEFINE more == Append(ms, m)
  <1>1. /\ more \in Seq(Contents) /\ Len(more) = Len(ms) + 1
        /\ \A i \in 1..Len(ms) : more[i] = ms[i]
        /\ more[Len(ms) + 1] = m
    OBVIOUS
  <1>2. Len(ms) \in Nat /\ DOMAIN ms = 1..Len(ms)
    OBVIOUS
  <1>3. DOMAIN more = 1..(Len(ms) + 1)
    BY <1>1
  <1> HIDE DEF more
  <1>4. Frame(m) \in Seq(Int) /\ Frames(ms) \in Seq(Seq(Int)) /\ Len(Frames(ms)) = Len(ms)
    BY FrameFacts, FramesFacts
  <1>5. Frames(more) = Append(Frames(ms), Frame(m))
    <2> DEFINE F == Append(Frames(ms), Frame(m))
    <2>1. /\ F \in Seq(Seq(Int)) /\ Len(F) = Len(ms) + 1
          /\ \A i \in 1..Len(ms) : F[i] = Frames(ms)[i]
          /\ F[Len(ms) + 1] = Frame(m)
      BY <1>4, AppendProperties
    <2>2. Frames(more) \in Seq(Seq(Int)) /\ Len(Frames(more)) = Len(ms) + 1
      BY <1>1, FramesFacts
    <2>3. \A i \in 1..Len(ms) : Frames(more)[i] = Frame(ms[i]) /\ Frames(ms)[i] = Frame(ms[i])
      BY <1>1, <1>2, <1>3 DEF Frames
    <2>4. Frames(more)[Len(ms) + 1] = Frame(m)
      BY <1>1, <1>2, <1>3 DEF Frames
    <2> HIDE DEF F
    <2>5. \A i \in 1..(Len(ms) + 1) : Frames(more)[i] = F[i]
      <3>1. \A i \in 1..(Len(ms) + 1) : i \in 1..Len(ms) \/ i = Len(ms) + 1
        BY <1>2
      <3> QED
        BY <2>1, <2>3, <2>4, <3>1
    <2>6. Frames(more) = F
      BY <2>1, <2>2, <2>5, SeqEqual
    <2> QED
      BY <2>6 DEF F
  <1>6. Framed(more) = Joined(Frames(more)) /\ Framed(ms) = Joined(Frames(ms))
    BY <1>1, FramesFacts
  <1>7. Joined(Append(Frames(ms), Frame(m))) = Joined(Frames(ms)) \o Frame(m)
    BY <1>4, JoinedAppend
  <1> QED
    BY <1>5, <1>6, <1>7 DEF more

LEMMA FramedFirst ==
  ASSUME Segmented, NEW ms \in Seq(Contents), ms # <<>>
  PROVE  Framed(ms) = Frame(Head(ms)) \o Framed(Tail(ms))
  <1> DEFINE t == Tail(ms)
  <1>1. /\ Head(ms) = ms[1] /\ Head(ms) \in Contents
        /\ t \in Seq(Contents) /\ Len(t) = Len(ms) - 1
        /\ \A i \in 1..Len(t) : t[i] = ms[i + 1]
    BY HeadTailProperties
  <1>2. Len(ms) \in Nat \ {0} /\ DOMAIN ms = 1..Len(ms)
    OBVIOUS
  <1> HIDE DEF t
  <1>3. DOMAIN t = 1..Len(t)
    BY <1>1
  <1> DEFINE F == Frames(ms)
  <1>4. F \in Seq(Seq(Int)) /\ Len(F) = Len(ms) /\ F # <<>>
    BY <1>2, FramesFacts
  <1>5. \A i \in 1..Len(ms) : F[i] = Frame(ms[i])
    BY <1>2 DEF Frames
  <1>6. Frames(t) \in Seq(Seq(Int)) /\ Len(Frames(t)) = Len(t)
    BY <1>1, FramesFacts
  <1>7. \A i \in 1..Len(t) : Frames(t)[i] = Frame(t[i])
    BY <1>3 DEF Frames
  <1>8. Framed(ms) = Joined(F) /\ Framed(t) = Joined(Frames(t))
    BY <1>1, FramesFacts
  <1> HIDE DEF F
  <1>9. /\ Head(F) = F[1] /\ Tail(F) \in Seq(Seq(Int)) /\ Len(Tail(F)) = Len(F) - 1
        /\ \A i \in 1..Len(Tail(F)) : Tail(F)[i] = F[i + 1]
    BY <1>4, HeadTailProperties
  <1>10. \A i \in 1..Len(t) : i + 1 \in 1..Len(ms)
    BY <1>1, <1>2
  <1>11. Tail(F) = Frames(t)
    <2>1. Len(Tail(F)) = Len(Frames(t))
      BY <1>1, <1>4, <1>6, <1>9
    <2>2. \A i \in 1..Len(t) : Tail(F)[i] = Frames(t)[i]
      BY <1>1, <1>4, <1>5, <1>7, <1>9, <1>10
    <2> QED
      BY <1>6, <1>9, <2>1, <2>2, SeqEqual
  <1>12. Head(F) = Frame(Head(ms))
    BY <1>1, <1>2, <1>5, <1>9
  <1>13. Joined(F) = Head(F) \o Joined(Tail(F))
    BY <1>4, JoinedFirst
  <1> QED
    BY <1>8, <1>11, <1>12, <1>13 DEF t

(***************************************************************************)
(* What the invariant says of the message being read.                      *)
(***************************************************************************)

LEMMA PrefixIs ==
  ASSUME NEW s \in Seq(Int), NEW t \in Seq(Int)
  PROVE  IsPrefix(s, t) <=> \E lost \in Seq(Int) : t = s \o lost
  <1>1. ASSUME IsPrefix(s, t) PROVE \E lost \in Seq(Int) : t = s \o lost
    <2> DEFINE lost == SubSeq(t, Len(s) + 1, Len(t))
    <2>1. /\ Len(s) \in Nat /\ Len(t) \in Nat /\ Len(s) <= Len(t)
          /\ SubSeq(s, 1, Len(s)) = SubSeq(t, 1, Len(s))
      BY <1>1 DEF IsPrefix
    <2>2. SubSeq(s, 1, Len(s)) = s
      BY SubSeqFull
    <2>3. SubSeq(t, 1, Len(s)) \o lost = SubSeq(t, 1, Len(t))
      <3>1. /\ 1 \in 1..(Len(t) + 1) /\ Len(s) \in (1 - 1)..Len(t)
            /\ Len(t) \in Len(s)..Len(t)
        BY <2>1
      <3> QED
        BY <3>1, ConcatAdjacentSubSeq
    <2>4. SubSeq(t, 1, Len(t)) = t
      BY SubSeqFull
    <2>5. lost \in Seq(Int)
      BY <2>1, SubSeqProperties
    <2> QED
      BY <2>1, <2>2, <2>3, <2>4, <2>5
  <1>2. ASSUME NEW lost \in Seq(Int), t = s \o lost PROVE IsPrefix(s, t)
    <2>1. /\ Len(s) \in Nat /\ Len(s) <= Len(t)
          /\ \A i \in 1..Len(s) : t[i] = s[i]
      BY <1>2
    <2> DEFINE u == SubSeq(t, 1, Len(s))
    <2>2. u \in Seq(Int) /\ Len(u) = Len(s) /\ \A i \in 1..Len(s) : u[i] = t[i]
      BY <2>1
    <2> HIDE DEF u
    <2>3. u = s
      BY <2>1, <2>2, SeqEqual
    <2>4. SubSeq(s, 1, Len(s)) = s
      BY SubSeqFull
    <2> QED
      BY <2>1, <2>3, <2>4 DEF IsPrefix, u
  <1> QED
    BY <1>1, <1>2

LEMMA Together == \A s \in Seq(Int), t \in Seq(Int) : s \o t \in Seq(Int)
  BY ConcatProperties

LEMMA Assoc ==
  \A s \in Seq(Int), t \in Seq(Int), u \in Seq(Int) : (s \o t) \o u = s \o (t \o u)
  <1>1. ASSUME NEW S
        PROVE  \A s \in Seq(S), t \in Seq(S), u \in Seq(S) : (s \o t) \o u = s \o (t \o u)
    BY ConcatAssociative
  <1> QED
    BY <1>1, SMTT(60)

LEMMA PrefixSelf == ASSUME NEW s \in Seq(Int) PROVE IsPrefix(s, s)
  BY DEF IsPrefix

LEMMA UnreadFacts ==
  ASSUME FramingType, GotInv
  PROVE  /\ Unread \in Seq(Contents)
         /\ Len(Unread) = Len(sent) - Len(got)
         /\ \A i \in 1..Len(Unread) : Unread[i] = sent[Len(got) + i]
         /\ Unread = <<>> => got = sent
         /\ Unread # <<>> => /\ Head(Unread) \in Contents
                             /\ Head(Unread) = sent[Len(got) + 1]
                             /\ Len(got) < Len(sent)
  <1>1. /\ sent \in Seq(Contents) /\ got \in Seq(Contents)
        /\ Len(got) \in Nat /\ Len(sent) \in Nat /\ Len(got) <= Len(sent)
        /\ got = SubSeq(sent, 1, Len(got))
    BY DEF FramingType, GotInv
  <1>2. /\ Unread \in Seq(Contents)
        /\ Len(Unread) = Len(sent) - Len(got)
        /\ \A i \in 1..Len(Unread) : Unread[i] = sent[Len(got) + i]
    BY <1>1 DEF Unread
  <1>3. ASSUME Unread = <<>> PROVE got = sent
    <2>1. Len(got) = Len(sent)
      BY <1>1, <1>2, <1>3
    <2>2. SubSeq(sent, 1, Len(sent)) = sent
      BY <1>1, SubSeqFull
    <2> QED
      BY <1>1, <2>1, <2>2
  <1>4. ASSUME Unread # <<>>
        PROVE  /\ Head(Unread) \in Contents
               /\ Head(Unread) = sent[Len(got) + 1]
               /\ Len(got) < Len(sent)
    <2>1. 1 \in 1..Len(Unread) /\ Head(Unread) = Unread[1]
      BY <1>2, <1>4
    <2> QED
      BY <1>1, <1>2, <2>1
  <1> QED
    BY <1>2, <1>3, <1>4

\* With the sequences as they are built.
LEMMA CellsTypes ==
  ASSUME Segmented, FramingType, GotInv, ReaderInv
  PROVE  /\ ReadCells \in Seq(Int) /\ Arrived \in Seq(Int) /\ ToWrite \in Seq(Int)
         /\ Framed(Unread) \in Seq(Int)
         /\ Len(Arrived) = Len(ReadCells) + Len(wire)
         /\ reader.have \in Seq(Int) /\ wire \in Seq(Int)
  <1>1. /\ wire \in Seq(Int) /\ reader.have \in Seq(Int)
        /\ writer.rest \in Seq(Int) /\ writer.parts \in Messages
    BY DEF FramingType
  <1>2. ReadCells \in Seq(Int)
    <2>1. CASE reader.part = "sizes"
      <3> DEFINE n == Len(Head(Unread)) - 1
      <3>1. Head(Unread) \in Contents
        BY <2>1, UnreadFacts DEF ReaderInv
      <3>2. n \in Int
        BY <3>1, FrameFacts
      <3>3. <<n>> \in Seq(Int)
        BY <3>2
      <3> HIDE DEF n
      <3>4. <<n>> \o reader.have \in Seq(Int)
        BY <1>1, <3>3, ConcatProperties
      <3> QED
        BY <2>1, <3>4 DEF ReadCells, n
    <2>2. CASE reader.part = "data"
      <3>1. Header(Head(Unread)) \in Seq(Int)
        BY <2>2, UnreadFacts, FrameFacts DEF ReaderInv
      <3> QED
        BY <1>1, <2>2, <3>1, ConcatProperties DEF ReadCells
    <2> QED
      BY <1>1, <2>1, <2>2 DEF ReadCells
  <1>3. ToWrite \in Seq(Int)
    BY <1>1, DataType, ConcatProperties DEF ToWrite
  <1>4. Framed(Unread) \in Seq(Int)
    BY UnreadFacts, FramesFacts
  <1> QED
    BY <1>1, <1>2, <1>3, <1>4, ConcatProperties DEF Arrived

LEMMA AlignedIs ==
  ASSUME Segmented, FramingType, GotInv, ReaderInv
  PROVE  Aligned <=>
           (reader.part # "failed" =>
              \E lost \in Seq(Int) :
                /\ Framed(Unread) = (Arrived \o ToWrite) \o lost
                /\ writer.failed \/ lost = <<>>)
  <1> DEFINE s == Arrived \o ToWrite
  <1>1. s \in Seq(Int) /\ Framed(Unread) \in Seq(Int)
    BY CellsTypes, ConcatProperties
  <1>2. IsPrefix(s, Framed(Unread)) <=> \E lost \in Seq(Int) : Framed(Unread) = s \o lost
    BY <1>1, PrefixIs
  <1>3. <<>> \in Seq(Int) /\ s \o <<>> = s
    BY <1>1, ConcatEmptySeq
  <1>4. Aligned <=> (reader.part # "failed" =>
                       /\ IsPrefix(s, Framed(Unread))
                       /\ ~writer.failed => s = Framed(Unread))
    BY DEF Aligned
  <1> HIDE DEF s
  <1>5. (\E lost \in Seq(Int) : /\ Framed(Unread) = s \o lost
                                /\ writer.failed \/ lost = <<>>)
        <=> (/\ IsPrefix(s, Framed(Unread))
             /\ ~writer.failed => s = Framed(Unread))
    BY <1>2, <1>3
  <1> QED
    BY <1>4, <1>5 DEF s

\* What arrived is the beginning of the message being read.
LEMMA Facing ==
  ASSUME Segmented, FramingInv, reader.part # "failed", Arrived # <<>>
  PROVE  /\ Unread # <<>> /\ Head(Unread) \in Contents
         /\ \A k \in 1..Len(Arrived) :
              k <= Len(Frame(Head(Unread))) => Arrived[k] = Frame(Head(Unread))[k]
  <1>1. FramingType /\ GotInv /\ ReaderInv /\ Aligned
    BY DEF FramingInv
  <1>2. PICK lost \in Seq(Int) : Framed(Unread) = (Arrived \o ToWrite) \o lost
    BY <1>1, AlignedIs
  <1>3. Arrived \in Seq(Int) /\ ToWrite \in Seq(Int) /\ Framed(Unread) \in Seq(Int)
    BY <1>1, CellsTypes
  <1>4. /\ Len(Framed(Unread)) >= Len(Arrived)
        /\ \A k \in 1..Len(Arrived) : Framed(Unread)[k] = Arrived[k]
    <2> DEFINE A == Arrived
    <2> DEFINE T == ToWrite
    <2>1. A \in Seq(Int) /\ T \in Seq(Int) /\ lost \in Seq(Int)
      BY <1>3
    <2> HIDE DEF A, T
    <2>2. /\ Len((A \o T) \o lost) >= Len(A)
          /\ \A k \in 1..Len(A) : ((A \o T) \o lost)[k] = A[k]
      BY <2>1
    <2> QED
      BY <1>2, <2>2 DEF A, T
  <1>5. Unread # <<>> /\ Head(Unread) \in Contents
    <2>1. Unread # <<>>
      <3>1. Len(Arrived) > 0
        BY <1>3
      <3>2. Len(Framed(Unread)) > 0
        BY <1>3, <1>4, <3>1
      <3>3. Unread = <<>> => Framed(Unread) = <<>>
        BY FramedNone
      <3> QED
        BY <3>2, <3>3
    <2> QED
      BY <1>1, <2>1, UnreadFacts
  <1> DEFINE F == Frame(Head(Unread))
  <1> DEFINE R == Framed(Tail(Unread))
  <1>6. Unread \in Seq(Contents) /\ Tail(Unread) \in Seq(Contents)
    BY <1>1, <1>5, UnreadFacts, HeadTailProperties
  <1>7. F \in Seq(Int) /\ R \in Seq(Int) /\ Framed(Unread) = F \o R
    BY <1>5, <1>6, FrameFacts, FramesFacts, FramedFirst
  <1> HIDE DEF F, R
  <1>8. \A k \in 1..Len(F) : (F \o R)[k] = F[k]
    BY <1>7
  <1>9. ASSUME NEW k \in 1..Len(Arrived), k <= Len(F) PROVE Arrived[k] = F[k]
    <2>1. k \in 1..Len(F)
      BY <1>3, <1>7, <1>9
    <2> QED
      BY <1>4, <1>7, <1>8, <2>1
  <1> QED
    BY <1>5, <1>9 DEF F

(***************************************************************************)
(* The steps of a writer.                                                  *)
(***************************************************************************)

LEMMA UnreadMore ==
  ASSUME FramingType, GotInv, NEW m \in Contents, sent' = Append(sent, m), got' = got
  PROVE  /\ GotInv' /\ sent' \in Seq(Contents) /\ sent' # <<>>
         /\ Unread' = Append(Unread, m)
         /\ Unread # <<>> => Unread' # <<>> /\ Head(Unread') = Head(Unread)
  <1>1. /\ sent \in Seq(Contents) /\ got \in Seq(Contents)
        /\ Len(got) \in Nat /\ Len(sent) \in Nat /\ Len(got) <= Len(sent)
        /\ got = SubSeq(sent, 1, Len(got))
    BY DEF FramingType, GotInv
  <1>2. /\ sent' \in Seq(Contents) /\ sent' # <<>> /\ Len(sent') = Len(sent) + 1
        /\ \A i \in 1..Len(sent) : sent'[i] = sent[i]
        /\ sent'[Len(sent) + 1] = m
    BY <1>1
  <1>3. GotInv'
    <2> DEFINE g == SubSeq(sent', 1, Len(got))
    <2>1. /\ g \in Seq(Contents) /\ Len(g) = Len(got)
          /\ \A i \in 1..Len(got) : g[i] = sent'[i]
      BY <1>1, <1>2
    <2>2. \A i \in 1..Len(got) : got[i] = sent[i]
      BY <1>1
    <2>3. \A i \in 1..Len(got) : i \in 1..Len(sent)
      BY <1>1
    <2> HIDE DEF g
    <2>4. \A i \in 1..Len(got) : g[i] = got[i]
      BY <1>2, <2>1, <2>2, <2>3
    <2>5. g = got
      BY <1>1, <2>1, <2>4, SeqEqual
    <2> QED
      BY <1>1, <1>2, <2>5 DEF GotInv, g
  <1> DEFINE U == Unread
  <1> DEFINE W == Unread'
  <1>4. /\ U \in Seq(Contents) /\ Len(U) = Len(sent) - Len(got)
        /\ \A i \in 1..Len(U) : U[i] = sent[Len(got) + i]
    BY UnreadFacts
  <1>5. /\ W \in Seq(Contents) /\ Len(W) = Len(sent) + 1 - Len(got)
        /\ \A i \in 1..(Len(sent) + 1 - Len(got)) : W[i] = sent'[Len(got) + i]
    BY <1>1, <1>2 DEF Unread
  <1> HIDE DEF U, W
  <1> DEFINE V == Append(U, m)
  <1>6. /\ V \in Seq(Contents) /\ Len(V) = Len(U) + 1
        /\ \A i \in 1..Len(U) : V[i] = U[i]
        /\ V[Len(U) + 1] = m
    BY <1>4
  <1> HIDE DEF V
  <1>7. ASSUME NEW i \in 1..Len(W) PROVE W[i] = V[i]
    <2>1. CASE i \in 1..Len(U)
      <3>1. Len(got) + i \in 1..Len(sent)
        BY <1>1, <1>4, <2>1
      <3> QED
        BY <1>2, <1>4, <1>5, <1>6, <2>1, <3>1
    <2>2. CASE i = Len(U) + 1
      <3>1. Len(got) + i = Len(sent) + 1
        BY <1>1, <1>4, <2>2
      <3> QED
        BY <1>2, <1>5, <1>6, <2>2, <3>1
    <2>3. i \in 1..Len(U) \/ i = Len(U) + 1
      <3>1. Len(W) = Len(U) + 1 /\ Len(U) \in Nat
        BY <1>1, <1>4, <1>5
      <3> QED
        BY <3>1
    <2> QED
      BY <2>1, <2>2, <2>3
  <1>8. W = V
    <2>1. Len(W) = Len(V)
      BY <1>1, <1>4, <1>5, <1>6
    <2> QED
      BY <1>5, <1>6, <1>7, <2>1, SeqEqual
  <1>9. U # <<>> => V # <<>> /\ Head(V) = Head(U)
    <2> SUFFICES ASSUME U # <<>> PROVE V # <<>> /\ Head(V) = Head(U)
      OBVIOUS
    <2>1. Len(U) \in Nat \ {0} /\ Head(U) = U[1] /\ 1 \in 1..Len(U)
      BY <1>4
    <2>2. V # <<>> /\ Head(V) = V[1]
      BY <1>6, <2>1
    <2> QED
      BY <1>6, <2>1, <2>2
  <1> QED
    BY <1>2, <1>3, <1>8, <1>9 DEF U, W, V

\* When nothing is read, what the reader knows of its message stays true.
LEMMA ReaderKept ==
  ASSUME FramingInv, GotInv', UNCHANGED <<reader, wire>>,
         Unread # <<>> => Unread' # <<>> /\ Head(Unread') = Head(Unread)
  PROVE  ReaderInv' /\ Arrived' = Arrived
  <1>1. ReaderInv
    BY DEF FramingInv
  <1>2. reader.part \in {"sizes", "data"} => Unread # <<>>
    BY <1>1 DEF ReaderInv
  <1>3. ReaderInv'
    BY <1>1, <1>2 DEF ReaderInv
  <1>4. ReadCells' = ReadCells
    BY <1>2 DEF ReadCells
  <1> QED
    BY <1>3, <1>4 DEF Arrived

\* What is left after a write.
LEMMA NothingLeft == Data(<<>>) = <<>> /\ <<>> \o Data(<<>>) = <<>>
  <1>1. [i \in DOMAIN <<>> |-> Cells(<<>>[i])] = <<>>
    OBVIOUS
  <1>2. Data(<<>>) = <<>>
    BY <1>1, JoinedNone DEF Data
  <1> QED
    BY <1>2

LEMMA WriterAfter ==
  /\ Silent = [busy |-> FALSE, failed |-> FALSE, rest |-> <<>>, parts |-> <<>>]
  /\ Failed = [busy |-> FALSE, failed |-> TRUE, rest |-> <<>>, parts |-> <<>>]
  /\ <<>> \in Messages /\ <<>> \in Seq(Int)
  BY DEF Silent, Failed, Idle, Messages

\* A step that only moves the border between what is written and what is not.
LEMMA AlignedKept ==
  ASSUME FramingInv, Unread' = Unread, Arrived' \o ToWrite' = Arrived \o ToWrite,
         writer.failed => writer'.failed,
         reader'.part # "failed" => reader.part # "failed"
  PROVE  Aligned'
  BY DEF FramingInv, Aligned

LEMMA BeginInv ==
  ASSUME Segmented, FramingInv, NEW m \in Contents, write_begin(m)
  PROVE  FramingInv'
  <1>1. FramingType /\ WriterInv /\ GotInv /\ ReaderInv /\ Aligned
    BY DEF FramingInv
  <1>2. /\ ~writer.busy /\ ~writer.failed /\ ~closed /\ sent' = Append(sent, m)
        /\ UNCHANGED <<via, wire, closed, reader, got>>
    BY DEF write_begin
  <1>3. m \in Messages /\ Header(m) \in Seq(Int) /\ Data(m) \in Seq(Int)
    BY ContentsFacts, FrameFacts
  <1>4. /\ GotInv' /\ sent' \in Seq(Contents) /\ sent' # <<>>
        /\ Unread' = Append(Unread, m)
        /\ Unread # <<>> => Unread' # <<>> /\ Head(Unread') = Head(Unread)
    BY <1>1, <1>2, UnreadMore
  <1>5. ReaderInv' /\ Arrived' = Arrived
    BY <1>2, <1>4, ReaderKept
  <1> DEFINE busy == [busy |-> TRUE, failed |-> FALSE, rest |-> Header(m), parts |-> m]
  <1>6. writer' = Failed \/ writer' = busy
    BY DEF write_begin
  <1>7. FramingType' /\ WriterInv'
    <2>1. writer' \in [busy : BOOLEAN, failed : BOOLEAN, rest : Seq(Int), parts : Messages]
      <3>1. CASE writer' = busy
        BY <1>3, <3>1
      <3>2. CASE writer' = Failed
        BY <3>2, WriterAfter
      <3> QED
        BY <1>6, <3>1, <3>2
    <2>2. FramingType'
      BY <1>1, <1>2, <1>4, <2>1 DEF FramingType
    <2>3. WriterInv'
      BY <1>2, <1>4, <1>6, WriterAfter DEF WriterInv
    <2> QED
      BY <2>2, <2>3
  <1>8. Framed(Unread') = Framed(Unread) \o Frame(m)
    BY <1>1, <1>4, UnreadFacts, FramedAppend
  <1>9. ASSUME reader.part # "failed" PROVE Arrived = Framed(Unread)
    <2>1. Arrived \o ToWrite = Framed(Unread)
      BY <1>1, <1>2, <1>9 DEF Aligned
    <2>2. ToWrite = <<>>
      BY <1>1, <1>2, NothingLeft DEF WriterInv, ToWrite
    <2>3. Arrived \in Seq(Int)
      BY <1>1, CellsTypes
    <2> QED
      BY <2>1, <2>2, <2>3, ConcatEmptySeq
  <1>10. Aligned'
    <2>1. SUFFICES ASSUME reader.part # "failed"
                   PROVE  /\ IsPrefix(Arrived' \o ToWrite', Framed(Unread'))
                          /\ ~writer'.failed => Arrived' \o ToWrite' = Framed(Unread')
      BY <1>2 DEF Aligned
    <2>2. /\ Arrived \in Seq(Int) /\ Frame(m) \in Seq(Int)
          /\ Frame(m) = Header(m) \o Data(m)
      BY <1>1, FrameFacts, CellsTypes
    <2>3. Framed(Unread') = Arrived \o Frame(m) /\ Framed(Unread') \in Seq(Int)
      BY <1>8, <1>9, <2>1, <2>2, ConcatProperties, SMTT(60)
    <2>4. CASE writer' = busy
      <3>1. ToWrite' = Frame(m)
        BY <2>2, <2>4 DEF ToWrite
      <3>2. Arrived' \o ToWrite' = Framed(Unread')
        BY <1>5, <2>3, <3>1
      <3> QED
        BY <2>3, <3>2, PrefixSelf
    <2>5. CASE writer' = Failed
      <3>1. ToWrite' = <<>> /\ writer'.failed
        BY <2>5, WriterAfter, NothingLeft DEF ToWrite
      <3>2. Arrived' \o ToWrite' = Arrived
        BY <1>5, <2>2, <3>1, ConcatEmptySeq
      <3>3. IsPrefix(Arrived, Framed(Unread'))
        BY <2>2, <2>3, PrefixIs
      <3> QED
        BY <3>1, <3>2, <3>3
    <2> QED
      BY <1>6, <2>4, <2>5
  <1> QED
    BY <1>4, <1>5, <1>7, <1>10 DEF FramingInv

LEMMA SomeInv ==
  ASSUME Segmented, FramingInv, NEW k \in 1..Len(writer.rest), write_some(k)
  PROVE  FramingInv'
  <1>1. FramingType /\ WriterInv /\ GotInv /\ ReaderInv /\ Aligned
    BY DEF FramingInv
  <1>2. /\ writer.busy
        /\ wire' = wire \o SubSeq(writer.rest, 1, k)
        /\ writer' = [writer EXCEPT !.rest = SubSeq(@, k + 1, Len(@))]
        /\ UNCHANGED <<via, closed, reader, sent, got>>
    BY DEF write_some
  <1> DEFINE a == SubSeq(writer.rest, 1, k)
  <1> DEFINE b == SubSeq(writer.rest, k + 1, Len(writer.rest))
  <1>3. a \in Seq(Int) /\ b \in Seq(Int) /\ writer.rest = a \o b
    <2> DEFINE r == writer.rest
    <2>1. r \in Seq(Int) /\ k \in 1..Len(r) /\ Len(r) \in Nat
      BY <1>1 DEF FramingType
    <2> HIDE DEF r
    <2>2. /\ 1 \in 1..(Len(r) + 1) /\ k \in (1 - 1)..Len(r)
          /\ Len(r) \in k..Len(r)
      BY <2>1
    <2>3. SubSeq(r, 1, k) \o SubSeq(r, k + 1, Len(r)) = SubSeq(r, 1, Len(r))
      BY <2>1, <2>2, ConcatAdjacentSubSeq
    <2>4. SubSeq(r, 1, Len(r)) = r
      BY <2>1, SubSeqFull
    <2>5. SubSeq(r, 1, k) \in Seq(Int) /\ SubSeq(r, k + 1, Len(r)) \in Seq(Int)
      BY <2>1, SubSeqProperties
    <2> QED
      BY <2>3, <2>4, <2>5 DEF r
  <1>4. /\ wire \in Seq(Int) /\ wire' = wire \o a /\ wire' \in Seq(Int)
        /\ writer'.rest = b /\ writer'.parts = writer.parts
        /\ writer'.failed = writer.failed /\ writer'.busy = writer.busy
        /\ writer' \in [busy : BOOLEAN, failed : BOOLEAN, rest : Seq(Int), parts : Messages]
    <2>1. wire \in Seq(Int) /\ wire' = wire \o a
      BY <1>1, <1>2 DEF FramingType
    <2>2. writer \in [busy : BOOLEAN, failed : BOOLEAN, rest : Seq(Int), parts : Messages]
      BY <1>1 DEF FramingType
    <2>3. writer' = [writer EXCEPT !.rest = b]
      BY <1>2
    <2>4. wire' \in Seq(Int)
      BY <1>3, <2>1, ConcatProperties
    <2> HIDE DEF a, b
    <2> QED
      BY <1>3, <2>1, <2>2, <2>3, <2>4
  <1> HIDE DEF a, b
  <1>5. FramingType'
    BY <1>1, <1>2, <1>4 DEF FramingType
  <1>6. WriterInv'
    BY <1>1, <1>2, <1>4 DEF WriterInv
  <1>7. GotInv' /\ Unread' = Unread
    BY <1>1, <1>2 DEF GotInv, Unread
  <1>8. ReaderInv' /\ ReadCells' = ReadCells
    BY <1>1, <1>2, <1>7 DEF ReaderInv, ReadCells
  <1>9. Arrived' \o ToWrite' = Arrived \o ToWrite
    <2>0. PICK c \in Seq(Int) : c = ReadCells
      BY <1>1, CellsTypes
    <2>1. PICK d \in Seq(Int) : d = Data(writer.parts)
      BY <1>1, DataType DEF FramingType
    <2>2. Arrived = c \o wire /\ Arrived' = c \o (wire \o a)
      BY <1>4, <1>8, <2>0 DEF Arrived
    <2>3. ToWrite = (a \o b) \o d /\ ToWrite' = b \o d
      BY <1>3, <1>4, <2>1 DEF ToWrite
    <2>4. (c \o (wire \o a)) \o (b \o d) = (c \o wire) \o ((a \o b) \o d)
      <3>1. PICK x \in Seq(Int), y \in Seq(Int), w \in Seq(Int) : x = a /\ y = b /\ w = wire
        BY <1>3, <1>4
      <3>2. (c \o (w \o x)) \o (y \o d) = (c \o w) \o ((x \o y) \o d)
        <4>1. c \o (w \o x) = (c \o w) \o x
          BY Assoc, ZenonT(60)
        <4>2. (x \o y) \o d = x \o (y \o d)
          BY Assoc, ZenonT(60)
        <4>3. PICK e \in Seq(Int) : e = c \o w
          BY Together, Zenon
        <4>4. PICK f \in Seq(Int) : f = y \o d
          BY Together, Zenon
        <4>5. (e \o x) \o f = e \o (x \o f)
          BY Assoc, ZenonT(60)
        <4> QED
          BY <4>1, <4>2, <4>3, <4>4, <4>5, Zenon
      <3> QED
        BY <3>1, <3>2
    <2> QED
      BY <2>2, <2>3, <2>4
  <1>10. Aligned'
    BY <1>2, <1>4, <1>7, <1>9, AlignedKept
  <1> QED
    BY <1>5, <1>6, <1>7, <1>8, <1>10 DEF FramingInv

LEMMA NextInv ==
  ASSUME Segmented, FramingInv, write_next
  PROVE  FramingInv'
  <1>1. FramingType /\ WriterInv /\ GotInv /\ ReaderInv /\ Aligned
    BY DEF FramingInv
  <1> DEFINE p == writer.parts
  <1>2. /\ writer.busy /\ writer.rest = <<>> /\ p # <<>>
        /\ writer' = [writer EXCEPT !.rest = Cells(Head(p)), !.parts = Tail(p)]
        /\ UNCHANGED <<via, wire, closed, reader, sent, got>>
    BY DEF write_next
  <1>3. /\ p \in Messages /\ Head(p) \in Seq(Int) /\ Tail(p) \in Messages
        /\ Cells(Head(p)) \in Seq(Int) /\ Data(p) \in Seq(Int)
    <2>1. p \in Messages
      BY <1>1 DEF FramingType
    <2>2. Head(p) \in Seq(Int) /\ Tail(p) \in Messages
      BY <1>2, <2>1, HeadTailProperties DEF Messages
    <2> QED
      BY <2>1, <2>2, CellsFacts, DataType
  <1>4. /\ writer'.rest = Cells(Head(p)) /\ writer'.parts = Tail(p)
        /\ writer'.failed = writer.failed /\ writer'.busy = writer.busy
        /\ writer' \in [busy : BOOLEAN, failed : BOOLEAN, rest : Seq(Int), parts : Messages]
    <2>1. writer \in [busy : BOOLEAN, failed : BOOLEAN, rest : Seq(Int), parts : Messages]
      BY <1>1 DEF FramingType
    <2> QED
      BY <1>2, <1>3, <2>1
  <1>5. FramingType' /\ WriterInv'
    BY <1>1, <1>2, <1>4 DEF FramingType, WriterInv
  <1>6. GotInv' /\ Unread' = Unread
    BY <1>1, <1>2 DEF GotInv, Unread
  <1>7. ReaderInv' /\ Arrived' = Arrived
    BY <1>1, <1>2, <1>6 DEF ReaderInv, ReadCells, Arrived
  <1>8. ToWrite' = ToWrite
    <2>1. Data(p) = Cells(Head(p)) \o Data(Tail(p))
      BY <1>2, <1>3, DataFirst
    <2>2. ToWrite = Data(p)
      BY <1>2, <1>3, ConcatEmptySeq DEF ToWrite
    <2> QED
      BY <1>4, <2>1, <2>2 DEF ToWrite
  <1>9. Aligned'
    BY <1>2, <1>4, <1>6, <1>7, <1>8, AlignedKept
  <1> QED
    BY <1>5, <1>6, <1>7, <1>9 DEF FramingInv

LEMMA EndInv ==
  ASSUME Segmented, FramingInv, write_end
  PROVE  FramingInv'
  <1>1. FramingType /\ WriterInv /\ GotInv /\ ReaderInv /\ Aligned
    BY DEF FramingInv
  <1>2. /\ writer.busy /\ writer.rest = <<>> /\ writer.parts = <<>>
        /\ writer' = Silent
        /\ UNCHANGED <<via, wire, closed, reader, sent, got>>
    BY DEF write_end
  <1>3. FramingType' /\ WriterInv'
    BY <1>1, <1>2, WriterAfter DEF FramingType, WriterInv
  <1>4. GotInv' /\ Unread' = Unread
    BY <1>1, <1>2 DEF GotInv, Unread
  <1>5. ReaderInv' /\ Arrived' = Arrived
    BY <1>1, <1>2, <1>4 DEF ReaderInv, ReadCells, Arrived
  <1>6. ToWrite' = ToWrite /\ ~writer.failed
    BY <1>1, <1>2, WriterAfter DEF ToWrite, WriterInv
  <1>7. Aligned'
    BY <1>2, <1>4, <1>5, <1>6, AlignedKept
  <1> QED
    BY <1>3, <1>4, <1>5, <1>7 DEF FramingInv

LEMMA FailsInv ==
  ASSUME Segmented, FramingInv, write_fails
  PROVE  FramingInv'
  <1>1. FramingType /\ WriterInv /\ GotInv /\ ReaderInv /\ Aligned
    BY DEF FramingInv
  <1>2. /\ writer.busy /\ writer' = Failed
        /\ UNCHANGED <<via, wire, closed, reader, sent, got>>
    BY DEF write_fails
  <1>3. GotInv' /\ Unread' = Unread
    BY <1>1, <1>2 DEF GotInv, Unread
  <1>4. ReaderInv' /\ Arrived' = Arrived
    BY <1>1, <1>2, <1>3 DEF ReaderInv, ReadCells, Arrived
  <1>5. Aligned'
    <2>1. SUFFICES ASSUME reader.part # "failed"
                   PROVE  /\ IsPrefix(Arrived' \o ToWrite', Framed(Unread'))
                          /\ writer'.failed
      BY <1>2 DEF Aligned
    <2> DEFINE A == Arrived
    <2> DEFINE T == ToWrite
    <2>2. A \in Seq(Int) /\ T \in Seq(Int) /\ Framed(Unread) \in Seq(Int)
      BY <1>1, CellsTypes
    <2>3. A \o T = Framed(Unread)
      BY <1>1, <1>2, <2>1 DEF Aligned, WriterInv
    <2>4. ToWrite' = <<>> /\ writer'.failed
      BY <1>2, WriterAfter, NothingLeft DEF ToWrite
    <2>5. Arrived' \o ToWrite' = A
      BY <1>4, <2>2, <2>4, ConcatEmptySeq
    <2> HIDE DEF A, T
    <2>6. IsPrefix(A, Framed(Unread))
      BY <2>2, <2>3, PrefixIs
    <2> QED
      BY <1>3, <2>4, <2>5, <2>6
  <1>6. FramingType'
    BY <1>1, <1>2, WriterAfter DEF FramingType
  <1>7. WriterInv'
    <2>1. sent # <<>>
      BY <1>1, <1>2, <1>5 DEF WriterInv
    <2> QED
      BY <1>2, <2>1, WriterAfter DEF WriterInv
  <1> QED
    BY <1>3, <1>4, <1>5, <1>6, <1>7 DEF FramingInv

LEMMA MemInv ==
  ASSUME Segmented, FramingInv, NEW m \in Contents, capn_write_mem(m)
  PROVE  FramingInv'
  <1>1. FramingType /\ WriterInv /\ GotInv /\ ReaderInv /\ Aligned
    BY DEF FramingInv
  <1>2. /\ ~closed /\ sent = <<>> /\ sent' = <<m>>
        /\ \/ wire' = Frame(m) /\ writer' = Silent
           \/ wire' = <<>> /\ writer' = Failed
        /\ UNCHANGED <<via, closed, reader, got>>
    BY DEF capn_write_mem
  <1>3. Frame(m) \in Seq(Int)
    BY FrameFacts
  <1>4. /\ GotInv' /\ sent' \in Seq(Contents) /\ sent' # <<>>
        /\ Unread' = Append(Unread, m)
    <2>1. sent' = Append(sent, m)
      BY <1>2
    <2> QED
      BY <1>1, <1>2, <2>1, UnreadMore
  <1>5. FramingType' /\ WriterInv'
    <2>1. /\ wire' \in Seq(Int)
          /\ writer' \in [busy : BOOLEAN, failed : BOOLEAN, rest : Seq(Int), parts : Messages]
          /\ ~writer'.busy /\ writer'.rest = <<>> /\ writer'.parts = <<>>
      <3>1. CASE wire' = Frame(m) /\ writer' = Silent
        BY <1>3, <3>1, WriterAfter
      <3>2. CASE wire' = <<>> /\ writer' = Failed
        BY <3>2, WriterAfter
      <3> QED
        BY <1>2, <3>1, <3>2
    <2> QED
      BY <1>1, <1>2, <1>4, <2>1 DEF FramingType, WriterInv
  <1>6. Unread = <<>>
    <2>1. Len(sent) = 0 /\ Len(got) \in Nat /\ Len(got) <= Len(sent)
      BY <1>1, <1>2 DEF FramingType, GotInv
    <2>2. Unread \in Seq(Contents) /\ Len(Unread) = 0
      BY <1>1, <2>1, UnreadFacts
    <2> QED
      BY <2>2
  <1>7. ReaderInv' /\ reader.part \notin {"sizes", "data"}
    BY <1>1, <1>2, <1>6 DEF ReaderInv
  <1>8. Framed(Unread') = Frame(m)
    <2>1. Framed(<<>>) \o Frame(m) = Frame(m)
      BY <1>3, FramedNone, ConcatEmptySeq
    <2> QED
      BY <1>1, <1>4, <1>6, <2>1, UnreadFacts, FramedAppend
  <1>9. ASSUME reader.part # "failed" PROVE reader.have = <<>>
    <2>1. Arrived \o ToWrite = <<>>
      BY <1>1, <1>2, <1>6, <1>9, FramedNone DEF Aligned, WriterInv
    <2>2. Arrived \in Seq(Int) /\ ToWrite \in Seq(Int) /\ reader.have \in Seq(Int)
      BY <1>1, CellsTypes
    <2>3. Arrived = <<>>
      BY <2>1, <2>2, ConcatEqualIffEmpty
    <2>4. Arrived = reader.have \o wire /\ wire \in Seq(Int)
      BY <1>1, <1>7, CellsTypes DEF Arrived, ReadCells
    <2>5. reader.have \o wire = <<>>
      BY <2>3, <2>4
    <2> QED
      BY <2>2, <2>4, <2>5, ConcatEqualIffEmpty
  <1>10. Aligned'
    <2>1. SUFFICES ASSUME reader.part # "failed"
                   PROVE  /\ IsPrefix(Arrived' \o ToWrite', Framed(Unread'))
                          /\ ~writer'.failed => Arrived' \o ToWrite' = Framed(Unread')
      BY <1>2 DEF Aligned
    <2>2. ReadCells' = <<>>
      BY <1>2, <1>7, <1>9, <2>1 DEF ReadCells
    <2>3. ToWrite' = <<>>
      BY <1>2, WriterAfter, NothingLeft DEF ToWrite
    <2>4. Arrived' = wire'
      BY <1>2, <1>3, <2>2, ConcatEmptySeq DEF Arrived
    <2>5. Arrived' \o ToWrite' = wire'
      BY <1>2, <1>3, <2>3, <2>4, ConcatEmptySeq
    <2>6. CASE wire' = Frame(m)
      BY <1>3, <1>8, <2>5, <2>6, PrefixSelf
    <2>7. CASE wire' = <<>> /\ writer' = Failed
      <3>1. <<>> \in Seq(Int) /\ Frame(m) = <<>> \o Frame(m)
        BY <1>3, ConcatEmptySeq
      <3>2. IsPrefix(<<>>, Frame(m))
        BY <1>3, <3>1, PrefixIs
      <3> QED
        BY <1>8, <2>5, <2>7, <3>2, WriterAfter
    <2> QED
      BY <1>2, <2>6, <2>7
  <1> QED
    BY <1>4, <1>5, <1>7, <1>10 DEF FramingInv

LEMMA CloseInv ==
  ASSUME Segmented, FramingInv, Close
  PROVE  FramingInv'
  <1>1. FramingType /\ WriterInv /\ GotInv /\ ReaderInv /\ Aligned
    BY DEF FramingInv
  <1>2. ~writer.busy /\ closed' = TRUE /\ UNCHANGED <<via, wire, writer, reader, sent, got>>
    BY DEF Close
  <1>3. FramingType' /\ WriterInv' /\ GotInv' /\ Unread' = Unread
    BY <1>1, <1>2 DEF FramingType, WriterInv, GotInv, Unread
  <1>4. ReaderInv' /\ Arrived' = Arrived /\ ToWrite' = ToWrite
    BY <1>1, <1>2, <1>3 DEF ReaderInv, ReadCells, Arrived, ToWrite
  <1>5. Aligned'
    BY <1>2, <1>3, <1>4, AlignedKept
  <1> QED
    BY <1>3, <1>4, <1>5 DEF FramingInv

(***************************************************************************)
(* The steps of a reader.                                                  *)
(***************************************************************************)

LEMMA FpInv ==
  ASSUME Segmented, FramingInv, NEW k \in 1..Missing, read_fp(k)
  PROVE  FramingInv'
  <1>1. FramingType /\ WriterInv /\ GotInv /\ ReaderInv /\ Aligned
    BY DEF FramingInv
  <1>2. /\ reader.part # "failed" /\ k <= Len(wire)
        /\ wire' = SubSeq(wire, k + 1, Len(wire))
        /\ reader' = [reader EXCEPT !.have = @ \o SubSeq(wire, 1, k)]
        /\ UNCHANGED <<via, closed, writer, sent, got>>
    BY DEF read_fp, Taken
  <1> DEFINE a == SubSeq(wire, 1, k)
  <1> DEFINE b == SubSeq(wire, k + 1, Len(wire))
  <1>3. /\ reader.have \in Seq(Int) /\ Len(reader.have) \in Nat /\ reader.need \in Int
        /\ wire \in Seq(Int) /\ Len(wire) \in Nat /\ k \in 1..Len(wire)
        /\ k \in Int /\ k <= reader.need - Len(reader.have)
    BY <1>1, <1>2, SMTT(60) DEF FramingType, Missing
  <1>4. a \in Seq(Int) /\ Len(a) = k /\ b \in Seq(Int) /\ wire = a \o b
    <2>1. /\ 1 \in 1..(Len(wire) + 1) /\ k \in (1 - 1)..Len(wire)
          /\ Len(wire) \in k..Len(wire)
      BY <1>3
    <2>2. a \o b = SubSeq(wire, 1, Len(wire))
      BY <1>3, <2>1, ConcatAdjacentSubSeq
    <2>3. SubSeq(wire, 1, Len(wire)) = wire
      BY <1>3, SubSeqFull
    <2>4. a \in Seq(Int) /\ Len(a) = k /\ b \in Seq(Int)
      BY <1>3, SubSeqProperties
    <2> QED
      BY <2>2, <2>3, <2>4
  <1>5. wire' = b /\ reader' = [reader EXCEPT !.have = reader.have \o a]
    BY <1>2
  <1> HIDE DEF a, b
  <1>6. reader.have \o a \in Seq(Int) /\ Len(reader.have \o a) = Len(reader.have) + k
    BY <1>3, <1>4, ConcatProperties
  <1>7. /\ reader' \in [part : {"count", "sizes", "data", "failed"}, need : Int,
                        have : Seq(Int), sizes : Seq(Int)]
        /\ reader'.part = reader.part /\ reader'.need = reader.need
        /\ reader'.sizes = reader.sizes /\ reader'.have = reader.have \o a
    <2>1. reader \in [part : {"count", "sizes", "data", "failed"}, need : Int,
                      have : Seq(Int), sizes : Seq(Int)]
      BY <1>1 DEF FramingType
    <2> QED
      BY <1>5, <1>6, <2>1
  <1>8. FramingType' /\ WriterInv' /\ GotInv' /\ Unread' = Unread
    BY <1>1, <1>2, <1>4, <1>5, <1>7 DEF FramingType, WriterInv, GotInv, Unread
  <1>9. Len(reader'.have) <= reader'.need
    BY <1>3, <1>6, <1>7
  <1>10. ReaderInv'
    BY <1>1, <1>7, <1>8, <1>9 DEF ReaderInv
  <1>11. Arrived' = Arrived
    <2> DEFINE before == IF reader.part = "sizes" THEN <<Len(Head(Unread)) - 1>>
                         ELSE IF reader.part = "data" THEN Header(Head(Unread)) ELSE <<>>
    <2>1. before \in Seq(Int)
      <3>1. CASE reader.part = "sizes"
        <4>1. Len(Head(Unread)) \in Nat
          BY <1>1, <3>1, UnreadFacts, FrameFacts DEF ReaderInv
        <4> QED
          BY <3>1, <4>1
      <3>2. CASE reader.part = "data"
        BY <1>1, <3>2, UnreadFacts, FrameFacts DEF ReaderInv
      <3>3. CASE reader.part \notin {"sizes", "data"}
        BY <3>3
      <3> QED
        BY <3>1, <3>2, <3>3
    <2>2. ReadCells = before \o reader.have
      BY <1>3, ConcatEmptySeq DEF ReadCells
    <2>3. ReadCells' = before \o (reader.have \o a)
      BY <1>6, <1>7, <1>8, ConcatEmptySeq DEF ReadCells
    <2>4. PICK p \in Seq(Int), h \in Seq(Int), x \in Seq(Int), y \in Seq(Int) :
            p = before /\ h = reader.have /\ x = a /\ y = b
      BY <1>3, <1>4, <2>1
    <2> HIDE DEF before
    <2>5. (p \o (h \o x)) \o y = (p \o h) \o (x \o y)
      <3>1. p \o (h \o x) = (p \o h) \o x
        BY Assoc, Zenon
      <3>2. PICK e \in Seq(Int) : e = p \o h
        BY Together, Zenon
      <3>3. (e \o x) \o y = e \o (x \o y)
        BY Assoc, Zenon
      <3> QED
        BY <3>1, <3>2, <3>3, Zenon
    <2> QED
      BY <1>4, <1>5, <2>2, <2>3, <2>4, <2>5 DEF Arrived
  <1>12. Aligned'
    <2>1. ToWrite' = ToWrite
      BY <1>2 DEF ToWrite
    <2> QED
      BY <1>2, <1>8, <1>11, <2>1, AlignedKept
  <1> QED
    BY <1>8, <1>10, <1>12 DEF FramingInv

LEMMA ReaderAfter ==
  /\ Start = [part |-> "count", need |-> 1, have |-> <<>>, sizes |-> <<>>]
  /\ Stopped = [part |-> "failed", need |-> 0, have |-> <<>>, sizes |-> <<>>]
  BY DEF Start, Stopped, Asking

\* A reader that gives up knows no more.
LEMMA StopsInv ==
  ASSUME FramingInv, reader' = Stopped, wire' = wire \/ wire' = <<>>,
         UNCHANGED <<via, closed, writer, sent, got>>
  PROVE  FramingInv'
  <1>1. FramingType /\ WriterInv /\ GotInv /\ ReaderInv /\ Aligned
    BY DEF FramingInv
  <1>2. FramingType' /\ WriterInv' /\ GotInv'
    <2>1. reader' \in [part : {"count", "sizes", "data", "failed"}, need : Int,
                      have : Seq(Int), sizes : Seq(Int)]
      BY ReaderAfter
    <2>2. wire' \in Seq(Int)
      <3>1. wire \in Seq(Int) /\ <<>> \in Seq(Int)
        BY <1>1 DEF FramingType
      <3> QED
        BY <3>1
    <2> QED
      BY <1>1, <2>1, <2>2 DEF FramingType, WriterInv, GotInv
  <1>3. ReaderInv' /\ Aligned'
    BY ReaderAfter DEF ReaderInv, Aligned
  <1> QED
    BY <1>2, <1>3 DEF FramingInv

LEMMA FpEndsInv ==
  ASSUME FramingInv, read_fp_ends
  PROVE  FramingInv'
  BY StopsInv DEF read_fp_ends

LEMMA CountInv ==
  ASSUME Segmented, FramingInv, Got_count
  PROVE  FramingInv' /\ (Readable => reader'.part = "sizes")
  <1>1. FramingType /\ WriterInv /\ GotInv /\ ReaderInv /\ Aligned
    BY DEF FramingInv
  <1> DEFINE n == reader.have[1] + 1
  <1>2. /\ reader.part = "count" /\ Missing = 0
        /\ \/ SizeCells(n) > CAPN_MAX_SEGS /\ reader' = Stopped
           \/ reader' = Asking("sizes", SizeCells(n), <<n>>)
        /\ UNCHANGED <<via, wire, closed, writer, sent, got>>
    BY DEF Got_count, Full, Continue
  <1>3. reader.have \in Seq(Int) /\ Len(reader.have) = 1 /\ reader.have[1] \in Int
    <2>1. reader.have \in Seq(Int) /\ reader.need = 1
      BY <1>1, <1>2 DEF FramingType, ReaderInv
    <2>2. Len(reader.have) = 1
      BY <1>2, <2>1 DEF Missing
    <2> QED
      BY <2>1, <2>2
  <1>4. /\ Arrived \in Seq(Int) /\ Arrived = reader.have \o wire /\ wire \in Seq(Int)
        /\ ReadCells = reader.have
    BY <1>1, <1>2, CellsTypes DEF Arrived, ReadCells
  <1>5. Arrived # <<>> /\ 1 \in 1..Len(Arrived) /\ Arrived[1] = reader.have[1]
    BY <1>3, <1>4
  <1> DEFINE m == Head(Unread)
  <1>6. Unread # <<>> /\ m \in Contents
    BY <1>2, <1>5, Facing
  <1>7. n = Len(m)
    <2>1. Header(m) \in Seq(Int) /\ Data(m) \in Seq(Int) /\ Frame(m) = Header(m) \o Data(m)
          /\ Len(Header(m)) = 1 + SizeCells(Len(m)) /\ SizeCells(Len(m)) \in Nat
          /\ Header(m)[1] = Len(m) - 1 /\ Len(m) \in Nat
      BY <1>6, FrameFacts
    <2>2. 1 <= Len(Frame(m)) /\ Frame(m)[1] = Header(m)[1]
      BY <2>1
    <2>3. Arrived[1] = Frame(m)[1]
      BY <1>2, <1>5, <2>2, Facing
    <2> QED
      BY <1>5, <2>1, <2>2, <2>3
  <1>8. Len(m) \in Nat /\ SizeCells(Len(m)) \in Nat
    BY <1>6, FrameFacts
  <1>a. CASE SizeCells(Len(m)) > CAPN_MAX_SEGS /\ reader' = Stopped
    <2>1. ~Readable
      BY <1>6, <1>a, ReadableFacts
    <2> QED
      BY <1>2, <1>a, <2>1, StopsInv
  <1>b. SUFFICES ASSUME reader' = Asking("sizes", SizeCells(n), <<n>>)
                 PROVE  FramingInv' /\ (Readable => reader'.part = "sizes")
    <2> HIDE DEF m, n
    <2> QED
      BY <1>2, <1>7, <1>a, <1>b
  <1>9. reader' = [part |-> "sizes", need |-> SizeCells(Len(m)), have |-> <<>>,
                   sizes |-> <<Len(m)>>]
    <2> HIDE DEF m
    <2> QED
      BY <1>2, <1>7, <1>b DEF Asking
  <1>10. reader' \in [part : {"count", "sizes", "data", "failed"}, need : Int,
                      have : Seq(Int), sizes : Seq(Int)]
    <2>1. <<Len(m)>> \in Seq(Int) /\ <<>> \in Seq(Int)
      BY <1>8
    <2> HIDE DEF m
    <2> QED
      BY <1>8, <1>9, <2>1
  <1>11. FramingType' /\ WriterInv' /\ GotInv' /\ Unread' = Unread
    BY <1>1, <1>2, <1>10 DEF FramingType, WriterInv, GotInv, Unread
  <1>12. ReaderInv'
    <2>1. Len(<<>>) = 0 /\ 0 <= SizeCells(Len(m))
      BY <1>8
    <2> QED
      BY <1>6, <1>9, <1>11, <2>1 DEF ReaderInv
  <1>13. Arrived' = Arrived
    <2>1. ReadCells' = <<Len(m) - 1>> \o <<>>
      BY <1>9, <1>11 DEF ReadCells
    <2>2. <<Len(m) - 1>> \o <<>> = <<reader.have[1]>>
      <3>1. Len(m) - 1 = reader.have[1]
        BY <1>3, <1>7
      <3> HIDE DEF m
      <3> QED
        BY <1>3, <3>1
    <2>3. <<reader.have[1]>> = reader.have
      BY <1>3
    <2> QED
      BY <1>2, <1>4, <2>1, <2>2, <2>3 DEF Arrived
  <1>14. Aligned'
    <2>1. ToWrite' = ToWrite
      BY <1>2 DEF ToWrite
    <2> QED
      BY <1>2, <1>11, <1>13, <2>1, AlignedKept
  <1> QED
    BY <1>9, <1>11, <1>12, <1>14 DEF FramingInv

LEMMA SizesInv ==
  ASSUME Segmented, FramingInv, Got_sizes
  PROVE  FramingInv' /\ (Readable => reader'.part = "data")
  <1>1. FramingType /\ WriterInv /\ GotInv /\ ReaderInv /\ Aligned
    BY DEF FramingInv
  <1> DEFINE m == Head(Unread)
  <1> DEFINE n == Len(m)
  <1>2. /\ reader.part = "sizes" /\ Missing = 0
        /\ reader' = IF Sum(Sizes) > MaxCells THEN Stopped
                     ELSE Asking("data", Sum(Sizes), Sizes)
        /\ UNCHANGED <<via, wire, closed, writer, sent, got>>
    BY DEF Got_sizes, Full, Continue
  <1>3. /\ Unread # <<>> /\ m \in Contents /\ reader.sizes = <<n>>
        /\ reader.have \in Seq(Int) /\ reader.need = SizeCells(n)
    BY <1>1, <1>2, UnreadFacts DEF FramingType, ReaderInv
  <1>4. /\ Header(m) \in Seq(Int) /\ Data(m) \in Seq(Int) /\ Frame(m) = Header(m) \o Data(m)
        /\ Len(Header(m)) = 1 + SizeCells(n) /\ SizeCells(n) \in Nat
        /\ n <= SizeCells(n) /\ n \in Nat \ {0} /\ Header(m)[1] = n - 1
        /\ \A i \in 1..n : Header(m)[i + 1] = Len(m[i])
    BY <1>3, FrameFacts
  <1>5. Len(reader.have) = SizeCells(n)
    BY <1>2, <1>3, <1>4, SMTT(60) DEF Missing
  <1>6. ReadCells = <<n - 1>> \o reader.have
    BY <1>2 DEF ReadCells
  <1>7. /\ ReadCells \in Seq(Int) /\ wire \in Seq(Int) /\ Arrived = ReadCells \o wire
        /\ Arrived \in Seq(Int)
    BY <1>1, CellsTypes DEF Arrived
  <1> DEFINE H == Header(m)
  <1>8. \A k \in 1..Len(H) : k <= Len(Frame(m)) /\ Frame(m)[k] = H[k]
    BY <1>4
  <1> HIDE DEF n
  <1>9. /\ Len(ReadCells) = 1 + SizeCells(n)
        /\ \A i \in 1..SizeCells(n) : ReadCells[i + 1] = reader.have[i]
    <2>1. n - 1 \in Int /\ SizeCells(n) \in Nat
      BY <1>4
    <2>2. PICK o \in Seq(Int) : o = <<n - 1>> /\ Len(o) = 1
      <3>1. <<n - 1>> \in Seq(Int) /\ Len(<<n - 1>>) = 1
        BY <2>1
      <3> QED
        BY <3>1
    <2>3. PICK h \in Seq(Int) : h = reader.have /\ Len(h) = SizeCells(n)
      BY <1>3, <1>5
    <2>4. Len(o \o h) = 1 + Len(h) /\ \A i \in 1..Len(h) : (o \o h)[i + 1] = h[i]
      BY <2>2
    <2>5. ReadCells = o \o h
      BY <1>6, <2>2, <2>3
    <2> QED
      BY <2>3, <2>4, <2>5
  <1>10. ReadCells = H
    <2>1. ASSUME NEW k \in 1..Len(H) PROVE ReadCells[k] = H[k]
      <3>1. k \in 1..Len(ReadCells) /\ k \in 1..Len(Arrived) /\ Arrived # <<>>
        BY <1>4, <1>7, <1>9
      <3>2. Arrived[k] = ReadCells[k]
        BY <1>7, <3>1
      <3>3. Arrived[k] = Frame(m)[k]
        BY <1>2, <1>8, <3>1, Facing
      <3> QED
        BY <1>8, <3>2, <3>3
    <2>2. Len(ReadCells) = Len(H)
      BY <1>4, <1>9
    <2> QED
      BY <1>4, <1>7, <2>1, <2>2, SeqEqual
  <1>11. Sizes = SizesOf(m)
    <2>1. SizesOf(m) \in Seq(Int) /\ Len(SizesOf(m)) = n
          /\ \A i \in 1..n : SizesOf(m)[i] = Len(m[i])
      BY <1>3, ContentsFacts, BlocksFacts DEF n
    <2>2. Sizes = SubSeq(reader.have, 1, n)
      <3>1. <<n>>[1] = n
        OBVIOUS
      <3> QED
        BY <1>3, <3>1 DEF Sizes
    <2> DEFINE z == SubSeq(reader.have, 1, n)
    <2>3. z \in Seq(Int) /\ Len(z) = n /\ \A i \in 1..n : z[i] = reader.have[i]
      <3>1. PICK h \in Seq(Int) : h = reader.have /\ Len(h) = SizeCells(n)
        BY <1>3, <1>5
      <3>2. n \in Nat \ {0} /\ n <= Len(h)
        BY <1>4, <3>1
      <3>3. /\ SubSeq(h, 1, n) \in Seq(Int) /\ Len(SubSeq(h, 1, n)) = n
            /\ \A i \in 1..n : SubSeq(h, 1, n)[i] = h[i]
        BY <3>2
      <3> QED
        BY <3>1, <3>3
    <2> HIDE DEF z
    <2>4. ASSUME NEW i \in 1..n PROVE z[i] = SizesOf(m)[i]
      <3>1. i \in 1..SizeCells(n)
        BY <1>4
      <3>2. ReadCells[i + 1] = reader.have[i]
        BY <1>9, <3>1
      <3>3. H[i + 1] = Len(m[i])
        BY <1>4
      <3> QED
        BY <1>10, <2>1, <2>3, <3>2, <3>3
    <2>5. z = SizesOf(m)
      BY <2>1, <2>3, <2>4, SeqEqual
    <2> QED
      BY <2>2, <2>5 DEF z
  <1>12. Sum(SizesOf(m)) \in Nat /\ SizesOf(m) \in Seq(Int)
    BY <1>3, ContentsFacts, BlocksFacts
  <1>a. CASE Sum(SizesOf(m)) > MaxCells
    <2>1. reader' = Stopped
      BY <1>2, <1>11, <1>a
    <2>2. ~Readable
      BY <1>3, <1>a, ReadableFacts
    <2> QED
      BY <1>2, <2>1, <2>2, StopsInv
  <1>b. SUFFICES ASSUME ~(Sum(SizesOf(m)) > MaxCells)
                 PROVE  FramingInv' /\ (Readable => reader'.part = "data")
    BY <1>a
  <1>13. reader' = [part |-> "data", need |-> Sum(SizesOf(m)), have |-> <<>>,
                    sizes |-> SizesOf(m)]
    <2> HIDE DEF m
    <2> QED
      BY <1>2, <1>11, <1>b DEF Asking
  <1>14. reader' \in [part : {"count", "sizes", "data", "failed"}, need : Int,
                      have : Seq(Int), sizes : Seq(Int)]
    <2>1. Sum(SizesOf(m)) \in Int /\ <<>> \in Seq(Int)
      BY <1>12
    <2> HIDE DEF m
    <2> QED
      BY <1>12, <1>13, <2>1
  <1>15. FramingType' /\ WriterInv' /\ GotInv' /\ Unread' = Unread
    BY <1>1, <1>2, <1>14 DEF FramingType, WriterInv, GotInv, Unread
  <1>16. ReaderInv'
    <2>1. Len(<<>>) = 0 /\ 0 <= Sum(SizesOf(m))
      BY <1>12
    <2> QED
      BY <1>3, <1>13, <1>15, <2>1 DEF ReaderInv
  <1>17. Arrived' = Arrived
    <2>1. ReadCells' = H \o <<>>
      BY <1>13, <1>15 DEF ReadCells
    <2>2. H \o <<>> = H
      BY <1>4, ConcatEmptySeq
    <2> QED
      BY <1>2, <1>7, <1>10, <2>1, <2>2 DEF Arrived
  <1>18. Aligned'
    <2>1. ToWrite' = ToWrite
      BY <1>2 DEF ToWrite
    <2> QED
      BY <1>2, <1>15, <1>17, <2>1, AlignedKept
  <1> QED
    BY <1>13, <1>15, <1>16, <1>18 DEF FramingInv

LEMMA Cancel ==
  ASSUME NEW s \in Seq(Int), NEW t \in Seq(Int), NEW u \in Seq(Int), s \o t = s \o u
  PROVE  t = u
  <1>1. Len(s \o t) = Len(s) + Len(t) /\ Len(s \o u) = Len(s) + Len(u)
    OBVIOUS
  <1>2. Len(s) \in Nat /\ Len(t) \in Nat /\ Len(u) \in Nat
    OBVIOUS
  <1>3. Len(t) = Len(u)
    BY <1>1, <1>2
  <1>4. ASSUME NEW i \in 1..Len(t) PROVE t[i] = u[i]
    <2>1. (s \o t)[Len(s) + i] = t[i]
      OBVIOUS
    <2>2. (s \o u)[Len(s) + i] = u[i]
      BY <1>3
    <2> QED
      BY <2>1, <2>2
  <1> QED
    BY <1>3, <1>4, SeqEqual

\* What follows a first part that was taken away.
TakenFirst(f, r, w, t, l) == f \o r = ((f \o w) \o t) \o l

LEMMA FirstAway ==
  ASSUME NEW f \in Seq(Int), NEW r \in Seq(Int), NEW w \in Seq(Int),
         NEW t \in Seq(Int), NEW l \in Seq(Int), TakenFirst(f, r, w, t, l)
  PROVE  r = (w \o t) \o l
  <1> USE DEF TakenFirst
  <1>1. PICK x \in Seq(Int) : x = w \o t
    BY Together, Zenon
  <1>2. (f \o w) \o t = f \o x
    <2>1. (f \o w) \o t = f \o (w \o t)
      BY Assoc, ZenonT(60)
    <2> QED
      BY <1>1, <2>1, Zenon
  <1>3. (f \o x) \o l = f \o (x \o l)
    BY Assoc, ZenonT(60)
  <1>4. PICK y \in Seq(Int) : y = x \o l
    BY Together, Zenon
  <1>5. f \o r = f \o y
    BY <1>2, <1>3, <1>4, Zenon
  <1>6. r = y
    BY <1>5, Cancel
  <1> QED
    BY <1>1, <1>4, <1>6

LEMMA UnreadLess ==
  ASSUME FramingType, GotInv, Unread # <<>>,
         got' = Append(got, Head(Unread)), sent' = sent
  PROVE  GotInv' /\ got' \in Seq(Contents) /\ Unread' = Tail(Unread)
  <1>1. /\ sent \in Seq(Contents) /\ got \in Seq(Contents)
        /\ Len(got) \in Nat /\ Len(sent) \in Nat
        /\ got = SubSeq(sent, 1, Len(got))
    BY DEF FramingType, GotInv
  <1>2. /\ Unread \in Seq(Contents) /\ Len(Unread) = Len(sent) - Len(got)
        /\ \A i \in 1..Len(Unread) : Unread[i] = sent[Len(got) + i]
        /\ Head(Unread) \in Contents /\ Head(Unread) = sent[Len(got) + 1]
        /\ Len(got) < Len(sent)
    BY UnreadFacts
  <1>3. PICK m \in Contents : m = Head(Unread)
    BY <1>2
  <1>4. /\ got' \in Seq(Contents) /\ Len(got') = Len(got) + 1
        /\ \A i \in 1..Len(got) : got'[i] = got[i]
        /\ got'[Len(got) + 1] = m
    BY <1>1, <1>3
  <1>5. \A i \in 1..Len(got) : got[i] = sent[i]
    BY <1>1
  <1> DEFINE g == SubSeq(sent, 1, Len(got) + 1)
  <1>6. /\ g \in Seq(Contents) /\ Len(g) = Len(got) + 1
        /\ \A i \in 1..(Len(got) + 1) : g[i] = sent[i]
    BY <1>1, <1>2
  <1> HIDE DEF g
  <1>7. \A i \in 1..(Len(got) + 1) : g[i] = got'[i]
    <2>1. \A i \in 1..(Len(got) + 1) : i \in 1..Len(got) \/ i = Len(got) + 1
      BY <1>1
    <2> QED
      BY <1>2, <1>3, <1>4, <1>5, <1>6, <2>1
  <1>8. got' = g
    BY <1>4, <1>6, <1>7, SeqEqual
  <1>9. GotInv'
    <2>1. Len(got') <= Len(sent)
      BY <1>1, <1>2, <1>4
    <2>2. SubSeq(sent', 1, Len(got')) = g
      BY <1>4 DEF g
    <2> QED
      BY <1>8, <2>1, <2>2 DEF GotInv
  <1>10. Unread' = Tail(Unread)
    <2> DEFINE W == Unread'
    <2> DEFINE T == Tail(Unread)
    <2>1. /\ W \in Seq(Contents) /\ Len(W) = Len(sent) - (Len(got) + 1)
          /\ \A i \in 1..(Len(sent) - (Len(got) + 1)) : W[i] = sent[Len(got) + 1 + i]
      BY <1>1, <1>2, <1>4 DEF Unread
    <2>2. /\ T \in Seq(Contents) /\ Len(T) = Len(Unread) - 1
          /\ \A i \in 1..Len(T) : T[i] = Unread[i + 1]
      BY <1>2, HeadTailProperties
    <2> HIDE DEF W, T
    <2>3. Len(W) = Len(T)
      BY <1>1, <1>2, <2>1, <2>2
    <2>4. ASSUME NEW i \in 1..Len(W) PROVE W[i] = T[i]
      <3>1. i + 1 \in 1..Len(Unread) /\ Len(got) + (i + 1) = Len(got) + 1 + i
            /\ i \in 1..Len(T)
        BY <1>1, <1>2, <2>1, <2>2
      <3>2. T[i] = sent[Len(got) + (i + 1)]
        BY <1>2, <2>2, <3>1
      <3> QED
        BY <2>1, <3>1, <3>2
    <2>5. W = T
      BY <2>1, <2>2, <2>3, <2>4, SeqEqual
    <2> QED
      BY <2>5 DEF W, T
  <1> QED
    BY <1>4, <1>9, <1>10

LEMMA DataInv ==
  ASSUME Segmented, FramingInv, Got_data, ~(via = "fp" /\ reader.need = 0)
  PROVE  /\ FramingInv' /\ reader' = Start
         /\ Unread # <<>> /\ got' = Append(got, Head(Unread))
  <1>1. FramingType /\ WriterInv /\ GotInv /\ ReaderInv /\ Aligned
    BY DEF FramingInv
  <1>2. reader.part = "data" /\ Missing = 0
    BY DEF Got_data, Full
  <1>3. PICK m \in Contents : m = Head(Unread)
    BY <1>1, <1>2, UnreadFacts DEF ReaderInv
  <1>4. /\ Unread # <<>> /\ reader.sizes = SizesOf(m) /\ reader.need = Sum(SizesOf(m))
        /\ reader.have \in Seq(Int)
    BY <1>1, <1>2, <1>3 DEF FramingType, ReaderInv
  <1>5. Sum(SizesOf(m)) \in Nat /\ m \in Messages
    BY ContentsFacts
  <1>6. /\ reader' = Start /\ got' = Append(got, Segments)
        /\ UNCHANGED <<via, wire, closed, writer, sent>>
    BY DEF Got_data, Continue
  <1>7. PICK h \in Seq(Int) : h = reader.have /\ Len(h) = Sum(SizesOf(m))
    <2>1. Len(reader.have) \in Nat
      BY <1>4
    <2>2. Len(reader.have) = Sum(SizesOf(m))
      BY <1>2, <1>4, <1>5, <2>1 DEF Missing
    <2> QED
      BY <1>4, <2>2
  <1>8. PICK H \in Seq(Int), D \in Seq(Int) :
          H = Header(m) /\ D = Data(m) /\ Frame(m) = H \o D /\ Len(D) = Len(h)
    <2>1. /\ Header(m) \in Seq(Int) /\ Data(m) \in Seq(Int)
          /\ Frame(m) = Header(m) \o Data(m) /\ Len(Data(m)) = Len(h)
      BY <1>7, FrameFacts
    <2> QED
      BY <2>1, Zenon
  <1>9. ReadCells = H \o h
    BY <1>2, <1>3, <1>7, <1>8 DEF ReadCells
  <1>10. PICK w \in Seq(Int) : w = wire /\ Arrived = (H \o h) \o w
    BY <1>1, <1>9, CellsTypes DEF Arrived
  <1>11. h = D
    <2>1. ASSUME NEW i \in 1..Len(h) PROVE h[i] = D[i]
      <3>1. Len(H) + i \in 1..Len((H \o h) \o w) /\ ((H \o h) \o w)[Len(H) + i] = h[i]
        OBVIOUS
      <3>2. Len(H) + i <= Len(H \o D) /\ (H \o D)[Len(H) + i] = D[i]
        BY <1>8
      <3>3. Arrived # <<>>
        BY <1>10, <3>1
      <3>4. Arrived[Len(H) + i] = Frame(m)[Len(H) + i]
        BY <1>2, <1>3, <1>8, <1>10, <3>1, <3>2, <3>3, Facing
      <3> QED
        BY <1>8, <1>10, <3>1, <3>2, <3>4
    <2> QED
      BY <1>8, <2>1, SeqEqual
  <1>12. Segments = m
    BY <1>4, <1>5, <1>7, <1>8, <1>11, SegmentsAre
  <1>13. got' = Append(got, Head(Unread))
    BY <1>3, <1>6, <1>12
  <1>14. GotInv' /\ got' \in Seq(Contents) /\ Unread' = Tail(Unread)
    BY <1>1, <1>4, <1>6, <1>13, UnreadLess
  <1>15. FramingType' /\ WriterInv'
    <2>1. reader' \in [part : {"count", "sizes", "data", "failed"}, need : Int,
                       have : Seq(Int), sizes : Seq(Int)]
      BY <1>6, ReaderAfter
    <2> QED
      BY <1>1, <1>6, <1>14, <2>1 DEF FramingType, WriterInv
  <1>16. ReaderInv' /\ ReadCells' = <<>>
    BY <1>6, ReaderAfter DEF ReaderInv, ReadCells
  <1>17. PICK t \in Seq(Int), l \in Seq(Int) :
           /\ t = ToWrite /\ Framed(Unread) = (Arrived \o t) \o l
           /\ writer.failed \/ l = <<>>
    <2>1. reader.part # "failed"
      BY <1>2
    <2> QED
      BY <1>1, <2>1, AlignedIs, CellsTypes
  <1>18. PICK F \in Seq(Int), R \in Seq(Int) :
           F = Frame(m) /\ R = Framed(Unread') /\ Framed(Unread) = F \o R
    <2>1. Unread \in Seq(Contents) /\ Tail(Unread) \in Seq(Contents)
      BY <1>1, <1>4, UnreadFacts, HeadTailProperties
    <2>2. Framed(Unread) = Frame(m) \o Framed(Tail(Unread))
      BY <1>3, <1>4, <2>1, FramedFirst
    <2>3. Frame(m) \in Seq(Int) /\ Framed(Tail(Unread)) \in Seq(Int)
      BY <2>1, FrameFacts, FramesFacts
    <2> QED
      BY <1>14, <2>2, <2>3
  <1>19. R = (w \o t) \o l
    <2>1. TakenFirst(F, R, w, t, l)
      BY <1>8, <1>10, <1>11, <1>17, <1>18 DEF TakenFirst
    <2> QED
      BY <2>1, FirstAway, SMTT(60)
  <1>20. Aligned'
    <2>1. Arrived' = w /\ ToWrite' = t
      BY <1>6, <1>10, <1>16, <1>17, ConcatEmptySeq DEF Arrived, ToWrite
    <2>2. PICK x \in Seq(Int) : x = w \o t
      BY Together, Zenon
    <2>3. IsPrefix(x, R)
      BY <1>19, <2>2, PrefixIs
    <2>4. ~writer.failed => x = R
      BY <1>17, <1>19, <2>2, ConcatEmptySeq
    <2> QED
      BY <1>6, <1>18, <2>1, <2>2, <2>3, <2>4 DEF Aligned
  <1> QED
    BY <1>4, <1>6, <1>13, <1>14, <1>15, <1>16, <1>20 DEF FramingInv

LEMMA NoDataInv ==
  ASSUME Segmented, FramingInv, Got_data, via = "fp", reader.need = 0
  PROVE  FramingInv' /\ ~Readable
  <1>1. FramingType /\ WriterInv /\ GotInv /\ ReaderInv /\ Aligned
    BY DEF FramingInv
  <1>2. PICK m \in Contents : Sum(SizesOf(m)) = 0
    BY <1>1, UnreadFacts DEF Got_data, Full, ReaderInv
  <1>3. reader' = Stopped /\ UNCHANGED <<via, wire, closed, writer, sent, got>>
    BY DEF Got_data, Continue
  <1> QED
    BY <1>2, <1>3, StopsInv, ReadableFacts

(***************************************************************************)
(* The invariant, and the stream's alignment.                              *)
(***************************************************************************)

LEMMA InitInv ==
  ASSUME Segmented, Init
  PROVE  FramingInv
  <1>1. /\ via \in {"fp", "fd", "mem"} /\ wire = <<>> /\ closed = FALSE
        /\ writer = Silent /\ reader = Start /\ sent = <<>> /\ got = <<>>
    BY FramingAssumption DEF Init
  <1>2. /\ <<>> \in Seq(Int) /\ <<>> \in Messages /\ <<>> \in Seq(Contents)
        /\ Len(<<>>) = 0
    BY WriterAfter
  <1>3. FramingType
    <2>1. writer \in [busy : BOOLEAN, failed : BOOLEAN, rest : Seq(Int), parts : Messages]
      BY <1>1, <1>2, WriterAfter
    <2>2. reader \in [part : {"count", "sizes", "data", "failed"}, need : Int,
                      have : Seq(Int), sizes : Seq(Int)]
      BY <1>1, <1>2, ReaderAfter
    <2> QED
      BY <1>1, <1>2, <2>1, <2>2 DEF FramingType
  <1>4. WriterInv
    BY <1>1, WriterAfter DEF WriterInv
  <1>5. GotInv
    BY <1>1, <1>2 DEF GotInv
  <1>6. ReaderInv
    BY <1>1, <1>2, ReaderAfter DEF ReaderInv
  <1>7. Unread = <<>>
    BY <1>1, <1>2, <1>3, <1>5, UnreadFacts
  <1>8. Arrived = <<>> /\ ToWrite = <<>>
    <2>1. ReadCells = <<>>
      BY <1>1, ReaderAfter DEF ReadCells
    <2>2. <<>> \o <<>> = <<>>
      OBVIOUS
    <2> QED
      BY <1>1, <2>1, <2>2, WriterAfter, NothingLeft DEF Arrived, ToWrite
  <1>9. Aligned
    <2>1. <<>> \o <<>> = <<>>
      OBVIOUS
    <2>2. \A s \in Seq(Int) : IsPrefix(s, s)
      BY PrefixSelf
    <2>3. IsPrefix(<<>>, <<>>)
      BY <1>2, <2>2, Zenon
    <2> QED
      BY <1>7, <1>8, <2>1, <2>3, FramedNone DEF Aligned
  <1> QED
    BY <1>3, <1>4, <1>5, <1>6, <1>9 DEF FramingInv

LEMMA StepInv ==
  ASSUME Segmented, FramingInv, [Next]_vars
  PROVE  FramingInv'
  <1>1. CASE UNCHANGED vars
    BY <1>1 DEF vars, FramingInv, FramingType, WriterInv, GotInv, ReaderInv, Missing,
       Aligned, Arrived, ReadCells, ToWrite, Unread
  <1>2. CASE \E m \in Contents : write_begin(m) \/ capn_write_mem(m)
    BY <1>2, BeginInv, MemInv
  <1>3. CASE Write
    BY <1>3, SomeInv, NextInv, EndInv DEF Write
  <1>4. CASE write_fails
    BY <1>4, FailsInv
  <1>5. CASE Close
    BY <1>5, CloseInv
  <1>6. CASE Read
    BY <1>6, FpInv, FpEndsInv, CountInv, SizesInv, DataInv, NoDataInv DEF Read
  <1> QED
    BY <1>1, <1>2, <1>3, <1>4, <1>5, <1>6 DEF Next

\* What was read of the next message, what is between writer and reader and what
\* a write in progress has still to write are, in this order, the frames of the
\* messages not read; only the end of one whose write failed is left out.
THEOREM FramingSound == Segmented => (Spec => []FramingInv)
  <1> SUFFICES ASSUME Segmented PROVE Spec => []FramingInv
    OBVIOUS
  <1>1. Init => FramingInv
    BY InitInv
  <1>2. FramingInv /\ [Next]_vars => FramingInv'
    BY StepInv
  <1> QED
    BY <1>1, <1>2, PTL DEF Spec

\* A reader that has begun no message stands at the first cell of the next
\* one, whatever the sizes of the messages, the odd cell of their headers and
\* the places where calls were cut short (header_calc, init_fp, read_fp).
THEOREM Alignment == Segmented => (Spec => []StreamAligned)
  <1> SUFFICES ASSUME Segmented PROVE Spec => []StreamAligned
    OBVIOUS
  <1>1. ASSUME FramingInv, reader = Start PROVE IsPrefix(wire, Framed(Unread))
    <2>1. FramingType /\ GotInv /\ ReaderInv /\ Aligned /\ reader.part # "failed"
      BY <1>1, ReaderAfter DEF FramingInv
    <2>2. ReadCells = <<>> /\ wire \in Seq(Int)
      BY <1>1, <2>1, ReaderAfter DEF ReadCells, FramingType
    <2>3. Arrived = wire
      BY <2>2, ConcatEmptySeq DEF Arrived
    <2>4. PICK l \in Seq(Int) : Framed(Unread) = (wire \o ToWrite) \o l
      BY <2>1, <2>3, AlignedIs
    <2>5. PICK w \in Seq(Int), t \in Seq(Int), f \in Seq(Int) :
            w = wire /\ t = ToWrite /\ f = Framed(Unread)
      BY <2>1, <2>2, CellsTypes
    <2>6. (w \o t) \o l = w \o (t \o l)
      BY Assoc, Zenon
    <2>7. PICK r \in Seq(Int) : r = t \o l
      BY Together, Zenon
    <2>8. f = w \o r
      BY <2>4, <2>5, <2>6, <2>7
    <2>9. IsPrefix(w, f)
      BY <2>8, PrefixIs
    <2> QED
      BY <2>5, <2>9
  <1>2. FramingInv => StreamAligned
    BY <1>1 DEF StreamAligned
  <1> QED
    BY <1>2, FramingSound, PTL

(***************************************************************************)
(* The stream keeps the promise of MessageStream.                          *)
(***************************************************************************)

\* A reader told that the stream ends had got every message, unless a write
\* failed: what is missing of the one it reads was never written.
LEMMA EndsHonestly ==
  ASSUME Segmented, FramingInv, read_fp_ends, ~writer.failed
  PROVE  got = sent
  <1>1. FramingType /\ WriterInv /\ GotInv /\ ReaderInv /\ Aligned
    BY DEF FramingInv
  <1>2. /\ reader.part # "failed" /\ closed /\ Len(wire) < Missing
        /\ reader.part \in {"count", "sizes", "data"}
    BY <1>1 DEF read_fp_ends, FramingType
  <1>3. ToWrite = <<>>
    BY <1>1, <1>2, NothingLeft DEF WriterInv, ToWrite
  <1>4. Arrived = Framed(Unread)
    <2>1. Arrived \o ToWrite = Framed(Unread) /\ Arrived \in Seq(Int)
      BY <1>1, <1>2, CellsTypes DEF Aligned
    <2> QED
      BY <1>3, <2>1, ConcatEmptySeq
  <1>5. ASSUME Unread # <<>> PROVE FALSE
    <2>1. PICK m \in Contents : m = Head(Unread)
      BY <1>1, <1>5, UnreadFacts
    <2>2. PICK H \in Seq(Int), D \in Seq(Int) :
            /\ H = Header(m) /\ D = Data(m) /\ Frame(m) = H \o D
            /\ Len(H) = 1 + SizeCells(Len(m)) /\ Len(D) = Sum(SizesOf(m))
            /\ SizeCells(Len(m)) \in Nat
      BY FrameFacts
    <2>3. Unread \in Seq(Contents) /\ Tail(Unread) \in Seq(Contents)
      BY <1>1, <1>5, UnreadFacts, HeadTailProperties
    <2>4. PICK R \in Seq(Int) : Framed(Unread) = (H \o D) \o R
      BY <1>5, <2>1, <2>2, <2>3, FramedFirst, FramesFacts
    <2>5. Len(Framed(Unread)) >= Len(H) + Len(D)
      BY <2>4
    <2>6. Len(Arrived) = Len(ReadCells) + Len(wire)
      BY <1>1, CellsTypes
    <2>7. PICK h \in Seq(Int) : h = reader.have /\ Len(wire) < reader.need - Len(h)
      BY <1>1, <1>2 DEF FramingType, Missing
    <2>8. /\ Len(H) \in Nat /\ Len(D) \in Nat /\ Len(h) \in Nat /\ Len(wire) \in Nat
          /\ Len(H) >= 1
      BY <1>1, <2>2, SMTT(60) DEF FramingType
    <2>9. CASE reader.part = "count"
      <3>1. ReadCells = h /\ reader.need = 1
        BY <1>1, <2>7, <2>9 DEF ReadCells, ReaderInv
      <3> QED
        BY <1>4, <2>5, <2>6, <2>7, <2>8, <3>1
    <2>10. CASE reader.part = "sizes"
      <3>1. reader.need = Len(H) - 1
        BY <1>1, <2>1, <2>2, <2>8, <2>10 DEF ReaderInv
      <3>2. Len(ReadCells) = 1 + Len(h)
        <4>1. PICK n \in Int : n = Len(m) - 1
          <5>1. Len(m) \in Nat \ {0}
            BY FrameFacts
          <5>2. Len(m) - 1 \in Int
            BY <5>1
          <5> QED
            BY <5>2, Zenon
        <4>2. ReadCells = <<n>> \o h
          BY <2>1, <2>7, <2>10, <4>1 DEF ReadCells
        <4> QED
          BY <4>2
      <3>3. Len(Arrived) >= Len(H) + Len(D) /\ Len(Arrived) = 1 + Len(h) + Len(wire)
        BY <1>4, <2>5, <2>6, <2>8, <3>2
      <3>4. Len(wire) < Len(H) - 1 - Len(h)
        BY <2>7, <2>8, <3>1
      <3> QED
        BY <2>8, <3>3, <3>4
    <2>11. CASE reader.part = "data"
      <3>1. reader.need = Len(D)
        BY <1>1, <2>1, <2>2, <2>11 DEF ReaderInv
      <3>2. ReadCells = H \o h
        BY <2>1, <2>2, <2>7, <2>11 DEF ReadCells
      <3>3. Len(ReadCells) = Len(H) + Len(h)
        BY <3>2
      <3> QED
        BY <1>4, <2>5, <2>6, <2>7, <2>8, <3>1, <3>3
    <2> QED
      BY <1>2, <2>9, <2>10, <2>11
  <1> QED
    BY <1>1, <1>5, UnreadFacts

\* Every step of the stream is one of MessageStream's, or changes nothing that
\* it sees.
LEMMA StreamStep ==
  ASSUME Readable, FramingInv, [Next]_vars
  PROVE  [Stream!Next]_(Stream!vars)
  <1> USE DEF Stream!Next, Stream!vars
  <1>1. FramingType /\ WriterInv /\ GotInv /\ ReaderInv
    BY DEF FramingInv
  <1> Segmented
    BY ReadableFacts
  <1>2. CASE UNCHANGED vars
    BY <1>2 DEF vars
  <1>3. ASSUME NEW m \in Contents, write_begin(m) PROVE Stream!Send
    <2>1. /\ ~closed /\ ~writer.failed /\ sent' = Append(sent, m)
          /\ UNCHANGED <<closed, reader, got>>
      BY <1>3 DEF write_begin
    <2>2. writer'.failed \in BOOLEAN
      BY <1>3, WriterAfter DEF write_begin
    <2> QED
      BY <2>1, <2>2 DEF Stream!Send
  <1>4. ASSUME NEW m \in Contents, capn_write_mem(m) PROVE Stream!Send
    <2>1. /\ ~closed /\ sent = <<>> /\ sent' = <<m>>
          /\ UNCHANGED <<closed, reader, got>>
      BY <1>4 DEF capn_write_mem
    <2>2. writer'.failed \in BOOLEAN
      BY <1>4, WriterAfter DEF capn_write_mem
    <2>3. ~writer.failed
      BY <1>1, <2>1 DEF WriterInv
    <2>4. sent' = Append(sent, m)
      BY <2>1
    <2> QED
      BY <2>1, <2>2, <2>3, <2>4 DEF Stream!Send
  <1>5. CASE Write
    <2>1. /\ UNCHANGED <<closed, reader, sent, got>> /\ writer.busy
          /\ \/ \E r : writer' = [writer EXCEPT !.rest = r]
             \/ \E r, p : writer' = [writer EXCEPT !.rest = r, !.parts = p]
             \/ writer' = Silent
      BY <1>5 DEF Write, write_some, write_next, write_end
    <2>2. ~writer.failed
      BY <1>1, <2>1 DEF WriterInv
    <2>3. writer'.failed = writer.failed
      <3>1. writer \in [busy : BOOLEAN, failed : BOOLEAN, rest : Seq(Int), parts : Messages]
        BY <1>1 DEF FramingType
      <3>2. Silent.failed = FALSE /\ writer.failed \in BOOLEAN
        BY <3>1, WriterAfter
      <3> QED
        BY <2>1, <2>2, <3>1, <3>2
    <2> QED
      BY <2>1, <2>3
  <1>6. CASE write_fails
    <2>1. ~closed /\ writer'.failed /\ UNCHANGED <<closed, reader, sent, got>>
      BY <1>1, <1>6, WriterAfter DEF write_fails, WriterInv
    <2>2. writer'.failed = TRUE
      BY <1>6, WriterAfter DEF write_fails
    <2> QED
      BY <2>1, <2>2 DEF Stream!Break
  <1>7. CASE Close
    BY <1>7 DEF Close, Stream!Close
  <1>8. ASSUME NEW k \in 1..Missing, read_fp(k) PROVE UNCHANGED Stream!vars
    <2>1. /\ UNCHANGED <<closed, writer, sent, got>>
          /\ reader' = [reader EXCEPT !.have = @ \o SubSeq(wire, 1, k)]
      BY <1>8 DEF read_fp, Taken
    <2>2. reader'.part = reader.part
      BY <1>1, <2>1 DEF FramingType
    <2> QED
      BY <2>1, <2>2
  <1>9. CASE read_fp_ends
    <2>1. /\ closed /\ reader.part # "failed" /\ reader' = Stopped
          /\ UNCHANGED <<closed, writer, sent, got>>
      BY <1>9 DEF read_fp_ends
    <2>2. writer.failed \/ got = sent
      BY <1>9, EndsHonestly
    <2>3. (reader'.part = "failed") = TRUE
      BY <2>1, ReaderAfter
    <2> QED
      BY <2>1, <2>2, <2>3 DEF Stream!Stop
  <1>10. CASE Got_count
    <2>1. reader.part = "count" /\ UNCHANGED <<closed, writer, sent, got>>
      BY <1>10 DEF Got_count, Full, Continue
    <2>2. reader'.part = "sizes"
      BY <1>10, CountInv
    <2> QED
      BY <2>1, <2>2
  <1>11. CASE Got_sizes
    <2>1. reader.part = "sizes" /\ UNCHANGED <<closed, writer, sent, got>>
      BY <1>11 DEF Got_sizes, Full, Continue
    <2>2. reader'.part = "data"
      BY <1>11, SizesInv
    <2> QED
      BY <2>1, <2>2
  <1>12. CASE Got_data
    <2>1. reader.part = "data" /\ UNCHANGED <<closed, writer, sent>>
      BY <1>12 DEF Got_data, Full, Continue
    <2>2. /\ reader' = Start /\ Unread # <<>> /\ got' = Append(got, Head(Unread))
      BY <1>12, DataInv, NoDataInv
    <2>3. Head(Unread) = sent[Len(got) + 1] /\ Len(got) < Len(sent)
      BY <1>1, <2>2, UnreadFacts
    <2>4. reader'.part = "count"
      BY <2>2, ReaderAfter
    <2> QED
      BY <2>1, <2>2, <2>3, <2>4 DEF Stream!Receive
  <1>13. CASE Read
    BY <1>8, <1>9, <1>10, <1>11, <1>12, <1>13 DEF Read
  <1> QED
    BY <1>2, <1>3, <1>4, <1>5, <1>6, <1>7, <1>13 DEF Next

\* A reader gets the messages that were written, whole, once each and in their
\* order, however the calls of either side are cut short, and is told that the
\* stream ends only after the last of them or a write that failed
\* (capn_write_fp, capn_write_fd, capn_write_mem, init_fp, read_fp).
THEOREM Refinement ==
  Readable => (Spec => Stream!Init /\ [][Stream!Next]_(Stream!vars))
  <1> SUFFICES ASSUME Readable PROVE Spec => Stream!Init /\ [][Stream!Next]_(Stream!vars)
    OBVIOUS
  <1>1. Init => Stream!Init
    BY WriterAfter, ReaderAfter DEF Init, Stream!Init
  <1>2. FramingInv /\ [Next]_vars => [Stream!Next]_(Stream!vars)
    BY StreamStep
  <1> QED
    BY <1>1, <1>2, ReadableFacts, FramingSound, PTL DEF Spec
=============================================================================
