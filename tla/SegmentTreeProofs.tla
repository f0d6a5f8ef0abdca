-------------------------- MODULE SegmentTreeProofs -------------------------
(***************************************************************************)
(* Proofs about module SegmentTree: whatever is hung in the tree is found  *)
(* by a search, at every turn of the loop, and by a short one when the     *)
(* loop is left; for any number of nodes.                                  *)
(***************************************************************************)
EXTENDS SegmentTree, LoopFacts, FiniteSetTheorems

(***************************************************************************)
(* The invariant.  `sub` gives each node the keys of the subtree below and *)
(* at it, `height` the black nodes on any way down from it.                *)
(***************************************************************************)

Below(sub, c) == IF c = NoNode THEN {} ELSE sub[c]
Before(s, x, y) == IF s = 0 THEN x < y ELSE y < x

Links == [Keys -> [Sides -> Node]]
Parents == [Keys -> Node]
Subtrees == [Keys -> SUBSET Keys]

\* A search tree of the keys in N: a node's subtree is itself and those of its
\* links, on their sides of it; a way up stays within a subtree until its top.
Hung(N, L, P) ==
  /\ \A x \in N, s \in Sides : L[x][s] # NoNode => L[x][s] \in N /\ P[L[x][s]] = x
  /\ \A x \in N : P[x] # NoNode => P[x] \in N /\ \E s \in Sides : L[P[x]][s] = x
  /\ \A x \in Keys \ N : P[x] = NoNode /\ \A s \in Sides : L[x][s] = NoNode
Sorted(N, L, P, sub) ==
  /\ \A x \in N : sub[x] = {x} \cup Below(sub, L[x][0]) \cup Below(sub, L[x][1])
  /\ \A x \in N, s \in Sides : \A y \in Below(sub, L[x][s]) : Before(s, y, x)
  /\ \A x \in N : \A y \in sub[x] :
        y \in N /\ sub[y] \subseteq sub[x] /\ (y # x => P[y] # NoNode /\ P[y] \in sub[x])
  /\ \A x \in N : P[x] = NoNode => sub[x] = N
Tree(N, L, P, sub) ==
  /\ N \subseteq Keys /\ L \in Links /\ P \in Parents /\ sub \in Subtrees
  /\ Hung(N, L, P) /\ Sorted(N, L, P, sub)

\* No red node has a red parent, nor is the top red; but the node the loop is at.
Coloured(N, P, R, at) ==
  /\ R \in [Keys -> BOOLEAN]
  /\ at # NoNode => at \in N /\ R[at]
  /\ \A x \in N : R[x] /\ x # at => P[x] # NoNode /\ ~R[P[x]]

\* As many black nodes on every way down.
Balanced(N, L, R, height) ==
  /\ height \in [Node -> Nat] /\ height[NoNode] = 0
  /\ \A x \in N : /\ height[L[x][0]] = height[L[x][1]]
                  /\ height[x] = height[L[x][0]] + (IF R[x] THEN 0 ELSE 1)

\* The tree, the colours and the heights.
Sound(N, L, P, R, at) ==
  /\ \E sub \in Subtrees : Tree(N, L, P, sub)
  /\ Coloured(N, P, R, at)
  /\ \E height \in [Node -> Nat] : Balanced(N, L, R, height)

\* The root is the top, once the first insertion has set it.
Rooted ==
  /\ root # NoNode => root \in nodes /\ parent[root] = NoNode
  /\ root = NoNode => nodes \subseteq {n}

\* Segments come in order.
InOrder ==
  use = "segments" =>
    \E m \in Nat : nodes = 0..(m - 1) /\ last = IF m = 0 THEN NoNode ELSE m - 1

TreeInv ==
  /\ TypeOK /\ Rooted /\ InOrder
  /\ Sound(nodes, link, parent, red, n)

-----------------------------------------------------------------------------
(* Trees, of any keys. *)

LEMMA Ends ==
  ASSUME NEW N, NEW L, NEW P, NEW sub, Tree(N, L, P, sub)
  PROVE  /\ N \subseteq Keys /\ N \subseteq Node /\ NoNode \notin Keys /\ NoNode \notin N
         /\ N \subseteq Int
         /\ \A w \in Keys : P[w] \in Node /\ \A s \in Sides : L[w][s] \in Node
  <1>1. N \subseteq Keys
    BY DEF Tree
  <1>2. Keys \subseteq Int
    BY TreeAssumption DEF Keys
  <1> QED
    BY <1>1, <1>2, TreeAssumption DEF Tree, Node, Links, Parents

\* A node and one of its links.
LEMMA Kin ==
  ASSUME NEW N, NEW L, NEW P, NEW sub, Tree(N, L, P, sub), NEW x \in N, NEW s \in Sides
  PROVE  /\ 1 - s \in Sides /\ 1 - (1 - s) = s /\ 1 - s # s /\ NoNode \notin N
         /\ sub[x] = {x} \cup Below(sub, L[x][s]) \cup Below(sub, L[x][1 - s])
         /\ sub[x] \subseteq N /\ N \subseteq Keys
         /\ \A y \in Below(sub, L[x][s]) : Before(s, y, x)
         /\ x \notin Below(sub, L[x][s])
         /\ L[x][s] # NoNode => /\ L[x][s] \in N /\ P[L[x][s]] = x /\ L[x][s] # x
                                /\ L[x][s] \in Below(sub, L[x][s])
                                /\ L[x][s] # L[x][1 - s]
                                /\ Before(s, L[x][s], x)
  <1>1. 1 - s \in Sides /\ 1 - (1 - s) = s /\ 1 - s # s /\ {s, 1 - s} = {0, 1}
    BY DEF Sides
  <1>2. NoNode \notin N /\ N \subseteq Keys /\ N \subseteq Int
    <2>1. N \subseteq Keys
      BY DEF Tree
    <2>2. MaxKey \in Nat /\ NoNode \notin Keys
      BY TreeAssumption
    <2>3. Keys \subseteq Int
      BY <2>2 DEF Keys
    <2> QED
      BY <2>1, <2>2, <2>3
  <1>3. sub[x] = {x} \cup Below(sub, L[x][s]) \cup Below(sub, L[x][1 - s])
    <2>1. sub[x] = {x} \cup Below(sub, L[x][0]) \cup Below(sub, L[x][1])
      BY DEF Tree, Sorted
    <2>2. (s = 0 /\ 1 - s = 1) \/ (s = 1 /\ 1 - s = 0)
      BY DEF Sides
    <2> QED
      BY <2>1, <2>2
  <1>4. sub[x] \subseteq N
    BY DEF Tree, Sorted
  <1>5. ASSUME NEW r \in Sides PROVE \A y \in Below(sub, L[x][r]) : Before(r, y, x)
    BY DEF Tree, Sorted
  <1>6. ~Before(s, x, x)
    BY <1>2 DEF Before
  <1>7. ASSUME L[x][s] # NoNode
        PROVE  /\ L[x][s] \in N /\ P[L[x][s]] = x
               /\ L[x][s] \in Below(sub, L[x][s])
    <2>1. L[x][s] \in N /\ P[L[x][s]] = x
      BY <1>7 DEF Tree, Hung
    <2>2. L[x][s] \in sub[L[x][s]]
      BY <2>1 DEF Tree, Sorted
    <2> QED
      BY <1>7, <2>1, <2>2 DEF Below
  <1>8. ASSUME L[x][s] # NoNode, L[x][s] = L[x][1 - s] PROVE FALSE
    <2>1. Before(s, L[x][s], x) /\ Before(1 - s, L[x][s], x)
      BY <1>5, <1>7, <1>8, <1>1
    <2>2. L[x][s] \in Int /\ x \in Int
      BY <1>7, <1>8, <1>2
    <2> QED
      BY <2>1, <2>2, <1>1 DEF Before, Sides
  <1> QED
    BY <1>1, <1>2, <1>3, <1>4, <1>5, <1>6, <1>7, <1>8

\* c, the link of x on side d, comes up over x, which takes t from it.
Rotated(L, P, L1, P1, x, d, c, t) ==
  /\ c = L[x][d] /\ c # NoNode /\ t = L[c][1 - d]
  /\ L1 \in Links /\ P1 \in Parents
  /\ L1[x][d] = t /\ L1[x][1 - d] = L[x][1 - d]
  /\ L1[c][1 - d] = x /\ L1[c][d] = L[c][d]
  /\ \A y \in Keys \ {x, c}, s \in Sides : L1[y][s] = IF L[y][s] = x THEN c ELSE L[y][s]
  /\ \A y \in Keys : P1[y] = IF y = c THEN P[x] ELSE IF y = x THEN c ELSE IF y = t THEN x ELSE P[y]

\* The nodes around a rotation are as many as they look.
LEMMA Around ==
  ASSUME NEW N, NEW L, NEW P, NEW sub, Tree(N, L, P, sub), NEW x \in N, NEW d \in Sides,
         NEW L1, NEW P1, NEW c, NEW t, Rotated(L, P, L1, P1, x, d, c, t)
  PROVE  /\ x \in Keys /\ c \in N /\ c \in Keys /\ P[c] = x /\ c # x
         /\ t # NoNode => t \in N /\ P[t] = c /\ t # c /\ t # x
         /\ L[x][1 - d] # NoNode =>
              L[x][1 - d] \in N /\ P[L[x][1 - d]] = x /\ L[x][1 - d] \notin {c, x, t}
         /\ L[c][d] # NoNode =>
              L[c][d] \in N /\ P[L[c][d]] = c /\ L[c][d] \notin {c, x, t}
         /\ \A y \in N \ {x, c}, s \in Sides : L[y][s] # NoNode =>
              L[y][s] \in N /\ P[L[y][s]] = y /\ L[y][s] \notin {c, t}
  <1>1. /\ x \in Keys /\ c \in N /\ c \in Keys /\ P[c] = x /\ c # x /\ NoNode \notin N
        /\ 1 - d \in Sides /\ 1 - (1 - d) = d
        /\ c \in Below(sub, c) /\ x \notin Below(sub, c) /\ c # L[x][1 - d]
    BY Kin DEF Rotated
  <1>2. t # NoNode => t \in N /\ P[t] = c /\ t # c /\ t # L[c][d]
    BY <1>1, Kin DEF Rotated
  <1>3. L[x][1 - d] # NoNode => L[x][1 - d] \in N /\ P[L[x][1 - d]] = x /\ L[x][1 - d] # x
    BY <1>1, Kin
  <1>4. L[c][d] # NoNode => L[c][d] \in N /\ P[L[c][d]] = c /\ L[c][d] # c
    BY <1>1, Kin
  <1>5. \A s \in Sides : x # L[c][s]
    <2> SUFFICES ASSUME NEW s \in Sides, x = L[c][s] PROVE FALSE
      OBVIOUS
    <2>1. x # NoNode
      BY <1>1
    <2>2. x \in Below(sub, L[c][s]) /\ sub[c] = {c} \cup Below(sub, L[c][s]) \cup Below(sub, L[c][1 - s])
      BY <1>1, <2>1, Kin
    <2> QED
      BY <2>2, <1>1 DEF Below
  <1>6. ASSUME NEW y \in N \ {x, c}, NEW s \in Sides, L[y][s] # NoNode
        PROVE  L[y][s] \in N /\ P[L[y][s]] = y
    BY <1>6, Kin
  <1> QED
    BY <1>1, <1>2, <1>3, <1>4, <1>5, <1>6 DEF Rotated

LEMMA TurnedHung ==
  ASSUME NEW N, NEW L, NEW P, NEW sub, Tree(N, L, P, sub), NEW x \in N, NEW d \in Sides,
         NEW L1, NEW P1, NEW c, NEW t, Rotated(L, P, L1, P1, x, d, c, t)
  PROVE  Hung(N, L1, P1)
  <1> DEFINE o == L[x][1 - d]
  <1> DEFINE q == L[c][d]
  <1>1. /\ x \in Keys /\ c \in N /\ c \in Keys /\ P[c] = x /\ c # x
        /\ t # NoNode => t \in N /\ P[t] = c /\ t # c /\ t # x
        /\ o # NoNode => o \in N /\ P[o] = x /\ o \notin {c, x, t}
        /\ q # NoNode => q \in N /\ P[q] = c /\ q \notin {c, x, t}
    BY Around
  <1>2. \A y \in N \ {x, c}, s \in Sides : L[y][s] # NoNode =>
              L[y][s] \in N /\ P[L[y][s]] = y /\ L[y][s] \notin {c, t}
    BY Around
  <1>3. NoNode \notin N /\ N \subseteq Keys /\ 1 - d \in Sides /\ 1 - d # d
        /\ \A s \in Sides : s = d \/ s = 1 - d
    BY Kin DEF Sides
  <1>4. /\ L1[x][d] = t /\ L1[x][1 - d] = o /\ L1[c][1 - d] = x /\ L1[c][d] = q
        /\ P1[c] = P[x] /\ P1[x] = c /\ (t # NoNode => P1[t] = x)
        /\ \A y \in N \ {x, c, t} : P1[y] = P[y]
    BY <1>1, <1>3 DEF Rotated
  <1>5. ASSUME NEW y \in N \ {x, c}, NEW s \in Sides
        PROVE  L1[y][s] = IF L[y][s] = x THEN c ELSE L[y][s]
    BY <1>5, <1>3 DEF Rotated
  <1>6. P[x] # NoNode => P[x] \in N \ {x, c} /\ \E s \in Sides : L[P[x]][s] = x
    <2>1. P[x] # NoNode => P[x] \in N /\ \E s \in Sides : L[P[x]][s] = x
      BY DEF Tree, Hung
    <2>2. \A s \in Sides : L[c][s] # x
      BY <1>1, <1>3, <1>4 DEF Rotated
    <2>3. \A s \in Sides : L[x][s] # x
      BY <1>1, <1>3 DEF Rotated
    <2> QED
      BY <2>1, <2>2, <2>3
  <1>7. ASSUME NEW y \in N, NEW s \in Sides, L1[y][s] # NoNode
        PROVE  L1[y][s] \in N /\ P1[L1[y][s]] = y
    <2>1. CASE y = x /\ s = d
      BY <2>1, <1>7, <1>4, <1>1
    <2>2. CASE y = x /\ s = 1 - d
      BY <2>2, <1>7, <1>4, <1>1
    <2>3. CASE y = c /\ s = d
      BY <2>3, <1>7, <1>4, <1>1
    <2>4. CASE y = c /\ s = 1 - d
      BY <2>4, <1>7, <1>4, <1>1
    <2>5. CASE y \notin {x, c} /\ L[y][s] = x
      <3>1. P[x] = y
        BY <2>5, <1>2, <1>3
      <3> QED
        BY <3>1, <2>5, <1>5, <1>4, <1>1
    <2>6. CASE y \notin {x, c} /\ L[y][s] # x
      <3>1. L1[y][s] = L[y][s]
        BY <2>6, <1>5
      <3> QED
        BY <3>1, <2>6, <1>2, <1>4, <1>7
    <2> QED
      BY <2>1, <2>2, <2>3, <2>4, <2>5, <2>6, <1>3
  <1>8. ASSUME NEW y \in N, P1[y] # NoNode
        PROVE  P1[y] \in N /\ \E s \in Sides : L1[P1[y]][s] = y
    <2>1. CASE y = c
      BY <2>1, <1>8, <1>4, <1>5, <1>6
    <2>2. CASE y = x
      BY <2>2, <1>4, <1>1, <1>3
    <2>3. CASE y = t
      BY <2>3, <1>4, <1>3
    <2>4. CASE y \notin {c, x, t}
      <3>1. P1[y] = P[y]
        BY <2>4, <1>4
      <3>2. P[y] \in N /\ \E s \in Sides : L[P[y]][s] = y
        BY <3>1, <1>8 DEF Tree, Hung
      <3>3. PICK s \in Sides : L[P[y]][s] = y
        BY <3>2
      <3>4. CASE P[y] = x
        <4>1. s = 1 - d
          BY <3>3, <3>4, <2>4, <1>3 DEF Rotated
        <4> QED
          BY <4>1, <3>1, <3>3, <3>4, <1>4, <1>3
      <3>5. CASE P[y] = c
        <4>1. s = d
          BY <3>3, <3>5, <2>4, <1>3 DEF Rotated
        <4> QED
          BY <4>1, <3>1, <3>3, <3>5, <1>4, <1>1
      <3>6. CASE P[y] \notin {x, c}
        <4>1. L1[P[y]][s] = y
          BY <3>6, <3>2, <3>3, <2>4, <1>5
        <4> QED
          BY <4>1, <3>1, <3>2
      <3> QED
        BY <3>4, <3>5, <3>6
    <2> QED
      BY <2>1, <2>2, <2>3, <2>4
  <1>9. ASSUME NEW y \in Keys \ N PROVE P1[y] = NoNode /\ \A s \in Sides : L1[y][s] = NoNode
    <2>1. y \notin {c, x, t} /\ P[y] = NoNode /\ \A s \in Sides : L[y][s] = NoNode
      BY <1>9, <1>1, <1>3, TreeAssumption DEF Tree, Hung
    <2>2. x # NoNode
      BY <1>3
    <2> QED
      BY <2>1, <2>2, <1>1 DEF Rotated
  <1> HIDE DEF o, q
  <1> QED
    BY <1>7, <1>8, <1>9 DEF Hung

LEMMA TurnedSorted ==
  ASSUME NEW N, NEW L, NEW P, NEW sub, Tree(N, L, P, sub), NEW x \in N, NEW d \in Sides,
         NEW L1, NEW P1, NEW c, NEW t, Rotated(L, P, L1, P1, x, d, c, t),
         NEW sub1,
         sub1[c] = sub[x], sub1[x] = {x} \cup Below(sub, t) \cup Below(sub, L[x][1 - d]),
         \A y \in Keys \ {x, c} : sub1[y] = sub[y]
  PROVE  Sorted(N, L1, P1, sub1)
  <1> DEFINE o == L[x][1 - d]
  <1> DEFINE q == L[c][d]
  <1>1. /\ x \in Keys /\ c \in N /\ c \in Keys /\ P[c] = x /\ c # x
        /\ t # NoNode => t \in N /\ P[t] = c /\ t # c /\ t # x
        /\ o # NoNode => o \in N /\ P[o] = x /\ o \notin {c, x, t}
        /\ q # NoNode => q \in N /\ P[q] = c /\ q \notin {c, x, t}
    BY Around
  <1>2. \A y \in N \ {x, c}, s \in Sides : L[y][s] # NoNode =>
              L[y][s] \in N /\ P[L[y][s]] = y /\ L[y][s] \notin {c, t}
    BY Around
  <1>3. NoNode \notin N /\ N \subseteq Keys /\ N \subseteq Int /\ 1 - d \in Sides /\ 1 - d # d
        /\ 1 - (1 - d) = d /\ (\A s \in Sides : s = d \/ s = 1 - d) /\ c # NoNode
    <2>1. N \subseteq Int
      BY Kin, TreeAssumption DEF Keys
    <2> QED
      BY <2>1, <1>1, Kin DEF Sides
  <1>4. /\ L1[x][d] = t /\ L1[x][1 - d] = o /\ L1[c][1 - d] = x /\ L1[c][d] = q
        /\ P1[c] = P[x] /\ P1[x] = c /\ (t # NoNode => P1[t] = x)
        /\ \A y \in N \ {x, c, t} : P1[y] = P[y]
    BY <1>1, <1>3 DEF Rotated
  <1>5. ASSUME NEW y \in N \ {x, c}, NEW s \in Sides
        PROVE  L1[y][s] = IF L[y][s] = x THEN c ELSE L[y][s]
    BY <1>5, <1>3 DEF Rotated
  <1>6. Below(sub1, c) = sub[x] /\ Below(sub1, x) = {x} \cup Below(sub, t) \cup Below(sub, o)
    BY <1>3 DEF Below
  <1>7. Below(sub1, t) = Below(sub, t) /\ Below(sub1, o) = Below(sub, o)
        /\ Below(sub1, q) = Below(sub, q)
    BY <1>1, <1>3 DEF Below
  <1>8. /\ sub[x] = {x} \cup sub[c] \cup Below(sub, o)
        /\ sub[c] = {c} \cup Below(sub, q) \cup Below(sub, t)
        /\ \A z \in sub[c] : Before(d, z, x)
        /\ \A z \in Below(sub, o) : Before(1 - d, z, x)
        /\ \A z \in Below(sub, q) : Before(d, z, c)
        /\ \A z \in Below(sub, t) : Before(1 - d, z, c)
        /\ sub[x] \subseteq N
    <2>1. /\ sub[x] = {x} \cup Below(sub, c) \cup Below(sub, o)
          /\ \A z \in Below(sub, c) : Before(d, z, x)
          /\ \A z \in Below(sub, o) : Before(1 - d, z, x)
          /\ sub[x] \subseteq N
      BY <1>3, Kin DEF Rotated
    <2>2. /\ sub[c] = {c} \cup Below(sub, q) \cup Below(sub, t)
          /\ \A z \in Below(sub, q) : Before(d, z, c)
          /\ \A z \in Below(sub, t) : Before(1 - d, z, c)
      BY <1>1, <1>3, Kin DEF Rotated
    <2>3. Below(sub, c) = sub[c]
      BY <1>3 DEF Below
    <2> QED
      BY <2>1, <2>2, <2>3
  <1>9. ASSUME NEW y \in N \ {x, c}, NEW s \in Sides
        PROVE  Below(sub1, L1[y][s]) = Below(sub, L[y][s])
    <2>1. CASE L[y][s] = x
      <3>1. x # NoNode
        BY <1>3
      <3> QED
        BY <2>1, <3>1, <1>5, <1>6 DEF Below
    <2>2. CASE L[y][s] = NoNode
      BY <2>2, <1>5, <1>3 DEF Below
    <2>3. CASE L[y][s] \notin {x, NoNode}
      <3>1. L[y][s] \in Keys \ {x, c} /\ L1[y][s] = L[y][s]
        BY <2>3, <1>2, <1>3, <1>5
      <3> QED
        BY <3>1, <2>3 DEF Below
    <2> QED
      BY <2>1, <2>2, <2>3
  <1> HIDE DEF o, q
  <1>10. ASSUME NEW a \in N, NEW b \in N, NEW z \in N, NEW s \in Sides, Before(s, a, b), Before(s, b, z)
         PROVE  Before(s, a, z)
    BY <1>10, <1>3 DEF Before, Sides
  <1>11. ASSUME NEW a \in N, NEW b \in N, Before(d, a, b) PROVE Before(1 - d, b, a)
    BY <1>11, <1>3 DEF Before, Sides
  <1>12. c \in sub[c] /\ sub[c] \subseteq N
    BY <1>8
  <1>13. x \notin sub[c] /\ x \notin Below(sub, o) /\ c \notin Below(sub, o) /\ c \notin Below(sub, t)
    <2>1. x \notin Below(sub, c) /\ x \notin Below(sub, o)
      BY <1>3, Kin DEF Rotated, o
    <2>2. c \notin Below(sub, t)
      BY <1>1, <1>3, Kin DEF Rotated
    <2>3. Below(sub, c) = sub[c]
      BY <1>3 DEF Below
    <2>4. c \notin Below(sub, o)
      <3>1. Before(d, c, x) /\ (c \in Below(sub, o) => Before(1 - d, c, x))
        BY <1>8, <1>12
      <3> QED
        BY <3>1, <1>1, <1>3 DEF Before, Sides
    <2> QED
      BY <2>1, <2>2, <2>3, <2>4
  <1>14. ASSUME NEW y \in N \ {x, c} PROVE sub1[y] = sub[y]
    BY <1>3
  <1>15. ASSUME NEW y \in N, NEW z \in sub[y]
         PROVE  z \in N /\ sub[z] \subseteq sub[y] /\ (z # y => P[z] # NoNode /\ P[z] \in sub[y])
    BY DEF Tree, Sorted
  <1>16. ASSUME NEW y \in N
         PROVE  sub1[y] = {y} \cup Below(sub1, L1[y][0]) \cup Below(sub1, L1[y][1])
    <2> SUFFICES sub1[y] = {y} \cup Below(sub1, L1[y][d]) \cup Below(sub1, L1[y][1 - d])
      <3>1. (d = 0 /\ 1 - d = 1) \/ (d = 1 /\ 1 - d = 0)
        BY DEF Sides
      <3> QED
        BY <3>1
    <2>1. CASE y = x
      BY <2>1, <1>4, <1>7 DEF o
    <2>2. CASE y = c
      BY <2>2, <1>4, <1>6, <1>7, <1>8
    <2>3. CASE y \notin {x, c}
      <3>1. sub[y] = {y} \cup Below(sub, L[y][d]) \cup Below(sub, L[y][1 - d])
        BY Kin
      <3> QED
        BY <3>1, <2>3, <1>9, <1>14, <1>3
    <2> QED
      BY <2>1, <2>2, <2>3
  <1>17. ASSUME NEW y \in N, NEW s \in Sides, NEW z \in Below(sub1, L1[y][s])
         PROVE  Before(s, z, y)
    <2>1. CASE y = x /\ s = d
      BY <2>1, <1>4, <1>7, <1>8, <1>17
    <2>2. CASE y = x /\ s = 1 - d
      BY <2>2, <1>4, <1>7, <1>8, <1>17
    <2>3. CASE y = c /\ s = d
      BY <2>3, <1>4, <1>7, <1>8, <1>17
    <2>4. CASE y = c /\ s = 1 - d
      <3>1. z \in {x} \cup Below(sub, t) \cup Below(sub, o)
        BY <2>4, <1>4, <1>6
      <3>2. Before(1 - d, x, c)
        BY <1>8, <1>11, <1>12, <1>1
      <3>3. CASE z \in Below(sub, o)
        <4>1. Before(1 - d, z, x) /\ z \in N
          BY <3>3, <1>8
        <4> QED
          BY <4>1, <3>2, <1>10, <1>1, <1>3, <2>4
      <3> QED
        BY <3>1, <3>2, <3>3, <1>8, <2>4
    <2>5. CASE y \notin {x, c}
      <3>1. z \in Below(sub, L[y][s])
        BY <2>5, <1>9, <1>17
      <3>2. \A b \in Below(sub, L[y][s]) : Before(s, b, y)
        BY Kin
      <3> QED
        BY <3>1, <3>2
    <2> QED
      BY <2>1, <2>2, <2>3, <2>4, <2>5, <1>3
  <1>18. sub1[x] \subseteq sub[x] /\ \A y \in N : sub1[y] \subseteq sub[y] \cup sub[x]
    <2>1. sub1[x] \subseteq sub[x]
      BY <1>8 DEF o
    <2> QED
      BY <2>1, <1>14
  <1>19. ASSUME NEW y \in N, NEW z \in sub1[y] PROVE z \in N /\ sub1[z] \subseteq sub1[y]
    <2>1. CASE y = c
      <3>1. z \in sub[x]
        BY <2>1
      <3>2. z \in N /\ sub[z] \subseteq sub[x]
        BY <3>1, <1>15
      <3> QED
        BY <3>1, <3>2, <2>1, <1>14, <1>18
    <2>2. CASE y = x
      <3>1. z \in {x} \cup Below(sub, t) \cup Below(sub, o) /\ z # c
        BY <2>2, <1>13, <1>1 DEF o
      <3>2. CASE z = x
        BY <3>2, <2>2
      <3>3. CASE z \in Below(sub, t) /\ z # x
        <4>1. t \in N /\ z \in sub[t]
          BY <3>3, <1>1 DEF Below
        <4>2. z \in N /\ sub[z] \subseteq sub[t] /\ sub1[z] = sub[z]
          BY <4>1, <1>15, <3>1, <3>3, <1>14
        <4> QED
          BY <4>2, <3>3, <2>2 DEF Below
      <3>4. CASE z \in Below(sub, o) /\ z # x
        <4>1. o \in N /\ z \in sub[o]
          BY <3>4, <1>1 DEF Below
        <4>2. z \in N /\ sub[z] \subseteq sub[o] /\ sub1[z] = sub[z]
          BY <4>1, <1>15, <3>1, <3>4, <1>14
        <4> QED
          BY <4>2, <3>4, <2>2 DEF Below, o
      <3> QED
        BY <3>1, <3>2, <3>3, <3>4
    <2>3. CASE y \notin {x, c}
      <3>1. sub1[y] = sub[y] /\ z \in N /\ sub[z] \subseteq sub[y]
        BY <2>3, <1>14, <1>15
      <3>2. CASE z = c
        <4>1. sub[x] \subseteq sub[y]
          <5>1. x \in sub[y]
            BY <3>1, <3>2, <2>3, <1>1, <1>15
          <5> QED
            BY <5>1, <1>15
        <4> QED
          BY <4>1, <3>1, <3>2
      <3>3. CASE z = x
        BY <3>1, <3>3, <1>18
      <3>4. CASE z \notin {c, x}
        BY <3>1, <3>4, <1>14
      <3> QED
        BY <3>1, <3>2, <3>3, <3>4
    <2> QED
      BY <2>1, <2>2, <2>3
  <1>20. ASSUME NEW y \in N, NEW z \in sub1[y], z # y PROVE P1[z] # NoNode /\ P1[z] \in sub1[y]
    <2>0. z \in N
      BY <1>19
    <2>1. CASE y = c
      <3>1. z \in sub[x] /\ sub1[y] = sub[x]
        BY <2>1
      <3>2. CASE z = x
        BY <3>1, <3>2, <1>3, <1>4, <1>8, <1>12
      <3>3. CASE z = t
        BY <3>1, <3>3, <1>3, <1>4, <1>8, <2>0
      <3>4. CASE z \notin {x, t}
        BY <3>1, <3>4, <1>4, <1>15, <2>0, <2>1, <1>20
      <3> QED
        BY <3>2, <3>3, <3>4
    <2>2. CASE y = x
      <3>1. z \in Below(sub, t) \cup Below(sub, o) /\ z # c
        BY <2>2, <1>13, <1>1, <1>20 DEF o
      <3>2. x \in sub1[y] /\ Below(sub, t) \subseteq sub1[y] /\ Below(sub, o) \subseteq sub1[y]
        BY <2>2 DEF o
      <3>3. CASE z = t
        BY <3>2, <3>3, <1>3, <1>4, <2>0
      <3>4. CASE z \in Below(sub, t) /\ z # t
        <4>1. t \in N /\ z \in sub[t]
          BY <3>4, <1>1 DEF Below
        <4>2. P[z] # NoNode /\ P[z] \in sub[t] /\ P1[z] = P[z]
          BY <4>1, <1>15, <3>4, <3>1, <2>2, <1>20, <1>4, <2>0
        <4> QED
          BY <4>2, <3>2, <3>4 DEF Below
      <3>5. CASE z = o /\ z # t
        BY <3>5, <3>1, <3>2, <2>2, <1>20, <1>3, <1>4, <1>1, <2>0
      <3>6. CASE z \in Below(sub, o) /\ z # o /\ z # t
        <4>1. o \in N /\ z \in sub[o]
          BY <3>6, <1>1 DEF Below
        <4>2. P[z] # NoNode /\ P[z] \in sub[o] /\ P1[z] = P[z]
          BY <4>1, <1>15, <3>6, <3>1, <2>2, <1>20, <1>4, <2>0
        <4> QED
          BY <4>2, <3>2, <3>6 DEF Below
      <3> QED
        BY <3>1, <3>3, <3>4, <3>5, <3>6
    <2>3. CASE y \notin {x, c}
      <3>1. sub1[y] = sub[y] /\ P[z] # NoNode /\ P[z] \in sub[y]
        BY <2>3, <1>14, <1>15, <1>20
      <3>2. CASE z = c
        <4>1. x \in sub[y]
          BY <3>1, <3>2, <1>1
        <4> QED
          BY <4>1, <3>1, <3>2, <2>3, <1>4, <1>15
      <3>3. CASE z = x
        <4>1. c \in sub[y]
          <5>1. sub[x] \subseteq sub[y]
            BY <3>1, <3>3, <1>15
          <5> QED
            BY <5>1, <1>8, <1>12
        <4> QED
          BY <4>1, <3>1, <3>3, <1>4, <1>3
      <3>4. CASE z = t
        <4>1. c \in sub[y]
          BY <3>1, <3>4, <1>1, <2>0, <1>3
        <4>2. x \in sub[y]
          BY <4>1, <2>3, <1>15, <1>1
        <4> QED
          BY <4>2, <3>1, <3>4, <1>4, <1>3, <2>0
      <3>5. CASE z \notin {c, x, t}
        BY <3>1, <3>5, <1>4, <2>0
      <3> QED
        BY <3>2, <3>3, <3>4, <3>5
    <2> QED
      BY <2>1, <2>2, <2>3
  <1>21. ASSUME NEW y \in N, P1[y] = NoNode PROVE sub1[y] = N
    <2>1. \A z \in N : P[z] = NoNode => sub[z] = N
      BY DEF Tree, Sorted
    <2>2. y # x /\ y # t
      BY <1>21, <1>3, <1>4
    <2> QED
      BY <2>1, <2>2, <1>21, <1>4, <1>14
  <1> QED
    BY <1>16, <1>17, <1>19, <1>20, <1>21 DEF Sorted

\* A rotation leaves a tree of the same keys in the same order.
LEMMA Turned ==
  ASSUME NEW N, NEW L, NEW P, NEW sub, Tree(N, L, P, sub), NEW x \in N, NEW d \in Sides,
         NEW L1, NEW P1, NEW c, NEW t, Rotated(L, P, L1, P1, x, d, c, t)
  PROVE  \E sub1 \in Subtrees : Tree(N, L1, P1, sub1)
  <1> DEFINE rest == {x} \cup Below(sub, t) \cup Below(sub, L[x][1 - d])
  <1> DEFINE sub1 == [y \in Keys |-> IF y = c THEN sub[x] ELSE IF y = x THEN rest ELSE sub[y]]
  <1>1. x \in Keys /\ c \in Keys /\ c # x /\ N \subseteq Keys /\ L1 \in Links /\ P1 \in Parents
        /\ (t # NoNode => t \in Keys) /\ (L[x][1 - d] # NoNode => L[x][1 - d] \in Keys)
    <2>1. N \subseteq Keys /\ L1 \in Links /\ P1 \in Parents
      BY DEF Tree, Rotated
    <2> QED
      BY <2>1, Around
  <1>2. sub \in [Keys -> SUBSET Keys]
    BY DEF Tree, Subtrees
  <1>3. rest \in SUBSET Keys
    BY <1>1, <1>2 DEF Below
  <1>4. sub1[c] = sub[x] /\ sub1[x] = rest /\ \A y \in Keys \ {x, c} : sub1[y] = sub[y]
    BY <1>1
  <1>5. sub1 \in Subtrees
    <2> HIDE DEF rest
    <2> QED
      BY <1>1, <1>2, <1>3 DEF Subtrees
  <1>6. Hung(N, L1, P1)
    BY TurnedHung
  <1> HIDE DEF sub1
  <1>7. Sorted(N, L1, P1, sub1)
    BY <1>4, TurnedSorted
  <1> QED
    BY <1>1, <1>5, <1>6, <1>7 DEF Tree

\* The one link that leads to a node.
Side(L, x, y) == IF L[y][1] = x THEN 1 ELSE 0
LEMMA Led ==
  ASSUME NEW N, NEW L, NEW P, NEW sub, Tree(N, L, P, sub), NEW x \in N
  PROVE  /\ P[x] = NoNode => \A y \in Keys, s \in Sides : L[y][s] # x
         /\ P[x] # NoNode =>
              /\ P[x] \in N /\ P[x] # x /\ Side(L, x, P[x]) \in Sides /\ L[P[x]][Side(L, x, P[x])] = x
              /\ \A y \in Keys, s \in Sides : L[y][s] = x <=> y = P[x] /\ s = Side(L, x, P[x])
  <1>1. NoNode \notin Keys /\ N \subseteq Keys /\ x # NoNode
    BY TreeAssumption DEF Tree
  <1>2. ASSUME NEW y \in Keys, NEW s \in Sides, L[y][s] = x PROVE y \in N /\ P[x] = y
    BY <1>1, <1>2 DEF Tree, Hung
  <1>3. ASSUME P[x] # NoNode PROVE P[x] \in N /\ \E s \in Sides : L[P[x]][s] = x
    BY <1>3 DEF Tree, Hung
  <1>4. ASSUME P[x] # NoNode
        PROVE  /\ Side(L, x, P[x]) \in Sides /\ L[P[x]][Side(L, x, P[x])] = x /\ P[x] # x
               /\ \A s \in Sides : L[P[x]][s] = x => s = Side(L, x, P[x])
    <2>1. PICK s \in Sides : L[P[x]][s] = x
      BY <1>3, <1>4
    <2>2. L[P[x]][1 - s] # x /\ 1 - s \in Sides /\ P[x] # x
      BY <2>1, <1>1, <1>3, <1>4, Kin
    <2> QED
      BY <2>1, <2>2 DEF Sides, Side
  <1> QED
    BY <1>1, <1>2, <1>3, <1>4

\* A red node x, its red parent y, the parent z of that and the uncle v.
Corner(N, L, P, R, x, y, z, d, v) ==
  /\ {x, y, z} \subseteq N /\ x # y /\ x # z /\ y # z /\ R[x] /\ R[y] /\ ~R[z]
  /\ P[x] = y /\ P[y] = z
  /\ d \in Sides /\ 1 - d \in Sides /\ 1 - d # d /\ L[z][d] = y /\ L[z][1 - d] = v
  /\ x = L[y][Side(L, x, y)] /\ Side(L, x, y) \in Sides
  /\ v # y /\ v # z /\ (v # NoNode => v \in N /\ P[v] = z)
  /\ \A w \in N : P[w] = z => w = y \/ w = v
LEMMA RedParent ==
  ASSUME NEW N, NEW L, NEW P, NEW sub, Tree(N, L, P, sub), NEW R, NEW x, Coloured(N, P, R, x),
         x # NoNode, P[x] # NoNode, R[P[x]],
         NEW y, y = P[x], NEW z, z = P[y], NEW d, d = Side(L, y, z), NEW v, v = L[z][1 - d]
  PROVE  Corner(N, L, P, R, x, y, z, d, v)
  <1>1. x \in N /\ R[x]
    BY DEF Coloured
  <1>2. y \in N /\ x = L[y][Side(L, x, y)] /\ Side(L, x, y) \in Sides /\ x # y
    BY <1>1, Led
  <1>3. z # NoNode /\ ~R[z]
    BY <1>2 DEF Coloured
  <1>4. z \in N /\ L[z][d] = y /\ d \in Sides /\ y # z
    BY <1>2, <1>3, Led
  <1>5. 1 - d \in Sides /\ 1 - d # d /\ \A s \in Sides : s = d \/ s = 1 - d
    BY <1>4 DEF Sides
  <1>6. \A w \in N : P[w] = z => w = L[z][d] \/ w = L[z][1 - d]
    BY <1>3, <1>5 DEF Tree, Hung
  <1>7. y # v /\ y # NoNode
    BY <1>2, <1>4, Kin
  <1>8. v # NoNode => v \in N /\ P[v] = z /\ v # z
    BY <1>4, <1>5, Kin
  <1>9. z # NoNode /\ v # z
    BY <1>3, <1>8
  <1> QED
    BY <1>1, <1>2, <1>3, <1>4, <1>5, <1>6, <1>7, <1>8, <1>9 DEF Corner

-----------------------------------------------------------------------------
(* The colours and the heights, after each case of the loop. *)

\* The heights of a node's links, on whatever side.
LEMMA Level ==
  ASSUME NEW N, NEW L, NEW P, NEW sub, Tree(N, L, P, sub),
         NEW R, NEW height, Balanced(N, L, R, height),
         NEW x \in N, NEW s \in Sides, R[x] \in BOOLEAN
  PROVE  /\ height[L[x][s]] = height[L[x][1 - s]]
         /\ R[x] => height[x] = height[L[x][s]]
         /\ ~R[x] => height[x] = height[L[x][s]] + 1
  <1>1. height[L[x][0]] = height[L[x][1]] /\ height[x] = height[L[x][0]] + (IF R[x] THEN 0 ELSE 1)
        /\ height[L[x][0]] \in Nat
    <2>1. L[x][0] \in Node
      BY Ends DEF Sides
    <2> QED
      BY <2>1 DEF Balanced
  <1>2. (s = 0 /\ 1 - s = 1) \/ (s = 1 /\ 1 - s = 0)
    BY DEF Sides
  <1>3. CASE R[x]
    <2>1. height[x] = height[L[x][0]] + 0
      BY <1>1, <1>3
    <2> QED
      BY <2>1, <1>1, <1>2, <1>3
  <1>4. CASE ~R[x]
    BY <1>1, <1>2, <1>4
  <1> QED
    BY <1>3, <1>4

LEMMA RecolouredSound ==
  ASSUME NEW N, NEW L, NEW P, NEW sub, Tree(N, L, P, sub), NEW R, NEW x, Coloured(N, P, R, x),
         NEW y, NEW z, NEW d, NEW v, Corner(N, L, P, R, x, y, z, d, v), v # NoNode, R[v],
         NEW R1, [R EXCEPT ![y] = FALSE, ![v] = FALSE, ![z] = TRUE] = R1,
         NEW height, Balanced(N, L, R, height)
  PROVE  Coloured(N, P, R1, z) /\ \E height1 \in [Node -> Nat] : Balanced(N, L, R1, height1)
  <1>1. /\ {x, y, z} \subseteq N /\ x # y /\ x # z /\ y # z /\ R[x] /\ R[y] /\ ~R[z]
        /\ P[x] = y /\ P[y] = z
        /\ d \in Sides /\ 1 - d \in Sides /\ 1 - d # d /\ L[z][d] = y /\ L[z][1 - d] = v
        /\ v # y /\ v # z /\ (v # NoNode => v \in N /\ P[v] = z)
        /\ \A w \in N : P[w] = z => w = y \/ w = v
    BY DEF Corner
  <1>2. v \in N /\ NoNode \notin N /\ N \subseteq Keys
    BY <1>1, Ends
  <1>3. R \in [Keys -> BOOLEAN] /\ \A w \in N : R[w] /\ w # x => P[w] # NoNode /\ ~R[P[w]]
    BY DEF Coloured
  <1>4. R1 \in [Keys -> BOOLEAN] /\ R1[z] /\ ~R1[y] /\ ~R1[v]
        /\ \A w \in Keys \ {y, z, v} : R1[w] = R[w]
    BY <1>1, <1>2, <1>3
  <1>5. ASSUME NEW w \in N, R1[w], w # z PROVE P[w] # NoNode /\ ~R1[P[w]]
    <2>1. w \notin {y, v}
      BY <1>4, <1>5
    <2>2. CASE w = x
      BY <2>2, <1>1, <1>2, <1>4
    <2>3. CASE w # x
      <3>1. R[w]
        BY <2>1, <1>2, <1>4, <1>5
      <3>2. P[w] # NoNode /\ ~R[P[w]] /\ P[w] # z
        BY <3>1, <2>1, <2>3, <1>1, <1>3
      <3>3. P[w] \in Keys
        BY <3>2, <1>2 DEF Tree, Hung
      <3> QED
        BY <3>2, <3>3, <1>4
    <2> QED
      BY <2>2, <2>3
  <1>6. Coloured(N, P, R1, z)
    BY <1>1, <1>4, <1>5 DEF Coloured
  <1> DEFINE h1 == [w \in Node |-> IF w \in {y, v} THEN height[w] + 1 ELSE height[w]]
  <1>7. height \in [Node -> Nat] /\ height[NoNode] = 0 /\ N \subseteq Node
    BY <1>2 DEF Balanced, Node
  <1>8. h1 \in [Node -> Nat] /\ h1[NoNode] = 0 /\ h1[y] = height[y] + 1 /\ h1[v] = height[v] + 1
        /\ \A w \in Node \ {y, v} : h1[w] = height[w]
    <2>1. y \in Node /\ v \in Node /\ y # NoNode /\ y # v
      BY <1>1, <1>2, <1>7
    <2> QED
      BY <2>1, <1>2, <1>7 DEF Node
  <1> HIDE DEF h1
  <1>9. ASSUME NEW w \in N, NEW s \in Sides, w # z PROVE h1[L[w][s]] = height[L[w][s]]
    <2>1. L[w][s] \notin {y, v} \/ L[w][s] = NoNode
      BY <1>1, <1>2, <1>9, Kin
    <2>2. L[w][s] \in Node
      BY <1>9, Kin, <1>7 DEF Node
    <2> QED
      BY <2>1, <2>2, <1>7, <1>8
  <1>10. ASSUME NEW w \in N
         PROVE  /\ h1[L[w][0]] = h1[L[w][1]]
                /\ h1[w] = h1[L[w][0]] + (IF R1[w] THEN 0 ELSE 1)
    <2>1. R[w] \in BOOLEAN /\ R1[w] \in BOOLEAN /\ w \in Node
      BY <1>2, <1>3, <1>4, <1>7
    <2>2. height[L[w][0]] = height[L[w][1]] /\ height[w] = height[L[w][0]] + (IF R[w] THEN 0 ELSE 1)
      BY DEF Balanced
    <2>3. CASE w \in {y, v}
      <3>1. h1[L[w][0]] = height[L[w][0]] /\ h1[L[w][1]] = height[L[w][1]]
        BY <2>3, <1>1, <1>2, <1>9 DEF Sides
      <3>2. h1[w] = height[w] + 1 /\ R[w] /\ ~R1[w]
        BY <2>3, <1>1, <1>4, <1>8
      <3>3. height[w] \in Nat /\ height[w] = height[L[w][0]] + 0
        BY <2>1, <2>2, <3>2, <1>7
      <3>4. height[L[w][0]] \in Nat
        <4>1. L[w][0] \in Node
          BY Kin, <1>7 DEF Node, Sides
        <4> QED
          BY <4>1, <1>7
      <3> QED
        BY <3>1, <3>2, <3>3, <3>4, <2>2
    <2>4. CASE w = z
      <3>1. /\ height[y] = height[v] /\ height[z] = height[y] + 1
        BY <1>1, <2>4, Level, <2>1
      <3>2. {L[z][0], L[z][1]} = {y, v}
        <4>1. (d = 0 /\ 1 - d = 1) \/ (d = 1 /\ 1 - d = 0)
          BY <1>1 DEF Sides
        <4> QED
          BY <4>1, <1>1
      <3>3. h1[z] = height[z]
        BY <1>1, <1>7, <1>8
      <3>5. h1[L[z][0]] = height[y] + 1 /\ h1[L[z][1]] = height[y] + 1
        BY <3>1, <3>2, <1>8
      <3>4. R1[w] /\ height[y] \in Nat
        BY <2>4, <1>1, <1>4, <1>7
      <3> QED
        BY <3>1, <3>3, <3>4, <3>5, <2>4
    <2>5. CASE w \notin {y, v, z}
      <3>1. h1[L[w][0]] = height[L[w][0]] /\ h1[L[w][1]] = height[L[w][1]]
        BY <2>5, <1>9 DEF Sides
      <3>2. h1[w] = height[w] /\ R1[w] = R[w]
        BY <2>1, <2>5, <1>2, <1>4, <1>8
      <3> QED
        BY <3>1, <3>2, <2>2
    <2> QED
      BY <2>3, <2>4, <2>5
  <1>11. Balanced(N, L, R1, h1)
    BY <1>8, <1>10 DEF Balanced
  <1> QED
    BY <1>6, <1>8, <1>11

LEMMA RotatedOnceSound ==
  ASSUME NEW N, NEW L, NEW P, NEW sub, Tree(N, L, P, sub), NEW R, NEW x, Coloured(N, P, R, x),
         NEW y, NEW z, NEW d, NEW v, Corner(N, L, P, R, x, y, z, d, v), ~(v # NoNode /\ R[v]), L[y][d] = x,
         NEW R1, [R EXCEPT ![z] = TRUE, ![y] = FALSE] = R1,
         NEW L1, NEW P1, NEW t, Rotated(L, P, L1, P1, z, d, y, t),
         NEW height, Balanced(N, L, R, height)
  PROVE  Coloured(N, P1, R1, NoNode) /\ \E height1 \in [Node -> Nat] : Balanced(N, L1, R1, height1)
  <1>1. /\ {x, y, z} \subseteq N /\ x # y /\ x # z /\ y # z /\ R[x] /\ R[y] /\ ~R[z]
        /\ P[x] = y /\ P[y] = z
        /\ d \in Sides /\ 1 - d \in Sides /\ 1 - d # d /\ L[z][d] = y /\ L[z][1 - d] = v
        /\ v # y /\ v # z /\ (v # NoNode => v \in N /\ P[v] = z)
        /\ \A w \in N : P[w] = z => w = y \/ w = v
    BY DEF Corner
  <1>2. /\ NoNode \notin N /\ N \subseteq Keys /\ x # t
        /\ t = L[y][1 - d] /\ (t # NoNode => t \in N /\ P[t] = y)
        /\ v # NoNode => v \in N
    BY <1>1, Kin DEF Rotated
  <1>3. R \in [Keys -> BOOLEAN] /\ \A w \in N : R[w] /\ w # x => P[w] # NoNode /\ ~R[P[w]]
    BY DEF Coloured
  <1>4. R1 \in [Keys -> BOOLEAN] /\ R1[z] /\ ~R1[y] /\ \A w \in Keys \ {y, z} : R1[w] = R[w]
    BY <1>1, <1>2, <1>3
  <1>5. P1[z] = y /\ P1[x] = y /\ \A w \in N \ {y, z, t} : P1[w] = P[w]
    BY <1>1, <1>2 DEF Rotated
  <1>6. ASSUME NEW w \in N, R1[w] PROVE P1[w] # NoNode /\ ~R1[P1[w]]
    <2>1. w # y
      BY <1>4, <1>6
    <2>2. CASE w = z \/ w = x
      BY <2>2, <1>1, <1>2, <1>4, <1>5
    <2>3. CASE w \notin {x, z}
      <3>1. R[w] /\ P[w] # NoNode /\ ~R[P[w]]
        BY <2>1, <2>3, <1>2, <1>3, <1>4, <1>6
      <3>2. w # t /\ P[w] # z
        BY <3>1, <2>1, <1>1, <1>2
      <3>3. P[w] \in Keys
        BY <3>1, <1>2 DEF Tree, Hung
      <3> QED
        BY <3>1, <3>2, <3>3, <2>1, <2>3, <1>4, <1>5
    <2> QED
      BY <2>2, <2>3
  <1>7. Coloured(N, P1, R1, NoNode)
    BY <1>4, <1>6 DEF Coloured
  <1> DEFINE h1 == [w \in Node |-> IF w = y THEN height[z] ELSE IF w = z THEN height[y] ELSE height[w]]
  <1>8. height \in [Node -> Nat] /\ height[NoNode] = 0 /\ N \subseteq Node
    BY <1>2 DEF Balanced, Node
  <1>9. h1 \in [Node -> Nat] /\ h1[NoNode] = 0 /\ h1[y] = height[z] /\ h1[z] = height[y]
        /\ \A w \in Node \ {y, z} : h1[w] = height[w]
    BY <1>1, <1>2, <1>8 DEF Node
  <1>10. /\ height[z] = height[y] + 1 /\ height[v] = height[y]
         /\ height[x] = height[y] /\ height[t] = height[y] /\ height[y] \in Nat
    <2>1. R[z] \in BOOLEAN /\ R[y] \in BOOLEAN
      BY <1>1, <1>2, <1>3
    <2>2. height[L[z][d]] = height[L[z][1 - d]] /\ height[z] = height[L[z][d]] + 1
      BY <2>1, <1>1, Level
    <2>3. height[L[y][d]] = height[L[y][1 - d]] /\ height[y] = height[L[y][d]]
      <3>1. y \in N /\ d \in Sides /\ R[y]
        BY <1>1
      <3>2. \A w \in N, s \in Sides : R[w] \in BOOLEAN =>
              /\ height[L[w][s]] = height[L[w][1 - s]]
              /\ R[w] => height[w] = height[L[w][s]]
        BY Level
      <3> QED
        BY <3>1, <3>2, <2>1
    <2>4. y \in Node
      BY <1>1, Ends
    <2> QED
      BY <2>2, <2>3, <2>4, <1>1, <1>2, <1>8
  <1> HIDE DEF h1
  <1>11. h1[t] = height[y] /\ h1[v] = height[y] /\ h1[x] = height[y]
    <2>1. t \in Node \ {y, z}
      BY <1>1, <1>2, Around, <1>8 DEF Node
    <2>2. v \in Node \ {y, z}
      BY <1>1, <1>2, Kin, <1>8 DEF Node
    <2> QED
      BY <2>1, <2>2, <1>1, <1>8, <1>9, <1>10
  <1>12. ASSUME NEW w \in N \ {y, z}, NEW s \in Sides PROVE h1[L1[w][s]] = height[L[w][s]]
    <2>1. L1[w][s] = IF L[w][s] = z THEN y ELSE L[w][s]
      BY <1>2, <1>12 DEF Rotated
    <2>2. L[w][s] # y /\ L[w][s] \in Node
      BY <1>1, <1>2, <1>8, <1>12, Kin DEF Node
    <2> QED
      BY <2>1, <2>2, <1>9
  <1>13. ASSUME NEW w \in N
         PROVE  /\ h1[L1[w][0]] = h1[L1[w][1]]
                /\ h1[w] = h1[L1[w][0]] + (IF R1[w] THEN 0 ELSE 1)
    <2>0. (d = 0 /\ 1 - d = 1) \/ (d = 1 /\ 1 - d = 0)
      BY <1>1 DEF Sides
    <2>1. CASE w = z
      <3>1. L1[z][d] = t /\ L1[z][1 - d] = v
        BY <1>1 DEF Rotated
      <3>2. h1[L1[z][0]] = height[y] /\ h1[L1[z][1]] = height[y]
        BY <3>1, <2>0, <1>11
      <3>3. height[y] = height[y] + (IF R1[z] THEN 0 ELSE 1)
        BY <1>4, <1>10
      <3> QED
        BY <3>2, <3>3, <2>1, <1>9
    <2>2. CASE w = y
      <3>1. L1[y][d] = x /\ L1[y][1 - d] = z
        BY DEF Rotated
      <3>2. h1[L1[y][0]] = height[y] /\ h1[L1[y][1]] = height[y]
        BY <3>1, <2>0, <1>9, <1>11
      <3> QED
        BY <3>2, <2>2, <1>4, <1>9, <1>10
    <2>3. CASE w \notin {y, z}
      <3>1. h1[L1[w][0]] = height[L[w][0]] /\ h1[L1[w][1]] = height[L[w][1]]
        BY <2>3, <1>12 DEF Sides
      <3>2. h1[w] = height[w] /\ R1[w] = R[w]
        BY <2>3, <1>2, <1>4, <1>8, <1>9
      <3>3. height[L[w][0]] = height[L[w][1]] /\ height[w] = height[L[w][0]] + (IF R[w] THEN 0 ELSE 1)
        BY DEF Balanced
      <3> QED
        BY <3>1, <3>2, <3>3
    <2> QED
      BY <2>1, <2>2, <2>3
  <1>14. Balanced(N, L1, R1, h1)
    BY <1>9, <1>13 DEF Balanced
  <1> QED
    BY <1>7, <1>9, <1>14

\* Two rotations bring the inner grandchild up over both.
RotatedTwice(L, P, L1, P1, x, y, z, d, two, three) ==
  \E L2, P2 : /\ Rotated(L, P, L2, P2, y, 1 - d, x, two)
              /\ Rotated(L2, P2, L1, P1, z, d, x, three)

\* What an inner grandchild and the others around it have below them.
LEMMA Inside ==
  ASSUME NEW N, NEW L, NEW P, NEW sub, Tree(N, L, P, sub), NEW x \in N, NEW y \in N, NEW z \in N,
         NEW d \in Sides, L[z][d] = y, L[y][1 - d] = x,
         NEW two, L[x][d] = two, NEW three, L[x][1 - d] = three, NEW r, L[y][d] = r
  PROVE  /\ two # NoNode => two \in N /\ P[two] = x
         /\ three # NoNode => three \in N /\ P[three] = x
         /\ r # NoNode => r \in N /\ P[r] = y
         /\ {two, three, r} \cap {x, y, z} = {} /\ (two = three => two = NoNode)
  <1>1. 1 - d \in Sides /\ 1 - (1 - d) = d /\ 1 - d # d
    BY DEF Sides
  <1>2. NoNode \notin N /\ N \subseteq Keys /\ N \subseteq Node
    BY Ends
  <1>3. P[y] = z /\ P[x] = y /\ x # y /\ y # z
    BY <1>1, <1>2, Kin
  <1>4. /\ two # NoNode => two \in N /\ P[two] = x
        /\ three # NoNode => three \in N /\ P[three] = x
        /\ r # NoNode => r \in N /\ P[r] = y /\ r # x
    BY <1>1, Kin
  <1>5. z \notin sub[y] /\ x \in sub[y] /\ sub[x] \subseteq sub[y] /\ x \notin Below(sub, L[y][d])
    <2>1. z \notin Below(sub, y)
      BY <1>1, Kin
    <2>2. y # NoNode
      BY <1>1, <1>2
    <2>3. x \in sub[y]
      <3>1. x \in Below(sub, x) /\ sub[y] = {y} \cup Below(sub, L[y][d]) \cup Below(sub, L[y][1 - d])
        BY <1>1, <1>2, Kin
      <3> QED
        BY <3>1
    <2>4. sub[x] \subseteq sub[y]
      BY <2>3, <1>1 DEF Tree, Sorted
    <2>5. x \notin Below(sub, L[y][d])
      <3>1. Before(d, x, y) => ~Before(1 - d, x, y)
        <4>1. x \in Int /\ y \in Int
          BY <1>1, Ends
        <4> QED
          BY <4>1, <1>1 DEF Before, Sides
      <3>2. Before(1 - d, x, y)
        BY <1>1, <1>2, Kin
      <3>3. \A w \in Below(sub, L[y][d]) : Before(d, w, y)
        BY <1>1, Kin
      <3> QED
        BY <3>1, <3>2, <3>3
    <2> QED
      BY <2>1, <2>2, <2>3, <2>4, <2>5 DEF Below
  <1>6. two # NoNode => two \in sub[x] /\ two # x
    <2>1. sub[x] = {x} \cup Below(sub, two) \cup Below(sub, L[x][1 - d])
          /\ (two # NoNode => two \in Below(sub, two) /\ two # x)
      BY <1>1, Kin
    <2> QED
      BY <2>1
  <1>7. three # NoNode => three \in sub[x] /\ three # x
    <2>1. sub[x] = {x} \cup Below(sub, three) \cup Below(sub, L[x][d])
          /\ (three # NoNode => three \in Below(sub, three) /\ three # x)
      BY <1>1, Kin
    <2> QED
      BY <2>1
  <1>8. r # NoNode => r \in sub[y] /\ r # y
    <2>1. sub[y] = {y} \cup Below(sub, r) \cup Below(sub, L[y][1 - d])
          /\ (r # NoNode => r \in Below(sub, r) /\ r # y)
      BY <1>1, Kin
    <2> QED
      BY <2>1
  <1>9. {two, three, r} \cap {x, y, z} = {} /\ (two = three => two = NoNode)
    <2>1. two = three => two = NoNode
      <3>1. L[x][d] # NoNode => L[x][d] # L[x][1 - d]
        BY <1>1, Kin
      <3> QED
        BY <3>1
    <2>2. two \notin {x, y, z}
      BY <1>2, <1>3, <1>4, <1>5, <1>6
    <2>3. three \notin {x, y, z}
      BY <1>2, <1>3, <1>4, <1>5, <1>7
    <2>4. r \notin {x, y, z}
      BY <1>2, <1>3, <1>4, <1>5, <1>8
    <2> QED
      BY <2>1, <2>2, <2>3, <2>4
  <1> QED
    BY <1>4, <1>9

LEMMA RotatedTwiceSound ==
  ASSUME NEW N, NEW L, NEW P, NEW sub, Tree(N, L, P, sub), NEW R, NEW x, Coloured(N, P, R, x),
         x # NoNode, P[x] # NoNode, R[P[x]],
         NEW y, NEW z, NEW d, NEW v, Corner(N, L, P, R, x, y, z, d, v),
         ~(v # NoNode /\ R[v]), L[y][1 - d] = x,
         NEW R1, [R EXCEPT ![x] = FALSE, ![z] = TRUE] = R1,
         NEW L1, NEW P1, NEW two, NEW three, RotatedTwice(L, P, L1, P1, x, y, z, d, two, three),
         NEW height, Balanced(N, L, R, height)
  PROVE  Coloured(N, P1, R1, NoNode) /\ \E height1 \in [Node -> Nat] : Balanced(N, L1, R1, height1)
  <1>1. /\ {x, y, z} \subseteq N /\ x # y /\ x # z /\ y # z /\ R[x] /\ R[y] /\ ~R[z]
        /\ P[x] = y /\ P[y] = z
        /\ d \in Sides /\ 1 - d \in Sides /\ 1 - d # d /\ L[z][d] = y /\ L[z][1 - d] = v
        /\ v # y /\ v # z /\ (v # NoNode => v \in N /\ P[v] = z)
        /\ (\A w \in N : P[w] = z => w = y \/ w = v) /\ 1 - (1 - d) = d
    BY DEF Corner, Sides
  <1>2. NoNode \notin N /\ N \subseteq Keys /\ N \subseteq Node
    BY Ends
  <1> DEFINE r == L[y][d]
  <1>3. PICK L2, P2 : /\ Rotated(L, P, L2, P2, y, 1 - d, x, two)
                      /\ Rotated(L2, P2, L1, P1, z, d, x, three)
    BY DEF RotatedTwice
  <1>4. /\ L2[y][1 - d] = two /\ L2[y][d] = r /\ L2[x][d] = y /\ L2[x][1 - d] = L[x][1 - d]
        /\ two = L[x][d]
        /\ \A w \in Keys \ {y, x}, s \in Sides : L2[w][s] = IF L[w][s] = y THEN x ELSE L[w][s]
        /\ \A w \in Keys : P2[w] = IF w = x THEN z ELSE IF w = y THEN x ELSE IF w = two THEN y ELSE P[w]
    BY <1>1, <1>3, SMTT(60) DEF Rotated
  <1>5. /\ L1[z][d] = three /\ L1[z][1 - d] = L2[z][1 - d] /\ L1[x][1 - d] = z /\ L1[x][d] = y
        /\ three = L[x][1 - d]
        /\ \A w \in Keys \ {z, x}, s \in Sides : L1[w][s] = IF L2[w][s] = z THEN x ELSE L2[w][s]
        /\ \A w \in Keys : P1[w] = IF w = x THEN P2[z] ELSE IF w = z THEN x
                                   ELSE IF w = three THEN z ELSE P2[w]
    BY <1>1, <1>3, <1>4 DEF Rotated
  <1>6. /\ two # NoNode => two \in N /\ P[two] = x
        /\ three # NoNode => three \in N /\ P[three] = x
        /\ r # NoNode => r \in N /\ P[r] = y
        /\ {two, three, r} \cap {x, y, z} = {} /\ (two = three => two = NoNode)
    BY <1>1, <1>4, <1>5, Inside
  <1> HIDE DEF r
  \* What the links and parents are in the end.
  <1>7. /\ L1[x][d] = y /\ L1[x][1 - d] = z
         /\ L1[y][d] = r /\ L1[y][1 - d] = two
         /\ L1[z][d] = three /\ L1[z][1 - d] = v
    <2>1. L2[z][1 - d] = v
      BY <1>1, <1>2, <1>4
    <2>2. L1[y][d] = r /\ L1[y][1 - d] = two
      <3>1. y \in Keys \ {z, x} /\ r # z /\ two # z
        BY <1>1, <1>2, <1>6
      <3>2. L1[y][d] = (IF L2[y][d] = z THEN x ELSE L2[y][d])
            /\ L1[y][1 - d] = (IF L2[y][1 - d] = z THEN x ELSE L2[y][1 - d])
        BY <3>1, <1>1, <1>5
      <3> QED
        BY <3>1, <3>2, <1>4
    <2> QED
      BY <2>1, <2>2, <1>5
  <1>8. ASSUME NEW w \in N \ {x, y, z}, NEW s \in Sides
         PROVE  L1[w][s] = IF L[w][s] = z THEN x ELSE L[w][s]
    <2>1. L[w][s] # y
      BY <1>1, <1>2, <1>8, Kin
    <2> QED
      BY <2>1, <1>2, <1>4, <1>5
  <1>9. /\ P1[y] = x /\ P1[z] = x /\ P1[x] = P[z]
         /\ \A w \in N \ {x, y, z, two, three} : P1[w] = P[w]
    <2>1. {x, y, z} \subseteq Keys /\ z # two /\ y # three
      BY <1>1, <1>2, <1>6
    <2>2. P2[y] = x /\ P2[z] = P[z]
      BY <2>1, <1>1, <1>4
    <2>3. P1[y] = x /\ P1[z] = x /\ P1[x] = P[z]
      BY <2>1, <2>2, <1>1, <1>5
    <2>4. ASSUME NEW w \in N \ {x, y, z, two, three} PROVE P1[w] = P[w]
      <3>1. P2[w] = P[w]
        BY <2>4, <1>2, <1>4
      <3> QED
        BY <3>1, <2>4, <1>2, <1>5
    <2> QED
      BY <2>3, <2>4
  <1>10. R \in [Keys -> BOOLEAN] /\ \A w \in N : R[w] /\ w # x => P[w] # NoNode /\ ~R[P[w]]
    BY DEF Coloured
  <1>11. R1 \in [Keys -> BOOLEAN] /\ R1[z] /\ ~R1[x] /\ \A w \in Keys \ {x, z} : R1[w] = R[w]
    BY <1>1, <1>2, <1>10
  <1>12. ASSUME NEW w \in N, R1[w] PROVE P1[w] # NoNode /\ ~R1[P1[w]]
    <2>1. w # x
      BY <1>11, <1>12
    <2>2. CASE w \in {y, z}
      BY <2>2, <1>1, <1>2, <1>9, <1>11
    <2>3. CASE w \notin {y, z}
      <3>1. R[w] /\ P[w] # NoNode /\ ~R[P[w]]
        BY <2>1, <2>3, <1>2, <1>10, <1>11, <1>12
      <3>2. w \notin {two, three} /\ P[w] \notin {x, z}
        BY <3>1, <2>3, <1>1, <1>2, <1>6
      <3>3. P[w] \in Keys
        BY <3>1, <1>2 DEF Tree, Hung
      <3> QED
        BY <3>1, <3>2, <3>3, <2>1, <2>3, <1>9, <1>11
    <2> QED
      BY <2>2, <2>3
  <1>13. Coloured(N, P1, R1, NoNode)
    BY <1>11, <1>12 DEF Coloured
  <1> DEFINE h1 == [w \in Node |-> IF w = x THEN height[z] ELSE IF w = z THEN height[x] ELSE height[w]]
  <1>14. height \in [Node -> Nat] /\ height[NoNode] = 0 /\ NoNode \in Node
    BY DEF Balanced, Node
  <1>15. h1 \in [Node -> Nat] /\ h1[NoNode] = 0 /\ h1[x] = height[z] /\ h1[z] = height[x]
         /\ \A w \in Node \ {x, z} : h1[w] = height[w]
    BY <1>1, <1>2, <1>14
  <1> HIDE DEF h1
  <1>16. /\ height[z] = height[x] + 1 /\ height[x] \in Nat
         /\ \A w \in {v, y, r, two, three} : height[w] = height[x]
    <2>1. \A w \in N, s \in Sides : R[w] \in BOOLEAN =>
              /\ height[L[w][s]] = height[L[w][1 - s]]
              /\ R[w] => height[w] = height[L[w][s]]
              /\ ~R[w] => height[w] = height[L[w][s]] + 1
      BY Level
    <2>2. height[v] = height[y] /\ height[z] = height[y] + 1
      BY <2>1, <1>1, <1>2, <1>10
    <2>3. height[y] = height[r] /\ height[r] = height[x]
      BY <2>1, <1>1, <1>2, <1>10 DEF r
    <2>4. height[x] = height[two] /\ height[two] = height[three]
      BY <2>1, <1>1, <1>2, <1>4, <1>5, <1>10
    <2>5. height[x] \in Nat
      BY <1>1, <1>2, <1>14
    <2> QED
      BY <2>2, <2>3, <2>4, <2>5
  <1>17. \A w \in {v, y, r, two, three} : h1[w] = height[x]
    <2>1. {v, y, r, two, three} \subseteq Node \ {x, z}
      <3>1. {v, y, r, two, three} \subseteq Node
        BY <1>1, <1>2, <1>6, <1>14
      <3>2. v # x
        BY <1>1, <1>2
      <3> QED
        BY <3>1, <3>2, <1>1, <1>6
    <2> QED
      BY <2>1, <1>15, <1>16
  <1>18. ASSUME NEW w \in N \ {x, y, z}, NEW s \in Sides PROVE h1[L1[w][s]] = height[L[w][s]]
    <2>1. L[w][s] # x /\ L[w][s] \in Node
      BY <1>1, <1>2, <1>14, <1>18, Kin
    <2> QED
      BY <2>1, <1>8, <1>15
  <1>19. ASSUME NEW w \in N
         PROVE  /\ h1[L1[w][0]] = h1[L1[w][1]]
                /\ h1[w] = h1[L1[w][0]] + (IF R1[w] THEN 0 ELSE 1)
    <2>0. (d = 0 /\ 1 - d = 1) \/ (d = 1 /\ 1 - d = 0)
      BY <1>1 DEF Sides
    <2>1. CASE w = z
      <3>1. h1[L1[z][0]] = height[x] /\ h1[L1[z][1]] = height[x]
        BY <2>0, <1>7, <1>17
      <3> QED
        BY <3>1, <2>1, <1>11, <1>15, <1>16
    <2>2. CASE w = y
      <3>1. h1[L1[y][0]] = height[x] /\ h1[L1[y][1]] = height[x]
        BY <2>0, <1>7, <1>17
      <3>2. R1[y]
        BY <1>1, <1>2, <1>11
      <3> QED
        BY <3>1, <3>2, <2>2, <1>17, <1>16
    <2>3. CASE w = x
      <3>1. h1[L1[x][0]] = height[x] /\ h1[L1[x][1]] = height[x]
        BY <2>0, <1>7, <1>15, <1>17
      <3> QED
        BY <3>1, <2>3, <1>11, <1>15, <1>16
    <2>4. CASE w \notin {x, y, z}
      <3>1. h1[L1[w][0]] = height[L[w][0]] /\ h1[L1[w][1]] = height[L[w][1]]
        BY <2>4, <1>18 DEF Sides
      <3>2. h1[w] = height[w] /\ R1[w] = R[w]
        BY <2>4, <1>2, <1>11, <1>15
      <3>3. height[L[w][0]] = height[L[w][1]] /\ height[w] = height[L[w][0]] + (IF R[w] THEN 0 ELSE 1)
        BY DEF Balanced
      <3> QED
        BY <3>1, <3>2, <3>3
    <2> QED
      BY <2>1, <2>2, <2>3, <2>4
  <1>20. Balanced(N, L1, R1, h1)
    BY <1>15, <1>19 DEF Balanced
  <1> QED
    BY <1>13, <1>15, <1>20

-----------------------------------------------------------------------------
(* What capn_tree_insert writes is a rotation, or two. *)

SetTo(L, a, r, b) == [L EXCEPT ![a][r] = b]
LEMMA SetLink ==
  ASSUME NEW L \in Links, NEW a \in Keys, NEW r \in Sides, NEW b \in Node
  PROVE  /\ SetTo(L, a, r, b) \in Links /\ SetTo(L, a, r, b)[a][r] = b
         /\ \A w \in Keys, s \in Sides : w # a \/ s # r => SetTo(L, a, r, b)[w][s] = L[w][s]
  BY DEF Links, SetTo

SetBoth(L, a, r, b, a2, r2, b2) == [L EXCEPT ![a][r] = b, ![a2][r2] = b2]
LEMMA SetTwo ==
  ASSUME NEW L \in Links, NEW a \in Keys, NEW r \in Sides, NEW b \in Node,
         NEW a2 \in Keys, NEW r2 \in Sides, NEW b2 \in Node, a # a2 \/ r # r2
  PROVE  LET M == SetBoth(L, a, r, b, a2, r2, b2)
         IN  /\ M \in Links /\ M[a][r] = b /\ M[a2][r2] = b2
             /\ \A w \in Keys, s \in Sides :
                  (w # a \/ s # r) /\ (w # a2 \/ s # r2) => M[w][s] = L[w][s]
  <1>1. PICK M1, M2 : M1 = SetTo(L, a, r, b) /\ M2 = SetTo(M1, a2, r2, b2)
    OBVIOUS
  <1>2. M2 = SetBoth(L, a, r, b, a2, r2, b2)
    BY <1>1 DEF SetTo, SetBoth
  <1>3. M1 \in Links /\ M1[a][r] = b
        /\ \A w \in Keys, s \in Sides : w # a \/ s # r => M1[w][s] = L[w][s]
    <2>1. SetTo(L, a, r, b) \in Links /\ SetTo(L, a, r, b)[a][r] = b
          /\ \A w \in Keys, s \in Sides : w # a \/ s # r => SetTo(L, a, r, b)[w][s] = L[w][s]
      BY SetLink
    <2> QED
      BY <2>1, <1>1
  <1>4. M2 \in Links /\ M2[a2][r2] = b2
        /\ \A w \in Keys, s \in Sides : w # a2 \/ s # r2 => M2[w][s] = M1[w][s]
    <2>1. SetTo(M1, a2, r2, b2) \in Links /\ SetTo(M1, a2, r2, b2)[a2][r2] = b2
          /\ \A w \in Keys, s \in Sides : w # a2 \/ s # r2 => SetTo(M1, a2, r2, b2)[w][s] = M1[w][s]
      BY <1>3, SetLink
    <2> QED
      BY <2>1, <1>1
  <1>5. M2[a][r] = b
    BY <1>3, <1>4
  <1>6. \A w \in Keys, s \in Sides :
                  (w # a \/ s # r) /\ (w # a2 \/ s # r2) => M2[w][s] = L[w][s]
    BY <1>3, <1>4
  <1> QED
    BY <1>2, <1>4, <1>5, <1>6

\* The link above the top of what is rotated.
Led_to(L, links, P, x, c) ==
  IF P[x] = NoNode THEN links ELSE [links EXCEPT ![P[x]][Side(L, x, P[x])] = c]
LEMMA LedTo ==
  ASSUME NEW N, NEW L, NEW P, NEW sub, Tree(N, L, P, sub), NEW x \in N, NEW c \in N,
         NEW links \in Links,
         NEW around, x \in around, c \in around, P[x] \notin around,
         \A w \in Keys \ around, s \in Sides : links[w][s] = L[w][s],
         NEW L1, L1 = Led_to(L, links, P, x, c)
  PROVE  /\ L1 \in Links
         /\ \A w \in around \cap Keys, s \in Sides : L1[w][s] = links[w][s]
         /\ \A w \in Keys \ around, s \in Sides : L1[w][s] = IF L[w][s] = x THEN c ELSE L[w][s]
  <1>1. c \in Node /\ x \in Keys
    BY Ends
  <1>2. CASE P[x] = NoNode
    <2>1. L1 = links
      BY <1>2 DEF Led_to
    <2>2. \A w \in Keys, s \in Sides : L[w][s] # x
      BY <1>2, Led
    <2> QED
      BY <2>1, <2>2
  <1>3. CASE P[x] # NoNode
    <2>1. PICK a, r : a = P[x] /\ r = Side(L, x, P[x])
      OBVIOUS
    <2>2. L1 = SetTo(links, a, r, c)
      BY <1>3, <2>1 DEF Led_to, SetTo
    <2>3. a \in Keys /\ r \in Sides /\ \A w \in Keys, s \in Sides : L[w][s] = x <=> w = a /\ s = r
      BY <1>3, <2>1, Led, Ends
    <2>4. L1 \in Links /\ L1[a][r] = c
          /\ \A w \in Keys, s \in Sides : w # a \/ s # r => L1[w][s] = links[w][s]
      BY <2>2, <2>3, <1>1, SetLink
    <2> QED
      BY <2>1, <2>3, <2>4
  <1> QED
    BY <1>2, <1>3

\* A child of a node is not above it.
LEMMA NotAbove ==
  ASSUME NEW N, NEW L, NEW P, NEW sub, Tree(N, L, P, sub), NEW z \in N, NEW d \in Sides,
         NEW y, y = L[z][d], y # NoNode
  PROVE  P[z] \notin {y, z}
  <1>1. y \in N /\ 1 - d \in Sides /\ z \notin Below(sub, y) /\ y \in Below(sub, y)
        /\ \A s \in Sides : s = d \/ s = 1 - d
    BY Kin DEF Sides
  <1>2. NoNode \notin N
    BY Ends
  <1>3. \A s \in Sides : L[y][s] # z
    <2>1. sub[y] = {y} \cup Below(sub, L[y][d]) \cup Below(sub, L[y][1 - d])
          /\ (L[y][d] # NoNode => L[y][d] \in Below(sub, L[y][d]))
          /\ (L[y][1 - d] # NoNode => L[y][1 - d] \in Below(sub, L[y][1 - d]))
      BY <1>1, Kin
    <2> QED
      BY <2>1, <1>1, <1>2 DEF Below
  <1>4. P[z] # NoNode => P[z] # z /\ \E s \in Sides : L[P[z]][s] = z
    BY Led
  <1> QED
    BY <1>1, <1>2, <1>3, <1>4

LEMMA Adopted ==
  ASSUME NEW P \in Parents, NEW c \in Node, NEW x \in Node
  PROVE  /\ Adopt(P, c, x) \in Parents
         /\ \A w \in Keys : Adopt(P, c, x)[w] = IF w = c THEN x ELSE P[w]
  <1>1. NoNode \notin Keys
    BY TreeAssumption
  <1>2. CASE c = NoNode
    BY <1>1, <1>2 DEF Adopt
  <1>3. CASE c # NoNode
    <2>1. c \in Keys
      BY <1>3 DEF Node
    <2> QED
      BY <2>1, <1>3 DEF Adopt, Parents
  <1> QED
    BY <1>2, <1>3

LEMMA OnceRotates ==
  ASSUME NEW N, NEW L, NEW P, NEW sub, Tree(N, L, P, sub), NEW z \in N, NEW d \in Sides,
         NEW y, L[z][d] = y, y # NoNode, NEW t, L[y][1 - d] = t
  PROVE  Rotated(L, P, Led_to(L, [L EXCEPT ![z][d] = t, ![y][1 - d] = z], P, z, y),
                 Adopt([P EXCEPT ![y] = P[z], ![z] = y], t, z), z, d, y, t)
  <1>1. /\ y \in N /\ P[y] = z /\ y # z /\ 1 - d \in Sides /\ 1 - d # d
        /\ \A s \in Sides : s = d \/ s = 1 - d
    BY Kin DEF Sides
  <1>2. /\ N \subseteq Keys /\ NoNode \notin Keys /\ L \in Links /\ P \in Parents
        /\ y \in Node /\ z \in Node /\ t \in Node /\ P[z] \in Node
        /\ y \in Keys /\ z \in Keys
    BY <1>1, Ends DEF Tree
  <1>3. PICK links : links = [L EXCEPT ![z][d] = t, ![y][1 - d] = z]
    OBVIOUS
  <1>4. links \in Links /\ links[z][d] = t /\ links[z][1 - d] = L[z][1 - d]
        /\ links[y][1 - d] = z /\ links[y][d] = L[y][d]
        /\ \A w \in Keys \ {y, z}, s \in Sides : links[w][s] = L[w][s]
    <2> DEFINE M == SetBoth(L, z, d, t, y, 1 - d, z)
    <2>1. /\ M \in Links /\ M[z][d] = t /\ M[y][1 - d] = z
          /\ \A w \in Keys, s \in Sides :
               (w # z \/ s # d) /\ (w # y \/ s # 1 - d) => M[w][s] = L[w][s]
      BY <1>1, <1>2, SetTwo
    <2>2. links = M
      BY <1>3 DEF SetBoth
    <2> HIDE DEF M
    <2> QED
      BY <2>1, <2>2, <1>1, <1>2
  <1>5. PICK around : around = {y, z}
    OBVIOUS
  <1>6. PICK L1 : L1 = Led_to(L, links, P, z, y)
    OBVIOUS
  <1>7. /\ L1 \in Links
        /\ \A w \in around \cap Keys, s \in Sides : L1[w][s] = links[w][s]
        /\ \A w \in Keys \ around, s \in Sides : L1[w][s] = IF L[w][s] = z THEN y ELSE L[w][s]
    <2>1. z \in around /\ y \in around /\ P[z] \notin around
          /\ \A w \in Keys \ around, s \in Sides : links[w][s] = L[w][s]
      BY <1>4, <1>5, NotAbove
    <2>2. y \in N /\ links \in Links
      BY <1>1, <1>4
    <2> QED
      BY <2>1, <2>2, <1>6, LedTo
  <1>8. PICK P1 : P1 = Adopt([P EXCEPT ![y] = P[z], ![z] = y], t, z)
    OBVIOUS
  <1>9. P1 \in Parents
        /\ \A w \in Keys : P1[w] = IF w = y THEN P[z] ELSE IF w = z THEN y ELSE IF w = t THEN z ELSE P[w]
    <2> DEFINE parents == [P EXCEPT ![y] = P[z], ![z] = y]
    <2>1. parents \in Parents
          /\ \A w \in Keys : parents[w] = IF w = y THEN P[z] ELSE IF w = z THEN y ELSE P[w]
      BY <1>1, <1>2 DEF Parents
    <2>2. t \notin {y, z}
      <3>1. t # NoNode => t \in N /\ P[t] = y /\ t # y
        BY <1>1, Kin
      <3>2. P[z] # y
        BY NotAbove
      <3> QED
        BY <3>1, <3>2, <1>1, <1>2
    <2>3. P1 = Adopt(parents, t, z)
      BY <1>8
    <2> HIDE DEF parents
    <2>4. Adopt(parents, t, z) \in Parents
          /\ \A w \in Keys : Adopt(parents, t, z)[w] = IF w = t THEN z ELSE parents[w]
      BY <2>1, <1>2, Adopted
    <2> QED
      BY <2>1, <2>2, <2>3, <2>4
  <1>10. Rotated(L, P, L1, P1, z, d, y, t)
    <2>1. /\ L1[z][d] = t /\ L1[z][1 - d] = L[z][1 - d] /\ L1[y][1 - d] = z /\ L1[y][d] = L[y][d]
          /\ \A w \in Keys \ {z, y}, s \in Sides : L1[w][s] = IF L[w][s] = z THEN y ELSE L[w][s]
      BY <1>1, <1>2, <1>4, <1>5, <1>7
    <2> QED
      BY <2>1, <1>7, <1>9 DEF Rotated
  <1> QED
    BY <1>3, <1>6, <1>8, <1>10

TwiceLinks(L, P, x, y, z, d, two, three) ==
  Led_to(L, [L EXCEPT ![y][1 - d] = two, ![z][d] = three, ![x][d] = y, ![x][1 - d] = z], P, z, x)
TwiceParents(P, x, y, z, two, three) ==
  Adopt(Adopt([P EXCEPT ![x] = P[z], ![y] = x, ![z] = x], two, y), three, z)
LEMMA TwiceRotates ==
  ASSUME NEW N, NEW L, NEW P, NEW sub, Tree(N, L, P, sub), NEW x \in N, NEW y \in N, NEW z \in N,
         NEW d \in Sides, L[z][d] = y, L[y][1 - d] = x,
         NEW two, L[x][d] = two, NEW three, L[x][1 - d] = three
  PROVE  RotatedTwice(L, P, TwiceLinks(L, P, x, y, z, d, two, three),
                      TwiceParents(P, x, y, z, two, three), x, y, z, d, two, three)
  <1>1. 1 - d \in Sides /\ 1 - (1 - d) = d /\ 1 - d # d /\ \A s \in Sides : s = d \/ s = 1 - d
    BY DEF Sides
  <1>2. /\ N \subseteq Keys /\ N \subseteq Node /\ NoNode \notin Keys /\ NoNode \notin N
        /\ L \in Links /\ P \in Parents
        /\ {x, y, z} \subseteq Keys /\ two \in Node /\ three \in Node /\ P[z] \in Node
    BY Ends, <1>1 DEF Tree
  <1>3. PICK r : L[y][d] = r
    OBVIOUS
  <1>4. /\ {two, three, r} \cap {x, y, z} = {} /\ (two = three => two = NoNode)
    BY <1>3, Inside
  <1>5. P[x] = y /\ P[y] = z /\ x # y /\ y # z /\ x # z /\ P[z] \notin {x, y, z} /\ L[z][1 - d] # y
    <2>1. P[x] = y /\ P[y] = z /\ x # y /\ y # z /\ L[z][1 - d] # y
      BY <1>1, <1>2, Kin
    <2>2. P[z] \notin {y, z}
      BY <1>2, NotAbove
    <2>3. P[y] \notin {x, y}
      BY <1>1, <1>2, NotAbove
    <2>4. P[z] # x
      <3>1. P[z] = x => \E s \in Sides : L[x][s] = z
        BY <1>2 DEF Tree, Hung
      <3> QED
        BY <3>1, <1>1, <1>4
    <2> QED
      BY <2>1, <2>2, <2>3, <2>4
  \* The first rotation.
  <1>6. PICK L2, P2 : Rotated(L, P, L2, P2, y, 1 - d, x, two)
    <2>1. L[y][1 - d] = x /\ x # NoNode /\ L[x][1 - (1 - d)] = two
      BY <1>1, <1>2
    <2>2. Rotated(L, P, Led_to(L, [L EXCEPT ![y][1 - d] = two, ![x][1 - (1 - d)] = y], P, y, x),
                  Adopt([P EXCEPT ![x] = P[y], ![y] = x], two, y), y, 1 - d, x, two)
      BY <2>1, <1>1, OnceRotates, SMTT(60)
    <2> QED
      BY <2>2
  <1>7. /\ L2[y][1 - d] = two /\ L2[y][d] = r /\ L2[x][d] = y /\ L2[x][1 - d] = three
        /\ \A w \in Keys \ {y, x}, s \in Sides : L2[w][s] = IF L[w][s] = y THEN x ELSE L[w][s]
        /\ \A w \in Keys : P2[w] = IF w = x THEN z ELSE IF w = y THEN x ELSE IF w = two THEN y ELSE P[w]
    BY <1>1, <1>3, <1>5, <1>6 DEF Rotated
  \* What the code writes.
  <1>8. PICK half, links :
          /\ half = SetBoth(L, y, 1 - d, two, z, d, three)
          /\ links = SetBoth(half, x, d, y, x, 1 - d, z)
    OBVIOUS
  <1>9. links = [L EXCEPT ![y][1 - d] = two, ![z][d] = three, ![x][d] = y, ![x][1 - d] = z]
    BY <1>8 DEF SetBoth
  <1>10. /\ half \in Links /\ half[y][1 - d] = two /\ half[z][d] = three
         /\ \A w \in Keys, s \in Sides :
              (w # y \/ s # 1 - d) /\ (w # z \/ s # d) => half[w][s] = L[w][s]
    <2> DEFINE M == SetBoth(L, y, 1 - d, two, z, d, three)
    <2>1. /\ M \in Links /\ M[y][1 - d] = two /\ M[z][d] = three
          /\ \A w \in Keys, s \in Sides :
               (w # y \/ s # 1 - d) /\ (w # z \/ s # d) => M[w][s] = L[w][s]
      <3>1. y \in Keys /\ z \in Keys /\ y # z /\ 1 - d \in Sides /\ two \in Node /\ three \in Node
            /\ L \in Links
        BY <1>1, <1>2, <1>5
      <3> QED
        BY <3>1, SetTwo
    <2>2. half = M
      BY <1>8
    <2> HIDE DEF M
    <2> QED
      BY <2>1, <2>2
  <1>11. /\ links \in Links /\ links[x][d] = y /\ links[x][1 - d] = z
         /\ \A w \in Keys, s \in Sides :
              (w # x \/ s # d) /\ (w # x \/ s # 1 - d) => links[w][s] = half[w][s]
    <2> DEFINE M == SetBoth(half, x, d, y, x, 1 - d, z)
    <2>1. /\ M \in Links /\ M[x][d] = y /\ M[x][1 - d] = z
          /\ \A w \in Keys, s \in Sides :
               (w # x \/ s # d) /\ (w # x \/ s # 1 - d) => M[w][s] = half[w][s]
      <3>1. x \in Keys /\ d # 1 - d /\ 1 - d \in Sides /\ y \in Node /\ z \in Node /\ half \in Links
        BY <1>1, <1>2, <1>10
      <3> QED
        BY <3>1, SetTwo
    <2>2. links = M
      BY <1>8
    <2> HIDE DEF M
    <2> QED
      BY <2>1, <2>2
  <1>12. PICK L1, around : L1 = Led_to(L, links, P, z, x) /\ around = {x, y, z}
    OBVIOUS
  <1>13. /\ L1 \in Links
         /\ \A w \in around \cap Keys, s \in Sides : L1[w][s] = links[w][s]
         /\ \A w \in Keys \ around, s \in Sides : L1[w][s] = IF L[w][s] = z THEN x ELSE L[w][s]
    <2>1. z \in around /\ x \in around /\ P[z] \notin around
          /\ \A w \in Keys \ around, s \in Sides : links[w][s] = L[w][s]
      BY <1>5, <1>10, <1>11, <1>12
    <2> QED
      BY <2>1, <1>11, <1>12, LedTo, SMTT(60)
  <1>14. /\ L1[x][d] = y /\ L1[x][1 - d] = z
         /\ L1[y][d] = r /\ L1[y][1 - d] = two
         /\ L1[z][d] = three /\ L1[z][1 - d] = L[z][1 - d]
         /\ \A w \in Keys \ {x, y, z}, s \in Sides : L1[w][s] = IF L[w][s] = z THEN x ELSE L[w][s]
    <2>1. \A w \in {x, y, z}, s \in Sides : L1[w][s] = links[w][s]
      BY <1>2, <1>12, <1>13
    <2>2. /\ links[y][d] = r /\ links[y][1 - d] = two
          /\ links[z][d] = three /\ links[z][1 - d] = L[z][1 - d]
      BY <1>1, <1>2, <1>3, <1>5, <1>10, <1>11
    <2> QED
      BY <2>1, <2>2, <1>1, <1>11, <1>12, <1>13
  <1>15. PICK P1, parents, once :
           /\ parents = [P EXCEPT ![x] = P[z], ![y] = x, ![z] = x]
           /\ once = Adopt(parents, two, y) /\ P1 = Adopt(once, three, z)
    OBVIOUS
  <1>16. /\ parents \in Parents
         /\ \A w \in Keys : parents[w] = IF w = x THEN P[z] ELSE IF w \in {y, z} THEN x ELSE P[w]
    BY <1>2, <1>5, <1>15 DEF Parents
  <1>17. /\ Adopt(parents, two, y) \in Parents
         /\ \A w \in Keys : Adopt(parents, two, y)[w] = IF w = two THEN y ELSE parents[w]
    BY <1>2, <1>16, Adopted
  <1>18. /\ Adopt(once, three, z) \in Parents
         /\ \A w \in Keys : Adopt(once, three, z)[w] = IF w = three THEN z ELSE once[w]
    <2>1. once \in Parents /\ three \in Node /\ z \in Node
      BY <1>2, <1>15, <1>17
    <2> QED
      BY <2>1, Adopted
  <1>19. P1 \in Parents
         /\ \A w \in Keys : P1[w] = IF w = x THEN P2[z] ELSE IF w = z THEN x
                                    ELSE IF w = three THEN z ELSE P2[w]
    <2>1. P2[z] = P[z]
      BY <1>2, <1>4, <1>5, <1>7
    <2>2. P1 \in Parents /\ \A w \in Keys : P1[w] = IF w = three THEN z ELSE IF w = two THEN y ELSE parents[w]
      <3>1. \A w \in Keys : once[w] = IF w = two THEN y ELSE parents[w]
        BY <1>15, <1>17
      <3>2. P1 \in Parents /\ \A w \in Keys : P1[w] = IF w = three THEN z ELSE once[w]
        BY <1>15, <1>18
      <3> QED
        BY <3>1, <3>2
    <2>3. ASSUME NEW w \in Keys
          PROVE  P1[w] = IF w = x THEN P2[z] ELSE IF w = z THEN x
                         ELSE IF w = three THEN z ELSE P2[w]
      <3>1. P1[w] = IF w = three THEN z ELSE IF w = two THEN y ELSE
                    IF w = x THEN P[z] ELSE IF w \in {y, z} THEN x ELSE P[w]
        BY <2>2, <1>16
      <3>2. P2[w] = IF w = x THEN z ELSE IF w = y THEN x ELSE IF w = two THEN y ELSE P[w]
        BY <1>7
      <3>3. two \notin {x, y, z} /\ three \notin {x, y, z} /\ x # z
        BY <1>4, <1>5
      <3>4. two = three => w # two
        BY <1>2, <1>4
      <3> QED
        BY <3>1, <3>2, <3>3, <3>4, <2>1
    <2> QED
      BY <2>2, <2>3
  \* The second rotation.
  <1>20. Rotated(L2, P2, L1, P1, z, d, x, three)
    <2>1. L2[z][d] = x /\ L2[z][1 - d] = L[z][1 - d]
      BY <1>1, <1>2, <1>5, <1>7
    <2>2. ASSUME NEW w \in Keys \ {z, x}, NEW s \in Sides
          PROVE  L1[w][s] = IF L2[w][s] = z THEN x ELSE L2[w][s]
      <3>1. CASE w = y
        <4>1. r # z /\ two # z
          BY <1>4
        <4>2. CASE s = d
          BY <3>1, <4>1, <4>2, <1>7, <1>14
        <4>3. CASE s = 1 - d
          BY <3>1, <4>1, <4>3, <1>7, <1>14
        <4> QED
          BY <4>2, <4>3, <1>1
      <3>2. CASE w # y
        <4>1. L[w][s] # y
          <5>1. \A a \in Keys, b \in Sides : L[a][b] = y => a = P[y]
            BY <1>2, <1>5, Led
          <5> QED
            BY <5>1, <1>5, <2>2
        <4>2. L2[w][s] = L[w][s]
          BY <4>1, <3>2, <2>2, <1>7
        <4> QED
          BY <4>2, <3>2, <2>2, <1>14
      <3> QED
        BY <3>1, <3>2
    <2> QED
      BY <2>1, <2>2, <1>2, <1>7, <1>13, <1>14, <1>19 DEF Rotated
  <1>21. RotatedTwice(L, P, L1, P1, x, y, z, d, two, three)
    BY <1>6, <1>20 DEF RotatedTwice
  <1> QED
    BY <1>9, <1>12, <1>15, <1>21 DEF TwiceLinks, TwiceParents

-----------------------------------------------------------------------------
(* Hanging a node in the tree. *)

\* x has the same neighbours as k, on the way down to it.
Between(N, sub, k, x) == \A y \in N : x \in sub[y] /\ y # x => (k < y <=> x < y)

Grown(L, P, L1, P1, k, x, s) ==
  /\ L1 \in Links /\ P1 \in Parents
  /\ L1[x][s] = k /\ \A w \in Keys, r \in Sides : w # x \/ r # s => L1[w][r] = L[w][r]
  /\ P1[k] = x /\ \A w \in Keys \ {k} : P1[w] = P[w]

LEMMA GrownHung ==
  ASSUME NEW N, NEW L, NEW P, NEW sub, Tree(N, L, P, sub), NEW k \in Keys \ N,
         NEW x \in N, NEW s \in Sides, L[x][s] = NoNode,
         NEW L1, NEW P1, Grown(L, P, L1, P1, k, x, s)
  PROVE  Hung(N \cup {k}, L1, P1)
  <1>1. N \subseteq Keys /\ NoNode \notin Keys /\ x \in Keys /\ x # k
    BY Ends
  <1>2. /\ \A w \in N, r \in Sides : L[w][r] # NoNode => L[w][r] \in N /\ P[L[w][r]] = w
        /\ \A w \in N : P[w] # NoNode => P[w] \in N /\ \E r \in Sides : L[P[w]][r] = w
        /\ \A w \in Keys \ N : P[w] = NoNode /\ \A r \in Sides : L[w][r] = NoNode
    BY DEF Tree, Hung
  <1>3. /\ L1[x][s] = k /\ \A w \in Keys, r \in Sides : w # x \/ r # s => L1[w][r] = L[w][r]
        /\ P1[k] = x /\ \A w \in Keys \ {k} : P1[w] = P[w]
    BY DEF Grown
  <1>4. ASSUME NEW w \in N \cup {k}, NEW r \in Sides, L1[w][r] # NoNode
        PROVE  L1[w][r] \in N \cup {k} /\ P1[L1[w][r]] = w
    <2>1. CASE w = x /\ r = s
      BY <2>1, <1>3
    <2>2. CASE w # x \/ r # s
      <3>1. L1[w][r] = L[w][r]
        BY <2>2, <1>1, <1>3
      <3>2. w \in N
        BY <3>1, <1>2, <1>4
      <3> QED
        BY <3>1, <3>2, <1>1, <1>2, <1>3, <1>4
    <2> QED
      BY <2>1, <2>2
  <1>5. ASSUME NEW w \in N \cup {k}, P1[w] # NoNode
        PROVE  P1[w] \in N \cup {k} /\ \E r \in Sides : L1[P1[w]][r] = w
    <2>1. CASE w = k
      BY <2>1, <1>3
    <2>2. CASE w # k
      <3>1. w \in N /\ P1[w] = P[w]
        BY <2>2, <1>1, <1>3
      <3>2. PICK r \in Sides : L[P[w]][r] = w
        BY <3>1, <1>2, <1>5
      <3>3. P[w] \in N
        BY <3>1, <1>2, <1>5
      <3>4. P[w] # x \/ r # s
        BY <3>1, <3>2, <1>1
      <3> QED
        BY <3>1, <3>2, <3>3, <3>4, <1>1, <1>3
    <2> QED
      BY <2>1, <2>2
  <1>6. ASSUME NEW w \in Keys \ (N \cup {k})
        PROVE  P1[w] = NoNode /\ \A r \in Sides : L1[w][r] = NoNode
    BY <1>6, <1>2, <1>3
  <1> QED
    BY <1>4, <1>5, <1>6 DEF Hung

LEMMA GrownSorted ==
  ASSUME NEW N, NEW L, NEW P, NEW sub, Tree(N, L, P, sub), NEW k \in Keys \ N,
         NEW x \in N, NEW s \in Sides, L[x][s] = NoNode, Toward(k, x) = s, Between(N, sub, k, x),
         NEW L1, NEW P1, Grown(L, P, L1, P1, k, x, s),
         NEW sub1, sub1[k] = {k},
         \A w \in N : sub1[w] = IF x \in sub[w] THEN sub[w] \cup {k} ELSE sub[w]
  PROVE  Sorted(N \cup {k}, L1, P1, sub1)
  <1>1. N \subseteq Keys /\ NoNode \notin Keys /\ x \in Keys /\ x # k /\ k \notin N /\ NoNode \notin N
        /\ N \subseteq Int /\ k \in Int
    <2>1. Keys \subseteq Int
      BY TreeAssumption DEF Keys
    <2> QED
      BY <2>1, Ends
  <1>2. /\ \A w \in N : sub[w] = {w} \cup Below(sub, L[w][0]) \cup Below(sub, L[w][1])
        /\ \A w \in N, r \in Sides : \A y \in Below(sub, L[w][r]) : Before(r, y, w)
        /\ \A w \in N : \A y \in sub[w] :
              y \in N /\ sub[y] \subseteq sub[w] /\ (y # w => P[y] # NoNode /\ P[y] \in sub[w])
        /\ \A w \in N : P[w] = NoNode => sub[w] = N
    BY DEF Tree, Sorted
  <1>3. /\ L1[x][s] = k /\ \A w \in Keys, r \in Sides : w # x \/ r # s => L1[w][r] = L[w][r]
        /\ P1[k] = x /\ \A w \in Keys \ {k} : P1[w] = P[w]
    BY DEF Grown
  <1>4. \A r \in Sides : L1[k][r] = NoNode
    BY <1>1, <1>3 DEF Tree, Hung
  <1>5. ASSUME NEW w \in N PROVE w \in sub[w] /\ sub[w] \subseteq N
    BY <1>2
  <1>6. ASSUME NEW w \in N, NEW r \in Sides
        PROVE  L[w][r] # NoNode => L[w][r] \in N
    BY DEF Tree, Hung
  <1>7. Below(sub, L[x][s]) = {} /\ Below(sub1, L1[x][s]) = {k} /\ Before(s, k, x)
    BY <1>1, <1>3 DEF Below, Before, Toward
  \* What is below a link grows by k if x is there.
  <1>8. ASSUME NEW w \in N, NEW r \in Sides, w # x \/ r # s
        PROVE  Below(sub1, L1[w][r]) =
                 IF x \in Below(sub, L[w][r]) THEN Below(sub, L[w][r]) \cup {k} ELSE Below(sub, L[w][r])
    <2>1. L1[w][r] = L[w][r]
      BY <1>1, <1>3, <1>8
    <2>2. CASE L[w][r] = NoNode
      BY <2>1, <2>2 DEF Below
    <2>3. CASE L[w][r] # NoNode
      BY <2>1, <2>3, <1>6 DEF Below
    <2> QED
      BY <2>2, <2>3
  <1>9. \A r \in Sides : x \notin Below(sub, L[x][r])
    BY Kin
  <1>10. ASSUME NEW w \in N \cup {k}
         PROVE  sub1[w] = {w} \cup Below(sub1, L1[w][0]) \cup Below(sub1, L1[w][1])
    <2>1. CASE w = k
      BY <2>1, <1>4 DEF Below, Sides
    <2>2. CASE w = x
      <3>1. \A r \in Sides : r # s => Below(sub1, L1[x][r]) = Below(sub, L[x][r])
        BY <1>8, <1>9
      <3>2. sub1[x] = sub[x] \cup {k} /\ sub[x] = {x} \cup Below(sub, L[x][0]) \cup Below(sub, L[x][1])
        BY <1>2, <1>5
      <3>3. s = 0 \/ s = 1
        BY DEF Sides
      <3> QED
        BY <2>2, <3>1, <3>2, <3>3, <1>7 DEF Sides
    <2>3. CASE w \notin {k, x}
      <3>1. w \in N
        BY <2>3
      <3>2. /\ Below(sub1, L1[w][0]) =
                 IF x \in Below(sub, L[w][0]) THEN Below(sub, L[w][0]) \cup {k} ELSE Below(sub, L[w][0])
            /\ Below(sub1, L1[w][1]) =
                 IF x \in Below(sub, L[w][1]) THEN Below(sub, L[w][1]) \cup {k} ELSE Below(sub, L[w][1])
        BY <2>3, <3>1, <1>8 DEF Sides
      <3>3. sub[w] = {w} \cup Below(sub, L[w][0]) \cup Below(sub, L[w][1])
        BY <3>1, <1>2
      <3>4. x \in sub[w] <=> x \in Below(sub, L[w][0]) \/ x \in Below(sub, L[w][1])
        BY <3>3, <2>3
      <3>5. sub1[w] = IF x \in sub[w] THEN sub[w] \cup {k} ELSE sub[w]
        BY <3>1
      <3> QED
        BY <3>2, <3>3, <3>4, <3>5
    <2> QED
      BY <2>1, <2>2, <2>3
  <1>11. ASSUME NEW w \in N \cup {k}, NEW r \in Sides, NEW y \in Below(sub1, L1[w][r])
         PROVE  Before(r, y, w)
    <2>1. w # k
      BY <1>4, <1>11 DEF Below
    <2>2. CASE w = x /\ r = s
      BY <2>2, <1>7, <1>11
    <2>3. CASE w # x \/ r # s
      <3>1. y \in Below(sub, L[w][r]) \/ (y = k /\ x \in Below(sub, L[w][r]))
        BY <2>1, <2>3, <1>8, <1>11
      <3>2. CASE y \in Below(sub, L[w][r])
        BY <2>1, <3>2, <1>2
      <3>3. CASE y = k /\ x \in Below(sub, L[w][r])
        <4>1. Before(r, x, w) /\ w \in N
          BY <2>1, <3>3, <1>2
        <4>2. x # w
          BY <3>3, <1>9
        <4>3. x \in sub[w]
          BY <3>3, <4>1, <1>2 DEF Sides
        <4>4. k < w <=> x < w
          BY <4>1, <4>2, <4>3 DEF Between
        <4>5. k # w /\ w \in Int /\ x \in Int /\ k \in Int
          BY <4>1, <1>1
        <4> QED
          BY <3>3, <4>1, <4>2, <4>4, <4>5 DEF Before
      <3> QED
        BY <3>1, <3>2, <3>3
    <2> QED
      BY <2>2, <2>3
  <1>12. ASSUME NEW w \in N \cup {k}, NEW y \in sub1[w]
         PROVE  y \in N \cup {k} /\ sub1[y] \subseteq sub1[w]
                /\ (y # w => P1[y] # NoNode /\ P1[y] \in sub1[w])
    <2>1. CASE w = k
      BY <2>1
    <2>2. CASE w # k /\ y = k
      <3>1. w \in N /\ x \in sub[w] /\ sub1[w] = sub[w] \cup {k}
        BY <2>2, <1>1, <1>5
      <3> QED
        BY <2>2, <3>1, <1>1, <1>3
    <2>3. CASE w # k /\ y # k
      <3>1. w \in N /\ y \in sub[w]
        BY <2>3
      <3>2. y \in N /\ sub[y] \subseteq sub[w] /\ (y # w => P[y] # NoNode /\ P[y] \in sub[w])
        BY <3>1, <1>2
      <3>3. P1[y] = P[y]
        BY <3>2, <2>3, <1>1, <1>3
      <3>4. sub[w] \subseteq sub1[w] /\ (x \in sub[y] => k \in sub1[w])
        BY <3>1, <3>2
      <3> QED
        BY <3>2, <3>3, <3>4
    <2> QED
      BY <2>1, <2>2, <2>3
  <1>13. ASSUME NEW w \in N \cup {k}, P1[w] = NoNode PROVE sub1[w] = N \cup {k}
    <2>1. w # k /\ w \in N /\ P[w] = NoNode
      BY <1>1, <1>3, <1>13
    <2> QED
      BY <2>1, <1>2
  <1> QED
    BY <1>10, <1>11, <1>12, <1>13 DEF Sorted

\* A node hung under another where the search for it ends.
LEMMA HungUnder ==
  ASSUME NEW N, NEW L, NEW P, NEW sub, Tree(N, L, P, sub), NEW k \in Keys \ N,
         NEW x \in N, NEW s \in Sides, L[x][s] = NoNode, Toward(k, x) = s, Between(N, sub, k, x),
         NEW R, Coloured(N, P, R, NoNode), NEW height, Balanced(N, L, R, height)
  PROVE  LET L1 == [L EXCEPT ![x][s] = k]
             P1 == [P EXCEPT ![k] = x]
             R1 == [R EXCEPT ![k] = TRUE]
         IN  /\ \E sub1 \in Subtrees : Tree(N \cup {k}, L1, P1, sub1)
             /\ Coloured(N \cup {k}, P1, R1, k)
             /\ \E height1 \in [Node -> Nat] : Balanced(N \cup {k}, L1, R1, height1)
  <1>1. N \subseteq Keys /\ N \subseteq Node /\ NoNode \notin Keys /\ x \in Keys /\ x # k /\ k \notin N
        /\ k \in Node /\ L \in Links /\ P \in Parents /\ sub \in Subtrees
    BY Ends DEF Tree, Node
  <1>2. PICK L1, P1, R1 : /\ L1 = [L EXCEPT ![x][s] = k] /\ P1 = [P EXCEPT ![k] = x]
                          /\ R1 = [R EXCEPT ![k] = TRUE]
    OBVIOUS
  <1>3. Grown(L, P, L1, P1, k, x, s)
    <2>1. SetTo(L, x, s, k) \in Links /\ SetTo(L, x, s, k)[x][s] = k
         /\ \A w \in Keys, r \in Sides : w # x \/ r # s => SetTo(L, x, s, k)[w][r] = L[w][r]
      BY <1>1, SetLink
    <2>2. SetTo(L, x, s, k) = L1
      BY <1>2 DEF SetTo
    <2>3. P1 \in Parents /\ P1[k] = x /\ \A w \in Keys \ {k} : P1[w] = P[w]
      BY <1>1, <1>2 DEF Parents, Node
    <2> QED
      BY <2>1, <2>2, <2>3 DEF Grown
  <1>4. \E sub1 \in Subtrees : Tree(N \cup {k}, L1, P1, sub1)
    <2> DEFINE sub1 == [w \in Keys |-> IF w = k THEN {k}
                                       ELSE IF w \in N /\ x \in sub[w] THEN sub[w] \cup {k} ELSE sub[w]]
    <2>1. sub1 \in Subtrees
      BY <1>1 DEF Subtrees
    <2>2. sub1[k] = {k} /\ \A w \in N : sub1[w] = IF x \in sub[w] THEN sub[w] \cup {k} ELSE sub[w]
      BY <1>1
    <2> HIDE DEF sub1
    <2>3. Sorted(N \cup {k}, L1, P1, sub1)
      BY <1>3, <2>2, GrownSorted, ZenonT(60)
    <2>4. Hung(N \cup {k}, L1, P1)
      BY <1>3, GrownHung
    <2> QED
      BY <2>1, <2>3, <2>4, <1>1, <1>3 DEF Tree, Grown
  <1>5. R \in [Keys -> BOOLEAN] /\ R1 \in [Keys -> BOOLEAN] /\ R1[k]
        /\ \A w \in Keys \ {k} : R1[w] = R[w]
    BY <1>2 DEF Coloured
  <1>6. Coloured(N \cup {k}, P1, R1, k)
    <2>1. ASSUME NEW w \in N \cup {k}, R1[w], w # k PROVE P1[w] # NoNode /\ ~R1[P1[w]]
      <3>1. w \in N /\ P1[w] = P[w] /\ R[w]
        BY <2>1, <1>1, <1>3, <1>5 DEF Grown
      <3>2. P[w] # NoNode /\ ~R[P[w]]
        BY <3>1, <1>1 DEF Coloured
      <3>3. P[w] \in N
        BY <3>1, <3>2 DEF Tree, Hung
      <3> QED
        BY <3>1, <3>2, <3>3, <1>1, <1>5
    <2> QED
      BY <2>1, <1>5 DEF Coloured
  <1>7. \E height1 \in [Node -> Nat] : Balanced(N \cup {k}, L1, R1, height1)
    <2> DEFINE h1 == [w \in Node |-> IF w = k THEN 0 ELSE height[w]]
    <2>1. height \in [Node -> Nat] /\ height[NoNode] = 0 /\ NoNode \in Node
      BY DEF Balanced, Node
    <2>2. h1 \in [Node -> Nat] /\ h1[NoNode] = 0 /\ h1[k] = 0 /\ \A w \in Node \ {k} : h1[w] = height[w]
      BY <2>1, <1>1
    <2> HIDE DEF h1
    <2>3. \A r \in Sides : L1[k][r] = NoNode
      <3>1. \A r \in Sides : L[k][r] = NoNode
        BY DEF Tree, Hung
      <3> QED
        BY <3>1, <1>1, <1>3 DEF Grown
    <2>4. ASSUME NEW w \in N, NEW r \in Sides PROVE h1[L1[w][r]] = height[L[w][r]]
      <3>1. CASE w = x /\ r = s
        BY <3>1, <2>1, <2>2, <1>3 DEF Grown
      <3>2. CASE w # x \/ r # s
        <4>1. L1[w][r] = L[w][r]
          BY <3>2, <1>1, <1>3 DEF Grown
        <4>2. L[w][r] # NoNode => L[w][r] \in N
          BY DEF Tree, Hung
        <4> QED
          BY <4>1, <4>2, <2>1, <2>2, <1>1
      <3> QED
        BY <3>1, <3>2
    <2>5. ASSUME NEW w \in N \cup {k}
          PROVE  /\ h1[L1[w][0]] = h1[L1[w][1]]
                 /\ h1[w] = h1[L1[w][0]] + (IF R1[w] THEN 0 ELSE 1)
      <3>1. CASE w = k
        BY <3>1, <2>2, <2>3, <1>5 DEF Sides
      <3>2. CASE w # k
        <4>1. h1[L1[w][0]] = height[L[w][0]] /\ h1[L1[w][1]] = height[L[w][1]]
          BY <3>2, <2>4 DEF Sides
        <4>2. h1[w] = height[w] /\ R1[w] = R[w] /\ w \in N
          BY <3>2, <1>1, <1>5, <2>2
        <4>3. height[L[w][0]] = height[L[w][1]] /\ height[w] = height[L[w][0]] + (IF R[w] THEN 0 ELSE 1)
          BY <4>2 DEF Balanced
        <4> QED
          BY <4>1, <4>2, <4>3
      <3> QED
        BY <3>1, <3>2
    <2>6. Balanced(N \cup {k}, L1, R1, h1)
      BY <2>2, <2>5 DEF Balanced
    <2> QED
      BY <2>2, <2>6
  <1> QED
    BY <1>2, <1>4, <1>6, <1>7

\* The first node.
LEMMA HungFirst ==
  ASSUME NEW L, NEW P, NEW sub, Tree({}, L, P, sub), NEW k \in Keys,
         NEW R, Coloured({}, P, R, NoNode), NEW height, Balanced({}, L, R, height),
         NEW R1, R1 = [R EXCEPT ![k] = TRUE]
  PROVE  /\ \E sub1 \in Subtrees : Tree({k}, L, P, sub1)
         /\ Coloured({k}, P, R1, k)
         /\ \E height1 \in [Node -> Nat] : Balanced({k}, L, R1, height1)
  <1>1. NoNode \notin Keys /\ L \in Links /\ P \in Parents /\ sub \in Subtrees
        /\ \A w \in Keys : P[w] = NoNode /\ \A r \in Sides : L[w][r] = NoNode
    BY TreeAssumption DEF Tree, Hung
  <1>2. PICK sub1 : sub1 = [w \in Keys |-> {w}]
    OBVIOUS
  <1>3. Tree({k}, L, P, sub1)
    <2>1. sub1 \in Subtrees /\ sub1[k] = {k}
      BY <1>2 DEF Subtrees
    <2>2. Hung({k}, L, P)
      BY <1>1 DEF Hung
    <2>3. Sorted({k}, L, P, sub1)
      BY <1>1, <2>1 DEF Sorted, Below, Sides
    <2> QED
      BY <1>1, <2>1, <2>2, <2>3 DEF Tree
  <1>4. R1 \in [Keys -> BOOLEAN] /\ R1[k] /\ Coloured({k}, P, R1, k)
    BY <1>1 DEF Coloured
  <1>5. PICK height1 \in [Node -> Nat] : height1 = [w \in Node |-> 0]
    OBVIOUS
  <1>6. Balanced({k}, L, R1, height1)
    <2>1. height1[NoNode] = 0 /\ height1[k] = 0
      BY <1>5 DEF Node
    <2> QED
      BY <2>1, <1>1, <1>4 DEF Balanced, Sides
  <1>7. sub1 \in Subtrees
    BY <1>2 DEF Subtrees
  <1> QED
    BY <1>3, <1>4, <1>5, <1>6, <1>7

-----------------------------------------------------------------------------
(* The way down. *)

LEMMA Sizes ==
  ASSUME NEW N, NEW L, NEW P, NEW sub, Tree(N, L, P, sub)
  PROVE  /\ IsFiniteSet(N) /\ Cardinality(N) \in 0..(MaxKey + 1)
         /\ \A x \in N, s \in Sides :
              /\ Cardinality(sub[x]) \in 1..(MaxKey + 1)
              /\ Cardinality(Below(sub, L[x][s])) \in Nat
              /\ Cardinality(sub[x]) = 1 + Cardinality(Below(sub, L[x][s]))
                                         + Cardinality(Below(sub, L[x][1 - s]))
  <1>1. MaxKey \in Nat /\ IsFiniteSet(Keys) /\ Cardinality(Keys) = MaxKey + 1
    <2>1. MaxKey \in Nat
      BY TreeAssumption
    <2>2. IsFiniteSet(0..MaxKey) /\ Cardinality(0..MaxKey) = IF 0 > MaxKey THEN 0 ELSE MaxKey - 0 + 1
      BY <2>1, FS_Interval
    <2> QED
      BY <2>1, <2>2 DEF Keys
  <1>2. ASSUME NEW S \in SUBSET N
        PROVE  IsFiniteSet(S) /\ Cardinality(S) \in Nat /\ Cardinality(S) <= MaxKey + 1
    <2>1. S \in SUBSET Keys
      BY Ends
    <2>2. IsFiniteSet(S) /\ Cardinality(S) <= Cardinality(Keys)
      BY <2>1, <1>1, FS_Subset
    <2>3. Cardinality(S) \in Nat
      BY <2>2, FS_CardinalityType
    <2> QED
      BY <2>2, <2>3, <1>1
  <1>3. ASSUME NEW x \in N, NEW s \in Sides
        PROVE  /\ Cardinality(sub[x]) \in 1..(MaxKey + 1)
               /\ Cardinality(Below(sub, L[x][s])) \in Nat
               /\ Cardinality(sub[x]) = 1 + Cardinality(Below(sub, L[x][s]))
                                          + Cardinality(Below(sub, L[x][1 - s]))
    <2>1. PICK A, B : A = Below(sub, L[x][s]) /\ B = Below(sub, L[x][1 - s])
      OBVIOUS
    <2>2. sub[x] = (A \cup B) \cup {x} /\ sub[x] \subseteq N /\ x \notin A /\ x \notin B
          /\ (\A y \in A : Before(s, y, x)) /\ (\A y \in B : Before(1 - s, y, x))
      <3>1. 1 - s \in Sides
        BY DEF Sides
      <3>2. /\ sub[x] = {x} \cup Below(sub, L[x][s]) \cup Below(sub, L[x][1 - s])
            /\ sub[x] \subseteq N /\ x \notin Below(sub, L[x][s])
            /\ \A y \in Below(sub, L[x][s]) : Before(s, y, x)
        BY Kin
      <3>3. /\ x \notin Below(sub, L[x][1 - s])
            /\ \A y \in Below(sub, L[x][1 - s]) : Before(1 - s, y, x)
        BY <3>1, Kin
      <3> QED
        BY <2>1, <3>2, <3>3
    <2>3. A \cap B = {}
      <3>1. N \subseteq Int
        BY Ends
      <3>2. ASSUME NEW y \in A \cap B PROVE FALSE
        <4>1. Before(s, y, x) /\ Before(1 - s, y, x) /\ y \in Int /\ x \in Int
          BY <3>1, <3>2, <2>2
        <4> QED
          BY <4>1 DEF Before, Sides
      <3> QED
        BY <3>2
    <2>4. /\ IsFiniteSet(A) /\ IsFiniteSet(B) /\ Cardinality(A) \in Nat /\ Cardinality(B) \in Nat
          /\ Cardinality(sub[x]) <= MaxKey + 1
      <3>1. A \in SUBSET N /\ B \in SUBSET N /\ sub[x] \in SUBSET N
        BY <2>2
      <3> QED
        BY <3>1, <1>2
    <2>5. IsFiniteSet(A \cup B) /\ Cardinality(A \cup B) = Cardinality(A) + Cardinality(B)
      <3>1. Cardinality(A \cap B) = 0
        BY <2>3, FS_EmptySet
      <3>2. IsFiniteSet(A \cup B)
            /\ Cardinality(A \cup B) = Cardinality(A) + Cardinality(B) - Cardinality(A \cap B)
        BY <2>4, FS_Union
      <3> QED
        BY <3>1, <3>2, <2>4
    <2>6. Cardinality(sub[x]) = Cardinality(A) + Cardinality(B) + 1
      <3>1. Cardinality((A \cup B) \cup {x}) = Cardinality(A \cup B) + 1
        BY <2>2, <2>5, FS_AddElement
      <3> QED
        BY <3>1, <2>2, <2>5
    <2> QED
      BY <2>1, <2>4, <2>6, <1>1
  <1>4. IsFiniteSet(N) /\ Cardinality(N) \in 0..(MaxKey + 1)
    BY <1>1, <1>2
  <1> QED
    BY <1>3, <1>4

\* The search for k from the top.
Descends(W, L, top, k) ==
  /\ W \in [Keys -> Node] /\ W[0] = top
  /\ \A i \in 1..MaxKey :
       W[i] = IF W[i - 1] = NoNode \/ W[i - 1] = k THEN W[i - 1]
              ELSE L[W[i - 1]][Toward(k, W[i - 1])]

\* As far as it comes, each node has k on the side it goes on to.
LEMMA DescentBetween ==
  ASSUME NEW N, NEW L, NEW P, NEW sub, Tree(N, L, P, sub), NEW top \in N, P[top] = NoNode,
         NEW k \in Keys, NEW W, Descends(W, L, top, k)
  PROVE  \A i \in Keys : W[i] # NoNode =>
           W[i] \in N /\ Between(N, sub, k, W[i])
  <1> DEFINE Good(x) == x # NoNode => x \in N /\ Between(N, sub, k, x)
  <1> DEFINE T == {i \in Keys : Good(W[i])}
  <1>1. MaxKey \in Nat /\ Keys = 0..MaxKey /\ NoNode \notin N /\ N \subseteq Int /\ k \in Int
    BY TreeAssumption, Ends DEF Keys
  <1>2. Good(top)
    <2>1. \A y \in N : top \in sub[y] => top = y
      BY DEF Tree, Sorted
    <2> QED
      BY <2>1 DEF Between
  <1>3. ASSUME NEW x \in N, x # k, Between(N, sub, k, x) PROVE Good(L[x][Toward(k, x)])
    <2>1. PICK c, s : c = L[x][Toward(k, x)] /\ s = Toward(k, x)
      OBVIOUS
    <2>2. SUFFICES ASSUME c # NoNode PROVE c \in N /\ Between(N, sub, k, c)
      BY <2>1
    <2>3. s \in Sides /\ L[x][s] = c /\ x \in Int
      BY <2>1, <1>1 DEF Toward, Sides
    <2>4. c \in N /\ P[c] = x /\ Before(s, c, x) /\ c \in Below(sub, c) /\ c # x
      BY <2>2, <2>3, Kin
    <2>5. c \in sub[c] /\ c \in Int
      BY <2>2, <2>4, <1>1 DEF Below
    <2>6. ASSUME NEW y \in N, c \in sub[y], y # c PROVE k < y <=> c < y
      <3>1. x \in sub[y]
        BY <2>4, <2>6 DEF Tree, Sorted
      <3>2. CASE y = x
        BY <2>1, <2>3, <2>4, <2>5, <1>1, <1>3, <3>2 DEF Before, Toward
      <3>3. CASE y # x
        <4>1. k < y <=> x < y
          BY <3>1, <3>3, <1>3 DEF Between
        <4>2. PICK r \in Sides : x \in Below(sub, L[y][r])
          <5>1. sub[y] = {y} \cup Below(sub, L[y][0]) \cup Below(sub, L[y][1])
            BY DEF Tree, Sorted
          <5> QED
            BY <5>1, <3>1, <3>3 DEF Sides
        <4>3. c \in Below(sub, L[y][r])
          <5>1. L[y][r] \in N /\ x \in sub[L[y][r]]
            BY <4>2 DEF Below, Tree, Hung
          <5>2. sub[x] \subseteq sub[L[y][r]]
            BY <5>1 DEF Tree, Sorted
          <5>3. c \in sub[x]
            <6>1. sub[x] = {x} \cup Below(sub, L[x][s]) \cup Below(sub, L[x][1 - s])
              BY <2>3, Kin
            <6> QED
              BY <6>1, <2>3, <2>4
          <5> QED
            BY <5>1, <5>2, <5>3, <1>1 DEF Below
        <4>4. Before(r, x, y) /\ Before(r, c, y)
          BY <4>2, <4>3 DEF Tree, Sorted
        <4>5. y \in Int
          BY <1>1
        <4> QED
          BY <4>1, <4>4, <4>5, <2>3, <2>5 DEF Before
      <3> QED
        BY <3>2, <3>3
    <2> QED
      BY <2>4, <2>6 DEF Between
  <1> HIDE DEF Good
  <1>4. 0 \in T
    BY <1>1, <1>2 DEF Descends
  <1>5. ASSUME NEW i \in 1..MaxKey, i - 1 \in T PROVE i \in T
    <2>1. i \in Keys /\ Good(W[i - 1])
      BY <1>1, <1>5
    <2>2. W[i] = IF W[i - 1] = NoNode \/ W[i - 1] = k THEN W[i - 1]
                 ELSE L[W[i - 1]][Toward(k, W[i - 1])]
      BY DEF Descends
    <2>3. CASE W[i - 1] = NoNode \/ W[i - 1] = k
      BY <2>1, <2>2, <2>3
    <2>4. CASE ~(W[i - 1] = NoNode \/ W[i - 1] = k)
      <3>1. W[i - 1] \in N /\ Between(N, sub, k, W[i - 1]) /\ W[i - 1] # k
        BY <2>1, <2>4 DEF Good
      <3> QED
        BY <3>1, <2>1, <2>2, <2>4, <1>3
    <2> QED
      BY <2>3, <2>4
  <1>6. Keys \subseteq T
    <2> HIDE DEF T
    <2> QED
      BY <1>1, <1>4, <1>5, StepByStep
  <1> QED
    BY <1>6 DEF Good

LEMMA Shrinks ==
  ASSUME NEW N, NEW L, NEW P, NEW sub, Tree(N, L, P, sub), NEW x \in N, NEW s \in Sides,
         L[x][s] # NoNode
  PROVE  /\ Cardinality(sub[L[x][s]]) \in 1..(MaxKey + 1)
         /\ Cardinality(sub[x]) \in 1..(MaxKey + 1)
         /\ Cardinality(sub[L[x][s]]) + 1 <= Cardinality(sub[x])
  <1>1. L[x][s] \in N /\ Below(sub, L[x][s]) = sub[L[x][s]]
    BY DEF Tree, Hung, Below
  <1>2. 1 - s \in Sides /\ 1 - (1 - s) = s
    BY DEF Sides
  <1>3. /\ Cardinality(sub[x]) \in 1..(MaxKey + 1)
        /\ Cardinality(Below(sub, L[x][1 - s])) \in Nat
        /\ Cardinality(sub[x]) = 1 + Cardinality(Below(sub, L[x][s]))
                                   + Cardinality(Below(sub, L[x][1 - s]))
    BY <1>2, Sizes
  <1>4. Cardinality(sub[L[x][s]]) \in 1..(MaxKey + 1)
    BY <1>1, Sizes
  <1> QED
    BY <1>1, <1>3, <1>4

\* The search for what is not there ends at a link that is free.
LEMMA DescentEnds ==
  ASSUME NEW N, NEW L, NEW P, NEW sub, Tree(N, L, P, sub), NEW top \in N,
         NEW k \in Keys \ N, NEW W, Descends(W, L, top, k)
  PROVE  \E i \in Keys : W[i] \in N /\ L[W[i]][Toward(k, W[i])] = NoNode
  <1> SUFFICES ASSUME \A i \in Keys : W[i] \in N => L[W[i]][Toward(k, W[i])] # NoNode
               PROVE  FALSE
    OBVIOUS
  <1>1. MaxKey \in Nat /\ Keys = 0..MaxKey /\ NoNode \notin N
    BY TreeAssumption, Ends DEF Keys
  <1> DEFINE T == {i \in Keys : W[i] \in N /\ Cardinality(sub[W[i]]) <= MaxKey + 1 - i}
  <1>2. ASSUME NEW x \in N
        PROVE  /\ Toward(k, x) \in Sides /\ Cardinality(sub[x]) \in 1..(MaxKey + 1)
               /\ L[x][Toward(k, x)] # NoNode =>
                    /\ L[x][Toward(k, x)] \in N
                    /\ Cardinality(sub[L[x][Toward(k, x)]]) \in 1..(MaxKey + 1)
                    /\ Cardinality(sub[L[x][Toward(k, x)]]) + 1 <= Cardinality(sub[x])
    <2>1. Toward(k, x) \in Sides
      BY DEF Toward, Sides
    <2>2. Cardinality(sub[x]) \in 1..(MaxKey + 1)
      BY <2>1, Sizes
    <2>3. L[x][Toward(k, x)] # NoNode => L[x][Toward(k, x)] \in N
      BY <2>1 DEF Tree, Hung
    <2> QED
      BY <2>1, <2>2, <2>3, Shrinks
  <1>3. 0 \in T
    <2>1. W[0] = top
      BY DEF Descends
    <2> QED
      BY <2>1, <1>1, <1>2
  <1>4. ASSUME NEW i \in 1..MaxKey, i - 1 \in T PROVE i \in T
    <2>1. i \in Keys /\ i - 1 \in Keys /\ W[i - 1] \in N /\ Cardinality(sub[W[i - 1]]) <= MaxKey + 1 - (i - 1)
      BY <1>1, <1>4
    <2>2. W[i] = L[W[i - 1]][Toward(k, W[i - 1])] /\ W[i] # NoNode
      BY <2>1, <1>1 DEF Descends
    <2>3. W[i] \in N /\ Cardinality(sub[W[i]]) + 1 <= Cardinality(sub[W[i - 1]])
          /\ Cardinality(sub[W[i]]) \in Int /\ Cardinality(sub[W[i - 1]]) \in Int
      BY <2>1, <2>2, <1>2
    <2> QED
      BY <2>1, <2>3, <1>1
  <1>5. MaxKey \in T
    <2> HIDE DEF T
    <2>1. 0..MaxKey \subseteq T
      BY <1>1, <1>3, <1>4, StepByStep
    <2> QED
      BY <2>1, <1>1
  <1>6. W[MaxKey] \in N /\ Cardinality(sub[W[MaxKey]]) <= 1 /\ MaxKey \in Keys
    BY <1>1, <1>5
  <1>7. Cardinality(sub[L[W[MaxKey]][Toward(k, W[MaxKey])]]) + 1 <= Cardinality(sub[W[MaxKey]])
        /\ Cardinality(sub[W[MaxKey]]) \in 1..(MaxKey + 1)
        /\ Cardinality(sub[L[W[MaxKey]][Toward(k, W[MaxKey])]]) \in 1..(MaxKey + 1)
    BY <1>2, <1>6
  <1> QED
    BY <1>6, <1>7, <1>1

\* The search for what is there comes to it, while the subtrees shrink.
LEMMA DescentFinds ==
  ASSUME NEW N, NEW L, NEW P, NEW sub, Tree(N, L, P, sub), NEW top \in N, P[top] = NoNode,
         NEW k \in N, NEW W, Descends(W, L, top, k)
  PROVE  /\ \A i \in Keys : W[i] \in N /\ k \in sub[W[i]]
         /\ W[MaxKey] = k
  <1>1. MaxKey \in Nat /\ Keys = 0..MaxKey /\ NoNode \notin N /\ N \subseteq Int /\ k \in Int
    BY TreeAssumption, Ends DEF Keys
  <1> DEFINE T == {i \in Keys : /\ W[i] \in N /\ k \in sub[W[i]]
                                /\ W[i] = k \/ Cardinality(sub[W[i]]) <= MaxKey + 1 - i}
  <1>2. ASSUME NEW x \in N, k \in sub[x], x # k
        PROVE  /\ L[x][Toward(k, x)] \in N /\ k \in sub[L[x][Toward(k, x)]]
               /\ Cardinality(sub[L[x][Toward(k, x)]]) \in 1..(MaxKey + 1)
               /\ Cardinality(sub[x]) \in 1..(MaxKey + 1)
               /\ Cardinality(sub[L[x][Toward(k, x)]]) + 1 <= Cardinality(sub[x])
    <2>1. PICK r \in Sides : k \in Below(sub, L[x][r])
      <3>1. sub[x] = {x} \cup Below(sub, L[x][0]) \cup Below(sub, L[x][1])
        BY DEF Tree, Sorted
      <3> QED
        BY <3>1, <1>2 DEF Sides
    <2>2. r = Toward(k, x)
      <3>1. Before(r, k, x) /\ x \in Int
        BY <2>1, <1>1 DEF Tree, Sorted
      <3> QED
        BY <3>1, <1>1 DEF Before, Toward, Sides
    <2>3. L[x][r] # NoNode /\ k \in sub[L[x][r]]
      BY <2>1 DEF Below
    <2>4. L[x][r] \in N
      BY <2>3 DEF Tree, Hung
    <2> QED
      BY <2>2, <2>3, <2>4, Shrinks
  <1>3. 0 \in T
    <2>1. W[0] = top
      BY DEF Descends
    <2>2. sub[top] = N /\ 0 \in Sides
      BY DEF Tree, Sorted, Sides
    <2>3. Cardinality(sub[top]) \in 1..(MaxKey + 1)
      BY <2>2, Sizes
    <2> QED
      BY <2>1, <2>2, <2>3, <1>1
  <1>4. ASSUME NEW i \in 1..MaxKey, i - 1 \in T PROVE i \in T
    <2>1. i \in Keys /\ i - 1 \in Keys /\ W[i - 1] \in N /\ k \in sub[W[i - 1]]
          /\ (W[i - 1] = k \/ Cardinality(sub[W[i - 1]]) <= MaxKey + 1 - (i - 1))
      BY <1>1, <1>4
    <2>2. W[i] = IF W[i - 1] = NoNode \/ W[i - 1] = k THEN W[i - 1]
                 ELSE L[W[i - 1]][Toward(k, W[i - 1])]
      BY DEF Descends
    <2>3. CASE W[i - 1] = k
      BY <2>1, <2>2, <2>3
    <2>4. CASE W[i - 1] # k
      <3>1. W[i] = L[W[i - 1]][Toward(k, W[i - 1])]
        BY <2>1, <2>2, <2>4, <1>1
      <3>2. /\ W[i] \in N /\ k \in sub[W[i]]
            /\ Cardinality(sub[W[i]]) + 1 <= Cardinality(sub[W[i - 1]])
            /\ Cardinality(sub[W[i]]) \in Int /\ Cardinality(sub[W[i - 1]]) \in Int
        BY <3>1, <2>1, <2>4, <1>2
      <3> QED
        BY <3>2, <2>1, <2>4, <1>1
    <2> QED
      BY <2>3, <2>4
  <1>5. Keys \subseteq T
    <2> HIDE DEF T
    <2> QED
      BY <1>1, <1>3, <1>4, StepByStep
  <1>6. W[MaxKey] = k
    <2>1. MaxKey \in Keys
      BY <1>1
    <2>2. W[MaxKey] \in N /\ k \in sub[W[MaxKey]]
          /\ (W[MaxKey] = k \/ Cardinality(sub[W[MaxKey]]) <= 1)
      BY <2>1, <1>1, <1>5
    <2>3. W[MaxKey] # k => FALSE
      <3>1. W[MaxKey] # k =>
              /\ Cardinality(sub[L[W[MaxKey]][Toward(k, W[MaxKey])]]) \in 1..(MaxKey + 1)
              /\ Cardinality(sub[W[MaxKey]]) \in 1..(MaxKey + 1)
              /\ Cardinality(sub[L[W[MaxKey]][Toward(k, W[MaxKey])]]) + 1 <= Cardinality(sub[W[MaxKey]])
        BY <2>2, <1>2
      <3> QED
        BY <3>1, <2>2, <1>1
    <2> QED
      BY <2>3
  <1> QED
    BY <1>5, <1>6

LEMMA WalkDescends ==
  ASSUME TypeOK, NEW k \in Keys
  PROVE  Descends(Walk(k), link, root, k)
  <1> DEFINE Step(x) == IF x = NoNode \/ x = k THEN x ELSE link[x][Toward(k, x)]
  <1> DEFINE From(W, i) == IF i = 0 THEN root ELSE W[i - 1]
  <1> DEFINE Turn(W, i) == IF i = 0 \/ From(W, i) = NoNode \/ From(W, i) = k THEN From(W, i)
                           ELSE link[From(W, i)][Toward(k, From(W, i))]
  <1> DEFINE walk == CHOOSE W : W = [i \in Keys |-> Turn(W, i)]
  <1>1. MaxKey \in Nat /\ Keys = 0..MaxKey /\ root \in Node
        /\ \A x \in Node : Step(x) \in Node
    <2>1. MaxKey \in Nat /\ Keys = 0..MaxKey
      BY TreeAssumption DEF Keys
    <2>2. \A x \in Node : Toward(k, x) \in Sides
      BY DEF Toward, Sides
    <2> QED
      BY <2>1, <2>2 DEF TypeOK, Node
  <1>2. Walk(k) = walk
    BY DEF Walk
  <1>3. PICK f \in [0..MaxKey -> Node] : f[0] = root /\ \A i \in 1..MaxKey : f[i] = Step(f[i - 1])
    <2> DEFINE step == [a \in (1..MaxKey) \X Node |-> Step(a[2])]
    <2>1. step \in [(1..MaxKey) \X Node -> Node]
      <3> HIDE DEF Step
      <3> QED
        BY <1>1
    <2>2. \A i \in 1..MaxKey, x \in Node : step[<<i, x>>] = Step(x)
      OBVIOUS
    <2> HIDE DEF step
    <2>3. PICK f \in [0..MaxKey -> Node] : Loop(f, MaxKey, root, step)
      BY <1>1, <2>1, LoopExists
    <2>4. \A i \in 1..MaxKey : f[i - 1] \in Node
      BY <1>1
    <2> HIDE DEF Step
    <2> QED
      BY <2>2, <2>3, <2>4 DEF Loop
  <1>4. f = [i \in Keys |-> Turn(f, i)]
    <2>1. ASSUME NEW i \in Keys PROVE f[i] = Turn(f, i)
      <3>1. CASE i = 0
        BY <3>1, <1>3
      <3>2. CASE i # 0
        <4>1. i \in 1..MaxKey /\ From(f, i) = f[i - 1]
          BY <3>2, <1>1
        <4> QED
          BY <4>1, <3>2, <1>3
      <3> QED
        BY <3>1, <3>2
    <2> HIDE DEF Turn
    <2> QED
      BY <2>1, <1>1
  <1>5. walk = [i \in Keys |-> Turn(walk, i)]
    <2> HIDE DEF Turn
    <2> QED
      BY <1>4
  <1> HIDE DEF walk
  <1>6. walk[0] = root
    BY <1>1, <1>5
  <1>7. ASSUME NEW i \in 1..MaxKey PROVE walk[i] = Step(walk[i - 1])
    <2>1. i \in Keys /\ i # 0 /\ From(walk, i) = walk[i - 1]
      BY <1>1
    <2>2. walk[i] = Turn(walk, i)
      <3> HIDE DEF Turn, From
      <3> QED
        BY <2>1, <1>5
    <2> QED
      BY <2>1, <2>2
  <1>8. \A i \in Keys : walk[i] \in Node
    <2> DEFINE T == {i \in Keys : walk[i] \in Node}
    <2>1. 0 \in T
      BY <1>1, <1>6
    <2>2. ASSUME NEW i \in 1..MaxKey, i - 1 \in T PROVE i \in T
      <3> HIDE DEF Step
      <3> QED
        BY <2>2, <1>1, <1>7
    <2>3. Keys \subseteq T
      <3> HIDE DEF T
      <3> QED
        BY <1>1, <2>1, <2>2, StepByStep
    <2> QED
      BY <2>3
  <1>9. walk \in [Keys -> Node]
    <2> HIDE DEF Turn
    <2> QED
      BY <1>5, <1>8
  <1> QED
    BY <1>2, <1>6, <1>7, <1>9 DEF Descends

-----------------------------------------------------------------------------
(* Each step. *)

LEMMA RotatedTop ==
  ASSUME NEW N, NEW L, NEW P, NEW sub, Tree(N, L, P, sub), NEW x \in N, NEW d \in Sides,
         NEW L1, NEW P1, NEW c, NEW t, Rotated(L, P, L1, P1, x, d, c, t)
  PROVE  P1[c] = P[x] /\ \A w \in N : w # x /\ P[w] = NoNode => P1[w] = NoNode
  <1>1. /\ c \in Keys /\ N \subseteq Keys /\ NoNode \notin N /\ P[c] = x
        /\ t # NoNode => P[t] = c
        /\ c \in N
    BY Around, Ends
  <1> QED
    BY <1>1 DEF Rotated

LEMMA OnceSound ==
  ASSUME NEW N, NEW L, NEW P, NEW R, NEW x, Sound(N, L, P, R, x), x # NoNode, P[x] # NoNode, R[P[x]],
         NEW y, P[x] = y, NEW z, P[y] = z, NEW d, Side(L, y, z) = d,
         NEW v, L[z][1 - d] = v, ~(v # NoNode /\ R[v]), L[y][d] = x,
         NEW t, L[y][1 - d] = t,
         NEW R1, [R EXCEPT ![z] = TRUE, ![y] = FALSE] = R1,
         NEW L1, Led_to(L, [L EXCEPT ![z][d] = t, ![y][1 - d] = z], P, z, y) = L1,
         NEW P1, Adopt([P EXCEPT ![y] = P[z], ![z] = y], t, z) = P1
  PROVE  /\ Sound(N, L1, P1, R1, NoNode)
         /\ y \in N /\ y # x /\ P1[y] = P[z]
         /\ \A w \in N : w # z /\ P[w] = NoNode => P1[w] = NoNode
  <1>1. PICK sub : Tree(N, L, P, sub)
    BY DEF Sound
  <1>2. PICK height : Balanced(N, L, R, height)
    BY DEF Sound
  <1>3. Coloured(N, P, R, x)
    BY DEF Sound
  <1>4. Corner(N, L, P, R, x, y, z, d, v)
    BY <1>1, <1>3, RedParent
  <1>5. /\ y \in N /\ z \in N /\ d \in Sides /\ L[z][d] = y /\ y # NoNode /\ y # x
    BY <1>1, <1>4, Ends DEF Corner
  <1>6. Rotated(L, P, L1, P1, z, d, y, t)
    <2>1. Rotated(L, P, Led_to(L, [L EXCEPT ![z][d] = t, ![y][1 - d] = z], P, z, y),
                  Adopt([P EXCEPT ![y] = P[z], ![z] = y], t, z), z, d, y, t)
      BY <1>1, <1>5, OnceRotates, SMTT(60)
    <2> QED
      BY <2>1
  <1>7. \E sub1 \in Subtrees : Tree(N, L1, P1, sub1)
    BY <1>1, <1>5, <1>6, Turned
  <1>8. Coloured(N, P1, R1, NoNode) /\ \E height1 \in [Node -> Nat] : Balanced(N, L1, R1, height1)
    BY <1>1, <1>2, <1>3, <1>4, <1>6, RotatedOnceSound
  <1>9. P1[y] = P[z] /\ \A w \in N : w # z /\ P[w] = NoNode => P1[w] = NoNode
    BY <1>1, <1>5, <1>6, RotatedTop
  <1> QED
    BY <1>5, <1>7, <1>8, <1>9 DEF Sound

LEMMA TwiceSound ==
  ASSUME NEW N, NEW L, NEW P, NEW R, NEW x, Sound(N, L, P, R, x), x # NoNode, P[x] # NoNode, R[P[x]],
         NEW y, P[x] = y, NEW z, P[y] = z, NEW d, Side(L, y, z) = d,
         NEW v, L[z][1 - d] = v, ~(v # NoNode /\ R[v]), L[y][1 - d] = x,
         NEW two, L[x][d] = two, NEW three, L[x][1 - d] = three,
         NEW R1, [R EXCEPT ![x] = FALSE, ![z] = TRUE] = R1,
         NEW L1, TwiceLinks(L, P, x, y, z, d, two, three) = L1,
         NEW P1, TwiceParents(P, x, y, z, two, three) = P1
  PROVE  /\ Sound(N, L1, P1, R1, NoNode)
         /\ x \in N /\ y \in N /\ y # x /\ (P[z] = NoNode => P1[x] = NoNode)
         /\ \A w \in N : w # z /\ P[w] = NoNode => P1[w] = NoNode
  <1>1. PICK sub : Tree(N, L, P, sub)
    BY DEF Sound
  <1>2. PICK height : Balanced(N, L, R, height)
    BY DEF Sound
  <1>3. Coloured(N, P, R, x)
    BY DEF Sound
  <1>4. Corner(N, L, P, R, x, y, z, d, v)
    BY <1>1, <1>3, RedParent
  <1>5. /\ x \in N /\ y \in N /\ z \in N /\ d \in Sides /\ 1 - d \in Sides /\ L[z][d] = y
        /\ y # NoNode /\ z # NoNode /\ y # x /\ y # z
    BY <1>1, <1>4, Ends DEF Corner
  <1>6. RotatedTwice(L, P, L1, P1, x, y, z, d, two, three)
    BY <1>1, <1>5, TwiceRotates
  <1>7. PICK L2, P2 : /\ Rotated(L, P, L2, P2, y, 1 - d, x, two)
                      /\ Rotated(L2, P2, L1, P1, z, d, x, three)
    BY <1>6 DEF RotatedTwice
  <1>8. PICK sub2 : Tree(N, L2, P2, sub2)
    BY <1>1, <1>5, <1>7, Turned
  <1>9. \E sub1 \in Subtrees : Tree(N, L1, P1, sub1)
    BY <1>5, <1>7, <1>8, Turned
  <1>10. Coloured(N, P1, R1, NoNode) /\ \E height1 \in [Node -> Nat] : Balanced(N, L1, R1, height1)
    BY <1>1, <1>2, <1>3, <1>4, <1>6, RotatedTwiceSound, SMTT(60)
  <1>11. \A w \in N : w # y /\ P[w] = NoNode => P2[w] = NoNode
    BY <1>1, <1>5, <1>7, RotatedTop
  <1>12. P1[x] = P2[z] /\ \A w \in N : w # z /\ P2[w] = NoNode => P1[w] = NoNode
    BY <1>5, <1>7, <1>8, RotatedTop
  <1> QED
    BY <1>5, <1>9, <1>10, <1>11, <1>12 DEF Sound

LEMMA RecolourSound ==
  ASSUME NEW N, NEW L, NEW P, NEW R, NEW x, Sound(N, L, P, R, x), x # NoNode, P[x] # NoNode, R[P[x]],
         NEW y, P[x] = y, NEW z, P[y] = z, NEW d, Side(L, y, z) = d,
         NEW v, L[z][1 - d] = v, v # NoNode, R[v],
         NEW R1, [R EXCEPT ![y] = FALSE, ![v] = FALSE, ![z] = TRUE] = R1
  PROVE  Sound(N, L, P, R1, z) /\ z \in N /\ y \in N /\ y # x
  <1>1. PICK sub : Tree(N, L, P, sub)
    BY DEF Sound
  <1>2. PICK height : Balanced(N, L, R, height)
    BY DEF Sound
  <1>3. Coloured(N, P, R, x)
    BY DEF Sound
  <1>4. Corner(N, L, P, R, x, y, z, d, v)
    BY <1>1, <1>3, RedParent
  <1>5. z \in N /\ y \in N /\ y # x
    BY <1>4 DEF Corner
  <1>6. Coloured(N, P, R1, z) /\ \E height1 \in [Node -> Nat] : Balanced(N, L, R1, height1)
    BY <1>1, <1>2, <1>3, <1>4, RecolouredSound
  <1> QED
    BY <1>5, <1>6 DEF Sound

LEMMA RootSound ==
  ASSUME NEW N, NEW L, NEW P, NEW R, NEW x, Sound(N, L, P, R, x), x # NoNode, P[x] = NoNode,
         NEW R1, [R EXCEPT ![x] = FALSE] = R1
  PROVE  Sound(N, L, P, R1, NoNode) /\ x \in N
  <1>1. PICK sub : Tree(N, L, P, sub)
    BY DEF Sound
  <1>2. PICK height \in [Node -> Nat] : Balanced(N, L, R, height)
    BY DEF Sound
  <1>3. Coloured(N, P, R, x)
    BY DEF Sound
  <1>4. /\ x \in N /\ x \in Keys /\ N \subseteq Keys /\ N \subseteq Node /\ R[x] /\ x # NoNode
        /\ \A w \in N, s \in Sides : L[w][s] # x /\ L[w][s] \in Node
    <2>1. x \in N /\ R[x]
      BY <1>3 DEF Coloured
    <2>2. \A w \in Keys, s \in Sides : L[w][s] # x
      BY <2>1, <1>1, Led
    <2> QED
      BY <2>1, <2>2, <1>1, Ends
  <1>5. R1 \in [Keys -> BOOLEAN] /\ ~R1[x] /\ \A w \in Keys \ {x} : R1[w] = R[w]
    BY <1>3, <1>4 DEF Coloured
  <1>6. Coloured(N, P, R1, NoNode)
    <2>1. ASSUME NEW w \in N, R1[w] PROVE P[w] # NoNode /\ ~R1[P[w]]
      <3>1. w # x /\ R[w]
        BY <2>1, <1>4, <1>5
      <3>2. P[w] # NoNode /\ ~R[P[w]]
        BY <3>1, <1>3 DEF Coloured
      <3>3. P[w] \in Keys
        BY <3>2, <1>1, <1>4 DEF Tree, Hung
      <3> QED
        BY <3>2, <3>3, <1>5
    <2> QED
      BY <2>1, <1>5 DEF Coloured
  <1> DEFINE h1 == [w \in Node |-> IF w = x THEN height[x] + 1 ELSE height[w]]
  <1>7. h1 \in [Node -> Nat] /\ h1[NoNode] = 0 /\ h1[x] = height[x] + 1
        /\ \A w \in Node \ {x} : h1[w] = height[w]
    BY <1>2, <1>4 DEF Balanced, Node
  <1> HIDE DEF h1
  <1>8. ASSUME NEW w \in N
        PROVE  /\ h1[L[w][0]] = h1[L[w][1]]
               /\ h1[w] = h1[L[w][0]] + (IF R1[w] THEN 0 ELSE 1)
    <2>1. /\ height[L[w][0]] = height[L[w][1]]
          /\ height[w] = height[L[w][0]] + (IF R[w] THEN 0 ELSE 1)
      BY <1>2 DEF Balanced
    <2>2. h1[L[w][0]] = height[L[w][0]] /\ h1[L[w][1]] = height[L[w][1]]
      BY <1>4, <1>7 DEF Sides
    <2>3. CASE w = x
      <3>1. height[x] = height[L[x][0]] + 0 /\ height[L[x][0]] \in Nat
        BY <2>1, <2>3, <1>4 DEF Sides
      <3> QED
        BY <3>1, <2>1, <2>2, <2>3, <1>5, <1>7
    <2>4. CASE w # x
      BY <2>1, <2>2, <2>4, <1>4, <1>5, <1>7
    <2> QED
      BY <2>3, <2>4
  <1>9. Balanced(N, L, R1, h1)
    BY <1>7, <1>8 DEF Balanced
  <1> QED
    BY <1>1, <1>4, <1>6, <1>7, <1>9 DEF Sound

\* What a sound tree is, as to its types.
LEMMA SoundTypes ==
  ASSUME NEW N, NEW L, NEW P, NEW R, NEW at, Sound(N, L, P, R, at)
  PROVE  /\ N \subseteq Keys /\ L \in [Keys -> [Sides -> Node]] /\ P \in [Keys -> Node]
         /\ R \in [Keys -> BOOLEAN] /\ (at # NoNode => at \in N) /\ N \subseteq Node
         /\ NoNode \notin N /\ NoNode \notin Keys
         /\ \A w \in N : P[w] # NoNode => P[w] \in N
  BY TreeAssumption DEF Sound, Tree, Hung, Coloured, Links, Parents, Node

LEMMA LoopStep ==
  TreeInv /\ (Root_reached \/ Black_parent \/ Recolour \/ Rotate_twice \/ Rotate_once) => TreeInv'
  <1> SUFFICES ASSUME TreeInv, Root_reached \/ Black_parent \/ Recolour \/ Rotate_twice \/ Rotate_once
               PROVE  TreeInv'
    OBVIOUS
  <1>1. /\ use \in {"segments", "copies"} /\ last \in Node
        /\ Sound(nodes, link, parent, red, n)
        /\ n # NoNode /\ n \in nodes
        /\ root # NoNode => root \in nodes /\ parent[root] = NoNode
        /\ root = NoNode => nodes \subseteq {n}
    <2>1. n # NoNode /\ Sound(nodes, link, parent, red, n)
      BY DEF TreeInv, Root_reached, Black_parent, Recolour, Rotate_twice, Rotate_once
    <2> QED
      BY <2>1, SoundTypes DEF TreeInv, Rooted, TypeOK
  <1>2. use' = use /\ nodes' = nodes /\ last' = last
    BY DEF Root_reached, Black_parent, Recolour, Rotate_twice, Rotate_once
  \* It is enough that the tree is sound and the root its top.
  <1>3. ASSUME Sound(nodes, link', parent', red', n'), n' \in Node, root' # NoNode,
               root' \in nodes, parent'[root'] = NoNode
        PROVE  TreeInv'
    <2>1. TypeOK'
      BY <1>1, <1>2, <1>3, SoundTypes DEF TypeOK
    <2>2. Rooted'
      BY <1>2, <1>3 DEF Rooted
    <2>3. InOrder'
      BY <1>2 DEF TreeInv, InOrder
    <2>4. Sound(nodes, link, parent, red, n)'
      BY <1>2, <1>3
    <2> QED
      BY <2>1, <2>2, <2>3, <2>4 DEF TreeInv
  <1>4. PICK x, y, z, d, v : n = x /\ p = y /\ g = z /\ dir = d /\ u = v
    OBVIOUS
  <1>5. /\ parent[x] = y /\ parent[y] = z /\ Side(link, y, z) = d /\ link[z][1 - d] = v
        /\ x # NoNode /\ Sound(nodes, link, parent, red, x) /\ x \in nodes
    BY <1>1, <1>4 DEF p, g, dir, u, Side
  <1>6. NoNode \in Node
    BY DEF Node
  <1>7. CASE Root_reached
    <2>1. y = NoNode /\ [red EXCEPT ![x] = FALSE] = red' /\ root' = x /\ n' = NoNode
          /\ link' = link /\ parent' = parent
      BY <1>4, <1>7 DEF Root_reached, Done
    <2>2. Sound(nodes, link, parent, red', NoNode)
      BY <1>5, <2>1, RootSound
    <2> QED
      BY <2>1, <2>2, <1>3, <1>5, <1>6
  \* In the other cases there is another node, and so a root.
  <1>8. ASSUME y \in nodes, y # x PROVE root # NoNode /\ root \in nodes /\ parent[root] = NoNode
    BY <1>1, <1>4, <1>8
  <1>9. CASE Black_parent
    <2>1. y # NoNode /\ ~red[y] /\ n' = NoNode /\ link' = link /\ parent' = parent
          /\ red' = red /\ root' = root
      BY <1>4, <1>9 DEF Black_parent, Done
    <2>2. Coloured(nodes, parent, red, x)
      BY <1>5 DEF Sound
    <2>3. red[x] /\ \A w \in nodes : red[w] /\ w # x => parent[w] # NoNode /\ ~red[parent[w]]
      BY <2>2, <1>5 DEF Coloured
    <2>4. Coloured(nodes, parent, red, NoNode)
      BY <2>1, <2>2, <2>3, <1>5 DEF Coloured
    <2>5. Sound(nodes, link, parent, red, NoNode)
      BY <2>4, <1>5 DEF Sound
    <2>6. y \in nodes /\ y # x
      BY <2>1, <2>3, <1>5, SoundTypes
    <2> QED
      BY <2>1, <2>5, <2>6, <1>3, <1>6, <1>8
  <1>10. CASE Recolour
    <2>1. y # NoNode /\ red[y] /\ v # NoNode /\ red[v] /\ n' = z /\ link' = link /\ parent' = parent
          /\ [red EXCEPT ![y] = FALSE, ![v] = FALSE, ![z] = TRUE] = red' /\ root' = root
      BY <1>4, <1>10 DEF Recolour, RedUncle
    <2>2. Sound(nodes, link, parent, red', z) /\ z \in nodes /\ y \in nodes /\ y # x
      BY <2>1, <1>5, RecolourSound
    <2>3. z \in Node
      BY <2>2, SoundTypes
    <2> QED
      BY <2>1, <2>2, <2>3, <1>3, <1>8
  <1>11. CASE Rotate_once
    <2>1. PICK t : link[y][1 - d] = t
      OBVIOUS
    <2>2. /\ y # NoNode /\ red[y] /\ ~(v # NoNode /\ red[v]) /\ Side(link, x, y) = d /\ n' = NoNode
          /\ [red EXCEPT ![z] = TRUE, ![y] = FALSE] = red'
          /\ root' = IF parent[z] = NoNode THEN y ELSE root
      BY <1>4, <1>11 DEF Rotate_once, RedUncle, Inner, Done, Side, p
    <2>3. /\ Led_to(link, [link EXCEPT ![z][d] = t, ![y][1 - d] = z], parent, z, y) = link'
          /\ Adopt([parent EXCEPT ![y] = parent[z], ![z] = y], t, z) = parent'
      BY <1>4, <1>11, <2>1 DEF Rotate_once, Replaced, Led_to, Side
    <2>4. link[y][d] = x
      <3>1. PICK sub : Tree(nodes, link, parent, sub)
        BY <1>5 DEF Sound
      <3> QED
        BY <3>1, <2>2, <1>5, Led
    <2>5. /\ Sound(nodes, link', parent', red', NoNode)
          /\ y \in nodes /\ y # x /\ parent'[y] = parent[z]
          /\ \A w \in nodes : w # z /\ parent[w] = NoNode => parent'[w] = NoNode
      BY <1>5, <2>1, <2>2, <2>3, <2>4, OnceSound, SMTT(60)
    <2>6. root # NoNode /\ root \in nodes /\ parent[root] = NoNode
      BY <2>5, <1>8
    <2>7. root' # NoNode /\ root' \in nodes /\ parent'[root'] = NoNode
      <3>1. CASE parent[z] = NoNode
        BY <3>1, <2>2, <2>5
      <3>2. CASE parent[z] # NoNode
        BY <3>2, <2>2, <2>5, <2>6
      <3> QED
        BY <3>1, <3>2
    <2> QED
      BY <2>2, <2>5, <2>7, <1>3, <1>6
  <1>12. CASE Rotate_twice
    <2>1. PICK two, three : link[x][d] = two /\ link[x][1 - d] = three
      OBVIOUS
    <2>2. /\ y # NoNode /\ red[y] /\ ~(v # NoNode /\ red[v]) /\ Side(link, x, y) # d /\ n' = NoNode
          /\ [red EXCEPT ![x] = FALSE, ![z] = TRUE] = red'
          /\ root' = IF parent[z] = NoNode THEN x ELSE root
      BY <1>4, <1>12 DEF Rotate_twice, RedUncle, Inner, Done, Side, p
    <2>3. /\ TwiceLinks(link, parent, x, y, z, d, two, three) = link'
          /\ TwiceParents(parent, x, y, z, two, three) = parent'
      BY <1>4, <1>12, <2>1, ZenonT(60) DEF Rotate_twice, Replaced, Led_to, Side, TwiceLinks, TwiceParents
    <2>4. link[y][1 - d] = x
      <3>1. PICK sub : Tree(nodes, link, parent, sub)
        BY <1>5 DEF Sound
      <3>2. link[y][Side(link, x, y)] = x
        BY <3>1, <2>2, <1>5, Led
      <3>3. 1 - d = Side(link, x, y)
        BY <2>2, <1>5 DEF Side
      <3> QED
        BY <3>2, <3>3
    <2>5. /\ Sound(nodes, link', parent', red', NoNode)
          /\ x \in nodes /\ y \in nodes /\ y # x /\ (parent[z] = NoNode => parent'[x] = NoNode)
          /\ \A w \in nodes : w # z /\ parent[w] = NoNode => parent'[w] = NoNode
      BY <1>5, <2>1, <2>2, <2>3, <2>4, TwiceSound
    <2>6. root # NoNode /\ root \in nodes /\ parent[root] = NoNode
      BY <2>5, <1>8
    <2>7. root' # NoNode /\ root' \in nodes /\ parent'[root'] = NoNode
      <3>1. CASE parent[z] = NoNode
        BY <3>1, <2>2, <2>5, <1>5
      <3>2. CASE parent[z] # NoNode
        BY <3>2, <2>2, <2>5, <2>6
      <3> QED
        BY <3>1, <3>2
    <2> QED
      BY <2>2, <2>5, <2>7, <1>3, <1>6
  <1> QED
    BY <1>7, <1>9, <1>10, <1>11, <1>12

\* The last segment is the search's end for the next.
LEMMA NextIsLast ==
  ASSUME NEW N, NEW L, NEW P, NEW sub, Tree(N, L, P, sub), NEW x \in Nat, x \in N, N \subseteq 0..x
  PROVE  /\ x \in N /\ L[x][1] = NoNode /\ Toward(x + 1, x) = 1
         /\ Between(N, sub, x + 1, x)
  <1>1. x \in N /\ 1 \in Sides /\ Toward(x + 1, x) = 1
    BY DEF Toward, Sides
  <1>2. PICK s \in Sides : s = 1
    BY DEF Sides
  <1>3. L[x][1] = NoNode
    <2>1. L[x][s] # NoNode => L[x][s] \in N /\ Before(s, L[x][s], x)
      BY Kin
    <2>2. \A y \in N : ~Before(s, y, x)
      BY <1>2 DEF Before
    <2> QED
      BY <2>1, <2>2, <1>2
  <1>4. Between(N, sub, x + 1, x)
    BY DEF Between
  <1> QED
    BY <1>1, <1>3, <1>4

LEMMA AppendStep ==
  TreeInv /\ (\E k \in Keys : capn_append_segment(k)) => TreeInv'
  <1> SUFFICES ASSUME TreeInv, NEW k \in Keys, capn_append_segment(k) PROVE TreeInv'
    OBVIOUS
  <1>1. /\ use = "segments" /\ n = NoNode /\ k = Cardinality(nodes)
        /\ nodes' = nodes \cup {k} /\ [red EXCEPT ![k] = TRUE] = red' /\ n' = k
        /\ use' = use /\ root' = root /\ last' = k
        /\ parent' = [parent EXCEPT ![k] = last]
        /\ link' = IF last = NoNode THEN link ELSE [link EXCEPT ![last][1] = k]
    BY DEF capn_append_segment, Entered
  <1>2. /\ Sound(nodes, link, parent, red, NoNode) /\ last \in Node
        /\ root # NoNode => root \in nodes /\ parent[root] = NoNode
        /\ root = NoNode => nodes \subseteq {NoNode}
    BY <1>1 DEF TreeInv, TypeOK, Rooted
  <1>3. PICK m \in Nat : nodes = 0..(m - 1) /\ last = IF m = 0 THEN NoNode ELSE m - 1
    BY <1>1 DEF TreeInv, InOrder
  <1>4. k = m /\ k \notin nodes
    <2>1. Cardinality(0..(m - 1)) = IF 0 > m - 1 THEN 0 ELSE m - 1 - 0 + 1
      BY FS_Interval
    <2> QED
      BY <2>1, <1>1, <1>3
  <1>5. /\ nodes \subseteq Keys /\ parent \in [Keys -> Node] /\ NoNode \notin Keys
    BY <1>2, SoundTypes
  <1>6. PICK sub \in Subtrees : Tree(nodes, link, parent, sub)
    BY <1>2 DEF Sound
  <1>7. PICK height : Balanced(nodes, link, red, height)
    BY <1>2 DEF Sound
  <1>8. Coloured(nodes, parent, red, NoNode)
    BY <1>2 DEF Sound
  <1>9. Sound(nodes \cup {k}, link', parent', red', k)
    <2>1. CASE m = 0
      <3>1. nodes = {} /\ last = NoNode /\ link' = link
        BY <2>1, <1>1, <1>3
      <3>2. parent' = parent
        <4>1. parent[k] = NoNode
          BY <1>6, <3>1 DEF Tree, Hung
        <4> QED
          BY <4>1, <3>1, <1>1, <1>5
      <3>3. Tree({}, link, parent, sub) /\ Balanced({}, link, red, height) /\ Coloured({}, parent, red, NoNode)
        BY <3>1, <1>6, <1>7, <1>8
      <3>4. PICK R1 : R1 = [red EXCEPT ![k] = TRUE]
        OBVIOUS
      <3>5. /\ \E sub1 \in Subtrees : Tree({k}, link, parent, sub1)
            /\ Coloured({k}, parent, R1, k)
            /\ \E height1 \in [Node -> Nat] : Balanced({k}, link, R1, height1)
        BY <3>3, <3>4, HungFirst
      <3>6. nodes \cup {k} = {k} /\ R1 = red'
        BY <3>1, <3>4, <1>1
      <3> QED
        BY <3>2, <3>5, <3>6, <3>1 DEF Sound
    <2>2. CASE m # 0
      <3>1. PICK x : last = x
        OBVIOUS
      <3>2. x \in nodes /\ link[x][1] = NoNode /\ Toward(k, x) = 1 /\ Between(nodes, sub, k, x) /\ 1 \in Sides
        <4>1. x \in Nat /\ nodes = 0..x /\ k = x + 1
          BY <1>3, <1>4, <2>2, <3>1
        <4>2. /\ x \in nodes /\ link[x][1] = NoNode /\ Toward(x + 1, x) = 1
              /\ Between(nodes, sub, x + 1, x)
          BY <4>1, <1>6, NextIsLast
        <4> QED
          BY <4>1, <4>2 DEF Sides
      <3>3. /\ link' = [link EXCEPT ![x][1] = k] /\ parent' = [parent EXCEPT ![k] = x]
            /\ red' = [red EXCEPT ![k] = TRUE]
        <4>1. x # NoNode
          BY <3>2, <1>5
        <4> QED
          BY <4>1, <3>1, <1>1
      <3>4. /\ \E sub1 \in Subtrees : Tree(nodes \cup {k}, [link EXCEPT ![x][1] = k], [parent EXCEPT ![k] = x], sub1)
            /\ Coloured(nodes \cup {k}, [parent EXCEPT ![k] = x], [red EXCEPT ![k] = TRUE], k)
            /\ \E height1 \in [Node -> Nat] : Balanced(nodes \cup {k}, [link EXCEPT ![x][1] = k], [red EXCEPT ![k] = TRUE], height1)
        BY <3>2, <1>4, <1>6, <1>7, <1>8, HungUnder
      <3> QED
        BY <3>3, <3>4 DEF Sound
    <2> QED
      BY <2>1, <2>2
  <1>10. TypeOK' /\ Rooted' /\ InOrder'
    <2>1. Sound(nodes', link', parent', red', n')
      BY <1>1, <1>9
    <2>2. TypeOK'
      BY <2>1, <1>1, <1>5, SoundTypes DEF TreeInv, TypeOK, Node
    <2>3. Rooted'
      <3>1. CASE root = NoNode
        BY <3>1, <1>1, <1>2, <1>5 DEF Rooted
      <3>2. CASE root # NoNode
        <4>1. root \in nodes /\ parent[root] = NoNode /\ root # k
          BY <3>2, <1>2, <1>4
        <4>2. parent'[root] = NoNode
          BY <4>1, <1>1, <1>5
        <4> QED
          BY <4>1, <4>2, <3>2, <1>1 DEF Rooted
      <3> QED
        BY <3>1, <3>2
    <2>4. InOrder'
      <3>1. nodes' = 0..((m + 1) - 1) /\ last' = (m + 1) - 1 /\ m + 1 \in Nat /\ m + 1 # 0
        BY <1>1, <1>3, <1>4
      <3> QED
        BY <3>1 DEF InOrder
    <2> QED
      BY <2>2, <2>3, <2>4
  <1>11. Sound(nodes, link, parent, red, n)'
    BY <1>1, <1>9
  <1> QED
    BY <1>10, <1>11 DEF TreeInv

LEMMA CopyStep ==
  TreeInv /\ (\E k \in Keys : copy_ptr_insert(k)) => TreeInv'
  <1> SUFFICES ASSUME TreeInv, NEW k \in Keys, copy_ptr_insert(k) PROVE TreeInv'
    OBVIOUS
  <1>1. /\ use = "copies" /\ n = NoNode /\ k \notin nodes
        /\ nodes' = nodes \cup {k} /\ red' = [red EXCEPT ![k] = TRUE] /\ n' = k
        /\ use' = use /\ root' = root /\ last' = last
    BY DEF copy_ptr_insert, Entered
  <1>2. /\ Sound(nodes, link, parent, red, NoNode) /\ last \in Node /\ TypeOK
        /\ root # NoNode => root \in nodes /\ parent[root] = NoNode
        /\ root = NoNode => nodes \subseteq {NoNode}
    BY <1>1 DEF TreeInv, TypeOK, Rooted
  <1>3. /\ nodes \subseteq Keys /\ parent \in [Keys -> Node] /\ NoNode \notin Keys
    BY <1>2, SoundTypes
  <1>4. PICK sub \in Subtrees : Tree(nodes, link, parent, sub)
    BY <1>2 DEF Sound
  <1>5. PICK height : Balanced(nodes, link, red, height)
    BY <1>2 DEF Sound
  <1>6. Coloured(nodes, parent, red, NoNode)
    BY <1>2 DEF Sound
  <1>7. /\ Sound(nodes \cup {k}, link', parent', red', k)
        /\ \A w \in nodes : parent'[w] = parent[w]
    <2>1. CASE nodes = {}
      <3>1. link' = link /\ parent' = parent
        BY <2>1, <1>1 DEF copy_ptr_insert
      <3>2. Tree({}, link, parent, sub) /\ Balanced({}, link, red, height) /\ Coloured({}, parent, red, NoNode)
        BY <2>1, <1>4, <1>5, <1>6
      <3>3. PICK R1 : R1 = [red EXCEPT ![k] = TRUE]
        OBVIOUS
      <3>4. /\ \E sub1 \in Subtrees : Tree({k}, link, parent, sub1)
            /\ Coloured({k}, parent, R1, k)
            /\ \E height1 \in [Node -> Nat] : Balanced({k}, link, R1, height1)
        BY <3>2, <3>3, HungFirst
      <3>5. nodes \cup {k} = {k} /\ R1 = red'
        BY <2>1, <3>3, <1>1
      <3> QED
        BY <3>1, <3>4, <3>5 DEF Sound
    <2>2. CASE nodes # {}
      <3>1. PICK x : LastPassed(k) = x
        OBVIOUS
      <3>2. PICK s : Toward(k, x) = s
        OBVIOUS
      <3>3. /\ parent' = [parent EXCEPT ![k] = x]
            /\ link' = [link EXCEPT ![x][s] = k]
        BY <2>2, <3>1, <3>2 DEF copy_ptr_insert
      <3>4. root \in nodes /\ parent[root] = NoNode
        BY <2>2, <1>2, <1>3
      <3>5. PICK W : Walk(k) = W /\ Descends(W, link, root, k)
        BY <1>2, WalkDescends
      <3>6. \E i \in Keys : W[i] \in nodes /\ link[W[i]][Toward(k, W[i])] = NoNode
        BY <3>4, <3>5, <1>1, <1>4, DescentEnds
      <3>7. x \in nodes /\ link[x][s] = NoNode /\ \E i \in Keys : W[i] = x
        <4>1. \E y \in nodes : link[y][Toward(k, y)] = NoNode /\ \E i \in Keys : Walk(k)[i] = y
          BY <3>5, <3>6
        <4>2. /\ LastPassed(k) \in nodes /\ link[LastPassed(k)][Toward(k, LastPassed(k))] = NoNode
              /\ \E i \in Keys : Walk(k)[i] = LastPassed(k)
          BY <4>1 DEF LastPassed
        <4> QED
          BY <4>2, <3>1, <3>2, <3>5
      <3>8. Between(nodes, sub, k, x)
        <4>1. PICK i \in Keys : W[i] = x
          BY <3>7
        <4>2. W[i] # NoNode
          BY <4>1, <3>7, <1>3
        <4>3. Between(nodes, sub, k, W[i])
          BY <4>2, <3>4, <3>5, <1>4, DescentBetween
        <4> QED
          BY <4>1, <4>3
      <3>9. s \in Sides
        BY <3>2 DEF Toward, Sides
      <3>10. /\ \E sub1 \in Subtrees : Tree(nodes \cup {k}, [link EXCEPT ![x][s] = k], [parent EXCEPT ![k] = x], sub1)
             /\ Coloured(nodes \cup {k}, [parent EXCEPT ![k] = x], [red EXCEPT ![k] = TRUE], k)
             /\ \E height1 \in [Node -> Nat] : Balanced(nodes \cup {k}, [link EXCEPT ![x][s] = k], [red EXCEPT ![k] = TRUE], height1)
        BY <3>2, <3>7, <3>8, <3>9, <1>1, <1>4, <1>5, <1>6, HungUnder
      <3>11. \A w \in nodes : parent'[w] = parent[w]
        BY <3>3, <1>1, <1>3
      <3> QED
        BY <3>3, <3>10, <3>11, <1>1 DEF Sound
    <2> QED
      BY <2>1, <2>2
  <1>8. Sound(nodes', link', parent', red', n')
    BY <1>1, <1>7
  <1>9. TypeOK'
    BY <1>1, <1>2, <1>8, SoundTypes DEF TypeOK, Node
  <1>10. Rooted'
    <2>1. CASE root = NoNode
      BY <2>1, <1>1, <1>2, <1>3 DEF Rooted
    <2>2. CASE root # NoNode
      BY <2>2, <1>1, <1>2, <1>7 DEF Rooted
    <2> QED
      BY <2>1, <2>2
  <1>11. InOrder'
    BY <1>1 DEF InOrder
  <1>12. Sound(nodes, link, parent, red, n)'
    BY <1>8
  <1> QED
    BY <1>9, <1>10, <1>11, <1>12 DEF TreeInv
-----------------------------------------------------------------------------
(* Powers of two, and the length of a search. *)

LEMMA Powers ==
  /\ power \in [Nat -> Nat] /\ power[0] = 1
  /\ \A i \in Nat \ {0} : power[i] = 2 * power[i - 1]
  <1>1. PICK twos : Twofold(twos)
    BY TwofoldExists
  <1>2. power = CHOOSE f : f = [i \in Nat |-> IF i = 0 THEN 1 ELSE 2 * f[i - 1]]
    BY DEF power
  <1>3. Twofold(power)
    BY <1>1, <1>2 DEF Twofold
  <1>4. /\ power \in [Nat -> Nat \ {0}] /\ power[0] = 1
        /\ \A i \in Nat \ {0} : power[i] = 2 * power[i - 1]
    BY <1>3, TwofoldType
  <1> QED
    BY <1>4

LEMMA PowersGrow ==
  ASSUME NEW m \in Nat, NEW l \in 0..m
  PROVE  power[l] <= power[m]
  <1> DEFINE T == {i \in 0..m : power[l] <= power[i] \/ i < l}
  <1>1. 0 \in T
    BY Powers
  <1>2. ASSUME NEW i \in 1..m, i - 1 \in T PROVE i \in T
    <2>1. i \in Nat \ {0} /\ i - 1 \in Nat /\ power[i] = 2 * power[i - 1]
          /\ power[i - 1] \in Nat /\ power[l] \in Nat
      BY Powers
    <2> QED
      BY <1>2, <2>1
  <1>3. 0..m \subseteq T
    <2> HIDE DEF T
    <2> QED
      BY <1>1, <1>2, StepByStep
  <1>4. m \in T
    <2> HIDE DEF T
    <2> QED
      BY <1>3
  <1> QED
    BY <1>4

LEMMA PowersSquare ==
  ASSUME NEW m \in Nat
  PROVE  power[2 * m] = power[m] * power[m]
  <1> DEFINE T == {i \in 0..m : power[2 * i] = power[i] * power[i]}
  <1>1. 0 \in T
    BY Powers
  <1>2. ASSUME NEW i \in 1..m, i - 1 \in T PROVE i \in T
    <2>1. PICK q : power[i - 1] = q
      OBVIOUS
    <2>2. q \in Nat /\ power[i] = 2 * q
      BY <2>1, Powers
    <2>3. power[2 * (i - 1)] = q * q
      BY <1>2, <2>1
    <2>4. power[2 * (i - 1) + 1] = 2 * (q * q)
      <3>1. /\ 2 * (i - 1) + 1 \in Nat \ {0}
            /\ (2 * (i - 1) + 1) - 1 = 2 * (i - 1)
        OBVIOUS
      <3> QED
        BY <3>1, <2>3, Powers
    <2>5. power[2 * i] = 2 * (2 * (q * q))
      <3>1. /\ 2 * i \in Nat \ {0}
            /\ 2 * i - 1 = 2 * (i - 1) + 1
        OBVIOUS
      <3> QED
        BY <3>1, <2>4, Powers
    <2>6. 2 * (2 * (q * q)) = (2 * q) * (2 * q)
      BY <2>2
    <2> QED
      BY <2>2, <2>5, <2>6
  <1>3. 0..m \subseteq T
    <2> HIDE DEF T
    <2> QED
      BY <1>1, <1>2, StepByStep
  <1>4. m \in T
    <2> HIDE DEF T
    <2> QED
      BY <1>3
  <1> QED
    BY <1>4

\* A tree with so many black nodes on every way down has twice as many for each.
LEMMA Bushy ==
  ASSUME NEW N, NEW L, NEW P, NEW sub, Tree(N, L, P, sub), NEW R, R \in [Keys -> BOOLEAN],
         NEW height, Balanced(N, L, R, height)
  PROVE  \A x \in N : power[height[x]] <= Cardinality(sub[x]) + 1
  <1> DEFINE T == {m \in 0..(MaxKey + 1) :
                     \A x \in N : Cardinality(sub[x]) <= m =>
                                    power[height[x]] <= Cardinality(sub[x]) + 1}
  <1>1. /\ MaxKey \in Nat /\ NoNode \notin N /\ 0 \in Sides /\ 1 - 0 = 1 /\ 1 \in Sides
        /\ \A x \in N : x \in Node
        /\ \A x \in N, s \in Sides : L[x][s] \in Node
    BY TreeAssumption, Ends DEF Sides
  <1>2. \A x \in N : Cardinality(sub[x]) \in 1..(MaxKey + 1)
    BY <1>1, Sizes
  <1>3. 0 \in T
    BY <1>1, <1>2
  <1>4. ASSUME NEW m \in 1..(MaxKey + 1), m - 1 \in T PROVE m \in T
    <2>1. ASSUME NEW x \in N, Cardinality(sub[x]) <= m
          PROVE  power[height[x]] <= Cardinality(sub[x]) + 1
      <3>1. PICK a, b, A, B, h : /\ L[x][0] = a /\ L[x][1] = b
                                 /\ Cardinality(Below(sub, a)) = A /\ Cardinality(Below(sub, b)) = B
                                 /\ height[a] = h
        OBVIOUS
      <3>2. Cardinality(sub[x]) = 1 + A + B /\ A \in Nat /\ B \in Nat
        <4>1. /\ Cardinality(Below(sub, L[x][0])) \in Nat
              /\ Cardinality(sub[x]) = 1 + Cardinality(Below(sub, L[x][0]))
                                         + Cardinality(Below(sub, L[x][1 - 0]))
          BY <1>1, Sizes
        <4>2. Cardinality(Below(sub, L[x][1])) \in Nat
          BY <1>1, Sizes
        <4> QED
          BY <4>1, <4>2, <3>1, <1>1
      <3>3. h \in Nat /\ height[b] = h /\ height[x] = h + (IF R[x] THEN 0 ELSE 1)
        BY <3>1, <1>1 DEF Balanced
      <3>4. ASSUME NEW c \in Node, c = NoNode \/ c \in N, Cardinality(Below(sub, c)) < m, height[c] = h
            PROVE  power[h] <= Cardinality(Below(sub, c)) + 1
        <4>1. CASE c = NoNode
          <5>1. h = 0 /\ Below(sub, c) = {} /\ Cardinality({}) = 0
            BY <4>1, <3>4, FS_EmptySet DEF Balanced, Below
          <5> QED
            BY <5>1, Powers
        <4>2. CASE c # NoNode
          <5>1. c \in N /\ Below(sub, c) = sub[c]
            BY <4>2, <3>4 DEF Below
          <5> QED
            BY <5>1, <3>4, <1>2, <1>4
        <4> QED
          BY <4>1, <4>2
      <3>5. power[h] <= A + 1 /\ power[h] <= B + 1
        <4>1. /\ a \in Node /\ b \in Node
              /\ a = NoNode \/ a \in N
              /\ b = NoNode \/ b \in N
          BY <3>1, <1>1 DEF Tree, Hung
        <4>2. A < m /\ B < m
          BY <3>2, <2>1
        <4>3. power[h] <= Cardinality(Below(sub, a)) + 1
          BY <4>1, <4>2, <3>1, <3>4
        <4>4. power[h] <= Cardinality(Below(sub, b)) + 1
          BY <4>1, <4>2, <3>1, <3>3, <3>4
        <4> QED
          BY <4>3, <4>4, <3>1
      <3>6. power[h] \in Nat /\ power[h + 1] = 2 * power[h]
        <4>1. h + 1 \in Nat \ {0} /\ (h + 1) - 1 = h
          BY <3>3
        <4> QED
          BY <4>1, <3>3, Powers
      <3>7. CASE R[x]
        BY <3>7, <3>2, <3>3, <3>5, <3>6
      <3>8. CASE ~R[x]
        BY <3>8, <3>2, <3>3, <3>5, <3>6
      <3> QED
        BY <3>7, <3>8
    <2> QED
      BY <2>1
  <1>5. 0..(MaxKey + 1) \subseteq T
    <2>1. MaxKey + 1 \in Nat
      BY <1>1
    <2> HIDE DEF T
    <2> QED
      BY <2>1, <1>3, <1>4, StepByStep
  <1>6. MaxKey + 1 \in T
    <2> HIDE DEF T
    <2> QED
      BY <1>1, <1>5
  <1> QED
    BY <1>2, <1>6

\* Of the nodes a search has passed at least half are black.
LEMMA HalfBlack ==
  ASSUME NEW N, NEW L, NEW P, NEW sub, Tree(N, L, P, sub), NEW top \in N, P[top] = NoNode,
         NEW R, Coloured(N, P, R, NoNode), NEW height, Balanced(N, L, R, height),
         NEW k \in N, NEW W, Descends(W, L, top, k), NEW d \in Keys, W[d] = k,
         \A j \in Keys : j < d => W[j] # k
  PROVE  height[top] \in Nat /\ d + 1 <= 2 * height[top]
  <1> DEFINE red_(x) == IF R[x] THEN 1 ELSE 0
             T == {i \in 0..d : i <= 2 * (height[top] - height[W[i]]) - red_(W[i])}
  <1>1. /\ MaxKey \in Nat /\ Keys = 0..MaxKey /\ NoNode \notin N /\ d \in Nat /\ N \subseteq Node
        /\ \A i \in 0..d : i \in Keys
    BY TreeAssumption, Ends DEF Keys
  <1>2. /\ \A x \in Node : height[x] \in Nat
        /\ \A x \in N : R[x] \in BOOLEAN
    BY <1>1, Ends DEF Balanced, Coloured
  <1>3. \A i \in Keys : W[i] \in N
    BY DescentFinds
  <1>4. ASSUME NEW x \in N, NEW s \in Sides, L[x][s] \in N
        PROVE  /\ height[x] = height[L[x][s]] + (IF R[x] THEN 0 ELSE 1)
               /\ R[x] => ~R[L[x][s]]
    <2>1. P[L[x][s]] = x
      BY <1>1, <1>4 DEF Tree, Hung
    <2>2. R[L[x][s]] => ~R[x]
      BY <1>1, <1>4, <2>1 DEF Coloured
    <2>3. height[L[x][0]] = height[L[x][1]] /\ height[x] = height[L[x][0]] + (IF R[x] THEN 0 ELSE 1)
      BY DEF Balanced
    <2>4. s = 0 \/ s = 1
      BY DEF Sides
    <2> QED
      BY <2>2, <2>3, <2>4
  <1>5. 0 \in T
    <2>1. ~R[top] /\ W[0] = top /\ height[top] \in Nat
      BY <1>1, <1>2 DEF Coloured, Descends
    <2> QED
      BY <2>1, <1>1
  <1>6. ASSUME NEW i \in 1..d, i - 1 \in T PROVE i \in T
    <2>1. PICK x, y : W[i - 1] = x /\ W[i] = y
      OBVIOUS
    <2>2. i - 1 \in Keys /\ i \in Keys /\ i \in 1..MaxKey /\ i \in Nat /\ i - 1 < d /\ i - 1 \in Nat
      BY <1>1
    <2>3. x \in N /\ y \in N /\ x # NoNode /\ x # k
      BY <2>1, <2>2, <1>1, <1>3
    <2>4. y = L[x][Toward(k, x)] /\ Toward(k, x) \in Sides
      BY <2>1, <2>2, <2>3 DEF Descends, Toward, Sides
    <2>5. /\ height[x] = height[y] + (IF R[x] THEN 0 ELSE 1)
          /\ R[x] => ~R[y]
      BY <2>3, <2>4, <1>4
    <2>6. i - 1 <= 2 * (height[top] - height[x]) - red_(x)
      BY <1>6, <2>1
    <2>7. height[x] \in Nat /\ height[y] \in Nat /\ height[top] \in Nat /\ R[x] \in BOOLEAN /\ R[y] \in BOOLEAN
      BY <2>3, <1>1, <1>2
    <2>8. i <= 2 * (height[top] - height[y]) - red_(y)
      <3>1. CASE R[x]
        <4>1. i - 1 <= 2 * (height[top] - height[x]) - 1 /\ height[x] = height[y] /\ red_(y) = 0
          BY <3>1, <2>5, <2>6, <2>7
        <4> QED
          BY <4>1, <2>2, <2>7
      <3>2. CASE ~R[x]
        <4>1. i - 1 <= 2 * (height[top] - height[x]) /\ height[x] = height[y] + 1 /\ red_(y) \in {0, 1}
          BY <3>2, <2>5, <2>6, <2>7
        <4> HIDE DEF red_
        <4> QED
          BY <4>1, <2>2, <2>7
      <3> QED
        BY <3>1, <3>2
    <2> QED
      BY <2>1, <2>8
  <1>7. d \in T
    <2> HIDE DEF T
    <2>1. 0..d \subseteq T
      BY <1>1, <1>5, <1>6, StepByStep
    <2> QED
      BY <2>1, <1>1
  <1>8. d <= 2 * (height[top] - height[k]) - red_(k)
    BY <1>7
  <1>9. height[top] \in Nat /\ height[k] \in Nat /\ R[k] \in BOOLEAN
    BY <1>1, <1>2
  <1>10. ~R[k] => height[k] >= 1
    <2>1. height[k] = height[L[k][0]] + (IF R[k] THEN 0 ELSE 1) /\ L[k][0] \in Node
      BY Ends DEF Balanced, Sides
    <2> QED
      BY <2>1, <1>2
  <1>11. CASE R[k]
    BY <1>8, <1>9, <1>11, <1>1
  <1>12. CASE ~R[k]
    BY <1>8, <1>9, <1>10, <1>12, <1>1
  <1> QED
    BY <1>9, <1>11, <1>12

\* The nodes a search passes before it comes to k.
Passed(W, k) == {i \in Keys : \A j \in 0..i : W[j] # k}
LEMMA LengthIs ==
  ASSUME NEW W, NEW k, W[MaxKey] = k
  PROVE  \E d \in Keys :
            /\ W[d] = k /\ \A j \in Keys : j < d => W[j] # k
            /\ Cardinality(Passed(W, k)) = d
  <1>1. MaxKey \in Nat /\ Keys = 0..MaxKey /\ MaxKey \in Keys
    BY TreeAssumption DEF Keys
  <1>2. \E d \in Keys : W[d] = k /\ \A j \in Keys : j < d => W[j] # k
    <2> SUFFICES ASSUME \A d \in Keys : W[d] = k => \E j \in Keys : j < d /\ W[j] = k
                 PROVE  FALSE
      BY <1>1
    <2> DEFINE T == {i \in Keys : \A j \in 0..i : W[j] # k}
    <2>1. 0 \in T
      BY <1>1
    <2>2. ASSUME NEW i \in 1..MaxKey, i - 1 \in T PROVE i \in T
      <3>1. i \in Keys /\ \A j \in 0..(i - 1) : W[j] # k
        BY <2>2, <1>1
      <3>2. ASSUME W[i] = k PROVE FALSE
        <4>1. PICK j \in Keys : j < i /\ W[j] = k
          BY <3>1, <3>2
        <4>2. j \in 0..(i - 1)
          BY <4>1, <1>1
        <4> QED
          BY <4>1, <4>2, <3>1
      <3>3. \A j \in 0..i : j \in 0..(i - 1) \/ j = i
        BY <1>1
      <3> QED
        BY <3>1, <3>2, <3>3
    <2>3. 0..MaxKey \subseteq T
      <3> HIDE DEF T
      <3> QED
        BY <1>1, <2>1, <2>2, StepByStep
    <2> QED
      BY <2>3, <1>1
  <1>3. PICK d \in Keys : W[d] = k /\ \A j \in Keys : j < d => W[j] # k
    BY <1>2
  <1>4. Passed(W, k) = 0..(d - 1)
    BY <1>1, <1>3 DEF Passed
  <1>5. Cardinality(0..(d - 1)) = d
    <2>1. d \in Int /\ d >= 0
      BY <1>1
    <2>2. Cardinality(0..(d - 1)) = IF 0 > d - 1 THEN 0 ELSE (d - 1) - 0 + 1
      BY <2>1, FS_Interval
    <2> QED
      BY <2>1, <2>2
  <1> QED
    BY <1>3, <1>4, <1>5

-----------------------------------------------------------------------------
(* The theorems. *)

LEMMA Initially == Init => TreeInv
  <1> SUFFICES ASSUME Init PROVE TreeInv
    OBVIOUS
  <1>1. /\ use \in {"segments", "copies"} /\ nodes = {} /\ root = NoNode /\ last = NoNode /\ n = NoNode
        /\ link = [k \in Keys |-> [s \in Sides |-> NoNode]]
        /\ parent = [k \in Keys |-> NoNode]
        /\ red = [k \in Keys |-> FALSE]
    BY DEF Init
  <1>2. TypeOK
    BY <1>1 DEF TypeOK, Node
  <1>3. Rooted
    BY <1>1 DEF Rooted
  <1>4. InOrder
    <2>1. {} = 0..(0 - 1)
      OBVIOUS
    <2> QED
      BY <2>1, <1>1 DEF InOrder
  <1>5. PICK sub \in Subtrees : sub = [k \in Keys |-> {}]
    BY DEF Subtrees
  <1>6. Tree({}, link, parent, sub)
    BY <1>1, <1>2, <1>5 DEF TypeOK, Tree, Hung, Sorted, Links, Parents
  <1>7. PICK height \in [Node -> Nat] : height = [w \in Node |-> 0]
    OBVIOUS
  <1>8. Balanced({}, link, red, height) /\ Coloured({}, parent, red, NoNode)
    BY <1>2, <1>7 DEF TypeOK, Balanced, Coloured, Node
  <1> QED
    BY <1>1, <1>2, <1>3, <1>4, <1>5, <1>6, <1>7, <1>8 DEF TreeInv, Sound

LEMMA Kept == TreeInv /\ [Next]_vars => TreeInv'
  <1> SUFFICES ASSUME TreeInv, [Next]_vars PROVE TreeInv'
    OBVIOUS
  <1>1. CASE \E k \in Keys : capn_append_segment(k)
    BY <1>1, AppendStep
  <1>2. CASE \E k \in Keys : copy_ptr_insert(k)
    BY <1>2, CopyStep
  <1>3. CASE capn_tree_insert
    BY <1>3, LoopStep DEF capn_tree_insert
  <1>4. CASE UNCHANGED vars
    BY <1>4 DEF vars, TreeInv, TypeOK, Rooted, InOrder
  <1> QED
    BY <1>1, <1>2, <1>3, <1>4 DEF Next

\* The tree of segments, and that of the copies, is one search tree with the
\* parents matching the links, no red node under a red one but the node that
\* capn_tree_insert is at, and as many black nodes on every way down.
THEOREM TreeSound == Spec => []TreeInv
  BY Initially, Kept, PTL DEF Spec

\* A search finds every node ever hung in the tree, whatever was rotated since
\* and between any two turns of capn_tree_insert's loop (lookup_segment,
\* copy_ptr).
THEOREM Found == Spec => []KeysFound
  <1>1. TreeInv => KeysFound
    <2> SUFFICES ASSUME TreeInv PROVE KeysFound
      OBVIOUS
    <2>1. /\ TypeOK /\ Sound(nodes, link, parent, red, n)
          /\ root # NoNode => root \in nodes /\ parent[root] = NoNode
          /\ root = NoNode => nodes \subseteq {n}
      BY DEF TreeInv, Rooted
    <2>2. nodes \subseteq Keys /\ NoNode \notin nodes
      BY <2>1, SoundTypes
    <2>3. PICK sub \in Subtrees : Tree(nodes, link, parent, sub)
      BY <2>1 DEF Sound
    <2>4. ASSUME NEW k \in nodes, root # NoNode PROVE Reached(k) = k
      <3>1. PICK W : Walk(k) = W /\ Descends(W, link, root, k)
        BY <2>1, <2>2, WalkDescends
      <3>2. W[MaxKey] = k
        BY <3>1, <2>1, <2>3, <2>4, DescentFinds
      <3> QED
        BY <3>1, <3>2 DEF Reached
    <2>5. n = NoNode /\ nodes # {} => root # NoNode
      BY <2>1, <2>2
    <2> QED
      BY <2>4, <2>5 DEF KeysFound
  <1> QED
    BY <1>1, TreeSound, PTL
\* Whenever capn_tree_insert has returned, a search for a node passes at most
\* two times the binary logarithm of the nodes, though segments always come in
\* at the same end (capn_append_segment, copy_ptr).
THEOREM Short == Spec => []ShortWalks
  <1>1. TreeInv => ShortWalks
    <2> SUFFICES ASSUME TreeInv, n = NoNode, NEW k \in nodes
                 PROVE  power[WalkLength(k) + 1] <= (Cardinality(nodes) + 1) * (Cardinality(nodes) + 1)
      BY DEF ShortWalks
    <2>1. /\ TypeOK /\ Sound(nodes, link, parent, red, NoNode)
          /\ root # NoNode => root \in nodes /\ parent[root] = NoNode
          /\ root = NoNode => nodes \subseteq {NoNode}
      BY DEF TreeInv, Rooted
    <2>2. /\ nodes \subseteq Keys /\ NoNode \notin nodes
          /\ root \in nodes /\ parent[root] = NoNode
      BY <2>1, SoundTypes
    <2>3. PICK sub \in Subtrees : Tree(nodes, link, parent, sub)
      BY <2>1 DEF Sound
    <2>4. PICK height \in [Node -> Nat] : Balanced(nodes, link, red, height)
      BY <2>1 DEF Sound
    <2>5. Coloured(nodes, parent, red, NoNode) /\ red \in [Keys -> BOOLEAN]
      BY <2>1, SoundTypes DEF Sound
    <2>6. PICK W : Walk(k) = W /\ Descends(W, link, root, k)
      BY <2>1, <2>2, WalkDescends
    <2>7. W[MaxKey] = k
      BY <2>2, <2>3, <2>6, DescentFinds
    <2>8. PICK d \in Keys :
            /\ W[d] = k /\ \A j \in Keys : j < d => W[j] # k
            /\ Cardinality(Passed(W, k)) = d
      BY <2>7, LengthIs
    <2>9. WalkLength(k) = d
      BY <2>6, <2>8 DEF WalkLength, Passed
    <2>10. PICK h : height[root] = h
      OBVIOUS
    <2>11. h \in Nat /\ d + 1 <= 2 * h /\ d + 1 \in Nat
      <3>1. height[root] \in Nat /\ d + 1 <= 2 * height[root]
        BY <2>2, <2>3, <2>4, <2>5, <2>6, <2>8, HalfBlack
      <3>2. d \in Nat
        BY TreeAssumption DEF Keys
      <3> QED
        BY <3>1, <3>2, <2>10
    <2>12. power[h] <= Cardinality(nodes) + 1 /\ Cardinality(nodes) \in Nat
      <3>1. power[height[root]] <= Cardinality(sub[root]) + 1
        BY <2>2, <2>3, <2>4, <2>5, Bushy
      <3>2. sub[root] = nodes
        BY <2>2, <2>3 DEF Tree, Sorted
      <3>3. Cardinality(nodes) \in Nat
        BY <2>3, Sizes, TreeAssumption
      <3> QED
        BY <3>1, <3>2, <3>3, <2>10
    <2>13. power[d + 1] <= power[2 * h]
      BY <2>11, PowersGrow
    <2>14. power[2 * h] = power[h] * power[h]
      BY <2>11, PowersSquare
    <2>15. power[d + 1] \in Nat /\ power[h] \in Nat /\ power[2 * h] \in Nat
      BY <2>11, Powers
    <2>16. PICK a, b : a = power[h] /\ b = Cardinality(nodes) + 1
      OBVIOUS
    <2>17. a * a <= b * b
      <3>1. a \in Nat /\ b \in Nat /\ a <= b
        BY <2>12, <2>15, <2>16
      <3> QED
        BY <3>1
    <2>18. power[d + 1] <= a * a
      BY <2>13, <2>14, <2>15, <2>16
    <2>19. power[d + 1] <= b * b
      <3>1. a \in Nat /\ b \in Nat /\ a * a \in Nat /\ b * b \in Nat
        BY <2>12, <2>15, <2>16
      <3> QED
        BY <3>1, <2>15, <2>17, <2>18
    <2> QED
      BY <2>9, <2>16, <2>19
  <1> QED
    BY <1>1, TreeSound, PTL
=============================================================================
