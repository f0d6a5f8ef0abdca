----------------------------- MODULE SegmentTree ----------------------------
(***************************************************************************)
(* The red-black tree of lib/capn.c, as it is used for the segments of a   *)
(* message, appended under the last one, and for the copies of a           *)
(* capn_setp, put where a search for them ended.                           *)
(*                                                                         *)
(* capn_tree_insert rebalances bottom up; a step is one turn of its loop.  *)
(* A node is its key: the id of a segment, or the place of what was copied *)
(* among the others.                                                       *)
(***************************************************************************)
EXTENDS Integers, FiniteSets

CONSTANTS MaxKey,         \* bound on the number of nodes
          NoNode          \* the null pointer

Keys == 0..MaxKey

ASSUME TreeAssumption == MaxKey \in Nat /\ NoNode \notin Keys

VARIABLES use,            \* "segments" or "copies"
          nodes,          \* the keys in the tree
          link,           \* struct capn_tree of each node
          parent,
          red,
          root,           \* c->segtree or c->copy
          last,           \* c->lastseg
          n               \* the node capn_tree_insert is at

vars == <<use, nodes, link, parent, red, root, last, n>>

Sides == {0, 1}
Node == Keys \cup {NoNode}

TypeOK ==
  /\ use \in {"segments", "copies"}
  /\ nodes \subseteq Keys
  /\ link \in [Keys -> [Sides -> Node]]
  /\ parent \in [Keys -> Node]
  /\ red \in [Keys -> BOOLEAN]
  /\ root \in Node /\ last \in Node /\ n \in Node

Init ==
  /\ use \in {"segments", "copies"}
  /\ nodes = {}
  /\ link = [k \in Keys |-> [s \in Sides |-> NoNode]]
  /\ parent = [k \in Keys |-> NoNode]
  /\ red = [k \in Keys |-> FALSE]
  /\ root = NoNode /\ last = NoNode /\ n = NoNode

-----------------------------------------------------------------------------
\* The search of lookup_segment and of copy_ptr: the nodes it passes, ending
\* at the key or at the last node before a null link.
Toward(k, x) == IF k < x THEN 0 ELSE 1
Walk(k) ==
  LET steps[i \in Keys] ==
        LET x == IF i = 0 THEN root ELSE steps[i - 1]
        IN  IF i = 0 \/ x = NoNode \/ x = k THEN x ELSE link[x][Toward(k, x)]
  IN  steps
Reached(k) == Walk(k)[MaxKey]
WalkLength(k) == Cardinality({i \in Keys : \A j \in 0..i : Walk(k)[j] # k})
LastPassed(k) ==
  CHOOSE x \in nodes : link[x][Toward(k, x)] = NoNode /\ \E i \in Keys : Walk(k)[i] = x

-----------------------------------------------------------------------------
\* The beginning of capn_tree_insert, once the caller has hung the node.
Entered(k) ==
  /\ nodes' = nodes \cup {k}
  /\ red' = [red EXCEPT ![k] = TRUE]
  /\ n' = k
  /\ UNCHANGED <<use, root>>

\* capn_append_segment: the new segment has the next id.
capn_append_segment(k) ==
  /\ use = "segments" /\ n = NoNode
  /\ k = Cardinality(nodes)
  /\ Entered(k)
  /\ last' = k
  /\ parent' = [parent EXCEPT ![k] = last]
  /\ link' = IF last = NoNode THEN link ELSE [link EXCEPT ![last][1] = k]

\* copy_ptr, where no copy was found.
copy_ptr_insert(k) ==
  /\ use = "copies" /\ n = NoNode
  /\ k \notin nodes
  /\ Entered(k)
  /\ IF nodes = {} THEN UNCHANGED <<link, parent>>
     ELSE LET cp == LastPassed(k)
          IN  /\ parent' = [parent EXCEPT ![k] = cp]
              /\ link' = [link EXCEPT ![cp][Toward(k, cp)] = k]
  /\ UNCHANGED last

-----------------------------------------------------------------------------
\* The cases of the loop, by what is around n.

p == parent[n]
g == parent[p]
dir == IF p = link[g][1] THEN 1 ELSE 0
u == link[g][1 - dir]
\* A slip: the uncle's colour is not looked at, and the tree rotated where it
\* should be recoloured.
Wrong_red_uncle == FALSE

RedUncle == u # NoNode /\ red[u]
Inner == dir # (IF n = link[p][1] THEN 1 ELSE 0)

\* Slips: the great grandparent's link is taken to be the left one; the loop is
\* not left.
Wrong_replaced(links, x) ==
  IF parent[g] = NoNode THEN links ELSE [links EXCEPT ![parent[g]][0] = x]
Wrong_done == n' = n

\* The link that leads to g, made to lead to x.
Replaced(links, x) ==
  IF parent[g] = NoNode THEN links
  ELSE [links EXCEPT ![parent[g]][IF link[parent[g]][1] = g THEN 1 ELSE 0] = x]
Adopt(parents, child, x) == IF child = NoNode THEN parents ELSE [parents EXCEPT ![child] = x]

Done == n' = NoNode

\* Case 1.
Root_reached ==
  /\ n # NoNode /\ p = NoNode
  /\ red' = [red EXCEPT ![n] = FALSE]
  /\ root' = n
  /\ Done
  /\ UNCHANGED <<use, nodes, link, parent, last>>

\* Case 2.
Black_parent ==
  /\ n # NoNode /\ p # NoNode /\ ~red[p]
  /\ Done
  /\ UNCHANGED <<use, nodes, link, parent, red, root, last>>

\* Case 3.
Recolour ==
  /\ n # NoNode /\ p # NoNode /\ red[p] /\ RedUncle
  /\ red' = [red EXCEPT ![p] = FALSE, ![u] = FALSE, ![g] = TRUE]
  /\ n' = g
  /\ UNCHANGED <<use, nodes, link, parent, root, last>>

\* Case 4: n comes up over p and g.
Rotate_twice ==
  /\ n # NoNode /\ p # NoNode /\ red[p] /\ ~RedUncle /\ Inner
  /\ LET two == link[n][dir]
         three == link[n][1 - dir]
         links == [link EXCEPT ![p][1 - dir] = two, ![g][dir] = three,
                               ![n][dir] = p, ![n][1 - dir] = g]
         parents == [parent EXCEPT ![n] = parent[g], ![p] = n, ![g] = n]
     IN  /\ link' = Replaced(links, n)
         /\ parent' = Adopt(Adopt(parents, two, p), three, g)
         /\ red' = [red EXCEPT ![n] = FALSE, ![g] = TRUE]
         /\ root' = IF parent[g] = NoNode THEN n ELSE root
  /\ Done
  /\ UNCHANGED <<use, nodes, last>>

\* Case 5: p comes up over g.
Rotate_once ==
  /\ n # NoNode /\ p # NoNode /\ red[p] /\ ~RedUncle /\ ~Inner
  /\ LET three == link[p][1 - dir]
         links == [link EXCEPT ![g][dir] = three, ![p][1 - dir] = g]
         parents == [parent EXCEPT ![p] = parent[g], ![g] = p]
     IN  /\ link' = Replaced(links, p)
         /\ parent' = Adopt(parents, three, g)
         /\ red' = [red EXCEPT ![g] = TRUE, ![p] = FALSE]
         /\ root' = IF parent[g] = NoNode THEN p ELSE root
  /\ Done
  /\ UNCHANGED <<use, nodes, last>>

capn_tree_insert ==
  Root_reached \/ Black_parent \/ Recolour \/ Rotate_twice \/ Rotate_once

Next ==
  \/ \E k \in Keys : capn_append_segment(k) \/ copy_ptr_insert(k)
  \/ capn_tree_insert

\* The loop runs until it returns; nothing is promised of who calls it.
Spec == Init /\ [][Next]_vars
FairSpec == Spec /\ WF_vars(capn_tree_insert)

-----------------------------------------------------------------------------
(* Properties. *)

\* The search finds every node ever hung in the tree, whatever was rotated since
\* and also between two turns of the loop: no far pointer misses its segment, no
\* copy is made twice.
KeysFound ==
  /\ \A k \in nodes : root # NoNode => Reached(k) = k
  /\ n = NoNode /\ nodes # {} => root # NoNode

power[i \in Nat] == IF i = 0 THEN 1 ELSE 2 * power[i - 1]

\* A search passes at most two times the binary logarithm of the nodes, though
\* segments always come in at the same end.
ShortWalks ==
  n = NoNode =>
    \A k \in nodes :
      LET size == Cardinality(nodes) + 1 IN power[WalkLength(k) + 1] <= size * size

\* capn_tree_insert returns.
InsertEnds == n # NoNode ~> n = NoNode

=============================================================================
