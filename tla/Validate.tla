------------------------------ MODULE Validate ------------------------------
(***************************************************************************)
(* What a receiver does with a message it does not trust (lib/capn.c):     *)
(* capn_validate walks the pointers from the root with a stack of its own, *)
(* a set of the objects it is inside of or has left, the hops that remain  *)
(* and the session's traversal budget; after it, capn_canonicalize walks   *)
(* them again.  One step is one turn of capn_validate's loop.              *)
(***************************************************************************)
EXTENDS Canonical

CONSTANTS
  Sessions,   \* [segs, nesting, traversal]: what is received, and the limits set
  Depth       \* more hops than any message of Sessions has without a cycle

VARIABLES
  session,    \* the struct capn: segments and limits
  left,       \* traversal_limit less traversal_used
  stack,      \* frames [p, idx]
  done,       \* the keys in state CAPN_V_DONE; the stack holds those in CAPN_V_PATH
  rc,         \* "NEW", "WALKING", then "OK" or "BAD" for 0 or -1
  canon       \* what capn_canonicalize made

vars == <<session, left, stack, done, rc, canon>>

segs == session.segs
NotYet == [rc |-> 1, words |-> <<>>, need |-> 0]

Init ==
  /\ session \in Sessions
  /\ left = session.traversal
  /\ stack = <<>> /\ done = {}
  /\ rc = "NEW"
  /\ canon = NotYet

-----------------------------------------------------------------------------
\* object_nchild and child_slot: the pointers in an object, in order.
child_slots(p) == Slots(p.data, Bodies(p), Stride(p), DataWords(p), PtrWords(p))

\* A slip: an object is known by its address alone.
Wrong_is_known(set, p) == \E key \in set : key.seg = p.seg /\ key.data = p.data

\* vset_find.
is_known(set, p) == Key(p) \in set
Path == {Key(stack[i].p) : i \in DOMAIN stack}

\* A slip: an object that is met inside itself counts as seen.
Wrong_vset_enter(p) == IF is_known(Path \cup done, p) THEN 1 ELSE 0

\* vset_enter: -1 inside of itself, 1 seen before, 0 newly visited.
vset_enter(p) ==
  CASE is_known(Path, p) -> -1
    [] is_known(done, p) -> 1
    [] OTHER -> 0

Top == stack[Len(stack)]
Child == child_slots(Top.p)[Top.idx]
ChildWord == WordAt(segs, Top.p.seg, Child)
HasChild == rc = "WALKING" /\ stack # <<>> /\ Top.idx \in DOMAIN child_slots(Top.p)
read_child == read_ptr(segs, Top.p.seg, Child, Top.p.rem, left)

\* f->idx++.
Moved == [stack EXCEPT ![Len(stack)].idx = @ + 1]

\* The end: what was charged is given back.
give_back(verdict) ==
  /\ rc' = verdict
  /\ left' = session.traversal
  /\ stack' = <<>>
  /\ UNCHANGED <<session, done, canon>>

root_absent ==
  /\ rc = "NEW"
  /\ Len8(segs, 0) > 0 => WordAt(segs, 0, 0) = Null
  /\ give_back("OK")

root_followed ==
  LET first == read_ptr(segs, 0, 0, session.nesting, left)
  IN  /\ rc = "NEW" /\ Len8(segs, 0) > 0 /\ WordAt(segs, 0, 0) # Null
      /\ IF first.err \/ first.p.type = "NULL"
         THEN give_back("BAD")
         ELSE /\ rc' = "WALKING"
              /\ left' = first.budget
              /\ stack' = <<[p |-> first.p, idx |-> 1]>>
              /\ UNCHANGED <<session, done, canon>>

null_child ==
  /\ HasChild /\ ChildWord = Null
  /\ stack' = Moved
  /\ UNCHANGED <<session, left, done, rc, canon>>

\* Not readable, inside itself, or as deep as there are hops.
bad_child ==
  /\ HasChild /\ ChildWord # Null
  /\ LET child == read_child
         ent == vset_enter(child.p)
     IN  \/ child.err
         \/ child.p.type = "NULL"
         \/ ent < 0
         \/ ent = 0 /\ Len(stack) >= session.nesting
  /\ give_back("BAD")

Readable_child == HasChild /\ ChildWord # Null /\ ~read_child.err /\ read_child.p.type # "NULL"

\* What has been left once is charged for and not entered again.
seen_child ==
  /\ Readable_child /\ vset_enter(read_child.p) = 1
  /\ left' = read_child.budget
  /\ stack' = Moved
  /\ UNCHANGED <<session, done, rc, canon>>

new_child ==
  /\ Readable_child /\ vset_enter(read_child.p) = 0
  /\ Len(stack) < session.nesting
  /\ left' = read_child.budget
  /\ stack' = Append(Moved, [p |-> read_child.p, idx |-> 1])
  /\ UNCHANGED <<session, done, rc, canon>>

\* vset_leave.
all_children_done ==
  /\ rc = "WALKING" /\ stack # <<>> /\ ~HasChild
  /\ done' = done \cup {Key(Top.p)}
  /\ stack' = Front(stack)
  /\ UNCHANGED <<session, left, rc, canon>>

all_done ==
  /\ rc = "WALKING" /\ stack = <<>>
  /\ give_back("OK")

validate ==
  \/ root_absent \/ root_followed
  \/ null_child \/ bad_child \/ seen_child \/ new_child
  \/ all_children_done \/ all_done

canonicalize ==
  /\ rc \in {"OK", "BAD"} /\ canon = NotYet
  /\ canon' = capn_canonicalize(segs, session.nesting, session.traversal, left)
  /\ UNCHANGED <<session, left, stack, done, rc>>

Next == validate \/ canonicalize

Spec == Init /\ [][Next]_vars

-----------------------------------------------------------------------------
\* What a message is, read from its words with no walk: the pointers that can
\* be followed from the root in `Depth` hops, level by level.
Followable(m, at) == WordAt(m, at[1], at[2]) # Null
Object(m, at) == read_ptr(m, at[1], at[2], -1, Unlimited)
Readable(m, at) == ~Object(m, at).err /\ Object(m, at).p.type # "NULL"

PointersIn(m, p) ==
  {at \in {<<p.seg, pos>> : pos \in Range(child_slots(p))} : Followable(m, at)}

Levels(m) ==
  LET root == {at \in {<<0, 0>>} : Len8(m, 0) > 0 /\ Followable(m, at)}
      below(levels, k) == Append(levels, UNION {PointersIn(m, Object(m, at).p) : at \in levels[k]})
  IN  FoldLeft(below, <<root>>, [k \in 1..(Depth - 1) |-> k])

\* The pointers of a message; those on its last level are on a cycle.
Pointers(levels) == UNION Range(levels)
Sound(m, levels) == levels[Depth] = {} /\ \A at \in Pointers(levels) : Readable(m, at)

Objects(m, levels) ==
  {[Object(m, at).p EXCEPT !.tag = FALSE] : at \in {x \in Pointers(levels) : Readable(m, x)}}

\* Objects that begin in the same place, and are of one kind, are the same.
\* Where they are not, the walks take one for the other.
Distinct(objects) ==
  \A p, q \in objects :
    (p.seg = q.seg /\ p.data = q.data /\ p.type = q.type /\ p.composite = q.composite) => p = q

\* What it costs to read the root, and every pointer of each object once.
WalkCost(m, objects) ==
  LET cost(at) == Unlimited - Object(m, at).budget
      below(p) == FoldSet(LAMBDA at, sum : sum + cost(at), 0, PointersIn(m, p))
  IN  FoldSet(LAMBDA p, sum : sum + below(p), cost(<<0, 0>>), objects)

\* What is shown behind the root, less the nulls at the ends of structs.
RECURSIVE Trimmed(_)
Trimmed(t) ==
  LET cut(s, isNull(_)) == SubSeq(s, 1, LastOf({i \in DOMAIN s : ~isNull(s[i])}))
      isNullWord(w) == w = Null
      isNullPtr(v) == v.type = "NULL"
      each(s) == [i \in DOMAIN s |-> Trimmed(s[i])]
  IN  CASE t.type = "STRUCT" ->
             [type |-> t.type, data |-> cut(t.data, isNullWord), ptrs |-> cut(each(t.ptrs), isNullPtr)]
        [] t.type = "PTR_LIST" -> [type |-> t.type, ptrs |-> each(t.ptrs)]
        [] t.type = "LIST" /\ "elements" \in DOMAIN t ->
             [type |-> t.type, elements |-> each(t.elements)]
        [] OTHER -> t

Meaning(m) == Trimmed(Tree(m, 0, 0, Depth))
Canonicalized == <<[words |-> canon.words, cap |-> canon.need]>>

\* Where no two objects are taken for one, what capn_validate accepts can be
\* read to the last pointer, and nothing in it is inside of itself.
AcceptsOnlySound ==
  rc = "OK" => LET levels == Levels(segs)
               IN  Distinct(Objects(segs, levels)) => Sound(segs, levels)

\* A sound message within both limits is accepted, whatever it shares.
AcceptsAllSound ==
  rc = "BAD" => LET levels == Levels(segs)
                    objects == Objects(segs, levels)
                IN  \/ ~Distinct(objects)
                    \/ ~Sound(segs, levels)
                    \/ levels[session.nesting + 1] # {}
                    \/ WalkCost(segs, objects) > session.traversal

\* What capn_canonicalize makes of a message says what the message said.
CanonicalSame ==
  (canon.rc = 0 /\ Len8(segs, 0) > 0) => Meaning(Canonicalized) = Meaning(segs)

\* The canonical form fills the segment that was measured for it, and is its own
\* canonical form.
CanonicalIsFixed ==
  canon.need > 0 =>
    /\ canon.rc = 0 /\ Len(canon.words) = canon.need
    /\ Distinct(Objects(Canonicalized, Levels(Canonicalized))) =>
         capn_canonicalize(Canonicalized, session.nesting, session.traversal, session.traversal)
           = canon
=============================================================================
