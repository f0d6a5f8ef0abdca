----------------------------- MODULE MCValidate -----------------------------
EXTENDS Validate

S(off, dw, pw) == [a |-> STRUCT_PTR, b |-> off, c |-> dw, d |-> pw]
L(off, size, n) == WithUpper(LIST_PTR, off, size + 8 * n)

\* Words that are pointers, tags of composite lists, and data.
OneSegment ==
  {Null, S(0, 0, 1), S(0, 1, 1), S(-1, 0, 0), S(1, 0, 1), S(1, 1, 0), S(-2, 0, 1), S(2, 0, 1), S(2, 1, 0),
   L(0, COMPOSITE_LIST, 2), L(0, PTR_LIST, 2), L(0, VOID_LIST, 1), WithUpper(OTHER_PTR, 0, 1)}

TwoSegments ==
  {Null, S(0, 0, 1), S(-1, 0, 1), S(0, 1, 0), L(0, PTR_LIST, 1),
   write_far_ptr(1, 0), write_far_ptr(0, 1), write_double_far(1, 0), write_far_ptr(1, 1), WithUpper(OTHER_PTR, 0, 2)}

Segment(words) == [words |-> words, cap |-> Len(words)]
Messages ==
  {<<Segment(w)>> : w \in [1..4 -> OneSegment]} \cup {<<Segment(<<>>)>>}
    \cup {<<Segment(v), Segment(w)>> : v \in [1..2 -> TwoSegments], w \in [1..2 -> TwoSegments]}

AllSessions ==
  {[segs |-> m, nesting |-> lim[1], traversal |-> lim[2]] :
     m \in Messages, lim \in {<<2, 20>>, <<3, 5>>, <<4, 12>>}}
=============================================================================
