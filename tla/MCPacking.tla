----------------------------- MODULE MCPacking -----------------------------
(***************************************************************************)
(* Packing for TLC: words of two bytes, so that one has both, one or no    *)
(* zero byte, in messages of one segment of up to four words or two of up  *)
(* to one.                                                                 *)
(***************************************************************************)
EXTENDS Packing

SegmentsUpTo(n) == UNION {[1..(2 * k) -> {0, 1}] : k \in 0..n}

AllMessages ==
  {<<s>> : s \in SegmentsUpTo(4)}
    \cup {<<s, t>> : s \in SegmentsUpTo(1), t \in SegmentsUpTo(1)}
=============================================================================
