------------------------------ MODULE MCArena -------------------------------
(* Instances of Arena for TLC. *)
EXTENDS Arena

CONSTANTS c1, c2

Struct(dw, pw) == [NullPtr EXCEPT !.type = "STRUCT", !.datasz = 8 * dw, !.ptrs = pw]
StructList(n, dw, pw) ==
  [NullPtr EXCEPT !.type = "LIST", !.len = n, !.datasz = 8 * dw, !.ptrs = pw, !.composite = TRUE]
PtrList(n) == [NullPtr EXCEPT !.type = "PTR_LIST", !.len = n]

OneValue == {[a |-> 3, b |-> 1, c |-> 0, d |-> 0]}
SmallShapes == {Struct(1, 1), StructList(1, 1, 1), PtrList(2)}
Symmetry == Permutations(Messages)
=============================================================================
