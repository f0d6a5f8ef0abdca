-------------------------------- MODULE Wire --------------------------------
(***************************************************************************)
(* Words of a message and the pointers in them (lib/capn.c): what read_ptr *)
(* makes of a word, and what write_ptr_tag makes of a capn_ptr.            *)
(*                                                                         *)
(* A word is the four fields every kind of pointer is cut into: a, the two *)
(* low bits; b, the next thirty, signed; c and d, two times sixteen.  A    *)
(* message is a sequence of segments, segment `id` its element id + 1; a   *)
(* segment has its words and its capacity.  Positions and sizes are in     *)
(* words, except for a list's elements of less than a word, in bytes.      *)
(***************************************************************************)
EXTENDS Integers, Sequences

Word == [a: 0..3, b: Int, c: Nat, d: Nat]
Null == [a |-> 0, b |-> 0, c |-> 0, d |-> 0]

STRUCT_PTR == 0
LIST_PTR == 1
FAR_PTR == 2
OTHER_PTR == 3

\* The upper half of a word, and b without its sign.
Upper(w) == w.c + 65536 * w.d
Unsigned(b) == IF b < 0 THEN b + 1073741824 ELSE b
WithUpper(a, b, u) == [a |-> a, b |-> b, c |-> u % 65536, d |-> u \div 65536]

IsFar(w) == w.a = FAR_PTR /\ w.b % 2 = 0
IsDouble(w) == w.a = FAR_PTR /\ w.b % 2 = 1
\* The word a far pointer leads to.
FarOffset(w) == Unsigned(w.b) \div 2

\* Sizes of list elements.
VOID_LIST == 0
BIT_1_LIST == 1
BYTE_1_LIST == 2
BYTE_2_LIST == 3
BYTE_4_LIST == 4
BYTE_8_LIST == 5
PTR_LIST == 6
COMPOSITE_LIST == 7
ElementBytes(size) ==
  CASE size = VOID_LIST -> 0 [] size = BYTE_1_LIST -> 1 [] size = BYTE_2_LIST -> 2
    [] size = BYTE_4_LIST -> 4 [] size = BYTE_8_LIST -> 8

-----------------------------------------------------------------------------
\* capn_ptr: `data` is a word of segment `seg`, `datasz` in bytes, `rem` the
\* hops that remain, -1 where nesting_valid is not set.
NullPtr ==
  [type |-> "NULL", seg |-> 0, data |-> 0, datasz |-> 0, ptrs |-> 0, len |-> 0,
   composite |-> FALSE, tag |-> FALSE, member |-> FALSE, rem |-> -1]

Ptr ==
  [type: STRING, seg: Nat, data: Int, datasz: Nat, ptrs: Nat, len: Nat,
   composite: BOOLEAN, tag: BOOLEAN, member: BOOLEAN, rem: Int]

\* `datasz` has nineteen bits.
MAX_DATASZ == 524287

Words(bytes) == (bytes + 7) \div 8
Bytes(bits) == (bits + 7) \div 8
Stride(p) == p.datasz \div 8 + p.ptrs

\* data_size, in words.
DataSize(p) ==
  CASE p.type = "BIT_LIST" -> Words(p.datasz)
    [] p.type = "PTR_LIST" -> p.len
    [] p.type = "STRUCT" -> Stride(p)
    [] p.type = "LIST" /\ p.composite -> p.len * Stride(p) + 1
    [] p.type = "LIST" /\ ~p.composite -> Words(p.len * p.datasz)
    [] OTHER -> 0

HasSegment(m, id) == id + 1 \in DOMAIN m
Len8(m, id) == Len(m[id + 1].words)
WordAt(m, id, i) == m[id + 1].words[i + 1]
InBounds(m, id, i, n) == HasSegment(m, id) /\ i >= 0 /\ i + n <= Len8(m, id)

-----------------------------------------------------------------------------
\* Where read_ptr finds what it decodes: a segment, a position in it and the
\* word that stands for the pointer there.
Broken == [ok |-> FALSE]
At(seg, pos, w) == [ok |-> TRUE, seg |-> seg, pos |-> pos, word |-> w]

\* lookup_far.
LookupFar(m, w) ==
  IF InBounds(m, Upper(w), FarOffset(w), 1)
  THEN At(Upper(w), FarOffset(w), WordAt(m, Upper(w), FarOffset(w))) ELSE Broken

\* lookup_double: the pad holds a far pointer to the start of the object and
\* its tag; offsets count from the word before the segment.
Pad(m, far, tag) ==
  IF IsFar(far) /\ tag.a <= LIST_PTR /\ tag.b = 0 /\ HasSegment(m, Upper(far))
  THEN At(Upper(far), -1, [tag EXCEPT !.b = FarOffset(far)]) ELSE Broken

LookupDouble(m, w) ==
  IF InBounds(m, Upper(w), FarOffset(w), 2)
  THEN Pad(m, WordAt(m, Upper(w), FarOffset(w)), WordAt(m, Upper(w), FarOffset(w) + 1))
  ELSE Broken

Landing(m, seg, pos) ==
  IF ~InBounds(m, seg, pos, 1) THEN Broken
  ELSE IF IsFar(WordAt(m, seg, pos)) THEN LookupFar(m, WordAt(m, seg, pos))
  ELSE IF IsDouble(WordAt(m, seg, pos)) THEN LookupDouble(m, WordAt(m, seg, pos))
  ELSE At(seg, pos, WordAt(m, seg, pos))

\* The object a landing describes, before its bounds are checked, or NullPtr
\* for a size no object has.
Composite(list, tag) ==
  IF (tag.c + tag.d) * Unsigned(tag.b) # list.len THEN NullPtr
  ELSE [list EXCEPT !.data = @ + 1, !.datasz = tag.c * 8, !.ptrs = tag.d,
                    !.len = Unsigned(tag.b), !.composite = TRUE]

ListOf(m, list, size) ==
  CASE size = BIT_1_LIST ->
         IF Bytes(list.len) > MAX_DATASZ THEN NullPtr
         ELSE [list EXCEPT !.type = "BIT_LIST", !.datasz = Bytes(list.len)]
    [] size = PTR_LIST -> [list EXCEPT !.type = "PTR_LIST"]
    [] size = COMPOSITE_LIST ->
         IF InBounds(m, list.seg, list.data, 1 + list.len)
         THEN Composite(list, WordAt(m, list.seg, list.data)) ELSE NullPtr
    [] OTHER -> [list EXCEPT !.datasz = ElementBytes(size)]

ListAt(m, at, start) ==
  ListOf(m, [NullPtr EXCEPT !.type = "LIST", !.seg = at.seg, !.data = start,
                            !.len = Upper(at.word) \div 8],
         Upper(at.word) % 8)

StructAt(at, start) ==
  [NullPtr EXCEPT !.type = "STRUCT", !.seg = at.seg, !.data = start,
                  !.datasz = at.word.c * 8, !.ptrs = at.word.d]

CapabilityAt(at) ==
  [NullPtr EXCEPT !.type = "INTERFACE", !.seg = at.seg, !.data = at.pos, !.len = Upper(at.word)]

\* A slip: the tag of a composite list is not counted in.
Wrong_begin(p) == p.data

\* The first word that belongs to an object: the tag of a composite list.
Begin(p) == IF p.composite THEN p.data - 1 ELSE p.data

\* charge_traversal, in words: void elements cost one each.  A list of elements of
\* less than a word costs the words it takes, where the code counts its bytes;
\* messages with such lists are not built here.
Cost(p) ==
  LET n == DataSize(p) - (IF p.composite THEN 1 ELSE 0)
  IN  IF n = 0 THEN p.len ELSE n

\* What read_ptr gives: the capn_ptr, what is left of the traversal budget, and
\* whether decode_err is set.
Failed(budget) == [err |-> TRUE, p |-> NullPtr, budget |-> budget]
Given(p, budget) == [err |-> FALSE, p |-> p, budget |-> budget]

Charged(m, p, budget) ==
  IF \/ p.type = "NULL"
     \/ ~InBounds(m, p.seg, Begin(p), DataSize(p))
     \/ Cost(p) > budget
  THEN Failed(budget) ELSE Given(p, budget - Cost(p))

\* Where the object of a landing starts.
apply_offset(at) == at.pos + 1 + at.word.b

\* read_ptr from a landing on; `far` where a far pointer led to it.
ReadObject(m, at, start, far, budget) ==
  IF ~InBounds(m, at.seg, start, 0) THEN Failed(budget)
  ELSE IF at.word = Null THEN Given(NullPtr, budget)
  ELSE Charged(m,
               [(IF at.word.a = STRUCT_PTR THEN StructAt(at, start) ELSE ListAt(m, at, start))
                  EXCEPT !.tag = far /\ at.word.b = 0],
               budget)

ReadLanding(m, at, far, budget) ==
  IF ~at.ok THEN Failed(budget)
  ELSE CASE at.word.a = FAR_PTR -> Failed(budget)
         [] at.word.a = OTHER_PTR ->
              IF at.word.b # 0 THEN Failed(budget) ELSE Given(CapabilityAt(at), budget)
         [] OTHER -> ReadObject(m, at, apply_offset(at), far, budget)

\* read_ptr of the word at `pos` in segment `seg`.  `rem` counts the hops left,
\* this one included; it is not checked when negative.
read_ptr(m, seg, pos, rem, budget) ==
  IF rem = 0 THEN Failed(budget)
  ELSE [ReadLanding(m, Landing(m, seg, pos), IsFar(WordAt(m, seg, pos)), budget)
          EXCEPT !.p.rem = IF rem > 0 THEN rem - 1 ELSE -1]

-----------------------------------------------------------------------------
\* write_ptr_tag: the word for p when its object begins `off` words behind it.
SizeOf(p) ==
  CASE p.composite -> COMPOSITE_LIST + 8 * p.len * Stride(p)
    [] p.type = "BIT_LIST" -> BIT_1_LIST + 8 * p.len
    [] p.type = "PTR_LIST" -> PTR_LIST + 8 * p.len
    [] OTHER -> 8 * p.len +
         (CHOOSE size \in {VOID_LIST, BYTE_1_LIST, BYTE_2_LIST, BYTE_4_LIST, BYTE_8_LIST} :
            ElementBytes(size) = p.datasz)

write_ptr_tag(p, off) ==
  CASE p.type = "NULL" -> Null
    [] p.type = "INTERFACE" -> WithUpper(OTHER_PTR, 0, p.len)
    [] p.type = "STRUCT" ->
         [a |-> STRUCT_PTR, b |-> off, c |-> p.datasz \div 8, d |-> p.ptrs]
    [] OTHER -> WithUpper(LIST_PTR, off, SizeOf(p))

\* A slip: the pointer leads behind the tag, to the object.
Wrong_write_far_ptr(seg, pos) == WithUpper(FAR_PTR, 2 * (pos + 1), seg)

write_far_ptr(seg, pos) == WithUpper(FAR_PTR, 2 * pos, seg)
write_double_far(seg, pos) == WithUpper(FAR_PTR, 2 * pos + 1, seg)

\* The tag word in front of the elements of a composite list.
ListTag(len, datawords, ptrs) ==
  [a |-> STRUCT_PTR, b |-> len, c |-> datawords, d |-> ptrs]

-----------------------------------------------------------------------------
\* What a reader finds at a capn_ptr, and behind the pointer word at `pos` of
\* segment `seg`, `n` pointers deep: values without places, to be compared.
Unlimited == 1000000
Unreadable == [NullPtr EXCEPT !.type = "BROKEN"]
Seen(r) == IF r.err THEN Unreadable ELSE r.p

Show(m, object, n) ==
  LET show[k \in Nat, p \in Ptr] ==
        LET dw == p.datasz \div 8
            data(at, count) == [j \in 1..count |-> WordAt(m, p.seg, at + j - 1)]
            ptrs(at, count) ==
              [j \in 1..count |->
                 show[k - 1, Seen(read_ptr(m, p.seg, at + j - 1, -1, Unlimited))]]
            body(at) == [type |-> "STRUCT", data |-> data(at, dw), ptrs |-> ptrs(at + dw, p.ptrs)]
        IN  IF p.type = "BROKEN" THEN [type |-> p.type]
            ELSE IF k = 0 THEN [type |-> "DEEP"]
            ELSE CASE p.type = "STRUCT" -> body(p.data)
                   [] p.type = "PTR_LIST" -> [type |-> p.type, ptrs |-> ptrs(p.data, p.len)]
                   [] p.composite ->
                        [type |-> "LIST", dw |-> dw, pw |-> p.ptrs,
                         elements |-> [e \in 1..p.len |-> body(p.data + (e - 1) * Stride(p))]]
                   [] OTHER -> [type |-> p.type, len |-> p.len, datasz |-> p.datasz,
                                data |-> data(p.data, DataSize(p))]
  IN  show[n, object]

Tree(m, seg, pos, n) == Show(m, Seen(read_ptr(m, seg, pos, -1, Unlimited)), n)
=============================================================================
