------------------------------ MODULE Canonical -----------------------------
(***************************************************************************)
(* capn_canonicalize (lib/capn.c): a message measured, then written again  *)
(* into one segment, in preorder, without far pointers, its trailing zero  *)
(* words cut off and what is shared written once for each pointer to it.   *)
(*                                                                         *)
(* Both walks go down a pointer for each hop that remains; the padding of  *)
(* lists of less than a word is taken to be zero.                          *)
(***************************************************************************)
EXTENDS Wire, SequencesExt

\* The key under which a walk knows an object, capn_vslot.
Key(p) == [seg |-> p.seg, data |-> p.data, type |-> p.type, composite |-> p.composite]

-----------------------------------------------------------------------------
\* Objects as bodies of data and pointer words: one, or one for each element
\* of a composite list.
Bodies(p) == IF p.composite THEN p.len ELSE 1
DataWords(p) ==
  CASE p.type = "STRUCT" \/ p.composite -> p.datasz \div 8
    [] p.type = "PTR_LIST" -> 0
    [] OTHER -> DataSize(p)
PtrWords(p) == IF p.type = "PTR_LIST" THEN p.len ELSE p.ptrs
BodyStart(p, i) == p.data + (i - 1) * Stride(p)

\* The positions of the pointers of n bodies, `dw` words of data in each and the
\* bodies `stride` apart.
Slots(start, n, stride, dw, pw) ==
  [k \in 1..(n * pw) |-> start + ((k - 1) \div pw) * stride + dw + ((k - 1) % pw)]

LastOf(places) == IF places = {} THEN 0 ELSE CHOOSE i \in places : \A j \in places : j <= i
CutsOff(p) == p.type = "STRUCT" \/ p.composite

\* A slip: only the first element of a list is looked at.
Wrong_trunc_data_words(m, p) ==
  LastOf({k \in 1..DataWords(p) : ~CutsOff(p) \/ WordAt(m, p.seg, p.data + k - 1) # Null})

\* trunc_data_words, trunc_ptr_words and, over all elements, trunc_composite.
trunc_data_words(m, p) ==
  LastOf({k \in 1..DataWords(p) :
          ~CutsOff(p) \/ \E i \in 1..Bodies(p) : WordAt(m, p.seg, BodyStart(p, i) + k - 1) # Null})
trunc_ptr_words(m, p) ==
  LastOf({k \in 1..PtrWords(p) :
          \/ ~CutsOff(p)
          \/ \E i \in 1..Bodies(p) :
               WordAt(m, p.seg, BodyStart(p, i) + DataWords(p) + k - 1) # Null})

\* A slip: the tag of a composite list is not counted.
Wrong_CanonSize(m, p) == Bodies(p) * (trunc_data_words(m, p) + trunc_ptr_words(m, p))

\* The words an object takes in canonical form.
CanonSize(m, p) ==
  Bodies(p) * (trunc_data_words(m, p) + trunc_ptr_words(m, p)) + (IF p.composite THEN 1 ELSE 0)

\* The pointers of an object that are followed.
Followed(m, p) ==
  Slots(p.data, Bodies(p), Stride(p), DataWords(p), trunc_ptr_words(m, p))

\* load_child: null is not read, but needs a hop to be left all the same.
load_child(m, seg, pos, rem, budget) ==
  IF rem = 0 \/ ~InBounds(m, seg, pos, 1) THEN [err |-> TRUE]
  ELSE IF WordAt(m, seg, pos) = Null THEN [err |-> FALSE, p |-> NullPtr, budget |-> budget]
  ELSE LET r == read_ptr(m, seg, pos, rem, budget)
       IN  IF r.p.type = "NULL" THEN [err |-> TRUE] ELSE r

-----------------------------------------------------------------------------
\* A walk: the objects it is inside of, what is left of the budget, and what it
\* has counted, or written.
Failing(s) == [s EXCEPT !.ok = FALSE]

\* canon_measure: `total` grows to at most `limit`.
RECURSIVE canon_measure(_, _, _, _)
canon_measure(m, s, p, rem) ==
  LET inside == [s EXCEPT !.path = @ \cup {Key(p)}, !.total = @ + CanonSize(m, p)]
      child(t, pos) ==
        LET r == load_child(m, p.seg, pos, rem, t.budget)
        IN  IF ~t.ok \/ r.err THEN Failing(t)
            ELSE canon_measure(m, [t EXCEPT !.budget = r.budget], r.p, rem - 1)
  IN  CASE p.type \in {"NULL", "INTERFACE"} -> s
        [] OTHER ->
             IF Key(p) \in s.path \/ inside.total > s.limit THEN Failing(s)
             ELSE [FoldLeft(child, inside, Followed(m, p)) EXCEPT !.path = s.path]

\* What canon_emit copies before it follows any pointer.
Copied(m, p, dw, pw) ==
  LET body(i) ==
        [j \in 1..(dw + pw) |-> IF j <= dw THEN WordAt(m, p.seg, BodyStart(p, i) + j - 1) ELSE Null]
  IN  (IF p.composite THEN <<ListTag(p.len, dw, pw)>> ELSE <<>>)
        \o FlattenSeq([i \in 1..Bodies(p) |-> body(i)])

\* The pointer to an object cut to `dw` and `pw` words and put at `obj`.
Tag(p, dw, pw, at, obj) ==
  write_ptr_tag(IF CutsOff(p) THEN [p EXCEPT !.datasz = 8 * dw, !.ptrs = pw] ELSE p,
                IF p.type = "STRUCT" /\ dw + pw = 0 THEN -1 ELSE obj - at - 1)

\* canon_emit of p, with its pointer at position `at` of `words`, of which there
\* can be `cap`.
RECURSIVE canon_emit(_, _, _, _, _)
canon_emit(m, s, at, p, rem) ==
  LET dw == trunc_data_words(m, p)
      pw == trunc_ptr_words(m, p)
      obj == Len(s.words)
      linked(w) == [s EXCEPT !.words = [@ EXCEPT ![at + 1] = w]]
      inside == [linked(Tag(p, dw, pw, at, obj)) EXCEPT
                   !.path = @ \cup {Key(p)}, !.words = @ \o Copied(m, p, dw, pw)]
      from == Followed(m, p)
      to == Slots(IF p.composite THEN obj + 1 ELSE obj, Bodies(p), dw + pw, dw, pw)
      child(t, k) ==
        LET r == load_child(m, p.seg, from[k], rem, t.budget)
        IN  IF ~t.ok \/ r.err THEN Failing(t)
            ELSE canon_emit(m, [t EXCEPT !.budget = r.budget], to[k], r.p, rem - 1)
  IN  CASE p.type = "NULL" -> linked(Null)
        [] p.type = "INTERFACE" -> linked(write_ptr_tag(p, 0))
        [] OTHER ->
             IF Key(p) \in s.path \/ obj + CanonSize(m, p) > s.cap THEN Failing(s)
             ELSE [FoldLeft(child, inside, [k \in DOMAIN from |-> k]) EXCEPT !.path = s.path]

\* capn_canonicalize: what it returns, the segment it made, and its size as
\* measured.  `left` of the `limit` has not been used; it starts over between
\* the walks.
capn_canonicalize(m, nest, limit, left) ==
  LET first == read_ptr(m, 0, 0, nest, left)
      rem == first.p.rem
      measured == canon_measure(m, [ok |-> TRUE, path |-> {}, budget |-> first.budget,
                                    total |-> 1, limit |-> limit], first.p, rem)
      emitted == canon_emit(m, [ok |-> TRUE, path |-> {}, budget |-> left,
                                words |-> <<Null>>, cap |-> measured.total], 0, first.p, rem)
      none == [rc |-> -1, words |-> <<>>, need |-> 0]
  IN  IF Len8(m, 0) = 0 THEN none
      ELSE IF WordAt(m, 0, 0) = Null THEN [rc |-> 0, words |-> <<Null>>, need |-> 1]
      ELSE IF first.err \/ first.p.type = "NULL" THEN none
      ELSE IF ~measured.ok THEN none
      ELSE [rc |-> IF emitted.ok THEN 0 ELSE -1, words |-> emitted.words, need |-> measured.total]
=============================================================================
