------------------------------- MODULE Arena --------------------------------
(***************************************************************************)
(* Building messages (lib/capn.c): segments that fill up, objects placed   *)
(* in them, pointers set and followed, and trees copied from one message   *)
(* to another or out of a list.                                            *)
(*                                                                         *)
(* An application works on a few messages through capn_ptr handles.  An    *)
(* action is one call, but capn_setp, when it has to copy, takes one step  *)
(* for each turn of its loop; nothing else happens meanwhile.              *)
(***************************************************************************)
EXTENDS Wire, SequencesExt, TLC

CONSTANTS
  Messages,             \* the sessions (struct capn)
  MAX_SEGMENTS,         \* create gives a message no more segments than this
  CREATE_MIN_SZ,        \* CAPN_CREATE_MIN_SZ, in words
  SEGMENT_SZ,           \* sizeof(struct capn_segment), in words
  MAX_COPY_DEPTH,
  ADD_TAG,              \* 1, or 0 to test double far pointers
  Shapes,               \* the objects an application asks for
  Values,               \* and the words it writes in them
  Habits,               \* what the application does that the library takes badly
  MaxHandles,           \* bound on the handles it keeps
  MaxCalls              \* bound on the calls it makes

ASSUME ArenaAssumption ==
  /\ MAX_SEGMENTS \in Nat \ {0} /\ MAX_COPY_DEPTH \in Nat \ {0}
  /\ CREATE_MIN_SZ \in Nat /\ SEGMENT_SZ \in Nat /\ CREATE_MIN_SZ > SEGMENT_SZ
  /\ ADD_TAG \in {0, 1}
  /\ Values \subseteq Word /\ Null \notin Values
  /\ Habits \subseteq {"raw", "narrow", "stale"}
  /\ MaxHandles \in Nat /\ MaxCalls \in Nat

VARIABLES
  mem,                  \* of each message, its segments
  copies,               \* of each message, its copy tree
  call,                 \* the capn_setp in progress: its stack, or what it returned
  handles,              \* the capn_ptrs the application holds
  calls,                \* how many calls it made
  expects,              \* history: what it put into which word
  stale                 \* history: messages whose copy tree is not to be trusted

vars == <<mem, copies, call, handles, calls, expects, stale>>

\* A capn_ptr with its session; the application writes only to the objects it
\* made.  A place is a word of a segment of a session.
Handle(c, p) == [c |-> c, p |-> p, made |-> FALSE]
Made(c, p) == [c |-> c, p |-> p, made |-> TRUE]
Place(c, seg, pos) == <<c, seg, pos>>

Smaller(a, b) == IF a < b THEN a ELSE b

-----------------------------------------------------------------------------
\* Segments.  `m` is the segments of one message.

Room(m, id, n) == Len8(m, id) + n <= m[id + 1].cap
Extended(m, id, n) == [m EXCEPT ![id + 1].words = @ \o [i \in 1..n |-> Null]]
Store(m, id, pos, w) == [m EXCEPT ![id + 1].words[pos + 1] = w]

\* What create in capn-malloc.c makes of a request for n words.
create(n) ==
  LET sz == n + SEGMENT_SZ
      units == (sz + CREATE_MIN_SZ - 1) \div CREATE_MIN_SZ
  IN  [words |-> <<>>, cap |-> units * CREATE_MIN_SZ - SEGMENT_SZ]

\* new_data: n words in the first segment that has them, or in a new one.
Allocated(m, id, n) == [ok |-> TRUE, seg |-> id, pos |-> Len8(m, id), m |-> Extended(m, id, n)]

new_data(m, n) ==
  LET fits == {id \in 0..(Len(m) - 1) : Room(m, id, n)}
  IN  IF fits # {}
      THEN Allocated(m, CHOOSE id \in fits : \A other \in fits : id <= other, n)
      ELSE IF Len(m) < MAX_SEGMENTS
      THEN Allocated(Append(m, create(n)), Len(m), n)
      ELSE [ok |-> FALSE, m |-> m]

\* new_object: p placed, in its own segment if there is room, or in another
\* behind a tag; NullPtr without memory.
BehindTag(p, got) ==
  IF ~got.ok THEN [p |-> NullPtr, m |-> got.m]
  ELSE [p |-> [p EXCEPT !.seg = got.seg, !.data = got.pos + ADD_TAG, !.tag = ADD_TAG = 1],
        m |-> IF ADD_TAG = 1 THEN Store(got.m, got.seg, got.pos, write_ptr_tag(p, 0))
              ELSE got.m]

new_object(m, p) ==
  IF Room(m, p.seg, DataSize(p)) \/ DataSize(p) = 0
  THEN [p |-> [p EXCEPT !.data = Len8(m, p.seg)], m |-> Extended(m, p.seg, DataSize(p))]
  ELSE BehindTag(p, new_data(m, DataSize(p) + ADD_TAG))

\* capn_new_struct_list writes its tag into the first word of the object.
ListTagged(new) ==
  IF ~new.p.composite THEN new
  ELSE [p |-> [new.p EXCEPT !.data = @ + 1],
        m |-> Store(new.m, new.p.seg, new.p.data,
                    ListTag(new.p.len, new.p.datasz \div 8, new.p.ptrs))]

\* capn_new_struct, _ptr_list, _list1, _struct_list and _list: an object of the
\* shape of p, for segment seg.
NewLike(m, seg, p) ==
  ListTagged(
    new_object(m, [NullPtr EXCEPT !.type = p.type, !.seg = seg, !.datasz = p.datasz,
                                  !.ptrs = p.ptrs, !.len = p.len, !.composite = p.composite]))

\* new_clone; a capability has no object.
new_clone(m, seg, p) ==
  IF p.type = "INTERFACE"
  THEN [p |-> [NullPtr EXCEPT !.type = "INTERFACE", !.seg = seg, !.len = p.len], m |-> m]
  ELSE NewLike(m, seg, p)

-----------------------------------------------------------------------------
\* write_ptr: pointer h into the word at pos of segment seg of message c.

NEED_TO_COPY == 1

Linked(m, seg, pos, w) == [rc |-> 0, m |-> Store(m, seg, pos, w)]

\* A double far pointer, by way of a pad of two words.
LinkedByPad(pad, seg, pos, p) ==
  IF ~pad.ok THEN [rc |-> -1, m |-> pad.m]
  ELSE Linked(Store(Store(pad.m, pad.seg, pad.pos, write_far_ptr(p.seg, Begin(p))),
                    pad.seg, pad.pos + 1, write_ptr_tag(p, 0)),
              seg, pos, write_double_far(pad.seg, pad.pos))

write_ptr(m, c, seg, pos, h) ==
  LET p == h.p
      first == Begin(p)
      end == Len8(m, p.seg)
  IN  IF p.type \in {"NULL", "INTERFACE"} THEN Linked(m, seg, pos, write_ptr_tag(p, 0))
      ELSE IF p.type = "STRUCT" /\ Stride(p) = 0 THEN Linked(m, seg, pos, write_ptr_tag(p, -1))
      ELSE IF h.c # c \/ p.member THEN [rc |-> NEED_TO_COPY, m |-> m]
      ELSE IF p.seg = seg THEN Linked(m, seg, pos, write_ptr_tag(p, first - pos - 1))
      ELSE IF p.tag THEN Linked(m, seg, pos, write_far_ptr(p.seg, first - 1))
      ELSE IF Room(m, p.seg, 1)
      THEN Linked(Store(Extended(m, p.seg, 1), p.seg, end, write_ptr_tag(p, first - end - 1)),
                  seg, pos, write_far_ptr(p.seg, end))
      ELSE LinkedByPad(IF Room(m, seg, 2) THEN Allocated(m, seg, 2) ELSE new_data(m, 2),
                       seg, pos, p)

\* read_ptr of a place, without limits.
Read(m, place, rem) == read_ptr(m[place[1]], place[2], place[3], rem, Unlimited)
Target(m, place) == Read(m, place, -1).p

\* capn_resolve of a handle that capn_getp left unresolved.
Resolved(h) ==
  IF h.p.type = "FAR_POINTER"
  THEN Handle(h.c, Target(mem, Place(h.c, h.p.seg, h.p.data))) ELSE h

-----------------------------------------------------------------------------
\* Copying.  A copy in progress is `m`, all messages, `tree`, the copy trees,
\* and the stacks `to` and `from` of handles whose pointers are left to copy.

Overlap(f, g) ==
  /\ f.c = g.c /\ f.p.seg = g.p.seg
  /\ Begin(f.p) < Begin(g.p) + DataSize(g.p)
  /\ Begin(g.p) < Begin(f.p) + DataSize(f.p)

\* A slip: what begins at one place is taken for one object.
Wrong_is_ptr_equal(p, q) == p.data = q.data

is_ptr_equal(p, q) ==
  /\ p.data = q.data /\ p.type = q.type /\ p.len = q.len
  /\ p.datasz = q.datasz /\ p.ptrs = q.ptrs

memcpy(m, t, f, n) ==
  [m EXCEPT ![t.c][t.p.seg + 1].words =
     [i \in DOMAIN @ |->
        IF i - 1 \in t.p.data..(t.p.data + n - 1)
        THEN WordAt(m[f.c], f.p.seg, f.p.data + (i - 1 - t.p.data)) ELSE @[i]]]

Stacked(s, t, f) == [s EXCEPT !.to = Append(@, t), !.from = Append(@, f)]
Skipped(h, n) == [h EXCEPT !.p.data = @ + n]
AsPtrList(h, n) == [h EXCEPT !.p.type = "PTR_LIST", !.p.len = n, !.p.composite = FALSE]

\* The last part of copy_ptr: the data of f into t, and the pointers stacked.
Contents(s, t, f) ==
  LET n == Stride(t.p) - t.p.ptrs
      copied == [s EXCEPT !.m = memcpy(@, t, f, n)]
  IN  CASE t.p.type = "STRUCT" ->
             IF t.p.ptrs = 0 THEN copied
             ELSE Stacked(copied, AsPtrList(Skipped(t, n), t.p.ptrs), Skipped(f, n))
        [] t.p.type = "BIT_LIST" -> [s EXCEPT !.m = memcpy(@, t, f, DataSize(t.p))]
        [] t.p.type = "LIST" ->
             IF t.p.len = 0 THEN s
             ELSE IF t.p.ptrs > 0 /\ t.p.datasz > 0 THEN Stacked(s, t, f)
             ELSE IF t.p.datasz > 0
             THEN [s EXCEPT !.m = memcpy(@, t, f, DataSize(t.p) - (t.p.data - Begin(t.p)))]
             ELSE IF t.p.ptrs > 0 THEN Stacked(s, AsPtrList(t, t.p.len * t.p.ptrs), f)
             ELSE s
        [] t.p.type = "PTR_LIST" -> IF t.p.len > 0 THEN Stacked(s, t, f) ELSE s
        [] t.p.type = "INTERFACE" -> s
        [] OTHER -> [s EXCEPT !.rc = -1]

\* The copy goes on after a pointer to the clone t of f was put in its place.
CloneLinked(s, f, t) ==
  IF s.rc # 0 THEN [s EXCEPT !.rc = -1]
  ELSE Contents([s EXCEPT !.tree[t.c] =
                   IF DataSize(f.p) > 0 THEN @ \cup {[from |-> f, to |-> t]} ELSE @],
                t, f)

Wrote(s, c, w) == [s EXCEPT !.m[c] = w.m, !.rc = w.rc]

CopyNew(s, place, f, clone) ==
  LET c == place[1]
      t == Handle(c, clone.p)
  IN  CloneLinked(Wrote(s, c, write_ptr(clone.m, c, place[2], place[3], t)), f, t)

\* copy_ptr: f copied, or the copy made of it before, and a pointer to that
\* put at `place`.
copy_ptr(s, place, f) ==
  LET c == place[1]
      known == {e \in s.tree[c] : DataSize(f.p) > 0 /\ Overlap(e.from, f)}
      same == {e \in known : is_ptr_equal(e.from.p, f.p)}
  IN  IF same # {}
      THEN Wrote(s, c, write_ptr(s.m[c], c, place[2], place[3], (CHOOSE e \in same : TRUE).to))
      ELSE IF known # {} THEN [s EXCEPT !.rc = -1]
      ELSE CopyNew(s, place, f, new_clone(s.m[c], place[2], f.p))

\* The words of a pointer section after memset cleared it from its byte n on,
\* n at most three: the first keeps its lower bytes, the last its upper ones.
Lower(w, n) == [Null EXCEPT !.a = IF n = 0 THEN 0 ELSE w.a,
                            !.b = IF n = 0 THEN 0 ELSE w.b % (2^(8 * n - 2))]
Higher(w, n) == IF n = 0 THEN w ELSE [w EXCEPT !.a = 0, !.b = @ - (@ % (2^(8 * n - 2)))]

\* copy_list_member: f into the element t of a list.
copy_list_member(s, t, f) ==
  LET dw == t.p.datasz \div 8
      kept == Smaller(dw, f.p.datasz \div 8)
      some == Smaller(t.p.ptrs, f.p.ptrs)
      cleared == t.p.ptrs - some
      first == t.p.data + dw
      data == memcpy(s.m, t, f, kept)
      words == [data EXCEPT ![t.c][t.p.seg + 1].words =
                 [i \in DOMAIN @ |->
                    LET j == i - 1
                    IN  CASE j \in (t.p.data + kept)..(first - 1) -> Null
                          [] cleared > 0 /\ j = first -> Lower(@[i], some)
                          [] j \in (first + 1)..(first + cleared - 1) -> Null
                          [] cleared > 0 /\ some > 0 /\ j = first + cleared -> Higher(@[i], some)
                          [] OTHER -> @[i]]]
      copied == [s EXCEPT !.m = words]
  IN  IF t.p.ptrs = 0 THEN copied
      ELSE Stacked(copied, AsPtrList(Skipped(t, dw), t.p.ptrs),
                   Skipped(f, f.p.datasz \div 8))

\* An element of a list of structs, as capn_getp returns it.
Element(h, off) ==
  [h EXCEPT !.p = [NullPtr EXCEPT !.type = "STRUCT", !.seg = h.p.seg, !.member = TRUE,
                     !.data = h.p.data + off * Stride(h.p),
                     !.datasz = h.p.datasz, !.ptrs = h.p.ptrs]]

\* One turn of the loop of capn_setp, for t and f on top of the stacks.
Stepped(s, n) ==
  [s EXCEPT !.to[Len(s.to)].p.data = @ + n, !.to[Len(s.to)].p.len = @ - 1,
            !.from[Len(s.to)].p.data = @ + n]

CopyChild(s, t, child) ==
  IF child.p.type = "NULL" THEN s ELSE copy_ptr(s, Place(t.c, t.p.seg, t.p.data), child)

Turn(s, t, f) ==
  IF Len(s.to) + 1 = MAX_COPY_DEPTH THEN [s EXCEPT !.rc = -1]
  ELSE IF t.p.len = 0
  THEN [s EXCEPT !.to = SubSeq(@, 1, Len(@) - 1), !.from = SubSeq(@, 1, Len(@) - 1)]
  ELSE IF t.p.type = "LIST"
  THEN copy_list_member(Stepped(s, Stride(t.p)), Element(t, 0), Element(f, 0))
  ELSE CopyChild(Stepped(s, 1), t, Handle(f.c, Target(s.m, Place(f.c, f.p.seg, f.p.data))))

-----------------------------------------------------------------------------
\* What the application expects to read.

MaxTree == MAX_COPY_DEPTH + 1
Shown(m, place) == Tree(m[place[1]], place[2], place[3], MaxTree)

\* The object a handle names, shown as a reader of a pointer to it would.
ShownAt(m, p, n) ==
  LET dw == p.datasz \div 8
  IN  [data |-> [i \in 1..n |-> IF i > dw THEN Null ELSE WordAt(m, p.seg, p.data + i - 1)],
       ptrs |-> [i \in 1..p.ptrs |-> Tree(m, p.seg, p.data + dw + i - 1, MaxTree)]]

SamePlace(p, q) ==
  /\ p.type = q.type
  /\ p.type = "INTERFACE" => p.len = q.len
  /\ p.type \notin {"NULL", "INTERFACE"} =>
       /\ p.datasz = q.datasz /\ p.ptrs = q.ptrs /\ p.len = q.len /\ p.composite = q.composite
       /\ (p.type = "STRUCT" /\ Stride(p) = 0) \/ (p.seg = q.seg /\ p.data = q.data)

Data(w) == [kind |-> "data", value |-> w]
Link(p) == [kind |-> "link", value |-> p]
Copy(tree) == [kind |-> "copy", value |-> tree]

WordsOf(h, p) == {Place(h.c, p.seg, i) : i \in p.data..(p.data + Stride(p) - 1)}
Without(places) == [x \in DOMAIN expects \ places |-> expects[x]]

\* Copies go stale when an object they were made of is written to.
Touched(places) ==
  {c \in Messages : \E e \in copies[c], place \in places :
     /\ place[1] = e.from.c /\ place[2] = e.from.p.seg
     /\ place[3] \in Begin(e.from.p)..(Begin(e.from.p) + DataSize(e.from.p) - 1)}

-----------------------------------------------------------------------------
Idle == [to |-> <<>>, from |-> <<>>, goal |-> <<>>]
Working == call.to # <<>>
Calling == ~Working /\ calls < MaxCalls /\ calls' = calls + 1

\* The application starts from the root of each message (capn_root).
RootPtr == [NullPtr EXCEPT !.type = "PTR_LIST", !.len = 1]
capn_root == Extended(<<create(1)>>, 0, 1)

Init ==
  /\ mem = [c \in Messages |-> capn_root]
  /\ copies = [c \in Messages |-> {}]
  /\ call = Idle
  /\ handles = {Made(c, RootPtr) : c \in Messages}
  /\ calls = 0
  /\ expects = <<>>
  /\ stale = {}

\* capn_new_*: an object of some shape, in the segment of another handle.
capn_new(h, shape) ==
  LET new == NewLike(mem[h.c], h.p.seg, shape)
  IN  /\ Calling
      /\ Cardinality(handles) < MaxHandles
      /\ h \in handles /\ h.made
      /\ mem' = [mem EXCEPT ![h.c] = new.m]
      /\ handles' = IF new.p = NullPtr THEN handles ELSE handles \cup {Made(h.c, new.p)}
      /\ UNCHANGED <<copies, call, expects, stale>>

\* capn_getp: an element of a list, or what a slot points to, at once or later.
\* An offset is an index in the list or of a pointer of the struct.
Offsets(p) ==
  CASE p.type = "STRUCT" -> 0..(p.ptrs - 1)
    [] p.type = "PTR_LIST" \/ (p.type = "LIST" /\ p.datasz % 8 = 0) -> 0..(p.len - 1)
    [] OTHER -> {}
SlotOf(p, off) == IF p.type = "STRUCT" THEN p.data + p.datasz \div 8 + off ELSE p.data + off

Getp(g, off, resolve) ==
  LET place == Place(g.c, g.p.seg, SlotOf(g.p, off))
  IN  CASE g.p.type = "LIST" -> Element(g, off)
        [] g.p.type = "PTR_LIST" /\ ~resolve ->
             Element([g EXCEPT !.p.datasz = 0, !.p.ptrs = 1], off)
        [] g.p.type = "STRUCT" /\ ~resolve ->
             Handle(g.c, [NullPtr EXCEPT !.type = "FAR_POINTER", !.seg = place[2], !.data = place[3]])
        [] OTHER -> Handle(g.c, Target(mem, place))

capn_getp(h, off, resolve) ==
  LET got == Getp(Resolved(h), off, resolve)
  IN  /\ Calling
      /\ Cardinality(handles) < MaxHandles
      /\ h \in handles /\ off \in Offsets(Resolved(h).p)
      /\ got.p.type # "NULL"
      /\ handles' = handles \cup {got}
      /\ UNCHANGED <<mem, copies, call, expects, stale>>

\* capn_write64 of a word of a struct's data.
capn_write64(h, i, v) ==
  LET place == Place(h.c, h.p.seg, h.p.data + i)
  IN  /\ Calling
      /\ h \in handles /\ h.made
      /\ h.p.type = "STRUCT" /\ i \in 0..(h.p.datasz \div 8 - 1)
      /\ mem' = [mem EXCEPT ![h.c] = Store(@, h.p.seg, h.p.data + i, v)]
      /\ expects' = (place :> Data(v)) @@ expects
      /\ stale' = stale \cup Touched({place})
      /\ UNCHANGED <<copies, call, handles>>

\* capn_reset_copy: the next capn_setp copies anew.
capn_reset_copy(c) ==
  /\ Calling
  /\ copies[c] # {}
  /\ copies' = [copies EXCEPT ![c] = {}]
  /\ stale' = stale \ {c}
  /\ UNCHANGED <<mem, call, handles, expects>>

\* The application does what it has no bad habit of.
Tempered(h, off, g) ==
  LET t == Element(h, off).p
      r == Resolved(g).p
      ptr(c, p, i) == WordAt(mem[c], p.seg, p.data + p.datasz \div 8 + i)
      raw == /\ g.p.type = "FAR_POINTER" /\ g.c = h.c
             /\ WordAt(mem[g.c], g.p.seg, g.p.data).a = FAR_PTR
      narrow == /\ h.p.type = "LIST" /\ r.type = "STRUCT"
                /\ \E i \in 0..(t.ptrs - 1) :
                     i >= r.ptrs \/ (ptr(h.c, t, i) # Null /\ ptr(g.c, r, i) = Null)
  IN  /\ raw => "raw" \in Habits
      /\ narrow => "narrow" \in Habits
      /\ h.c \in stale => "stale" \in Habits

\* capn_setp up to its loop: the state of the copy.  `r` is g, resolved, and
\* `direct` what write_ptr makes of it.
Direct(s, place, r, direct) ==
  IF direct.rc = NEED_TO_COPY THEN copy_ptr(s, place, r) ELSE Wrote(s, place[1], direct)

SetpResolved(s, h, off, r) ==
  LET place == Place(h.c, h.p.seg, SlotOf(h.p, off))
  IN  IF h.p.type # "LIST"
      THEN Direct(s, place, r, write_ptr(s.m[h.c], h.c, place[2], place[3], r))
      ELSE IF r.p.type = "STRUCT" THEN copy_list_member(s, Element(h, off), r)
      ELSE [s EXCEPT !.rc = -1]

Setp(s, h, off, g) ==
  LET raw == WordAt(mem[g.c], g.p.seg, g.p.data)
  IN  IF g.p.type = "FAR_POINTER" /\ g.c = h.c /\ raw.a = FAR_PTR
      THEN [s EXCEPT !.m[h.c] = Store(@, h.p.seg, h.p.data, raw)]
      ELSE SetpResolved(s, h, off, Resolved(g))

\* What it is expected to leave behind if it succeeds; `shown` is the source, as
\* wide as the element `t` of a list.
Elementwise(h, t, r, shown) ==
  LET dw == t.datasz \div 8
  IN  [x \in WordsOf(h, t) |->
         LET i == x[3] - t.data
         IN  IF i < dw THEN Data(shown.data[i + 1])
             ELSE IF i - dw < r.p.ptrs THEN Copy(shown.ptrs[i - dw + 1])
             ELSE Copy(Show(mem[r.c], NullPtr, MaxTree))]

Goal(h, off, r) ==
  LET t == Element(h, off).p
      place == Place(h.c, h.p.seg, SlotOf(h.p, off))
  IN  IF h.p.type = "LIST"
      THEN Elementwise(h, t, r, ShownAt(mem[r.c], r.p, t.datasz \div 8))
      ELSE IF r.c = h.c /\ ~r.p.member THEN (place :> Link(r.p))
      ELSE (place :> Copy(Show(mem[r.c], r.p, MaxTree)))

\* The call goes on, or returns with 0 or -1.
Copying(to, from) == [m |-> mem, tree |-> copies, to |-> to, from |-> from, rc |-> 0]

Go(s, goal) ==
  /\ mem' = s.m /\ copies' = s.tree
  /\ call' = IF s.rc = 0 /\ s.to # <<>> THEN [to |-> s.to, from |-> s.from, goal |-> goal]
             ELSE Idle
  /\ expects' = IF s.rc = 0 /\ s.to = <<>> THEN goal @@ Without(DOMAIN goal)
                ELSE Without(DOMAIN goal)

\* capn_setp, and its loop.
Targets(h) == handles \cup {Handle(h.c, NullPtr)}

capn_setp(h, off, g) ==
  LET s == Setp(Copying(<<>>, <<>>), h, off, g)
      goal == Goal(h, off, Resolved(g))
  IN  /\ Calling
      /\ h \in handles /\ h.made /\ off \in Offsets(h.p)
      /\ g \in Targets(h)
      /\ Tempered(h, off, g)
      /\ Go(s, goal)
      /\ stale' = stale \cup Touched(DOMAIN goal) \cup (IF s.rc = 0 THEN {} ELSE {h.c})
      /\ UNCHANGED handles

capn_setp_loop ==
  LET s == Turn(Copying(call.to, call.from), Last(call.to), Last(call.from))
  IN  /\ Working
      /\ Go(s, call.goal)
      /\ stale' = IF s.rc = 0 THEN stale ELSE stale \cup {call.to[1].c}
      /\ UNCHANGED <<handles, calls>>

Next ==
  \/ \E h \in handles, shape \in Shapes : capn_new(h, shape)
  \/ \E h \in handles : \E off \in Offsets(Resolved(h).p), resolve \in BOOLEAN :
       capn_getp(h, off, resolve)
  \/ \E h \in handles : \E i \in 0..(h.p.datasz \div 8 - 1), v \in Values :
       capn_write64(h, i, v)
  \/ \E h \in handles : \E off \in Offsets(h.p), g \in Targets(h) : capn_setp(h, off, g)
  \/ \E c \in Messages : capn_reset_copy(c)
  \/ capn_setp_loop

Spec == Init /\ [][Next]_vars

-----------------------------------------------------------------------------
(* Properties. *)

\* A slot leads to the object the application put there, wherever it is: near,
\* in another segment, behind a far or a double far pointer; and a word of data
\* is what was written to it.
SlotsKept ==
  \A place \in DOMAIN expects :
    LET e == expects[place]
    IN  CASE e.kind = "data" -> WordAt(mem[place[1]], place[2], place[3]) = e.value
          [] e.kind = "link" -> SamePlace(Target(mem, place), e.value)
          [] OTHER -> TRUE

\* When capn_setp copied something, the slot shows what the source showed then,
\* however deep, shared or cyclic it was.
CopyFaithful ==
  \A place \in DOMAIN expects :
    expects[place].kind = "copy" => Shown(mem, place) = expects[place].value

\* Whatever was made so far, and however capn_setp ended, every pointer in it
\* can be read, and every capn_ptr in hand has its object within its segment.
Inside(m, p) == InBounds(m, p.seg, Begin(p), IF p.type = "FAR_POINTER" THEN 1 ELSE DataSize(p))
SlotsReadable ==
  /\ \A h \in handles : Inside(mem[h.c], h.p)
  /\ ~Working =>
       \A h \in handles : h.made =>
         \A off \in Offsets(h.p) :
           h.p.type # "LIST" => ~Read(mem, Place(h.c, h.p.seg, SlotOf(h.p, off)), -1).err

=============================================================================
