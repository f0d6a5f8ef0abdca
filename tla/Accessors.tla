----------------------------- MODULE Accessors ------------------------------
(***************************************************************************)
(* How a generated program reaches the fields of a struct: capn_read and   *)
(* capn_write of 1 to 64 bits (lib/capnp_c.h), pointers and texts          *)
(* (lib/capn.c), the lists of numbers (lib/capn-list.inc), and what        *)
(* set_member and get_member of compiler/capnpc-c.c make of them.          *)
(*                                                                         *)
(* Memory is a sequence of cells: a cell of data is a byte, and a pointer  *)
(* is eight cells of 256 times the object it leads to.  A struct is seen   *)
(* as [base, datasz, ptrs], as capn_getp gives an element of a list.  A    *)
(* list is one of structs, or of numbers, never of single bits; a list of  *)
(* pointers is one with no data and one pointer in each element, and no    *)
(* pointer of it leads to a struct in which a number could be looked up.   *)
(***************************************************************************)
EXTENDS Integers, Sequences, FiniteSets, SequencesExt, Bitwise

\* What a pointer may lead to, besides other objects: nothing, a text without
\* characters, and the default the schema gives the field.
NULL == 0
EMPTY == 1
DEFAULT == 2

Zeros(n) == [j \in 1..n |-> 0]
\* A number below 2^24 in n bytes, the lowest first.
U(v, n) == [j \in 1..n |-> IF j > 3 THEN 0 ELSE (v \div 256 ^ (j - 1)) % 256]
XorBytes(a, b) == [j \in DOMAIN a |-> IF b[j] = 0 THEN a[j] ELSE a[j] ^^ b[j]]

Get(cells, start, n) == SubSeq(cells, start + 1, start + n)
Put(cells, start, some) ==
  [j \in DOMAIN cells |-> IF j - start \in DOMAIN some THEN some[j - start] ELSE cells[j]]

-----------------------------------------------------------------------------
\* capn_read8, capn_read16, capn_read32 and capn_read64: n bytes.
capn_read(cells, p, off, n) ==
  IF off + n <= p.datasz THEN Get(cells, p.base + off, n) ELSE Zeros(n)

\* capn_write8, capn_write16, capn_write32 and capn_write64.
capn_write(cells, p, off, bytes) ==
  IF off + Len(bytes) <= p.datasz THEN Put(cells, p.base + off, bytes) ELSE cells


capn_write1(cells, p, off, val) ==
  LET byte == cells[p.base + off \div 8 + 1]  bit == 2 ^ (off % 8)
      old == (byte \div bit) % 2
  IN  IF off >= 8 * p.datasz THEN cells
      ELSE Put(cells, p.base + off \div 8, <<byte + (val - old) * bit>>)

\* capn_getp and capn_setp of a struct's pointer.
capn_getp(cells, p, off) ==
  IF off >= p.ptrs THEN NULL ELSE cells[p.base + p.datasz + 8 * off + 1] \div 256
capn_setp(cells, p, off, obj) ==
  IF off >= p.ptrs THEN cells
  ELSE Put(cells, p.base + p.datasz + 8 * off, [j \in 1..8 |-> 256 * obj])

\* capn_get_text, the object being a text if it is there at all.
capn_get_text(cells, p, off, def) ==
  LET m == capn_getp(cells, p, off) IN IF m = NULL THEN def ELSE m

-----------------------------------------------------------------------------
\* The members of a struct.  A member is met by the program under the cases of
\* the switches it stands in: `when` has, for each, the tag and its values.
Member(name, kind, at, default) ==
  [name |-> name, kind |-> kind, at |-> at, default |-> default, when |-> {}]

Flag(name, bit) == Member(name, "bool", bit, 0)
FlagDefault(name, bit, d) == Member(name, "bool", bit, d)
U8(name, off) == Member(name, "data", off, Zeros(1))
U16(name, off) == Member(name, "data", off, Zeros(2))
U32(name, off) == Member(name, "data", off, Zeros(4))
U64(name, off) == Member(name, "data", off, Zeros(8))
IntDefault(name, off, bytes) == Member(name, "data", off, bytes)
Pointer(name, slot) == Member(name, "ptr", slot, NULL)
PointerDefault(name, slot) == Member(name, "ptr", slot, DEFAULT)
Text(name, slot) == Member(name, "text", slot, EMPTY)
TextDefault(name, slot) == Member(name, "text", slot, DEFAULT)
Tag(name, off) == Member(name, "tag", off, Zeros(2))

Case(tag, values, body) ==
  [k \in DOMAIN body |-> [body[k] EXCEPT !.when = @ \cup {<<tag, {U(d, 2) : d \in values}>>}]]

\* The sizes of a struct, in bytes and pointers, its members in the order the
\* program has them, and which of them have a setter of their own.
Struct(datasz, ptrs, setters, body) ==
  [datasz |-> datasz, ptrs |-> ptrs, body |-> body, setters |-> {body[k] : k \in setters}]

\* The statement set_member emits.  A value is a sequence of bytes, 0 or 1, or
\* an object.  A text that is the default itself is written as capn_val0, an
\* empty text and not none.
set_member(cells, p, m, v) ==
  CASE m.kind = "bool" -> capn_write1(cells, p, m.at, IF v # m.default THEN 1 ELSE 0)
    [] m.kind \in {"data", "tag"} -> capn_write(cells, p, m.at, XorBytes(v, m.default))
    [] m.kind = "ptr" -> capn_setp(cells, p, m.at, IF v = m.default THEN NULL ELSE v)
    [] m.kind = "text" -> capn_setp(cells, p, m.at, IF v = DEFAULT THEN EMPTY ELSE v)

\* The statement get_member emits.
get_member(cells, p, m) ==
  CASE m.kind = "bool" ->
         LET bit == (capn_read(cells, p, m.at \div 8, 1)[1] \div 2 ^ (m.at % 8)) % 2
         IN  IF bit # m.default THEN 1 ELSE 0
    [] m.kind \in {"data", "tag"} ->
         XorBytes(capn_read(cells, p, m.at, Len(m.default)), m.default)
    [] m.kind = "ptr" ->
         LET obj == capn_getp(cells, p, m.at) IN IF obj = NULL THEN m.default ELSE obj
    [] m.kind = "text" -> capn_get_text(cells, p, m.at, m.default)

\* write_X: the members the struct's tags select.
Selects(v, m) == \A w \in m.when : v[w[1]] \in w[2]
write_struct(cells, p, body, v) ==
  FoldLeft(LAMBDA c, m : IF Selects(v, m) THEN set_member(c, p, m, v[m.name]) ELSE c,
           cells, body)

\* read_X: a struct with the members the message's tags select.
read_struct(cells, p, body) ==
  LET tags == {body[k] : k \in {j \in DOMAIN body : body[j].kind = "tag"}}
      read == [t \in {m.name : m \in tags} |->
                get_member(cells, p, CHOOSE m \in tags : m.name = t)]
      met == {body[k] : k \in {j \in DOMAIN body : Selects(read, body[j])}}
  IN  [n \in {m.name : m \in met} |-> get_member(cells, p, CHOOSE m \in met : m.name = n)]

-----------------------------------------------------------------------------
\* A list [len, datasz, ptrs] from the first cell on: its elements, and the
\* numbers of n bytes at the start of each.
Wrong_Stride(l) == l.datasz
Stride(l) == l.datasz + 8 * l.ptrs
Element(l, i) == [base |-> i * (l.datasz + 8 * l.ptrs), datasz |-> l.datasz, ptrs |-> l.ptrs]

Fails == <<>>
capn_getN(cells, l, off, n) ==
  IF off >= l.len \/ l.datasz < n THEN Zeros(n) ELSE Get(cells, off * Stride(l), n)
capn_setN(cells, l, off, bytes) ==
  IF off >= l.len \/ l.datasz < Len(bytes) THEN cells ELSE Put(cells, off * Stride(l), bytes)

\* capn_getv8 to capn_getv64: numbers off to off + sz - 1, those that are there.
\* A list of just such numbers is copied from `off` bytes on, whatever their size.
InList(l, off, sz) == IF off + sz > l.len THEN l.len - off ELSE sz
Packed(l, n) == l.datasz = n /\ l.ptrs = 0
capn_getvN(cells, l, off, sz, n) ==
  IF l.datasz < n THEN Fails
  ELSE [i \in 1..InList(l, off, sz) |->
          Get(cells, IF Packed(l, n) THEN off + (i - 1) * n ELSE (i - 1 + off) * Stride(l), n)]

\* capn_setv8 to capn_setv64, `from` the numbers to be set.
capn_setvN(cells, l, off, from, n) ==
  IF l.datasz < n THEN cells
  ELSE FoldLeft(LAMBDA c, i :
                  Put(c, IF Packed(l, n) THEN off + (i - 1) * n ELSE (i - 1 + off) * Stride(l),
                      from[i]),
                cells, [i \in 1..InList(l, off, Len(from)) |-> i])

=============================================================================
