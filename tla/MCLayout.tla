------------------------------ MODULE MCLayout ------------------------------
(***************************************************************************)
(* The pairs of programs TLC checks Layout with: the generated files of    *)
(* the repository, and what define_struct makes of small schemas, each     *)
(* read by itself and by an older and a newer version.                     *)
(***************************************************************************)
EXTENDS Layout

Rpc == INSTANCE RpcAccessors
Schema == INSTANCE SchemaAccessors
TwoParty == INSTANCE TwoPartyAccessors
ThreeParty == INSTANCE ThreePartyAccessors
Test == INSTANCE TestAccessors

MCNone == [fields |-> "none"]

Pair(w, r) ==
  [write |-> w, read |-> r, schema |-> MCNone, writes |-> IF Len(w.body) > 8 THEN 1 ELSE 2]

Generated ==
  Rpc!Structs \cup Schema!Structs \cup TwoParty!Structs \cup ThreeParty!Structs \cup Test!Structs

\* Older and newer versions of a struct of the tests.
Versions ==
  {<<Test!TestOldVersion, Test!TestNewVersion>>,
   <<Test!TestLists_Struct1, Test!TestLists_Struct1c>>,
   <<Test!TestLists_Struct8, Test!TestLists_Struct8c>>,
   <<Test!TestLists_Struct16, Test!TestLists_Struct16c>>,
   <<Test!TestLists_Struct32, Test!TestLists_Struct32c>>,
   <<Test!TestLists_Struct64, Test!TestLists_Struct64c>>,
   <<Test!TestLists_StructP, Test!TestLists_StructPc>>}

-----------------------------------------------------------------------------
\* Schemas of some slots and a union, which may have a group in the place of a
\* slot, or be the whole of a group.  The slots of a union share a word and a
\* pointer; each other slot has its own.
Types ==
  {"void", "bool", "int8", "uint8", "int16", "uint16", "enum", "int32", "uint32", "float32",
   "int64", "uint64", "float64", "text", "data", "struct", "interface", "anyPointer", "list"}
Pointers == {"text", "data", "struct", "interface", "anyPointer", "list"}

Kinds ==
  {<<t, d>> : t \in Types \ {"bool", "void", "interface"}, d \in {0, 201}}
  \cup {<<"bool", 0>>, <<"bool", 1>>, <<"void", 0>>, <<"interface", 0>>}

\* A slot in word w or of pointer p.
Slot(name, order, disc, kind, w, p) ==
  [name |-> name, codeOrder |-> order, discriminantValue |-> disc, which |-> "slot",
   type |-> kind[1], default |-> kind[2],
   offset |-> CASE kind[1] \in Pointers -> p [] kind[1] = "bool" -> 64 * w + 3
                [] kind[1] = "void" -> 0 [] OTHER -> (8 * w) \div Bytes(kind[1])]
Group(name, order, disc, node) ==
  [name |-> name, codeOrder |-> order, discriminantValue |-> disc, which |-> "group",
   group |-> node, default |-> 0]
Node(words, ptrs, tags, tag, fields) ==
  [dataWordCount |-> words, pointerCount |-> ptrs, discriminantCount |-> tags,
   discriminantOffset |-> tag, fields |-> fields]

Number == <<"int32", 0>>
Words == <<"text", 0>>

\* A group in the place of a union's slot: two slots, or a union of two.
Inner(kind) ==
  {Node(4, 3, 0, 0, <<Slot("x", 1, NoDiscriminant, Number, 1, 1),
                      Slot("y", 0, NoDiscriminant, kind, 3, 2)>>),
   Node(4, 3, 2, 2, <<Slot("x", 0, 0, kind, 1, 1), Slot("y", 1, 1, Words, 3, 2)>>)}

Flat(kind, other) ==
  Node(4, 3, 3, 1,
       <<Slot("last", 4, NoDiscriminant, <<"bool", 1>>, 2, 0),
         Slot("a", 2, 0, kind, 1, 1), Slot("b", 1, 1, other, 1, 1),
         Slot("first", 0, NoDiscriminant, <<"int16", 0>>, 0, 0),
         Slot("c", 3, 2, <<"void", 0>>, 1, 1)>>)
Nested(kind, node) ==
  Node(4, 3, 2, 1,
       <<Slot("first", 0, NoDiscriminant, kind, 2, 0), Group("g", 1, 0, node),
         Slot("b", 2, 1, kind, 1, 1)>>)
Named(kind) ==
  Node(4, 3, 0, 0,
       <<Slot("first", 0, NoDiscriminant, <<"bool", 0>>, 0, 0),
         Group("u", 1, NoDiscriminant,
               Node(4, 3, 2, 1, <<Slot("a", 1, 1, kind, 1, 1), Slot("b", 0, 0, Number, 1, 1)>>)),
         Slot("last", 2, NoDiscriminant, kind, 2, 0)>>)

Schemas ==
  {Flat(k, o) : k \in Kinds, o \in {Number, Words, <<"struct", 201>>, <<"bool", 1>>}}
  \cup UNION {{Nested(k, n) : n \in Inner(k)} : k \in Kinds}
  \cup {Named(k) : k \in Kinds}

\* The version before a slot was added: a smaller struct.
Older(n) ==
  LET fields == SelectSeq(n.fields, LAMBDA f : f.name # "last")
  IN  [n EXCEPT !.fields = fields, !.dataWordCount = 2]

Compiled(n, m) ==
  [write |-> define_struct(n), read |-> define_struct(m), schema |-> n, writes |-> 1]

MCPrograms ==
  {Pair(x, x) : x \in Generated}
  \cup {Pair(v[1], v[2]) : v \in Versions}
  \cup {Pair(v[2], v[1]) : v \in Versions}
  \cup {Compiled(n, n) : n \in Schemas}
  \cup {Compiled(n, Older(n)) : n \in {Named(k) : k \in Kinds}}
  \cup {Compiled(Older(n), n) : n \in {Named(k) : k \in Kinds}}

=============================================================================
