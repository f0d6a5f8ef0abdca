------------------------------ MODULE Compiler ------------------------------
(***************************************************************************)
(* The generator of accessors (compiler/capnpc-c.c): from the nodes of a   *)
(* schema to the members read_X and write_X go through.  The two are       *)
(* emitted side by side, so one sequence of members stands for both.       *)
(*                                                                         *)
(* A node has its sizes, the count and the offset of its union's tag, and  *)
(* its fields as the schema lists them; a field is a slot or a group, a    *)
(* node of its own.  Texts are put together as in the program: `var` is    *)
(* the path of what is generated, "" for the struct itself.                *)
(***************************************************************************)
EXTENDS Accessors

NoDiscriminant == 65535

\* decode_field: fields come in the order of the source, not of their numbers.
decode_field(fields) ==
  [k \in DOMAIN fields |-> fields[CHOOSE j \in DOMAIN fields : fields[j].codeOrder = k - 1]]

in_union(f) == f.discriminantValue # NoDiscriminant

Bytes(type) ==
  CASE type \in {"int8", "uint8"} -> 1
    [] type \in {"int16", "uint16", "enum"} -> 2
    [] type \in {"int32", "uint32", "float32"} -> 4
    [] type \in {"int64", "uint64", "float64"} -> 8

\* The type of a field after decode_value, for which a group is a void.
Which(f) == IF f.which = "slot" THEN f.type ELSE "void"
HasDefault(f) == f.default # 0

\* set_member and get_member, at the offset of the slot; nothing for a void.
member(var, f) ==
  CASE Which(f) = "void" -> <<>>
    [] Which(f) = "bool" -> <<FlagDefault(var, f.offset, f.default)>>
    [] Which(f) = "text" ->
         <<IF HasDefault(f) THEN TextDefault(var, f.offset) ELSE Text(var, f.offset)>>
    [] Which(f) \in {"data", "struct", "interface", "anyPointer", "list"} ->
         <<IF HasDefault(f) THEN PointerDefault(var, f.offset) ELSE Pointer(var, f.offset)>>
    [] OTHER ->
         <<IntDefault(var, Bytes(f.type) * f.offset, U(f.default, Bytes(f.type)))>>

-----------------------------------------------------------------------------
\* A slip: enums are not among the types of number.
Wrong_Masks ==
  <<{"bool"}, {"int8", "uint8"}, {"int16", "uint16"},
    {"int32", "uint32", "float32"}, {"int64", "uint64", "float64"}, {"text"}, {"data"},
    {"struct", "interface", "anyPointer", "list"}>>

\* The types of slot do_union calls union_cases with, in this order.
Masks ==
  <<{"bool"}, {"enum"}, {"int8", "uint8"}, {"int16", "uint16"},
    {"int32", "uint32", "float32"}, {"int64", "uint64", "float64"}, {"text"}, {"data"},
    {"struct", "interface", "anyPointer", "list"}>>

CaseOf(tag, f, body) == Case(tag, {f.discriminantValue}, body)

\* union_cases: the slots of these types that have no default.
union_cases(fields, tag, var, mask) ==
  FlattenSeq([k \in DOMAIN fields |->
    LET f == fields[k]
    IN  IF f.which = "slot" /\ ~HasDefault(f) /\ Which(f) \in mask
        THEN CaseOf(tag, f, member(var \o f.name, f)) ELSE <<>>])

RECURSIVE define_group(_, _, _, _)

\* do_union: the tag, the slots without a default by type, and then each group
\* and each slot with a default.  `keep` says the union has the group's name.
do_union(n, fields, var, group_name, keep) ==
  LET tag == IF keep THEN var \o group_name \o "_which" ELSE
             IF group_name = "" THEN "which" ELSE var \o group_name \o ".which"
      inner == IF group_name = "" THEN "" ELSE var \o group_name \o "."
      rest(f) ==
        CASE f.which = "group" -> CaseOf(tag, f, define_group(f.group, f.name, inner, TRUE))
          [] f.which = "slot" /\ HasDefault(f) -> CaseOf(tag, f, member(inner \o f.name, f))
          [] OTHER -> <<>>
  IN  <<Tag(tag, 2 * n.discriminantOffset)>>
      \o FlattenSeq([j \in DOMAIN Masks |-> union_cases(fields, tag, inner, Masks[j])])
      \o FlattenSeq([k \in DOMAIN fields |-> rest(fields[k])])

\* define_group: the fields before the union, the union, and those after it.  A
\* group that is no union and has no slot is taken to be empty.
define_group(n, group_name, var, enclose_unions) ==
  LET fields == decode_field(n.fields)
      named_union == group_name # "" /\ n.discriminantCount = Len(fields) /\ Len(fields) > 0
      empty == \A k \in DOMAIN fields : Which(fields[k]) = "void"
      inner == IF group_name = "" THEN "" ELSE var \o group_name \o "."
      define_field(f) == IF f.which = "slot" THEN member(inner \o f.name, f)
                         ELSE define_group(f.group, f.name, inner, FALSE)
      define(part) == FlattenSeq([k \in DOMAIN part |-> define_field(part[k])])
      union == {k \in DOMAIN fields : in_union(fields[k])}
      first == IF union = {} THEN Len(fields) + 1 ELSE CHOOSE k \in union : \A j \in union : k <= j
      last == first + Cardinality(union) - 1
  IN  IF group_name # "" /\ ~named_union /\ empty THEN <<>>
      ELSE define(SubSeq(fields, 1, first - 1))
           \o (IF n.discriminantCount = 0 THEN <<>>
               ELSE do_union(n, SubSeq(fields, first, last), var, group_name,
                             named_union /\ ~enclose_unions))
           \o define(SubSeq(fields, last + 1, Len(fields)))

\* define_struct: the program, with setters for the slots before the union.
define_struct(n) ==
  LET fields == decode_field(n.fields)
      body == define_group(n, "", "", FALSE)
      before(name) == \E k \in DOMAIN fields :
                        /\ fields[k].name = name /\ fields[k].which = "slot"
                        /\ \A j \in 1..k : ~in_union(fields[j])
  IN  [datasz |-> 8 * n.dataWordCount, ptrs |-> n.pointerCount, body |-> body,
       setters |-> {body[k] : k \in {j \in DOMAIN body : before(body[j].name)}}]

=============================================================================
