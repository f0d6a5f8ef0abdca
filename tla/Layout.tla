------------------------------- MODULE Layout -------------------------------
(***************************************************************************)
(* A list of structs written and read by generated programs: new_X_list,   *)
(* set_X, get_X, the setters of single fields, and the numbers at the      *)
(* start of the elements set as a list of numbers.                         *)
(*                                                                         *)
(* Who reads may have another version of the schema than who writes, and   *)
(* the list may have been made under a third, with smaller or larger       *)
(* elements, or as a list of numbers.                                      *)
(***************************************************************************)
EXTENDS Compiler

CONSTANTS
  Programs,   \* the pairs [write, read] of programs for versions of a struct, with
              \* the node they were generated from, and how often a list is written
  None        \* for programs that are in the repository as they are

VARIABLES
  prog,      \* the pair in use
  list,      \* the list's header
  cells,     \* its elements
  written,   \* by element, what was last written to each member
  left       \* writes left

vars == <<prog, list, cells, written, left>>

N == 2
Elements == 0..(N - 1)
NumberSizes == {1, 2, 4, 8}

-----------------------------------------------------------------------------
\* The values written: a tag has one of the values its cases have, or one of a
\* case the program does not know; a member its default, or something else; a
\* text also none at all.
Unknown == 77
Discriminants(body, tag) ==
  {Unknown} \cup {d \in 0..20 : \E k \in DOMAIN body : \E w \in body[k].when :
                                  w[1] = tag /\ U(d, 2) \in w[2]}
\* The c-th of a set of numbers, round and round.
Nth(c, ds) == CHOOSE d \in ds : Cardinality({e \in ds : e < d}) = c % Cardinality(ds)
Arms(body) ==
  LET arms == {Cardinality(Discriminants(body, body[k].name)) :
               k \in {k \in DOMAIN body : body[k].kind = "tag"}}
  IN  1..(IF arms = {} THEN 1 ELSE CHOOSE c \in arms : \A d \in arms : d <= c)

Values(m) ==
  CASE m.kind = "bool" -> <<m.default, 1 - m.default>>
    [] m.kind = "data" -> <<m.default, [j \in DOMAIN m.default |-> ((m.at * 7 + j * 37) % 255) + 1]>>
    [] m.kind = "ptr" -> <<m.default, 3 + m.at>>
    [] m.kind = "text" -> <<m.default, 3 + m.at, NULL>>

\* The c-th choice of cases and the s-th of the members' values.
StructValue(body, c, s) ==
  LET member_of(name) == CHOOSE m \in {body[k] : k \in DOMAIN body} : m.name = name
      value(m) == IF m.kind = "tag"
                  THEN U(Nth(c, Discriminants(body, m.name)), 2)
                  ELSE IF s \in DOMAIN Values(m) THEN Values(m)[s] ELSE m.default
  IN  [name \in {body[k].name : k \in DOMAIN body} |-> value(member_of(name))]

-----------------------------------------------------------------------------
\* new_X_list by this version or another, or a list of numbers or of pointers
\* that became a list of structs.
Sizes(p) ==
  LET less(n, d) == IF n >= d THEN n - d ELSE 0
  IN  {<<p.write.datasz, p.write.ptrs>>, <<p.read.datasz, p.read.ptrs>>,
       <<less(p.write.datasz, 8), p.write.ptrs>>, <<p.write.datasz, less(p.write.ptrs, 1)>>,
       <<p.write.datasz + 8, p.write.ptrs + 1>>, <<0, 1>>}
      \cup {<<n, 0>> : n \in NumberSizes}

Init ==
  /\ prog \in Programs
  /\ list \in {[len |-> N, datasz |-> z[1], ptrs |-> z[2]] : z \in Sizes(prog)}
  /\ cells = Zeros(N * (list.datasz + 8 * list.ptrs))
  /\ written = [i \in Elements |-> <<>>]
  /\ left = prog.writes

\* set_X of an element.
set_X(i, v) ==
  /\ cells' = write_struct(cells, Element(list, i), prog.write.body, v)
  /\ written' = [written EXCEPT ![i] = v]

\* X_set_field of an element.
X_set_field(i, m, v) ==
  /\ cells' = set_member(cells, Element(list, i), m, v)
  /\ written' = [written EXCEPT ![i] = (m.name :> v) @@ @]

\* capn_setN and capn_setvN, the number being a member of the struct.
Numbers(m) == m.kind = "data" /\ m.at = 0 /\ m.when = {}
SetNumber(i, m, bytes) ==
  /\ cells' = capn_setN(cells, list, i, bytes)
  /\ written' = [written EXCEPT ![i] = (m.name :> XorBytes(bytes, m.default)) @@ @]
SetNumbers(m, bytes) ==
  /\ cells' = capn_setvN(cells, list, 0, [i \in 1..N |-> bytes], Len(bytes))
  /\ written' = [i \in Elements |-> (m.name :> XorBytes(bytes, m.default)) @@ written[i]]

Write ==
  LET members == {prog.write.body[k] : k \in DOMAIN prog.write.body}
  IN  \/ \E i \in Elements, c \in Arms(prog.write.body), s \in 1..3 :
           set_X(i, StructValue(prog.write.body, c, s))
      \/ \E i \in Elements, m \in prog.write.setters : \E s \in DOMAIN Values(m) :
           X_set_field(i, m, Values(m)[s])
      \/ \E i \in Elements, m \in {m \in members : Numbers(m)} :
           SetNumber(i, m, Values(m)[2])
      \/ \E m \in {m \in members : Numbers(m)} : SetNumbers(m, Values(m)[2])

Next == left > 0 /\ Write /\ left' = left - 1 /\ UNCHANGED <<prog, list>>

Spec == Init /\ [][Next]_vars

-----------------------------------------------------------------------------
\* A member is there if the element is large enough for it.
Fits(m) ==
  CASE m.kind = "bool" -> m.at < 8 * list.datasz
    [] m.kind \in {"data", "tag"} -> m.at + Len(m.default) <= list.datasz
    [] m.kind \in {"ptr", "text"} -> m.at < list.ptrs

\* What must be read of a member: what was written to it, if anything was and it
\* is there, or its default.
Promised(i, m) ==
  LET v == written[i][m.name]
      null == m.kind \in {"ptr", "text"} /\ v = NULL
  IN  IF m.name \in DOMAIN written[i] /\ Fits(m) THEN (IF null THEN m.default ELSE v)
      ELSE m.default

\* The text last written to m was the default its schema gives it, by the very
\* pointer read_X and get_X give when there is none.
OwnDefault(i, m) ==
  /\ m.kind = "text" /\ m.default = DEFAULT
  /\ m.name \in DOMAIN written[i] /\ written[i][m.name] = DEFAULT

\* "`get_` / `read_` still substitute schema defaults" (README.md:104): a text
\* that was written as its schema's default reads back as that default
\* (capnpc-c.c:677-686, set_member of a text).
DefaultIsRead ==
  \A i \in Elements :
    LET read == read_struct(cells, Element(list, i), prog.read.body)
    IN  \A m \in {prog.read.body[k] : k \in DOMAIN prog.read.body} :
          OwnDefault(i, m) /\ m.name \in DOMAIN read => read[m.name] = m.default


\* The slots of a node and of its groups, and the tags, each with the cases it
\* stands in.
RECURSIVE Slots(_, _)
Slots(n, cases) ==
  LET inside(f) ==
        IF in_union(f)
        THEN cases \cup {<<2 * n.discriminantOffset, {U(f.discriminantValue, 2)}>>} ELSE cases
      slot(m, in) == <<m.kind, m.at, m.default, in>>
      of(f) ==
        CASE f.which = "group" -> Slots(f.group, inside(f))
          [] f.which = "slot" /\ f.type = "void" -> {}
          [] OTHER -> {slot(member("", f)[1], inside(f))}
  IN  UNION {of(n.fields[k]) : k \in DOMAIN n.fields}
      \cup (IF n.discriminantCount = 0 THEN {}
            ELSE {slot(Tag("", 2 * n.discriminantOffset), cases)})

\* The generated program goes through each slot of the schema's struct, of its
\* groups and of their unions, and each tag, exactly once, under the very cases
\* the schema puts it in: no type of slot falls between the passes of do_union
\* and none is met by two of them (capnpc-c.c, do_union and union_cases).
EveryFieldOnce ==
  prog.schema # None =>
    LET body == define_struct(prog.schema).body
        tagAt(name) == body[CHOOSE k \in DOMAIN body : body[k].kind = "tag" /\ body[k].name = name].at
        standing(m) == <<m.kind, m.at, m.default, {<<tagAt(w[1]), w[2]>> : w \in m.when}>>
    IN  /\ {standing(body[k]) : k \in DOMAIN body} = Slots(prog.schema, {})
        /\ Len(body) = Cardinality(Slots(prog.schema, {}))

\* The start of each element is the same read as a number of a list, alone
\* (capn_getN) or with others (capn_getvN), and as a member of a struct; where
\* an element is too short for it there is none.  Copies of numbers of more than
\* a byte that do not start with the first are left aside (capn-list.inc).
NumbersAreStructs ==
  \A n \in NumberSizes, off \in Elements :
    LET start(i) == capn_read(cells, Element(list, i), 0, n)
    IN  /\ capn_getN(cells, list, off, n) = start(off)
        /\ off = 0 \/ n = 1 =>
             capn_getvN(cells, list, off, N, n) =
               (IF list.datasz < n THEN Fails ELSE [i \in 1..(N - off) |-> start(off + i - 1)])

=============================================================================
