------------------------------- MODULE Framing ------------------------------
(***************************************************************************)
(* The stream format of lib/capn-malloc.c: the segment table and the       *)
(* segments, written to a file, a descriptor or memory and read back from  *)
(* one, a call at a time.                                                  *)
(*                                                                         *)
(* The stream is a sequence of cells of four bytes: a number of the header *)
(* is one, a word of a segment two.  A message is the sequence of its      *)
(* segments, a segment the sequence of its words.  Packed streams are in   *)
(* module Packing.                                                         *)
(***************************************************************************)
EXTENDS Integers, SequencesExt

CONSTANTS
  Contents,             \* the messages an application writes
  Vias,                 \* "fp", "fd", "mem": the calls used for both ends
  CAPN_MAX_SEGS,
  HdrCells,             \* cells in the buffer of 4096 bytes
  MemCells,             \* cells of the memory given to capn_write_mem
  MaxCells,             \* cells of a message a uint32_t can count
  MaxMessages           \* bound on the messages of a stream

ASSUME FramingAssumption ==
  /\ Contents \subseteq Seq(Seq(Int))
  /\ Vias \subseteq {"fp", "fd", "mem"}
  /\ CAPN_MAX_SEGS \in Nat \ {0} /\ HdrCells \in Nat /\ MemCells \in Nat
  /\ MaxCells \in Nat /\ MaxMessages \in Nat

VARIABLES
  via,
  wire,                 \* the cells written and not yet read
  closed,
  writer,               \* the capn_write_* in progress
  reader,               \* the capn_init_* in progress
  sent,                 \* history: the messages whose writing began
  got                   \* the messages read

vars == <<via, wire, closed, writer, reader, sent, got>>

-----------------------------------------------------------------------------
\* Sequences one after the other.
Joined(ss) ==
  LET joined[i \in 0..Len(ss)] == IF i = 0 THEN <<>> ELSE joined[i - 1] \o ss[i]
  IN  joined[Len(ss)]

\* The cells of segments of these sizes: the running total of a loop.
Sum(sizes) ==
  LET total[i \in 0..Len(sizes)] == IF i = 0 THEN 0 ELSE total[i - 1] + 2 * sizes[i]
  IN  total[Len(sizes)]

-----------------------------------------------------------------------------
\* Writing.

\* header_calc: the count, the sizes, and a spare cell if they are odd.
Headerlen(segnum) == ((2 + segnum) \div 2) * 2

\* header_render.
Header(m) ==
  [i \in 1..Headerlen(Len(m)) |->
     CASE i = 1 -> Len(m) - 1
       [] i \in 2..(Len(m) + 1) -> Len(m[i - 1])
       [] OTHER -> 0]

Cells(segment) == [i \in 1..(2 * Len(segment)) |-> segment[(i + 1) \div 2]]

Data(m) == Joined([i \in DOMAIN m |-> Cells(m[i])])
Frame(m) == Header(m) \o Data(m)

SizesOf(m) == [i \in DOMAIN m |-> Len(m[i])]
capn_size(m) == Headerlen(Len(m)) + Sum(SizesOf(m))

\* What a write has left to do: `rest` the cells of the part it is at, `parts`
\* the segments after that.
Idle(failed) == [busy |-> FALSE, failed |-> failed, rest |-> <<>>, parts |-> <<>>]
Silent == Idle(FALSE)
Failed == Idle(TRUE)

\* capn_write_fp and capn_write_fd up to the first write.
write_begin(m) ==
  /\ via # "mem"
  /\ ~closed /\ ~writer.busy /\ ~writer.failed /\ Len(sent) < MaxMessages
  /\ sent' = Append(sent, m)
  /\ writer' = IF HdrCells < Headerlen(Len(m)) THEN Failed
               ELSE [busy |-> TRUE, failed |-> FALSE, rest |-> Header(m), parts |-> m]
  /\ UNCHANGED <<via, wire, closed, reader, got>>

\* A turn of _write_fp or _write_fd: k cells are taken.
write_some(k) ==
  /\ writer.busy /\ k \in 1..Len(writer.rest)
  /\ wire' = wire \o SubSeq(writer.rest, 1, k)
  /\ writer' = [writer EXCEPT !.rest = SubSeq(@, k + 1, Len(@))]
  /\ UNCHANGED <<via, closed, reader, sent, got>>

\* The loop over the segments.
write_next ==
  /\ writer.busy /\ writer.rest = <<>> /\ writer.parts # <<>>
  /\ writer' = [writer EXCEPT !.rest = Cells(Head(writer.parts)), !.parts = Tail(@)]
  /\ UNCHANGED <<via, wire, closed, reader, sent, got>>

write_end ==
  /\ writer.busy /\ writer.rest = <<>> /\ writer.parts = <<>>
  /\ writer' = Silent
  /\ UNCHANGED <<via, wire, closed, reader, sent, got>>

\* fwrite takes nothing, write_fd or fflush fails: the application gives up.
write_fails ==
  /\ writer.busy
  /\ writer' = Failed
  /\ UNCHANGED <<via, wire, closed, reader, sent, got>>

\* capn_write_mem; there is one message in a buffer.
capn_write_mem(m) ==
  LET fits == capn_size(m) <= MemCells
  IN  /\ via = "mem" /\ ~closed /\ sent = <<>>
      /\ sent' = <<m>>
      /\ wire' = IF fits THEN Frame(m) ELSE <<>>
      /\ writer' = IF fits THEN Silent ELSE Failed
      /\ UNCHANGED <<via, closed, reader, got>>

Close ==
  /\ ~closed /\ ~writer.busy
  /\ closed' = TRUE
  /\ UNCHANGED <<via, wire, writer, reader, sent, got>>

-----------------------------------------------------------------------------
\* Reading.  init_fp calls read_fp for the count, the sizes and the data, in
\* this order; `have` is what it has read of the `need` cells of one.

Asking(part, need, sizes) ==
  [part |-> part, need |-> need, have |-> <<>>, sizes |-> sizes]
Start == Asking("count", 1, <<>>)
Stopped == Asking("failed", 0, <<>>)

Missing == reader.need - Len(reader.have)
Taken(k) ==
  /\ wire' = SubSeq(wire, k + 1, Len(wire))
  /\ reader' = [reader EXCEPT !.have = @ \o SubSeq(wire, 1, k)]

\* read_fp: from a descriptor what there is, else all that is needed.
read_fp(k) ==
  /\ reader.part # "failed"
  /\ Missing > 0
  /\ IF via = "fd" THEN k \in 1..Missing ELSE k = Missing
  /\ k <= Len(wire)
  /\ Taken(k)
  /\ UNCHANGED <<via, closed, writer, sent, got>>

\* The stream ends before that: read_fd returns 0, fread falls short.
read_fp_ends ==
  /\ reader.part # "failed" /\ closed
  /\ Len(wire) < Missing
  /\ via = "fd" => wire = <<>>
  /\ reader' = Stopped
  /\ wire' = IF via = "mem" THEN wire ELSE <<>>
  /\ UNCHANGED <<via, closed, writer, sent, got>>

Full(part) == reader.part = part /\ Missing = 0
Continue(next) ==
  /\ reader' = next
  /\ UNCHANGED <<via, wire, closed, writer, sent>>

\* A slip: the spare cell is left in the stream.
Wrong_size_cells(segnum) == segnum

\* What is left of the header after the count.
SizeCells(segnum) == 2 * (segnum \div 2) + 1

\* The array `hdr` has CAPN_MAX_SEGS places.  If that many is even, the spare
\* cell of a message of all of them falls behind the array: the build may read
\* on as if nothing had happened, or come to a bad end.
Got_count ==
  LET segnum == reader.have[1] + 1
  IN  /\ Full("count")
      /\ \/ SizeCells(segnum) > CAPN_MAX_SEGS /\ Continue(Stopped)
         \/ /\ segnum <= CAPN_MAX_SEGS
            /\ Continue(Asking("sizes", SizeCells(segnum), <<segnum>>))
      /\ UNCHANGED got

\* Of what was read, the sizes.
Sizes == SubSeq(reader.have, 1, reader.sizes[1])

Got_sizes ==
  /\ Full("sizes")
  /\ Continue(IF Sum(Sizes) > MaxCells THEN Stopped
              ELSE Asking("data", Sum(Sizes), Sizes))
  /\ UNCHANGED got

\* A slip: the data of each segment is taken from the beginning.
Wrong_segments ==
  [i \in DOMAIN reader.sizes |-> [j \in 1..reader.sizes[i] |-> reader.have[2 * j]]]

\* The segments, in the order of their ids, in one block of data.
Segments ==
  LET start(i) == Sum(SubSeq(reader.sizes, 1, i - 1))
  IN  [i \in DOMAIN reader.sizes |->
         [j \in 1..reader.sizes[i] |-> reader.have[start(i) + 2 * j]]]

\* fread of no bytes counts as a failure.
Got_data ==
  /\ Full("data")
  /\ IF via = "fp" /\ reader.need = 0 THEN Continue(Stopped) /\ UNCHANGED got
     ELSE Continue(Start) /\ got' = Append(got, Segments)

-----------------------------------------------------------------------------
Init ==
  /\ via \in Vias
  /\ wire = <<>> /\ closed = FALSE
  /\ writer = Silent /\ reader = Start
  /\ sent = <<>> /\ got = <<>>

Write ==
  \/ \E k \in 1..Len(writer.rest) : write_some(k)
  \/ write_next \/ write_end

Read ==
  \/ \E k \in 1..Missing : read_fp(k)
  \/ read_fp_ends \/ Got_count \/ Got_sizes \/ Got_data

Next ==
  \/ \E m \in Contents : write_begin(m) \/ capn_write_mem(m)
  \/ Write \/ write_fails \/ Close
  \/ Read

Spec == Init /\ [][Next]_vars
FairSpec == Spec /\ WF_vars(Write) /\ WF_vars(Read)

-----------------------------------------------------------------------------
(* Properties. *)

\* The stream refines the promise of MessageStream: every message whole, once,
\* in order, and all of them read unless a write failed, however the calls were
\* cut short on the way.
Stream ==
  INSTANCE MessageStream WITH broken <- writer.failed, stopped <- reader.part = "failed"
ImplementsStream == Stream!Spec

\* A stream with nothing of a message read ends at a message's first cell: the
\* cells not read are those of the messages not got, to the last one written.
Unread == SubSeq(sent, Len(got) + 1, Len(sent))
Framed(messages) == Joined([i \in DOMAIN messages |-> Frame(messages[i])])
StreamAligned == reader = Start => IsPrefix(wire, Framed(Unread))

=============================================================================
