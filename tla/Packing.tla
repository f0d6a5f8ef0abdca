------------------------------ MODULE Packing ------------------------------
(***************************************************************************)
(* Packed streams (lib/capn-stream.c) and the loops of lib/capn-malloc.c   *)
(* that write and read them through buffers of fixed size.                 *)
(*                                                                         *)
(* A writer packs a message's segments with capn_deflate, a buffer at a    *)
(* time (packed_emit_seg), into a stream.  A reader then unpacks the       *)
(* stream with capn_inflate (read_fp), asking for any number of bytes at   *)
(* a time and getting packed bytes in any portions.  One step is one turn  *)
(* of the loop in capn_deflate or capn_inflate, or what their callers do   *)
(* between two calls.                                                      *)
(*                                                                         *)
(* A word has Word bytes, eight in the code, and a run's count byte goes   *)
(* up to MaxCount, 255 in the code.  Bytes are numbers.                    *)
(***************************************************************************)
EXTENDS Integers, Sequences, FiniteSets

CONSTANTS
  Word, MaxCount,
  Messages,       \* the messages written: each its segments' bytes
  Caps,           \* sizes of the writer's buffer
  ZBUF_SZ         \* size of the reader's

ASSUME PackingAssumption ==
  /\ Word \in Nat \ {0, 1} /\ MaxCount \in Nat
  /\ \A c \in Caps : c \in Nat /\ c >= Word + 2
  /\ ZBUF_SZ \in Nat /\ ZBUF_SZ >= Word + 2
  /\ \A m \in Messages : m \in Seq(Seq(Nat)) /\ m # <<>>
  /\ \A m \in Messages : \A k \in DOMAIN m : Len(m[k]) % Word = 0

VARIABLES
  message,        \* what is written
  writer,         \* z of packed_emit_seg, with its buffer
  stream,         \* the packed bytes written
  reader          \* z of read_fp, with its buffers

vars == <<message, writer, stream, reader>>

Least(a, b) == IF a < b THEN a ELSE b
Drop(s, n) == SubSeq(s, n + 1, Len(s))
Take(s, n) == SubSeq(s, 1, n)

-----------------------------------------------------------------------------
\* Words and their tags.

NonZero(w) == {i \in 1..Word : w[i] # 0}
ZeroBytes(w) == {i \in 1..Word : w[i] = 0}
AllZero(w) == NonZero(w) = {}

power[i \in Nat] == IF i = 0 THEN 1 ELSE 2 * power[i - 1]
FullTag == power[Word] - 1

\* The tag byte of a word: a bit for each byte that is not zero.
Tag(w) ==
  LET bits[i \in 0..Word] ==
        IF i = 0 THEN 0 ELSE bits[i - 1] + (IF w[i] # 0 THEN power[i - 1] ELSE 0)
  IN  bits[Word]

TagBits(t) == {i \in 1..Word : (t \div power[i - 1]) % 2 = 1}

\* Which one of a set of places place i is, counted from the first.
Ordinal(places, i) == Cardinality({j \in places : j <= i})

\* The bytes of w that are not zero, in order.
Packed(w) ==
  [k \in 1..Cardinality(NonZero(w)) |->
     w[CHOOSE i \in NonZero(w) : Ordinal(NonZero(w), i) = k]]

\* The number of set bits of tag t below and at i.
Rank(t, i) == Ordinal(TagBits(t), i)

\* The word that tag t and the bytes after it stand for.
Unpacked(t, bytes) ==
  [i \in 1..Word |-> IF i \in TagBits(t) THEN bytes[Rank(t, i)] ELSE 0]

\* Word j of `bytes`, counted from zero.
WordAt(bytes, j) == SubSeq(bytes, j * Word + 1, (j + 1) * Word)

\* How many of the first words of `bytes`, `most` at most, pass the test.
Leading(bytes, most, Test(_)) ==
  LET limit == Least(most, Len(bytes) \div Word)
  IN  CHOOSE j \in 0..limit :
        /\ \A i \in 0..(j - 1) : Test(WordAt(bytes, i))
        /\ j = limit \/ ~Test(WordAt(bytes, j))

Zeros(bytes) == Leading(bytes, MaxCount + 1, AllZero)

\* Words after a full one that are not worth packing: one zero byte at most.
HasFewZeros(w) == \A i, j \in ZeroBytes(w) : i = j
Extra(bytes) == Leading(Drop(bytes, Word), MaxCount, HasFewZeros)

-----------------------------------------------------------------------------
\* capn_deflate.

\* Room for what the next word is packed to at least.
Needed(w) ==
  IF AllZero(w) THEN 2
  ELSE IF ZeroBytes(w) = {} THEN Word + 2 ELSE 1 + Len(Packed(w))

Room == writer.cap - Len(writer.out)
Deflating == writer.pc = "deflating" /\ writer.in # <<>>
NextWord == WordAt(writer.in, 0)
Fits == Deflating /\ writer.raw = 0 /\ Len(writer.in) >= Word /\ Needed(NextWord) <= Room

Put(n, bytes, raw) ==
  /\ writer' = [writer EXCEPT !.in = Drop(@, n), !.out = @ \o bytes, !.raw = raw]
  /\ UNCHANGED <<message, stream, reader>>

deflate_raw ==
  LET sz == Least(writer.raw, Least(Len(writer.in), Room))
  IN  /\ Deflating /\ Room > 0 /\ writer.raw > 0
      /\ Put(sz, Take(writer.in, sz), writer.raw - sz)

deflate_zeros ==
  /\ Fits /\ AllZero(NextWord)
  /\ Put(Zeros(writer.in) * Word, <<0, Zeros(writer.in) - 1>>, 0)

deflate_full ==
  /\ Fits /\ ZeroBytes(NextWord) = {}
  /\ Put(Word, <<FullTag>> \o NextWord \o <<Extra(writer.in)>>,
         Extra(writer.in) * Word)

deflate_some ==
  /\ Fits /\ ~AllZero(NextWord) /\ ZeroBytes(NextWord) # {}
  /\ Put(Word, <<Tag(NextWord)>> \o Packed(NextWord), 0)

\* CAPN_NEED_MORE.
NeedsRoom ==
  /\ Deflating
  /\ \/ Room = 0
     \/ writer.raw = 0 /\ (Len(writer.in) < Word \/ Needed(NextWord) > Room)

-----------------------------------------------------------------------------
\* packed_emit_seg.

Wrong_carried(raw) == 0
\* What of a raw run is left for the next buffer.
Carried(raw) == raw

\* The buffer is emitted and capn_deflate called again, which refuses input
\* that does not end on a word.
emit_chunk ==
  /\ NeedsRoom
  /\ stream' = stream \o writer.out
  /\ writer' = [writer EXCEPT
       !.out = <<>>, !.raw = Carried(@),
       !.pc = IF writer.out = <<>> \/ Len(writer.in) % Word # 0 THEN "failed"
              ELSE @]
  /\ UNCHANGED <<message, reader>>

\* The segment is packed: on to the next, with a new z.
emit_last ==
  /\ writer.pc = "deflating" /\ writer.in = <<>>
  /\ stream' = stream \o writer.out
  /\ writer' = IF writer.seg = Len(message)
               THEN [writer EXCEPT !.pc = "done", !.out = <<>>]
               ELSE [writer EXCEPT !.seg = @ + 1, !.in = message[writer.seg + 1],
                                   !.out = <<>>, !.raw = 0]
  /\ UNCHANGED <<message, reader>>

-----------------------------------------------------------------------------
\* capn_inflate.

Inflating == reader.pc = "inflating" /\ reader.room > 0
Between == Inflating /\ reader.buf = <<>> /\ reader.zeros = 0 /\ reader.raw = 0

\* How many bytes the tag at the head of the input takes with what goes with it.
HeaderSize ==
  IF Len(reader.in) < 2 \/ reader.in[1] = 0 THEN 2
  ELSE IF reader.in[1] = FullTag THEN Word + 2 ELSE 1 + Rank(reader.in[1], Word)

HeaderIn == Between /\ Len(reader.in) >= HeaderSize

\* n bytes of output; what else changes is in `z`.
Give(z, bytes) ==
  /\ reader' = [z EXCEPT !.room = @ - Len(bytes), !.got = @ \o bytes]
  /\ UNCHANGED <<message, writer, stream>>

inflate_buffered ==
  LET n == Least(reader.room, Len(reader.buf))
  IN  /\ Inflating /\ reader.buf # <<>>
      /\ Give([reader EXCEPT !.buf = Drop(@, n)], Take(reader.buf, n))

inflate_zeros ==
  LET n == Least(reader.room, reader.zeros)
  IN  /\ Inflating /\ reader.buf = <<>> /\ reader.zeros > 0
      /\ Give([reader EXCEPT !.zeros = @ - n], [i \in 1..n |-> 0])

inflate_raw ==
  LET n == Least(Least(reader.room, reader.raw), Len(reader.in))
  IN  /\ Inflating /\ reader.buf = <<>> /\ reader.zeros = 0
      /\ reader.raw > 0 /\ reader.in # <<>>
      /\ Give([reader EXCEPT !.raw = @ - n, !.in = Drop(@, n)], Take(reader.in, n))

inflate_full_tag ==
  /\ HeaderIn /\ reader.in[1] = FullTag
  /\ Give([reader EXCEPT !.buf = SubSeq(reader.in, 2, Word + 1),
                         !.raw = reader.in[Word + 2] * Word,
                         !.in = Drop(@, Word + 2)], <<>>)

Wrong_zero_bytes(count) == count * Word
\* Zeros that a zero tag with this count stands for.
Zero_bytes(count) == (count + 1) * Word

inflate_zero_tag ==
  /\ HeaderIn /\ reader.in[1] = 0
  /\ Give([reader EXCEPT !.zeros = Zero_bytes(reader.in[2]), !.in = Drop(@, 2)], <<>>)

inflate_tag ==
  /\ HeaderIn /\ reader.in[1] \notin {0, FullTag}
  /\ Give([reader EXCEPT !.buf = Unpacked(reader.in[1], Drop(reader.in, 1)),
                         !.in = Drop(@, HeaderSize)], <<>>)

\* CAPN_NEED_MORE.
NeedsInput ==
  \/ /\ Inflating /\ reader.buf = <<>> /\ reader.zeros = 0
     /\ reader.raw > 0 /\ reader.in = <<>>
  \/ Between /\ Len(reader.in) < HeaderSize

-----------------------------------------------------------------------------
\* read_fp.

\* The first n of the sequences f, one after the other.
Joined(f, n) ==
  LET up[k \in 0..n] == IF k = 0 THEN <<>> ELSE up[k - 1] \o f[k]
  IN  up[n]

\* The bytes of the message, and how many they are.
Plain == Joined(message, Len(message))
Total == Len(Plain)

\* init_fp may ask for any part of the rest, and for nothing when that is left.
Sizes == LET rest == Total - Len(reader.got)
         IN  IF rest = 0 THEN {0} ELSE 1..rest

read_fp(n) ==
  /\ reader.pc = "asking" /\ writer.pc \in {"done", "failed"}
  /\ reader' = [reader EXCEPT !.pc = "inflating", !.room = n]
  /\ UNCHANGED <<message, writer, stream>>

read_done ==
  /\ reader.pc = "inflating" /\ reader.room = 0
  /\ reader' = [reader EXCEPT !.pc = IF Len(reader.got) = Total THEN "done"
                                                               ELSE "asking"]
  /\ UNCHANGED <<message, writer, stream>>

\* fread gives one byte at least, unless there is none or no place for it.
Portions ==
  LET most == Least(ZBUF_SZ - Len(reader.in), Len(stream) - reader.taken)
  IN  IF most = 0 THEN {0} ELSE 1..most

Wrong_after_read(r) == "inflating"
After_read(r) == IF r = 0 THEN "failed" ELSE "inflating"

Wrong_refilled(left, bytes) == bytes
\* zbuf once `bytes` were read behind what was left in it.
Refilled(left, bytes) == left \o bytes

refill(r) ==
  /\ NeedsInput
  /\ reader' = [reader EXCEPT
       !.in = Refilled(@, SubSeq(stream, reader.taken + 1, reader.taken + r)),
       !.taken = @ + r, !.pc = After_read(r)]
  /\ UNCHANGED <<message, writer, stream>>

-----------------------------------------------------------------------------
Init ==
  /\ message \in Messages
  /\ \E c \in Caps :
       writer = [pc |-> "deflating", seg |-> 1, in |-> message[1], out |-> <<>>,
                 raw |-> 0, cap |-> c]
  /\ stream = <<>>
  /\ reader = [pc |-> "asking", taken |-> 0, in |-> <<>>, zeros |-> 0, raw |-> 0,
               buf |-> <<>>, room |-> 0, got |-> <<>>]

Write ==
  deflate_raw \/ deflate_zeros \/ deflate_full \/ deflate_some \/ emit_chunk \/ emit_last

Read ==
  \/ \E n \in Sizes : read_fp(n)
  \/ inflate_buffered \/ inflate_zeros \/ inflate_raw
  \/ inflate_full_tag \/ inflate_zero_tag \/ inflate_tag
  \/ \E r \in Portions : refill(r)
  \/ read_done

Next == Write \/ Read
Spec == Init /\ [][Next]_vars

\* The code runs until its calls return; a reader keeps asking for the rest.
FairSpec ==
  /\ Spec
  /\ WF_vars(Write)
  /\ WF_vars(Read)

\* Bytes of the message and of the stream are told apart by position only.
Bytes == Nat

TypeOK ==
  /\ message \in Messages
  /\ writer \in [pc: {"deflating", "done", "failed"}, seg: 1..Len(message),
                 in: Seq(Bytes), out: Seq(Bytes), raw: 0..(MaxCount * Word), cap: Caps]
  /\ Len(writer.out) <= writer.cap
  /\ stream \in Seq(Bytes)
  /\ reader \in [pc: {"asking", "inflating", "done", "failed"}, taken: 0..Len(stream),
                 in: Seq(Bytes), zeros: 0..((MaxCount + 1) * Word),
                 raw: 0..(MaxCount * Word), buf: Seq(Bytes), room: Nat,
                 got: Seq(Bytes)]
  /\ Len(reader.in) <= ZBUF_SZ /\ Len(reader.buf) <= Word

-----------------------------------------------------------------------------
\* A segment packed into a buffer that never fills, as capn_write_mem does.
Whole(bytes) ==
  LET n == Len(bytes) \div Word
      packed[j \in 0..n] ==
        IF j = n THEN <<>>
        ELSE LET rest == Drop(bytes, j * Word)
                 w == WordAt(rest, 0)
             IN  IF AllZero(w) THEN <<0, Zeros(rest) - 1>> \o packed[j + Zeros(rest)]
                 ELSE IF ZeroBytes(w) = {}
                 THEN <<FullTag>> \o w \o <<Extra(rest)>>
                        \o Take(Drop(rest, Word), Extra(rest) * Word)
                        \o packed[j + 1 + Extra(rest)]
                 ELSE <<Tag(w)>> \o Packed(w) \o packed[j + 1]
  IN  packed[0]

\* What is read is what was written, however both were cut: the reader's
\* output is the beginning of the message, and all of it once it is done
\* (capn-stream-test.cpp:1034, WriteFpPackedDenseSegmentRoundTrip).
Lossless ==
  /\ reader.got = Take(Plain, Len(reader.got))
  /\ reader.pc = "done" => Len(reader.got) = Total

\* A stream written without error is read without one, to its last byte and
\* with nothing pending: "success: inflate filled the output buffer"
\* (capnp_priv.h:56).
ReadsBack ==
  writer.pc = "done" =>
    /\ reader.pc # "failed"
    /\ reader.pc = "done" =>
         /\ reader.taken = Len(stream) /\ reader.in = <<>>
         /\ reader.buf = <<>> /\ reader.zeros = 0 /\ reader.raw = 0

\* The size of the buffer does not show in the stream: it is a beginning of
\* what capn_write_mem writes, and all of that when the writer succeeded
\* (capn-stream-test.cpp:1049 compares the two).
ChunkingInvisible ==
  LET whole == Joined([k \in 1..Len(message) |-> Whole(message[k])], Len(message))
  IN  /\ stream = Take(whole, Len(stream))
      /\ writer.pc = "done" => stream = whole

\* Writing and reading come to an end, of a stream cut short too.
Terminates == <>(reader.pc \in {"done", "failed"})

\* "on CAPN_NEED_MORE, emit the filled chunk and reuse the buffer. Keep z so a
\* raw run that spans a chunk continues" (capn-malloc.c:447): writing does not
\* fail for where a chunk ends.
RunContinues == writer.pc # "failed"
=============================================================================
