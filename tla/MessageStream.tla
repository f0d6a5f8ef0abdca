---------------------------- MODULE MessageStream ---------------------------
(***************************************************************************)
(* What the stream of lib/capn-malloc.c promises: a reader gets the        *)
(* messages that were written, whole, once each and in their order; all of *)
(* them, unless a write failed.                                            *)
(***************************************************************************)
EXTENDS Naturals, Sequences

CONSTANTS Contents        \* the messages

VARIABLES sent,           \* messages whose writing began
          got,            \* messages read
          closed,         \* nothing more is written
          broken,         \* the last write failed
          stopped         \* the reader was told there is nothing more

vars == <<sent, got, closed, broken, stopped>>

Init == sent = <<>> /\ got = <<>> /\ ~closed /\ ~broken /\ ~stopped

Send ==
  /\ ~closed
  /\ ~broken
  /\ \E m \in Contents : sent' = Append(sent, m)
  /\ broken' \in BOOLEAN
  /\ UNCHANGED <<got, closed, stopped>>

Break ==
  /\ ~closed
  /\ broken' = TRUE
  /\ UNCHANGED <<sent, got, closed, stopped>>

Close ==
  /\ closed' = TRUE
  /\ UNCHANGED <<sent, got, broken, stopped>>

Receive ==
  /\ Len(got) < Len(sent) /\ ~stopped
  /\ got' = Append(got, sent[Len(got) + 1])
  /\ UNCHANGED <<sent, closed, broken, stopped>>

Stop ==
  /\ closed /\ ~stopped
  /\ broken \/ got = sent
  /\ stopped' = TRUE
  /\ UNCHANGED <<sent, got, closed, broken>>

Next == Send \/ Break \/ Close \/ Receive \/ Stop

Spec == Init /\ [][Next]_vars /\ WF_vars((~broken /\ Receive) \/ Stop)
=============================================================================
