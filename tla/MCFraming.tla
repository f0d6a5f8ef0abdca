------------------------------ MODULE MCFraming -----------------------------
(* Messages for TLC: one to five segments, some empty, words that look like
   the numbers of a header. *)
EXTENDS Framing

MoreOrFewerSegments ==
  {<< <<1>> >>, << <<0, 2>>, <<>> >>, << <<3>>, <<>>, <<1>> >>,
   << <<1>>, <<>>, <<>>, <<2>> >>, << <<1>>, <<>>, <<2>>, <<>>, <<>> >>}
=============================================================================
