----------------------------- MODULE MCRpcClient -----------------------------
(***************************************************************************)
(* RpcClient for TLC.  Question ids, slots and asks are numbers with an     *)
(* order, so nothing is symmetric.                                         *)
(***************************************************************************)
EXTENDS RpcClient

\* Windows an application may ask for: below, in and past the range.
AnyWindow == {-1, MAX_WINDOW, MAX_WINDOW + 1}
==============================================================================
