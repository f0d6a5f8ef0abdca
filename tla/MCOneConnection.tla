--------------------------- MODULE MCOneConnection --------------------------
(***************************************************************************)
(* RpcVat for TLC, with one peer that follows one of three scripts: it     *)
(* pipelines calls and introduces third parties, joins references, or      *)
(* hands them off.  The three use different tables, and their product is   *)
(* out of reach.  One answer is kept at a time beside joins, two beside    *)
(* handoffs.                                                               *)
(***************************************************************************)
EXTENDS MCRpcVat

VARIABLE script

ScriptInit == Init /\ script \in {"pipelines", "joins", "handoffs"}

ScriptNext ==
  /\ Next
  /\ UNCHANGED script
  /\ script # "joins" => UNCHANGED <<joins, verdict>>
  /\ script # "handoffs" => UNCHANGED <<provisions, ledger>>
  /\ script # "pipelines" =>
       /\ UNCHANGED <<introductions, vines>>
       /\ \A c \in Conns :
            Cardinality({i \in AnswerSlots : answers'[c][i] # Free})
              <= IF script = "joins" THEN 1 ELSE 2

ScriptSpec == ScriptInit /\ [][ScriptNext]_<<vars, script>>

\* Every reference counted is held by the peer, and every kept Return belongs
\* to an open question (capn_rpc_export, handle_release, send_answer), where
\* there are no handoffs: those count for the recipient, and answer late.
CountsExact == script # "handoffs" => RefcountExact
KeptForOpen == script # "handoffs" => AnswersOpen

\* A pipelined call reaches what was returned (resolve_target); the Returns of
\* joins and of embargoed Accepts are not kept for that.
PipelinesReach == script = "pipelines" => PipelineReaches
=============================================================================
