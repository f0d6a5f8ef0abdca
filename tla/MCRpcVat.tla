------------------------------ MODULE MCRpcVat ------------------------------
(***************************************************************************)
(* RpcVat for TLC.  Connections, objects, question ids, nonces, join ids   *)
(* and vines are only ever compared for equality, so each set is symmetric;*)
(* table indices are numbers, scanned in order, and are not.               *)
(***************************************************************************)
EXTENDS RpcVat, TLC

Symmetry ==
  Permutations(Conns) \cup Permutations(Servers) \cup Permutations(Qids)
    \cup Permutations(Nonces) \cup Permutations(JoinIds) \cup Permutations(Vines)

\* A bound of the state space: third parties are introduced to a vat that
\* exports and keeps nothing.
IntroducedFirst ==
  (\E c \in Conns, v \in Vines : vines[c][v] > 0) =>
    /\ \A i \in ProvisionSlots : provisions[i] = Free
    /\ \A c \in Conns, e \in ExportIds : exports[c][e] = Free

\* Peers choose their question ids by themselves.  The id of an Accept held
\* back by an embargo is no other connection's question that waits for its
\* Return, as a Join part or as another such Accept.
Apart ==
  \A i \in Used(provisions) : provisions[i].embargoed =>
    LET q == provisions[i].accept_question_id
    IN  \A c \in Conns \ {provisions[i].acceptor} :
          /\ \A j \in Used(joins[c]) : \A n \in Used(joins[c][j].parts) :
               joins[c][j].parts[n].qid # q
          /\ \A j \in Used(provisions) :
               provisions[j].embargoed /\ provisions[j].acceptor = c
                 => provisions[j].accept_question_id # q
=============================================================================
