----------------------------- MODULE UserLists ------------------------------
(***************************************************************************)
(* The two lists that point to users and outlive some of them: the nick    *)
(* history (Whowas) and DCCALLOW (DccAllow).  exit_one_client takes the    *)
(* user off both, by remove_dcc_references and remove_client_from_list.    *)
(***************************************************************************)
EXTENDS Whowas, DccAllow

(* A nick that was left is traced to the user who left it, and who is on a *)
(* DCCALLOW list knows of it, and the other way round; neither leads to a  *)
(* user that is gone, whoever goes first.                                  *)
UsersTraced == ChaseIsRight /\ LinkedBack
=============================================================================
