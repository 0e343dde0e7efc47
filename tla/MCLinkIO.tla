----------------------------- MODULE MCLinkIO -----------------------------
(***************************************************************************)
(* LinkIO with small limits for TLC.  A person's sendQ is smaller than     *)
(* that of an unregistered connection, which has no class.                 *)
(***************************************************************************)
EXTENDS LinkIO

MCLimit == [lookup |-> 2, unknown |-> 2, person |-> 1, server |-> 2]
=============================================================================
