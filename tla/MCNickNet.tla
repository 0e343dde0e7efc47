----------------------------- MODULE MCNickNet -----------------------------
(***************************************************************************)
(* NickNet with model values for TLC: three servers in a line with *)
(* a user at each end.                                                     *)
(***************************************************************************)
EXTENDS NickNet, TLC

CONSTANTS s1, s2, s3, u1, u2
LineEdge == {{s1, s2}, {s2, s3}}
LineHome == u1 :> s1 @@ u2 :> s3
Differ == u1 :> "a" @@ u2 :> "b"
=============================================================================
