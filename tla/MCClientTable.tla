--------------------------- MODULE MCClientTable ---------------------------
(***************************************************************************)
(* ClientTable with model values for TLC.  Addresses are interchangeable:  *)
(* no action orders or names them, so TLC may identify states that differ  *)
(* by a permutation of them.                                               *)
(***************************************************************************)
EXTENDS ClientTable, TLC

AddressSymmetry == Permutations(Client)
=============================================================================
