------------------------- MODULE MCChannelMembers -------------------------
(***************************************************************************)
(* ChannelMembers with model values for TLC.  Channels are                 *)
(* interchangeable, and so are users of the same kind.                     *)
(***************************************************************************)
EXTENDS ChannelMembers, TLC

ChannelSymmetry == Permutations(Channel)
=============================================================================
