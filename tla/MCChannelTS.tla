---------------------------- MODULE MCChannelTS ----------------------------
(***************************************************************************)
(* ChannelTS for TLC.  Three servers in a line with a user at each end, a  *)
(* link that breaks, and one change of modes, kick or part: messages that  *)
(* cross and are passed on.  And two servers with a user each that link    *)
(* once, with two changes: each side may have set flags, a key or bans of  *)
(* its own before the bursts, and m_sjoin has to choose.                   *)
(***************************************************************************)
EXTENDS ChannelTS, TLC

CONSTANTS s1, s2, s3, u1, u2
LineEdge == {{s1, s2}, {s2, s3}}
LineHome == u1 :> s1 @@ u2 :> s3
PairEdge == {{s1, s2}}
PairHome == u1 :> s1 @@ u2 :> s2

Topic == {<<"flag", "t">>}
Some == {<<"flag", "i">>, <<"op", u2>>, <<"ban", "b">>}
Held == {<<"flag", "t">>, <<"op", u1>>, <<"op", u2>>}
Everything == {<<"flag", "i">>, <<"flag", "s">>, <<"flag", "p">>, <<"op", u1>>, <<"op", u2>>,
               <<"key", 1>>, <<"key", 2>>, <<"ban", "b">>}

VARIABLE part
Pair == INSTANCE ChannelTS WITH
  Server <- {s1, s2}, Edge <- PairEdge, Home <- PairHome, MaxOps <- 2, MaxSplits <- 0,
  Sets <- Everything, Takes <- Everything

NetInit ==
  \/ part = "line" /\ Init
  \/ part = "pair" /\ Pair!Init

NetNext ==
  \/ part = "line" /\ Next /\ UNCHANGED part
  \/ part = "pair" /\ Pair!Next /\ UNCHANGED part

Reading ==
  \/ part = "line" /\ Delivers /\ UNCHANGED part
  \/ part = "pair" /\ Pair!Delivers /\ UNCHANGED part
NetSpec == NetInit /\ [][NetNext]_<<vars, part>> /\ WF_<<vars, part>>(Reading)

(* ChannelTS on both networks.                                             *)
MergesSound == (part = "line" => ChannelsSound) /\ (part = "pair" => Pair!ChannelsSound)
MergesEnd == <>[](IF part = "line" THEN AllRead ELSE Pair!AllRead)
=============================================================================
