------------------------------- MODULE MCRooms -------------------------------
(***************************************************************************)
(* Channels on one server, checked by TLC: who is on them                  *)
(* (ChannelMembers), or the modes of one of them (ModeLines), the other    *)
(* component staying as it is at the start.                                *)
(***************************************************************************)
EXTENDS MCChannelMembers

CONSTANTS self, peer, letterbound, parambound

VARIABLES part, family, modes, typed, lines, created

Written(what, xs, p) == [i \in DOMAIN xs |-> [what |-> what, x |-> xs[i], p |-> p]]
(* Lines of set::modes-on-join, some of which the test refuses.            *)
OnJoin ==
  {Written("+", <<"i", "K">>, ""), Written("+", <<"s", "p">>, ""), Written("+", <<"K">>, ""),
   Written("-", <<"c">>, "") \o Written("+", <<"S", "T">>, ""),
   Written("+", <<"f">>, "[5j]:3") \o Written("+", <<"j">>, "3:5"),
   Written("+", <<"f", "j">>, "3:5")}

(* Letters that bear on each other, with parameters that some of them take.*)
Tried(letters, params, ranks) == [letters |-> letters, params |-> params, ranks |-> ranks]
HasRank(mine, theirs) == [u \in {self, peer} |-> IF u = self THEN mine ELSE theirs]
Ordinary == {HasRank({"o"}, {}), HasRank({"h"}, {})}
Together ==
  {Tried({"p", "s", "i", "K", "T"}, {"5"}, Ordinary),
   Tried({"c", "S", "u", "A", "r"}, {"5"}, Ordinary \cup {HasRank({"q", "o"}, {}), HasRank({}, {})}),
   Tried({"k", "l", "b"}, {"3:5", peer}, Ordinary),
   Tried({"k", "j", "f"}, {"3:5", "[5j]:3"}, {HasRank({"o"}, {})}),
   Tried({"L", "f", "o"}, {"#d", "[5j]:3", peer},
         {HasRank({"o"}, {"o"}), HasRank({"h"}, {}), HasRank({"q", "o"}, {})}),
   Tried({"q", "a", "o"}, {self, peer}, {HasRank({"q", "o"}, {"o"}), HasRank({"o"}, {"a", "o"})}),
   Tried({"h", "v"}, {self, peer}, {HasRank({"h"}, {"q", "v"})})}

M == INSTANCE ModeLines WITH
  Self <- self, Other <- peer, Families <- Together,
  Givers <- {"user", "oper", "admin", "samode"}, ConfLines <- OnJoin,
  MAXMODEPARAMS <- parambound, UnsetTime <- 2, MaxLetters <- letterbound

line == <<family, modes, typed, lines, created>>

RoomsInit ==
  /\ part \in {"members", "line"} /\ Init /\ M!Init
  /\ part = "members" => family = CHOOSE f \in Together : "T" \in f.letters
  /\ part = "members" => modes["A"].rank[self] = {"o"}

RoomsNext ==
  \/ part = "members" /\ Next /\ UNCHANGED <<part, line>>
  \/ part = "line" /\ M!Next /\ UNCHANGED <<part, vars>>

(* exit_one_client goes on to its end, as in ChannelMembers.               *)
RoomsSpec ==
  /\ RoomsInit /\ [][RoomsNext]_<<part, vars, line>>
  /\ WF_vars(part = "members" /\ QuitStep)

(* ModeLines: a line of modes does the same at every server, and no more   *)
(* than its source may.                                                    *)
LinesSound == M!LinesSound
=============================================================================
