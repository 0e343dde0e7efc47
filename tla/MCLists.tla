------------------------------- MODULE MCLists -------------------------------
(***************************************************************************)
(* What one server keeps about clients that come and go, checked by TLC:   *)
(* the invitations of ChannelMembers (longer lists than in                 *)
(* MCChannelMembers, no flags, and no user without SSL), link and class    *)
(* blocks (LinkConf), operators (OperCount), WATCH (WatchList), whowas     *)
(* (Whowas) and DCCALLOW (DccAllow), the blocks of its configuration       *)
(* files (ConfBlocks), and what it shows of users and channels             *)
(* (Visibility).  The components have no variable in common: a behaviour   *)
(* is one of any of them, the others staying as they are at the start, and *)
(* what is said of one is looked at in its own behaviours.                 *)
(***************************************************************************)
EXTENDS ChannelMembers, LinkConf, WatchList, UserLists, ConfBlocks

CONSTANTS conn1, conn2, dns1, dns2,     \* connections and look-ups
          default, other, spare,        \* class {} blocks
          ann, bob, cal,                \* users
          local1, far1, far2            \* users of this server, and of others

VARIABLES part,
          present, modes, operators, invisible, operlist, noop, off,
          view, asked, answer, open, secret, lopt, listed, steady, ended

O == INSTANCE OperCount WITH
  User <- {local1, far1, far2}, Local <- {local1}, Quarantined <- {far2},
  UmodeFlags <- {"o", "O", "H", "i"}, SvsFlags <- {"o", "O", "H", "i"},
  OperFlags <- {"H", "i"}, MaxString <- 2
S == INSTANCE Visibility WITH Buckets <- <<{"x"}, {"y", "z"}, {"w"}>>, Batch <- 1

ASSUME ListsAssumption ==
  /\ LinkConfAssumption /\ O!OperCountAssumption
  /\ WatchListAssumption

blocks == linkVars
opers == <<present, modes, operators, invisible, operlist, noop, off>>
watch == watchVars
whowas == whowasVars
dcc == dccVars
shows == <<view, asked, answer, open, secret, lopt, listed, steady, ended>>
files == filesVars

ListsInit ==
  /\ part \in {"rooms", "blocks", "opers", "watch", "whowas", "dccallow", "files", "shows"}
  /\ Init /\ LinkInit /\ O!Init /\ WatchInit /\ WhowasInit /\ DccInit
  /\ IF part = "files" THEN FilesInit ELSE FilesInitWith("me", "name")
  /\ IF part = "shows" THEN S!Init ELSE S!InitWith(S!PlainView)

ListsNext ==
  \/ part = "rooms" /\ Next /\ UNCHANGED <<part, blocks, opers, watch, whowas, dcc, files, shows>>
  \/ part = "blocks" /\ LinkNext /\ UNCHANGED <<part, vars, opers, watch, whowas, dcc, files, shows>>
  \/ part = "opers" /\ O!Next /\ UNCHANGED <<part, vars, blocks, watch, whowas, dcc, files, shows>>
  \/ part = "watch" /\ WatchNext /\ UNCHANGED <<part, vars, blocks, opers, whowas, dcc, files, shows>>
  \/ part = "whowas" /\ WhowasNext /\ UNCHANGED <<part, vars, blocks, opers, watch, dcc, files, shows>>
  \/ part = "dccallow" /\ DccNext /\ UNCHANGED <<part, vars, blocks, opers, watch, whowas, files, shows>>
  \/ part = "files" /\ FilesNext /\ UNCHANGED <<part, vars, blocks, opers, watch, whowas, dcc, shows>>
  \/ part = "shows" /\ S!Next /\ UNCHANGED <<part, vars, blocks, opers, watch, whowas, dcc, files>>

ListsSpec ==
  ListsInit /\ [][ListsNext]_<<part, vars, blocks, opers, watch, whowas, dcc, files, shows>>

(* OperCount: LUSERS and the list of operators say what the modes of the   *)
(* users say, but after a step that OpersExact names.  ConfBlocks: what    *)
(* the test of a block accepts can be used, but for an entry without value *)
(* of a directive in Unchecked, and a REHASH leaves nothing of the old     *)
(* configuration, but for a directive of KeptOver the new one leaves out.  *)
ServerSound ==
  /\ part = "opers" => O!OpersCounted
  /\ part = "files" => AcceptedIsUsable /\ RehashIsRestart
(* Visibility: no command shows what others keep from a user, but for what *)
(* its Leaks names, and LIST in parts is whole.                            *)
ShownRight == part = "shows" => S!ShownRight
=============================================================================
