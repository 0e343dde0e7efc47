------------------------------ MODULE DccAllow ------------------------------
(***************************************************************************)
(* DCCALLOW: s_extra.c, m_dccallow.c, and remove_dcc_references of         *)
(* s_misc.c.  Both kinds of links are on one list of the user: those to    *)
(* users whose files it takes (me), and those back to users who take its   *)
(* files (remote), which have to be told when it goes.                     *)
(***************************************************************************)
EXTENDS Integers, Sequences, SequencesExt, FiniteSets

CONSTANTS DccUser, MaxDccAllow

ASSUME DccAllowAssumption == MaxDccAllow \in Nat

VARIABLES arrived,   \* the users that are online
          ours,      \* those of this server
          dccallow   \* dccallow[u]: the links [user, me], the newest first
dccVars == <<arrived, ours, dccallow>>

DccTypeOK ==
  /\ ours \subseteq arrived /\ arrived \subseteq DccUser
  /\ dccallow \in [DccUser -> Seq([user : DccUser, me : BOOLEAN])]

DccInit == arrived = {} /\ ours = {} /\ dccallow = [u \in DccUser |-> <<>>]

Me(v) == [user |-> v, me |-> TRUE]
Remote(v) == [user |-> v, me |-> FALSE]
Allowed(u) == Cardinality({i \in DOMAIN dccallow[u] : dccallow[u][i].me})

Arrives(u, local) ==
  /\ u \notin arrived
  /\ arrived' = arrived \cup {u} /\ ours' = IF local THEN ours \cup {u} ELSE ours
  /\ dccallow' = [dccallow EXCEPT ![u] = <<>>]

(* add_dccallow and del_dccallow, for a user of this server.               *)
AddDccAllow(u, v) ==
  /\ u \in ours /\ v \in arrived \ {u}
  /\ Me(v) \notin ToSet(dccallow[u]) /\ Allowed(u) < MaxDccAllow
  /\ dccallow' = [dccallow EXCEPT ![u] = <<Me(v)>> \o @, ![v] = <<Remote(u)>> \o @]
  /\ UNCHANGED <<arrived, ours>>
DelDccAllow(u, v) ==
  /\ u \in ours /\ v \in arrived \ {u}
  /\ Me(v) \in ToSet(dccallow[u])
  /\ dccallow' = [dccallow EXCEPT ![u] = RemoveFirst(@, Me(v)), ![v] = RemoveFirst(@, Remote(u))]
  /\ UNCHANGED <<arrived, ours>>

(* remove_dcc_references: for every link of u, the first link back to u of *)
(* the opposite kind.                                                      *)
(* Wrong: the link back has the same kind as the link.                     *)
LinkBack_SameKind(u, l) == [user |-> u, me |-> l.me]
LinkBack(u, l) == [user |-> u, me |-> ~l.me]
LinkTaken(d, u, l) == [d EXCEPT ![l.user] = RemoveFirst(@, LinkBack(u, l))]
RemoveReferences(d, u) ==
  LET walked[n \in 0..Len(d[u])] == IF n = 0 THEN d ELSE LinkTaken(walked[n-1], u, d[u][n])
  IN walked[Len(d[u])]
DccExit(u) ==
  /\ u \in arrived
  /\ arrived' = arrived \ {u} /\ ours' = ours \ {u}
  /\ dccallow' = [RemoveReferences(dccallow, u) EXCEPT ![u] = <<>>]

DccNext ==
  \/ \E u \in DccUser, v \in DccUser : AddDccAllow(u, v) \/ DelDccAllow(u, v)
  \/ \E u \in DccUser : DccExit(u) \/ \E local \in BOOLEAN : Arrives(u, local)
DccSpec == DccInit /\ [][DccNext]_dccVars

(* Two users may allow each other, and each has two links to the other     *)
(* then.  Every link is to a user that is there, has exactly one back, and *)
(* nobody's limit is passed.                                               *)
Links(u, l) == Cardinality({i \in DOMAIN dccallow[u] : dccallow[u][i] = l})
LinkedBack ==
  \A u, v \in DccUser : /\ Links(u, Me(v)) <= 1
                        /\ Links(u, Me(v)) = Links(v, Remote(u))
                        /\ Links(u, Me(v)) = 1 => u \in ours /\ v \in arrived
                        /\ Allowed(u) <= MaxDccAllow
============================================================================
