------------------------------- MODULE Whowas -------------------------------
(***************************************************************************)
(* The nick history: whowas.c and its callers in m_nick.c, m_svsnick.c and *)
(* list.c; find_chasing of channel.c and m_kill.c look a nick up in it.    *)
(*                                                                         *)
(* WHOWAS is a ring.  An entry is on the chain of its nick and, while the  *)
(* user it is about is online, on the chain of that user, so that a KILL   *)
(* or a KICK that crosses a nick change finds the user under the new nick. *)
(***************************************************************************)
EXTENDS Integers, Sequences, SequencesExt, FiniteSets, Lists

CONSTANTS Owner, WasNick,
          HistoryLength,  \* NICKNAMEHISTORYLENGTH
          TimeLimit,      \* KILLCHASETIMELIMIT
          None

Slot == 0..HistoryLength - 1

ASSUME WhowasAssumption ==
  /\ HistoryLength \in Nat \ {0} /\ TimeLimit \in Nat
  /\ None \notin Owner \cup WasNick

VARIABLES nick,         \* nick[u], or None when there is no user u
          WHOWAS,       \* WHOWAS[i]: name, online and age (TStime() - logoff)
          WHOWASHASH,   \* the chain of all nicks, the newest entry first
          clist,        \* clist[u]: cptr->user->whowas, the newest entry first
          whowas_next,
          left          \* history: left[n], who left nick n last: user and age
whowasVars == <<nick, WHOWAS, WHOWASHASH, clist, whowas_next, left>>

UnusedEntry == [name |-> None, online |-> None, age |-> 0]
Nobody == [user |-> None, age |-> 0, since |-> 0]

WhowasTypeOK ==
  /\ nick \in [Owner -> WasNick \cup {None}]
  /\ WHOWAS \in [Slot -> [name : WasNick \cup {None}, online : Owner \cup {None},
                          age : 0..TimeLimit + 1]]
  /\ WHOWASHASH \in Seq(Slot) /\ clist \in [Owner -> Seq(Slot)] /\ whowas_next \in Slot

WhowasInit ==
  /\ nick = [u \in Owner |-> None]
  /\ WHOWAS = [i \in Slot |-> UnusedEntry]
  /\ WHOWASHASH = <<>> /\ clist = [u \in Owner |-> <<>>] /\ whowas_next = 0
  /\ left = [n \in WasNick |-> Nobody]

----------------------------------------------------------------------------
(* add_history: the oldest slot leaves its chains and is used again.       *)
Reused(chains) ==
  LET old == WHOWAS[whowas_next].online
  IN [u \in Owner |-> IF u = old THEN Keep(chains[u], Slot \ {whowas_next}) ELSE chains[u]]
NextSlot == IF whowas_next + 1 = HistoryLength THEN 0 ELSE whowas_next + 1
AddHistory(u, online) ==
  /\ WHOWAS' = [WHOWAS EXCEPT ![whowas_next] =
                 [name |-> nick[u], online |-> IF online THEN u ELSE None, age |-> 0]]
  /\ WHOWASHASH' = <<whowas_next>> \o Keep(WHOWASHASH, Slot \ {whowas_next})
  /\ clist' = IF online THEN [Reused(clist) EXCEPT ![u] = <<whowas_next>> \o @] ELSE Reused(clist)
  /\ whowas_next' = NextSlot

(* remove_client_from_list: an entry for the last nick, then off_history   *)
(* takes the user out of all entries of its chain.                         *)
OffHistory(w, slots) ==
  [i \in Slot |-> IF i \in ToSet(slots) THEN [w[i] EXCEPT !.online = None] ELSE w[i]]
LastEntry(u) ==
  /\ WHOWAS' = LET w == [WHOWAS EXCEPT ![whowas_next] =
                          [name |-> nick[u], online |-> None, age |-> 0]]
               IN OffHistory(w, Reused(clist)[u])
  /\ WHOWASHASH' = <<whowas_next>> \o Keep(WHOWASHASH, Slot \ {whowas_next})
  /\ clist' = [Reused(clist) EXCEPT ![u] = <<>>]
  /\ whowas_next' = NextSlot

(* The history of who left nick n, and how many entries came after it.     *)
Leaves(n, u) ==
  left' = [m \in WasNick |->
             IF m = n THEN [user |-> u, age |-> 0, since |-> 1]
             ELSE [left[m] EXCEPT !.since = IF @ \in 1..HistoryLength THEN @ + 1 ELSE @]]
Forget(u) ==
  [n \in WasNick |-> IF left[n].user = u THEN [left[n] EXCEPT !.user = None] ELSE left[n]]

----------------------------------------------------------------------------
Comes(u, n) ==
  /\ nick[u] = None /\ \A v \in Owner : nick[v] # n
  /\ nick' = [nick EXCEPT ![u] = n]
  /\ UNCHANGED <<WHOWAS, WHOWASHASH, clist, whowas_next, left>>

(* m_nick and m_svsnick; n may be the same nick in other capitals.         *)
ChangesNick(u, n) ==
  /\ nick[u] # None /\ \A v \in Owner \ {u} : nick[v] # n
  /\ AddHistory(u, TRUE)
  /\ Leaves(nick[u], u)
  /\ nick' = [nick EXCEPT ![u] = n]

ClientExits(u) ==
  LET gone == Forget(u)
      next(m) == [gone[m] EXCEPT !.since = IF @ \in 1..HistoryLength THEN @ + 1 ELSE @]
  IN /\ nick[u] # None
     /\ LastEntry(u)
     /\ left' = [m \in WasNick |-> IF m = nick[u] THEN [Nobody EXCEPT !.since = 1] ELSE next(m)]
     /\ nick' = [nick EXCEPT ![u] = None]

TimePasses ==
  LET older(a) == IF a <= TimeLimit THEN a + 1 ELSE a
  IN /\ WHOWAS' = [i \in Slot |->
                     [WHOWAS[i] EXCEPT !.age = IF WHOWAS[i].name = None THEN 0 ELSE older(@)]]
     /\ left' = [n \in WasNick |->
                   [left[n] EXCEPT !.age = IF left[n].since = 0 THEN 0 ELSE older(@)]]
     /\ UNCHANGED <<nick, WHOWASHASH, clist, whowas_next>>

WhowasNext ==
  \/ \E u \in Owner, n \in WasNick : Comes(u, n) \/ ChangesNick(u, n)
  \/ \E u \in Owner : ClientExits(u)
  \/ TimePasses
WhowasSpec == WhowasInit /\ [][WhowasNext]_whowasVars

----------------------------------------------------------------------------
(* get_history: the first entry of the nick that is young enough.          *)
GetHistory(n) ==
  LET found == SelectInSeq(WHOWASHASH, LAMBDA i : WHOWAS[i].name = n /\ WHOWAS[i].age <= TimeLimit)
  IN IF found = 0 THEN None ELSE WHOWAS[WHOWASHASH[found]].online

(* A KILL for a nick that somebody has just left hits that user if it is   *)
(* still online and nobody else otherwise, as long as the ring has not     *)
(* come round; and no entry of the ring ever leads to a user that is gone. *)
ChaseIsRight ==
  /\ \A i \in Slot : WHOWAS[i].online # None => nick[WHOWAS[i].online] # None
  /\ \A n \in WasNick :
       GetHistory(n) = IF left[n].since \in 1..HistoryLength /\ left[n].age <= TimeLimit
                       THEN left[n].user ELSE None
============================================================================
