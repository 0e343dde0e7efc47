----------------------------- MODULE WatchList -----------------------------
(***************************************************************************)
(* WATCH: hash.c, m_watch.c, m_away.c and the callers of hash_check_watch  *)
(* in m_nick.c, m_svsnick.c and s_misc.c.                                  *)
(*                                                                         *)
(* A user of this server keeps a list of nicks; each watched nick has a    *)
(* header with the list of its watchers, who are told when somebody with   *)
(* that nick comes, goes, is away or is back.                              *)
(***************************************************************************)
EXTENDS Lists, SequencesExt, FiniteSets

CONSTANTS Client,    \* structs of users, of this server or of others
          Nick,
          MaxWatch,  \* MAXWATCH
          NoNick

WatchListAssumption == NoNick \notin Nick /\ MaxWatch \in Nat

VARIABLES user,    \* user[u]: nick (NoNick: no such user), mine, away, watch and watches
          header,  \* header[n]: the watchers [who, flags] of n; <<>> if there is no header
          told     \* history: told[w][n], what w was told of n last
watchVars == <<user, header, told>>

NoUser == [nick |-> NoNick, mine |-> FALSE, away |-> FALSE, watch |-> <<>>, watches |-> 0]

WatchTypeOK ==
  /\ user \in [Client -> [nick : Nick \cup {NoNick}, mine : BOOLEAN, away : BOOLEAN,
                        watch : Seq(Nick), watches : Int]]
  /\ header \in [Nick -> Seq([who : Client, flags : BOOLEAN])]
  /\ told \in [Client -> [Nick -> {"nothing", "off", "on", "away"}]]

WatchInit ==
  /\ user = [u \in Client |-> NoUser]
  /\ header = [n \in Nick |-> <<>>]
  /\ told = [u \in Client |-> [n \in Nick |-> "nothing"]]

Person(n) == {u \in Client : user[u].nick = n}   \* find_person
Watchers(h, n) == {h[n][i].who : i \in DOMAIN h[n]}

----------------------------------------------------------------------------
(* hash_check_watch tells the watchers of nick n; news of AWAY only those  *)
(* who want them.                                                          *)
Tell(t, h, n, reply) ==
  [w \in Client |-> IF w \in Watchers(h, n) THEN [t[w] EXCEPT ![n] = reply] ELSE t[w]]
TellAway(t, h, n, reply) ==
  LET wants == {h[n][i].who : i \in {i \in DOMAIN h[n] : h[n][i].flags}}
  IN [w \in Client |-> IF w \in wants THEN [t[w] EXCEPT ![n] = reply] ELSE t[w]]

(* show_watch: the answer to WATCH +n.                                     *)
Show(w, n, awaynotify) ==
  LET status == IF Person(n) = {} THEN "off"
                ELSE IF awaynotify /\ \E u \in Person(n) : user[u].away THEN "away" ELSE "on"
  IN told' = [told EXCEPT ![w][n] = status]

(* m_watch, +n: add_to_watch_hash_table adds at the head of both lists.    *)
WatchAdd(w, n, awaynotify) ==
  /\ user[w].mine /\ user[w].watches < MaxWatch
  /\ IF w \in Watchers(header, n) THEN UNCHANGED <<user, header>>
     ELSE /\ header' = [header EXCEPT ![n] = <<[who |-> w, flags |-> awaynotify]>> \o @]
          /\ user' = [user EXCEPT ![w].watch = <<n>> \o @, ![w].watches = @ + 1]
  /\ Show(w, n, awaynotify)

(* -n: del_from_watch_hash_table, which also looks for both ends.          *)
Unwatched(list, w) == Keep(list, {e \in ToSet(list) : e.who # w})
WatchDel(w, n) ==
  /\ user[w].mine
  /\ IF w \notin Watchers(header, n) THEN UNCHANGED <<user, header>>
     ELSE /\ header' = [header EXCEPT ![n] = Unwatched(@, w)]
          /\ user' = [user EXCEPT ![w].watch = Keep(@, Nick \ {n}),
                                  ![w].watches = @ - 1]
  /\ Show(w, n, FALSE)

(* C, and the exit of a user of this server: hash_del_watch_list.          *)
DelWatchList(h, w) ==
  [n \in Nick |-> IF n \in ToSet(user[w].watch) THEN Unwatched(h[n], w) ELSE h[n]]
WatchClear(w) ==
  /\ user[w].mine /\ user[w].watch # <<>>
  /\ header' = DelWatchList(header, w)
  /\ user' = [user EXCEPT ![w].watch = <<>>, ![w].watches = 0]
  /\ UNCHANGED told

----------------------------------------------------------------------------
(* register_user: a nick comes.                                            *)
WatchRegister(u, n, mine) ==
  /\ user[u].nick = NoNick /\ Person(n) = {}
  /\ user' = [user EXCEPT ![u] = [NoUser EXCEPT !.nick = n, !.mine = mine]]
  /\ told' = Tell([told EXCEPT ![u] = [m \in Nick |-> "nothing"]], header, n, "on")
  /\ UNCHANGED header

(* register_user exits a user whose server is behind another link before   *)
(* anybody was told that it came.                                          *)
WrongDirection(n) ==
  /\ Person(n) = {}
  /\ told' = Tell(told, header, n, "off")
  /\ UNCHANGED <<user, header>>

(* m_nick and m_svsnick: off under the old nick, on under the new one; the *)
(* same nick with other capitals is a change as well.                      *)
Renamed_Arrival(t, old, new) == Tell(t, header, new, "on")
Renamed(t, old, new) == Tell(Tell(t, header, old, "off"), header, new, "on")
NickChange(u, n) ==
  /\ user[u].nick # NoNick /\ Person(n) \subseteq {u}
  /\ user' = [user EXCEPT ![u].nick = n]
  /\ told' = Renamed(told, user[u].nick, n)
  /\ UNCHANGED header

(* exit_client and exit_one_client: the own list goes first.               *)
WatchExit(u) ==
  LET h == IF user[u].mine THEN DelWatchList(header, u) ELSE header
  IN /\ user[u].nick # NoNick
     /\ header' = h
     /\ told' = Tell(told, h, user[u].nick, "off")
     /\ user' = [user EXCEPT ![u] = NoUser]

(* m_away passes cptr to hash_check_watch, which for a user of another     *)
(* server is the link, whose name nobody can watch.                        *)
Away(u, away) ==
  /\ user[u].nick # NoNick
  /\ away \/ user[u].away
  /\ user' = [user EXCEPT ![u].away = away]
  /\ told' = IF user[u].mine
             THEN TellAway(told, header, user[u].nick, IF away THEN "away" ELSE "on")
             ELSE told
  /\ UNCHANGED header

----------------------------------------------------------------------------
WatchNext ==
  \/ \E w \in Client, n \in Nick : \/ \E awaynotify \in BOOLEAN : WatchAdd(w, n, awaynotify)
                                   \/ WatchDel(w, n)
                                   \/ \E mine \in BOOLEAN : WatchRegister(w, n, mine)
                                   \/ NickChange(w, n)
  \/ \E n \in Nick : WrongDirection(n)
  \/ \E u \in Client : WatchClear(u) \/ WatchExit(u) \/ Away(u, TRUE) \/ Away(u, FALSE)

WatchSpec == WatchInit /\ [][WatchNext]_watchVars

----------------------------------------------------------------------------
(* The two ends of every entry agree, once each, and the count limits them.*)
EndsAgree == \A w \in Client :
  /\ user[w].watches = Len(user[w].watch) /\ user[w].watches <= MaxWatch
  /\ IsInjective(user[w].watch)
  /\ \A n \in Nick :
       Cardinality({i \in DOMAIN header[n] : header[n][i].who = w})
         = IF n \in ToSet(user[w].watch) THEN 1 ELSE 0

(* Every watcher is a user of this server that is still there, and what it *)
(* was told last of a nick is so: somebody has it or nobody has.  This is  *)
(* to hold over registrations, nick changes, SVSNICK and exits.            *)
ToldTruth == \A n \in Nick : \A w \in Watchers(header, n) :
  /\ user[w].mine
  /\ (told[w][n] = "off") <=> (Person(n) = {})
  /\ told[w][n] # "nothing"
WatchersKnow == EndsAgree /\ ToldTruth

(* set::watch-away-notification: who asked for it is told when a watched   *)
(* user goes away.                                                         *)
AwayTold ==
  [][\A u \in Client, w \in Client : user[u].nick # NoNick => \A i \in DOMAIN header[user[u].nick] :
       (/\ Away(u, TRUE) /\ ~user[u].away
        /\ header[user[u].nick][i].who = w /\ header[user[u].nick][i].flags)
         => told'[w][user[u].nick] = "away"]_watchVars
============================================================================
