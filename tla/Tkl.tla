--------------------------------- MODULE Tkl ---------------------------------
(***************************************************************************)
(* Network-wide bans (G-lines, global Z-lines, shuns): m_tkl.c, and the    *)
(* places in ircd.c, m_nick.c and m_server.c that check and synchronise    *)
(* them.                                                                   *)
(*                                                                         *)
(* Every server has its own list.  TKL messages go along the tree of       *)
(* links, entries that differ are merged, and a new link carries the whole *)
(* list both ways.  A new entry asks for a check of all local clients;     *)
(* servers without clients in the model have nothing to check.             *)
(***************************************************************************)
EXTENDS Integers, Sequences, SequencesExt, FiniteSets, FiniteSetsExt

CONSTANTS Ircd,       \* servers
          Pair,       \* the pairs {a, b} of servers that may be linked: a tree
          Key,        \* type and user@host of an entry
          Shun,       \* the keys that are shuns; the others are G- or Z-lines
          By,         \* By[s]: who sets entries at s and why, as strcmp orders it
          Duration,   \* how long an entry lasts, 0 for ever
          Client, ServerOf, \* the clients, and the server of each
          Hits,       \* Hits[u]: the keys that match u
          Glob,       \* Glob[u]: those that match() finds too: no CIDR masks
          MaxTime, MaxAdds, MaxRemovals, MaxSplits

TklAssumption ==
  /\ Pair \subseteq kSubset(2, Ircd)
  /\ IsFiniteSet(Key) /\ Shun \subseteq Key /\ By \in [Ircd -> Nat] /\ Duration \subseteq Nat
  /\ ServerOf \in [Client -> Ircd]
  /\ \A u \in Client : Glob[u] \subseteq Hits[u] /\ Hits[u] \subseteq Key

VARIABLES clock,
          tklines,      \* tklines[s][k], an entry or None
          do_bancheck,  \* the servers where check_pings is to look at every client
          serv,         \* serv[a]: the servers that a counts as linked to it
          wire,         \* wire[a][b]: what a has sent to b and b has not read
          user,         \* user[u]: "off", "on" or "shunned"
          temp,         \* history: the users on whom TEMPSHUN was used
          clash,        \* history: keys added and removed at once
          lapsed,       \* history: keys that have expired somewhere
          work          \* how many additions, removals and splits there were
tklVars == <<clock, tklines, do_bancheck, serv, wire, user, temp, clash, lapsed, work>>

None == [set_at |-> -1, expire_at |-> -1, by |-> -1]
Times == 0..MaxTime + Max(Duration)
Entry == [set_at : Times, expire_at : Times, by : Nat]
Message == [type : {"server"}] \cup [type : {"+"}, key : Key, entry : Entry]
                               \cup [type : {"-"}, key : Key]

TklTypeOK ==
  /\ clock \in 0..MaxTime
  /\ tklines \in [Ircd -> [Key -> Entry \cup {None}]]
  /\ do_bancheck \subseteq Ircd
  /\ serv \in [Ircd -> SUBSET Ircd]
  /\ wire \in [Ircd -> [Ircd -> Seq(Message)]]
  /\ user \in [Client -> {"off", "on", "shunned"}] /\ temp \subseteq Client
  /\ clash \subseteq Key /\ lapsed \subseteq Key

TklInit ==
  /\ clock = 1
  /\ tklines = [s \in Ircd |-> [k \in Key |-> None]]
  /\ do_bancheck = {}
  /\ serv = [a \in Ircd |-> {b \in Ircd : {a, b} \in Pair}]
  /\ wire = [a \in Ircd |-> [b \in Ircd |-> <<>>]]
  /\ user = [u \in Client |-> "off"] /\ temp = {}
  /\ clash = {} /\ lapsed = {}
  /\ work = [adds |-> 0, removals |-> 0, splits |-> 0]

Busy == {ServerOf[u] : u \in Client}   \* where there are clients to check
Present(list) == {k \in Key : list[k] # None}

----------------------------------------------------------------------------
(* tkl_check_expire: run every 5 seconds, and first by every TKL.          *)
Expired(list) == {k \in Present(list) : list[k].expire_at \in 1..clock}
Without(list, keys) == [k \in Key |-> IF k \in keys THEN None ELSE list[k]]

(* Wrong: no look at the other shuns that match the user.                  *)
Unshun_Blind(s, gone, list) ==
  {u \in Client : ServerOf[u] = s /\ user[u] = "shunned" /\ gone \cap Shun \cap Glob[u] # {}}
(* tkl_check_local_remove_shun, with match() on both masks.                *)
Unshun(s, gone, list) ==
  {u \in Client : /\ ServerOf[u] = s /\ user[u] = "shunned"
                  /\ gone \cap Shun \cap Glob[u] # {}
                  /\ Present(list) \cap Shun \cap Glob[u] = {}}

(* Ircd s is left with this list, the keys in gone having left it.       *)
SetList(s, list, gone) ==
  LET free == Unshun(s, gone, list)
  IN /\ tklines' = [tklines EXCEPT ![s] = list]
     /\ user' = [u \in Client |-> IF u \in free THEN "on" ELSE user[u]]
     /\ temp' = temp \ free

Expire(s) ==
  /\ Expired(tklines[s]) # {}
  /\ SetList(s, Without(tklines[s], Expired(tklines[s])), Expired(tklines[s]))
  /\ lapsed' = lapsed \cup Expired(tklines[s])
  /\ UNCHANGED <<clock, do_bancheck, serv, wire, clash, work>>

----------------------------------------------------------------------------
(* m_tkl, "+": an entry that exists is merged and goes on only if it       *)
(* differed; a new one goes on as it came, and clients are checked.        *)
Longest(x, y) == IF x = 0 \/ y = 0 THEN 0 ELSE Max({x, y})
Merge(old, new) ==
  [set_at |-> Min({old.set_at, new.set_at}),
   expire_at |-> Longest(old.expire_at, new.expire_at),
   by |-> Max({old.by, new.by})]

(* sendto_serv_butone, on top of what is on the wire in w.                 *)
SendOn(w, s, from, m) ==
  [w EXCEPT ![s] = [b \in Ircd |-> IF b \in serv[s] \ {from} THEN Append(w[s][b], m) ELSE w[s][b]]]

Addition(s, from, k, e, w) ==
  LET list == Without(tklines[s], Expired(tklines[s]))
      had == k \in Present(list)
      now == IF had THEN Merge(list[k], e) ELSE e
  IN /\ SetList(s, [list EXCEPT ![k] = now], Expired(tklines[s]))
     /\ do_bancheck' = IF had THEN do_bancheck ELSE do_bancheck \cup ({s} \cap Busy)
     /\ wire' = IF had /\ list[k] = e THEN w
                ELSE SendOn(w, s, from, [type |-> "+", key |-> k, entry |-> now])
     /\ lapsed' = lapsed \cup Expired(tklines[s])

(* m_tkl, "-": what is not in the list is not passed on.                   *)
Removal(s, from, k, w) ==
  LET list == Without(tklines[s], Expired(tklines[s]))
      had == k \in Present(list)
  IN /\ SetList(s, Without(list, {k}),
                Expired(tklines[s]) \cup (IF had THEN {k} ELSE {}))
     /\ wire' = IF had THEN SendOn(w, s, from, [type |-> "-", key |-> k]) ELSE w
     /\ lapsed' = lapsed \cup Expired(tklines[s])
     /\ UNCHANGED do_bancheck

(* What is under way: messages about k, or the start of a burst.           *)
UnderWay(types, k) ==
  \E a, b \in Ircd : \E i \in DOMAIN wire[a][b] :
     /\ wire[a][b][i].type \in types
     /\ wire[a][b][i].type # "server" => wire[a][b][i].key = k

(* GLINE, GZLINE, SHUN by an operator of server s.                         *)
AddBan(s, k, d) ==
  LET e == [set_at |-> clock, expire_at |-> IF d = 0 THEN 0 ELSE clock + d, by |-> By[s]]
  IN /\ work.adds < MaxAdds
     /\ work' = [work EXCEPT !.adds = @ + 1]
     /\ Addition(s, s, k, e, wire)
     /\ clash' = IF UnderWay({"-"}, k) THEN clash \cup {k} ELSE clash
     /\ UNCHANGED <<clock, serv>>
RemoveBan(s, k) ==
  /\ work.removals < MaxRemovals /\ k \in Present(tklines[s])
  /\ work' = [work EXCEPT !.removals = @ + 1]
  /\ Removal(s, s, k, wire)
  /\ clash' = IF \/ UnderWay({"+", "server"}, k)
                 \/ \E l \in Pair : \E a, b \in l : a # b /\ b \notin serv[a]
              THEN clash \cup {k} ELSE clash
  /\ UNCHANGED <<clock, serv>>

----------------------------------------------------------------------------
(* m_server_synch: tkl_synch sends all entries.                            *)
tkl_synch(a) ==
  LET keys == SetToSeq(Present(tklines[a]))
  IN [i \in DOMAIN keys |-> [type |-> "+", key |-> keys[i], entry |-> tklines[a][keys[i]]]]
Clashes(a) == {k \in Present(tklines[a]) : UnderWay({"-"}, k)}

LinkUp(a, b) ==
  /\ {a, b} \in Pair /\ b \notin serv[a] /\ a \notin serv[b]
  /\ wire[a][b] = <<>> /\ wire[b][a] = <<>>
  /\ serv' = [serv EXCEPT ![a] = @ \cup {b}]
  /\ wire' = [wire EXCEPT ![a][b] = <<[type |-> "server"]>> \o tkl_synch(a)]
  /\ clash' = clash \cup Clashes(a)
  /\ UNCHANGED <<clock, tklines, do_bancheck, user, temp, lapsed, work>>

LinkDown(a, b) ==
  /\ {a, b} \in Pair /\ b \in serv[a] /\ work.splits < MaxSplits
  /\ work' = [work EXCEPT !.splits = @ + 1]
  /\ serv' = [serv EXCEPT ![a] = @ \ {b}, ![b] = @ \ {a}]
  /\ wire' = [wire EXCEPT ![a][b] = <<>>, ![b][a] = <<>>]
  /\ clash' = clash \cup {k \in Key : UnderWay({"-"}, k)}
  /\ UNCHANGED <<clock, tklines, do_bancheck, user, temp, lapsed>>

ReadTkl(a, b) ==
  LET m == Head(wire[a][b])
      rest == [wire EXCEPT ![a][b] = Tail(@)]
  IN /\ wire[a][b] # <<>>
     /\ \/ /\ m.type = "server"
           /\ serv' = [serv EXCEPT ![b] = @ \cup {a}]
           /\ wire' = [rest EXCEPT ![b][a] = @ \o tkl_synch(b)]
           /\ clash' = clash \cup Clashes(b)
           /\ UNCHANGED <<tklines, do_bancheck, user, temp, lapsed>>
        \/ m.type = "+" /\ Addition(b, a, m.key, m.entry, rest) /\ UNCHANGED <<serv, clash>>
        \/ m.type = "-" /\ Removal(b, a, m.key, rest) /\ UNCHANGED <<serv, clash>>
     /\ UNCHANGED <<clock, work>>

----------------------------------------------------------------------------
(* find_tkline_match and find_shun, for a client and a list.               *)
Banned(u, list) == (Hits[u] \ Shun) \cap Present(list) # {}
Shunned(u, list) == Hits[u] \cap Shun \cap Present(list) # {}
Checked(u, list) ==
  IF Banned(u, list) THEN "off" ELSE IF Shunned(u, list) THEN "shunned" ELSE user[u]

(* register_user removes what has expired before it looks.                 *)
Register(u) ==
  LET s == ServerOf[u]
      gone == Expired(tklines[s])
      list == Without(tklines[s], gone)
      free == Unshun(s, gone, list)
  IN /\ user[u] = "off" /\ ~Banned(u, list)
     /\ tklines' = [tklines EXCEPT ![s] = list]
     /\ user' = [v \in Client |-> IF v = u THEN IF Shunned(u, list) THEN "shunned" ELSE "on"
                                ELSE IF v \in free THEN "on" ELSE user[v]]
     /\ temp' = temp \ free
     /\ lapsed' = lapsed \cup gone
     /\ UNCHANGED <<clock, do_bancheck, serv, wire, clash, work>>

Quit(u) ==
  /\ user[u] # "off"
  /\ user' = [user EXCEPT ![u] = "off"] /\ temp' = temp \ {u}
  /\ UNCHANGED <<clock, tklines, do_bancheck, serv, wire, clash, lapsed, work>>

(* check_pings, as soon as do_bancheck is set.                             *)
CheckPings(s) ==
  /\ s \in do_bancheck
  /\ do_bancheck' = do_bancheck \ {s}
  /\ user' = [u \in Client |-> IF ServerOf[u] = s /\ user[u] # "off"
                             THEN Checked(u, tklines[s]) ELSE user[u]]
  /\ temp' = {u \in temp : user'[u] # "off"}
  /\ UNCHANGED <<clock, tklines, serv, wire, clash, lapsed, work>>

(* m_tempshun sets or clears the same flag by hand.                        *)
TempShun(u) ==
  /\ user[u] # "off" /\ work.removals < MaxRemovals
  /\ work' = [work EXCEPT !.removals = @ + 1]
  /\ user' = [user EXCEPT ![u] = IF @ = "on" THEN "shunned" ELSE "on"]
  /\ temp' = temp \cup {u}
  /\ UNCHANGED <<clock, tklines, do_bancheck, serv, wire, clash, lapsed>>

TklTick ==
  /\ clock < MaxTime /\ clock' = clock + 1
  /\ UNCHANGED <<tklines, do_bancheck, serv, wire, user, temp, clash, lapsed, work>>

TklNext ==
  \/ TklTick
  \/ \E s \in Ircd :
       \/ Expire(s) \/ CheckPings(s)
       \/ \E k \in Key : RemoveBan(s, k) \/ \E d \in Duration : AddBan(s, k, d)
  \/ \E a, b \in Ircd : LinkUp(a, b) \/ LinkDown(a, b) \/ ReadTkl(a, b)
  \/ \E u \in Client : Register(u) \/ Quit(u) \/ TempShun(u)

TklSpec == TklInit /\ [][TklNext]_tklVars

----------------------------------------------------------------------------
AtRest == \A a, b \in Ircd : /\ wire[a][b] = <<>>
                             /\ {a, b} \in Pair => b \in serv[a]
Valid(s, k) == tklines[s][k] # None /\ tklines[s][k].expire_at \notin 1..clock

(* When no message is under way and no link is down, all servers ban the   *)
(* same until the same time, and agree on who set an entry and when,       *)
(* however their messages crossed and links were lost.  Additions that     *)
(* cross removals have no order, and what has expired at one server is     *)
(* added anew where it is merged at another.                               *)
TklAgreeAtRest ==
  AtRest => \A s, t \in Ircd : \A k \in Key \ clash :
    /\ Valid(s, k) <=> Valid(t, k)
    /\ (Valid(s, k) /\ k \notin lapsed) => tklines[s][k] = tklines[t][k]

(* When an entry goes, the clients that it silenced can speak again:       *)
(* nobody stays shunned without a shun.                                    *)
NoStaleShun ==
  \A u \in Client \ temp : user[u] = "shunned" => Shunned(u, tklines[ServerOf[u]])

(* A client that a ban in force matches is checked at once or gone, and a  *)
(* shun in force silences it, whether the entry or the client came first.  *)
BansBite ==
  /\ \A u \in Client \ temp : (user[u] # "off" /\ ServerOf[u] \notin do_bancheck) =>
       \A k \in Hits[u] : Valid(ServerOf[u], k) => k \in Shun /\ user[u] = "shunned"
  /\ NoStaleShun
=============================================================================
