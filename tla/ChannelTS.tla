----------------------------- MODULE ChannelTS -----------------------------
(***************************************************************************)
(* One channel on a network of ircds: m_sjoin.c, m_mode.c, m_join.c,       *)
(* m_part.c, m_kick.c, m_squit.c and the burst of m_server.c.  After a     *)
(* split both sides send what they hold in SJOINs; the channel's creation  *)
(* time decides whose modes and statuses count, equal times merge, and a   *)
(* MODE that crossed a SJOIN is bounced.                                   *)
(*                                                                         *)
(* A channel is its time, its members and the set of everything set on it: *)
(* <<"flag", f>>, <<"ban", b>>, <<"key", k>> and <<"op", user>>.  Key      *)
(* numbers stand for the order strcmp gives the keys; the limit, +L and +f *)
(* are settled by a maximum in the same way.  Users keep their nicks       *)
(* (collisions are NickNet's) and the links form a tree.                   *)
(***************************************************************************)
EXTENDS Integers, Sequences, FiniteSets, SequencesExt

CONSTANTS Server, Edge,   \* the servers, and the pairs {a, b} that may link
          User, Home,     \* Home[u]: the server of u
          Time,           \* the values of TStime() when a channel is created
          Sets, Takes,    \* what channel operators set, and what they take away
          Kicks,          \* whether operators kick
          ModesOnJoin,    \* set::modes-on-join
          MaxOps,         \* bound on changes, kicks and parts
          MaxSplits       \* bound on links that break by themselves

ASSUME ChannelTSAssumption ==
  /\ \A e \in Edge : e \subseteq Server /\ Cardinality(e) = 2
  /\ Home \in [User -> Server] /\ Time \subseteq Nat \ {0}

VARIABLES chan,  \* chan[s]: the channel at s
          end,   \* end[s][t]: "down", "await" (t's answer) or "up"
          out,   \* out[s][t]: the bytes on their way to t
          ops, splits,
          granted, \* history: <<ts, u>> when u is made operator of the channel of time ts
          forgot,  \* history: see Overtaken
          clash    \* history: see Clashes
vars == <<chan, end, out, ops, splits, granted, forgot, clash>>

Neighbour(s) == {t \in Server : {s, t} \in Edge}

(* The servers that s reaches through t.                                   *)
Behind(s, t) ==
  LET f[k \in 0..Cardinality(Server)] ==
        IF k = 0 THEN {t} ELSE f[k-1] \cup {x \in Server \ {s} : \E y \in f[k-1] : {x, y} \in Edge}
  IN  f[Cardinality(Server)]

----------------------------------------------------------------------------
(* What is set on a channel.                                               *)

NoChannel == [ts |-> 0, in |-> {}, on |-> {}]
OfKind(S, k) == {x \in S : x[1] = k}

(* do_mode_char and set_mode, for one who may, kind by kind: +s takes away  *)
(* +p and the reverse; a status is for members only; a key replaces the    *)
(* key there was, and -k removes it whatever key it names.                 *)
Excludes(f) == IF f = "s" THEN {"p"} ELSE IF f = "p" THEN {"s"} ELSE {}
SetFlags(c, add, del) ==
  LET over == {<<"flag", g>> : g \in UNION {Excludes(x[2]) : x \in OfKind(add, "flag")}}
  IN  (OfKind(c.on, "flag") \ (over \cup del)) \cup OfKind(add, "flag")

SetStatus(c, add, del) ==
  (OfKind(c.on, "op") \ del) \cup {x \in OfKind(add, "op") : x[2] \in c.in}

SetKey(c, add, del) ==
  IF OfKind(add, "key") # {} THEN OfKind(add, "key")
  ELSE IF OfKind(del, "key") # {} THEN {} ELSE OfKind(c.on, "key")

SetBans(c, add, del) == (OfKind(c.on, "ban") \ del) \cup OfKind(add, "ban")

SetMode(c, add, del) ==
  SetFlags(c, add, del) \cup SetStatus(c, add, del)
    \cup SetKey(c, add, del) \cup SetBans(c, add, del)

(* The string make_mode_str gives bounce_mode: flags and statuses that     *)
(* would have changed, bans and a new key in any case.                     *)
Undone(c, m) ==
  LET new == SetMode(c, m.add, m.del)
      blind == OfKind(m.add, "ban") \cup OfKind(m.add, "key")
  IN  [add |-> (c.on \ new) \cup OfKind(m.del, "ban"),
       del |-> {x \in new \ c.on : x[1] \in {"flag", "op"}} \cup blind]

(* Equal times: all that either side has; +s beats +p, the greater key.    *)
BeatenFlags(S) == {x \in S : x = <<"flag", "p">> /\ <<"flag", "s">> \in S}
LesserKeys(S) == {x \in OfKind(S, "key") : \E y \in OfKind(S, "key") : y[2] > x[2]}
(* Mutant: our key gives way to any of theirs.                             *)
Merged_TheirKey(ours, theirs) ==
  LET S == ours \cup theirs
      given == IF OfKind(theirs, "key") = {} THEN {} ELSE OfKind(ours, "key") \ theirs
  IN  S \ (BeatenFlags(S) \cup given)

Merged(ours, theirs) ==
  LET S == ours \cup theirs IN S \ (BeatenFlags(S) \cup LesserKeys(S))

----------------------------------------------------------------------------
(* Sending.  A node is [ch, end, out] of one server.                       *)

SendOne(n, t, m) ==
  [n EXCEPT !.out[t] = IF n.end[t] = "down" THEN @ ELSE Append(@, m)]
SendButOne(n, cptr, m) ==
  [n EXCEPT !.out = [t \in DOMAIN @ |->
      IF t \notin cptr /\ n.end[t] = "up" THEN Append(@[t], m) ELSE @[t]]]

NoTs == -1
ModeMsg(from, add, del, ts, bounce) ==
  [cmd |-> "MODE", from |-> from, add |-> add, del |-> del, ts |-> ts, bounce |-> bounce]
SJoinMsg(ts, modes, in, listed) ==
  [cmd |-> "SJOIN", ts |-> ts, modes |-> modes, in |-> in, listed |-> listed]
ByMe == "server"

(* send_channel_modes_sjoin3, with a line for the members and one for the  *)
(* bans: each has the modes.                                               *)
BurstOf(c) ==
  LET modes == OfKind(c.on, "flag") \cup OfKind(c.on, "key")
      bans == OfKind(c.on, "ban")
      members == SJoinMsg(c.ts, modes, c.in, OfKind(c.on, "op"))
  IN  IF c.in = {} THEN <<>>
      ELSE IF bans = {} THEN <<members>>
      ELSE <<members, SJoinMsg(c.ts, modes, {}, bans)>>

----------------------------------------------------------------------------
(* m_sjoin.                                                                *)

RemoveOurs(c, m) == c.ts > m.ts
RemoveTheirs(c, m) == c.ts # 0 /\ c.ts < m.ts

(* What is left of ours: an older channel is all that counts.              *)
Kept(c, m) == IF RemoveOurs(c, m) THEN {} ELSE c.on

(* Statuses, for those who were no members yet, and bans.                  *)
Listed(c, m) ==
  IF RemoveTheirs(c, m) THEN {}
  ELSE {x \in m.listed : x[1] = "op" => x[2] \notin c.in}

ModesAfter(c, m) ==
  IF RemoveTheirs(c, m) THEN Kept(c, m)
  ELSE IF c.ts = m.ts THEN Merged(Kept(c, m), m.modes)
  ELSE SetMode([c EXCEPT !.on = Kept(c, m)], m.modes, {})

SJoin(n, s, m) ==
  LET c == n.ch
      new == [ts |-> IF c.ts = 0 \/ RemoveOurs(c, m) THEN m.ts ELSE c.ts,
              in |-> c.in \cup m.in, on |-> ModesAfter(c, m) \cup Listed(c, m)]
  IN  IF new.in = {} THEN n ELSE SendButOne([n EXCEPT !.ch = new], {s}, m)

----------------------------------------------------------------------------
(* m_mode.                                                                 *)

(* do_mode: relayed is what really changed.                                *)
DoMode(n, cptr, m) ==
  LET c == n.ch
      new == SetMode(c, m.add, m.del)
      tschange == m.ts > 0 /\ m.ts < c.ts
      n1 == [n EXCEPT !.ch.on = new, !.ch.ts = IF tschange THEN m.ts ELSE @]
      bouncets == ModeMsg(ByMe, {}, {}, n1.ch.ts, m.bounce)
  IN  IF new # c.on
      THEN SendButOne(n1, cptr, ModeMsg(m.from, new \ c.on, c.on \ new, m.ts, m.bounce))
      ELSE IF tschange \/ m.bounce THEN SendButOne(n1, cptr, bouncets)
      ELSE n1

Bounce(n, s, m) ==
  LET u == Undone(n.ch, m)
  IN  SendOne(n, s, ModeMsg(ByMe, u.add, u.del, n.ch.ts, TRUE))

(* Mutant: only an operator of the channel may change modes, no server.    *)
Mode_OperatorsOnly(n, s, m) ==
  IF n.ch.in = {} THEN n
  ELSE IF <<"op", m.from>> \notin n.ch.on THEN Bounce(n, s, m) ELSE DoMode(n, {s}, m)

Mode(n, s, m) ==
  LET deop == ModeMsg(ByMe, {}, {<<"op", m.from>>}, 0, FALSE)
  IN  IF n.ch.in = {} THEN n
      ELSE IF m.from # ByMe /\ <<"op", m.from>> \notin n.ch.on
      THEN Bounce(SendOne(n, s, deop), s, m)
      ELSE IF m.from = ByMe /\ m.ts > n.ch.ts
      THEN IF m.bounce THEN n ELSE Bounce(n, s, m)
      ELSE DoMode(n, {s}, m)

----------------------------------------------------------------------------
(* Members who go; a channel without members is freed.                     *)

RemoveUsers(c, gone) ==
  IF c.in \subseteq gone THEN NoChannel
  ELSE [c EXCEPT !.in = @ \ gone, !.on = @ \ {<<"op", u>> : u \in gone}]

(* m_part and m_kick: nothing is passed on about one who is no member.     *)
Leave(n, cptr, u, m) ==
  IF u \notin n.ch.in THEN n
  ELSE SendButOne([n EXCEPT !.ch = RemoveUsers(@, {u})], cptr, m)

(* exit_client of a server, with all users behind it.                      *)
Squit(n, cptr, lost) ==
  SendButOne([n EXCEPT !.ch = RemoveUsers(@, {u \in User : Home[u] \in lost})],
             cptr, [cmd |-> "SQUIT", lost |-> lost])

Handle(n, me, s, m) ==
  CASE m.cmd = "SERVER" ->
         IF n.end[s] = "await" THEN [n EXCEPT !.end[s] = "up", !.out[s] = BurstOf(n.ch)] ELSE n
    [] m.cmd = "SJOIN" -> SJoin(n, s, m)
    [] m.cmd = "MODE" -> Mode(n, s, m)
    [] m.cmd \in {"PART", "KICK"} -> Leave(n, {s}, m.who, m)
    [] m.cmd = "SQUIT" -> Squit(n, {s}, m.lost)

----------------------------------------------------------------------------
Init ==
  /\ chan = [s \in Server |-> NoChannel]
  /\ end = [s \in Server |-> [t \in Neighbour(s) |-> "down"]]
  /\ out = [s \in Server |-> [t \in Neighbour(s) |-> <<>>]]
  /\ ops = 0 /\ splits = 0 /\ granted = {} /\ forgot = FALSE /\ clash = FALSE

NodeOf(s) == [ch |-> chan[s], end |-> end[s], out |-> out[s]]

(* Two messages cross when each is on its way to a server that the other   *)
(* has passed or started from: they are not read in one order everywhere.  *)
Queue == {p \in Server \X Server : {p[1], p[2]} \in Edge}
Crossing ==
  {pq \in Queue \X Queue :
     LET ahead(p) == Behind(p[1], p[2])
     IN  ~(ahead(pq[1]) \subseteq ahead(pq[2])) /\ ~(ahead(pq[2]) \subseteq ahead(pq[1]))}
UnderWay(sent) == UNION {{<<p, m>> : m \in Range(sent[p[1]][p[2]])} : p \in Queue}

(* History: a KICK, or an operator's change of modes other than a flag     *)
(* that displaces none, crosses a burst, a join, a change of modes or a    *)
(* KICK: one server carries out one of the two first, another the other.   *)
Additive(m) == m.del = {} /\ m.add \subseteq {<<"flag", "i">>, <<"flag", "s">>}
Ordered(m) == m.cmd = "KICK" \/ (m.cmd = "MODE" /\ m.from # ByMe /\ ~Additive(m))
OfChannel(m) == m.cmd \in {"SJOIN", "MODE", "KICK"}
Clashes(all) ==
  \E x \in all : Ordered(x[2]) /\ \E y \in all : <<x[1], y[1]>> \in Crossing /\ OfChannel(y[2])

(* History: those who leave, crossed by a SJOIN or MODE, are all that some *)
(* server has in the channel, so that it and its time may be gone on one   *)
(* server only; or a KICK crosses a new join of its victim.                *)
Goes(m) == m.cmd \in {"PART", "KICK", "SQUIT"}
Leavers(m) == IF m.cmd = "SQUIT" THEN {u \in User : Home[u] \in m.lost} ELSE {m.who}
Rejoins(m, v) == m.cmd = "KICK" /\ v.cmd = "SJOIN" /\ m.who \in v.in
Overtaken(all, held) ==
  LET going == {x \in all : Goes(x[2])}
      leaving == UNION {Leavers(x[2]) : x \in going}
  IN  \E x \in going, y \in all :
        /\ <<x[1], y[1]>> \in Crossing
        /\ \/ y[2].cmd \in {"SJOIN", "MODE"} /\ \E s \in Server : held[s].in \subseteq leaving
           \/ Rejoins(x[2], y[2])

Remember(sent, held) ==
  LET all == UnderWay(sent)
  IN  /\ forgot' = (forgot \/ Overtaken(all, held))
      /\ clash' = (clash \/ Clashes(all))

(* s becomes n; what is written to a connection closed by its peer is lost. *)
Becomes(s, n, sent) ==
  LET held == [chan EXCEPT ![s] = n.ch]
      ends == [end EXCEPT ![s] = n.end]
      kept == [x \in Server |-> [t \in Neighbour(x) |->
                 IF ends[t][x] = "down" THEN <<>> ELSE IF x = s THEN n.out[t] ELSE sent[x][t]]]
  IN  chan' = held /\ end' = ends /\ out' = kept /\ Remember(kept, held)

Receive(s, t) ==
  /\ end[s][t] # "down" /\ out[t][s] # <<>>
  /\ Becomes(s, Handle(NodeOf(s), s, t, Head(out[t][s])), [out EXCEPT ![t][s] = Tail(@)])
  /\ UNCHANGED <<ops, splits, granted>>

(* t connects to s, which answers the SERVER of t with its own and a burst. *)
Connect(s, t) ==
  /\ end[s][t] = "down" /\ end[t][s] = "down"
  /\ end' = [end EXCEPT ![s][t] = "up", ![t][s] = "await"]
  /\ out' = [out EXCEPT ![s][t] = <<[cmd |-> "SERVER"]>> \o BurstOf(chan[s])]
  /\ UNCHANGED <<chan, ops, splits, granted>>
  /\ Remember(out', chan)

Break(s, t) ==
  LET down == [NodeOf(s) EXCEPT !.end[t] = "down", !.out[t] = <<>>]
  IN  Becomes(s, IF end[s][t] = "await" THEN down ELSE Squit(down, {t}, Behind(s, t)), out)

LoseClosed(s, t) ==
  /\ end[s][t] # "down" /\ end[t][s] = "down"
  /\ Break(s, t) /\ UNCHANGED <<ops, splits, granted>>
Lose(s, t) ==
  /\ end[s][t] = "up" /\ splits < MaxSplits /\ splits' = splits + 1
  /\ Break(s, t) /\ UNCHANGED <<ops, granted>>

----------------------------------------------------------------------------
(* What users do, at their own server.                                     *)

Quiet == \A s \in Server : \A t \in Neighbour(s) : end[s][t] = "up" /\ out[s][t] = <<>>

(* join_channel: whoever creates the channel becomes its operator.         *)
Join(u, ts) ==
  LET s == Home[u]  c == chan[s]  op == {<<"op", u>>}
      new == IF c.in = {} THEN [ts |-> ts, in |-> {u}, on |-> op \cup ModesOnJoin]
             ELSE [c EXCEPT !.in = @ \cup {u}]
      told == SendButOne([NodeOf(s) EXCEPT !.ch = new], {},
                         SJoinMsg(new.ts, {}, {u}, IF c.in = {} THEN op ELSE {}))
      modes == ModeMsg(ByMe, ModesOnJoin, {}, new.ts, FALSE)
  IN  /\ u \notin c.in
      /\ c.in # {} => ts = c.ts
      /\ Becomes(s, IF c.in = {} /\ ModesOnJoin # {} THEN SendButOne(told, {}, modes) ELSE told, out)
      /\ granted' = IF c.in = {} THEN granted \cup {<<ts, u>>} ELSE granted
      /\ UNCHANGED <<ops, splits>>

Operate == ops < MaxOps /\ ops' = ops + 1

Part(u) ==
  /\ Operate /\ u \in chan[Home[u]].in
  /\ Becomes(Home[u], Leave(NodeOf(Home[u]), {}, u, [cmd |-> "PART", who |-> u]), out)
  /\ UNCHANGED <<splits, granted>>

Kick(u, v) ==
  LET n == NodeOf(Home[u]) m == [cmd |-> "KICK", who |-> v]
  IN  /\ Kicks /\ Operate /\ <<"op", u>> \in n.ch.on /\ v \in n.ch.in
      /\ Becomes(Home[u], Leave(n, {}, v, m), out)
      /\ UNCHANGED <<splits, granted>>

Change(u, add, del) ==
  LET n == NodeOf(Home[u])  m == ModeMsg(u, add, del, NoTs, FALSE)
      done == DoMode(n, {}, m)
  IN  /\ Operate /\ <<"op", u>> \in n.ch.on /\ done.ch # n.ch
      /\ Becomes(Home[u], done, out)
      /\ granted' = granted \cup {<<n.ch.ts, x[2]>> : x \in OfKind(done.ch.on, "op")}
      /\ UNCHANGED splits

Next ==
  \/ \E s \in Server : \E t \in Neighbour(s) :
       Receive(s, t) \/ Connect(s, t) \/ LoseClosed(s, t) \/ Lose(s, t)
  \/ \E u \in User :
       \/ \E ts \in Time : Join(u, ts)
       \/ Part(u)
       \/ \E v \in User : Kick(u, v)
       \/ \E x \in Sets : Change(u, {x}, {})
       \/ \E x \in Takes : Change(u, {}, {x})

(* Every ircd goes on reading what has arrived; which link first is open.  *)
(* Of the steps of Next that leave the rest alone only these make a queue  *)
(* shorter; said like this, TLC need not carry out the handlers again to   *)
(* see whether a step is a Receive.                                        *)
Reads ==
  /\ UNCHANGED <<ops, splits, granted>>
  /\ \E s \in Server : \E t \in Neighbour(s) :
       /\ end[s][t] # "down" /\ out[t][s] # <<>>
       /\ \/ out' = [out EXCEPT ![t][s] = Tail(@)] /\ UNCHANGED <<chan, end, forgot, clash>>
          \/ Len(out'[t][s]) < Len(out[t][s])
Delivers == Reads \/ \E s \in Server : \E t \in Neighbour(s) : LoseClosed(s, t)

Spec == Init /\ [][Next]_vars /\ WF_vars(Delivers)
----------------------------------------------------------------------------
(* After a split and a merge all servers end with the same members under   *)
(* the same creation time, and with the same modes, key, statuses and bans *)
(* (m_sjoin), whatever each side did to them while they were apart.        *)
(* Excepted are the crossings the protocol has no order for: of a KICK or  *)
(* a change of modes with another or with a burst or join (only the modes, *)
(* see Clashes), and of the leaving of all that some server has in the     *)
(* channel, or a KICK and its victim's new join (all, see Overtaken).      *)
ChannelsAgreeAtRest ==
  Quiet /\ ~forgot =>
    \A s, t \in Server : /\ chan[s].ts = chan[t].ts /\ chan[s].in = chan[t].in
                         /\ ~clash => chan[s].on = chan[t].on

(* Nobody gains status by a netsplit: who is operator of the channel of a  *)
(* creation time was made so in the channel of that time, by creating it   *)
(* or by one of its operators.  Excepted is what Overtaken names.          *)
NoRiding ==
  ~forgot => \A s \in Server : \A u \in User :
    <<"op", u>> \in chan[s].on => <<chan[s].ts, u>> \in granted

(* A netsplit costs a channel nothing that it does not have to cost, and   *)
(* gives nobody anything (m_sjoin, do_mode_char), but for the crossings    *)
(* named above.                                                            *)
ChannelsSound == ChannelsAgreeAtRest /\ NoRiding

(* Bans agree when nobody takes one away, as "For bounce, we don't really need to    *)
(* worry whether or not it exists on our server. We'll just always bounce  *)
(* it." in do_mode_char takes for granted.  They do not: the bounce of a   *)
(* ban that both sides have takes it away on one.                          *)
BanSetsAgree ==
  Quiet /\ ~forgot => \A s, t \in Server : OfKind(chan[s].on, "ban") = OfKind(chan[t].on, "ban")

(* Bounces and forced de-opping die out.                                   *)
AllRead == \A s \in Server : \A t \in Neighbour(s) : out[s][t] = <<>>
BouncesEnd == <>[]AllRead
=============================================================================
