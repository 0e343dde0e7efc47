------------------------------ MODULE NickNet ------------------------------
(***************************************************************************)
(* Nicknames on a network of ircds (m_nick.c, m_kill.c, m_quit.c,          *)
(* m_svsnick.c, m_squit.c, the burst of m_server.c, the prefix rules of    *)
(* parse.c and exit_client of s_misc.c).  Each server keeps a table of all *)
(* users of the network and passes changes on as messages that name a user *)
(* by nick.  Messages cross, so that a nick may be taken twice, a KILL may *)
(* look for a user who has changed nick, and a message may name somebody   *)
(* who is gone; timestamps decide who keeps the nick.                      *)
(*                                                                         *)
(* node[s] is all that one server knows, with out[t] the bytes on their    *)
(* way to a neighbour.  A handler is an operator from the node to the node.*)
(* A user record's id stands for the struct and for user@host, which the   *)
(* code compares through Host.  The links allowed form a tree; servers     *)
(* that meet twice are the matter of ServerLink.                           *)
(***************************************************************************)
EXTENDS Integers, Sequences, FiniteSets, SequencesExt

CONSTANTS Server, Edge,  \* the servers, and the pairs {a, b} that may link
          User, Home,    \* Home[u]: the server u connects to
          Host,          \* Host[u]: u's user@host
          Nick, Time,    \* nicks; values of TStime() and of services
          Does,          \* what users, opers and services may do
          MaxOps,        \* bound on all that but registering
          MaxSplits,     \* bound on connections that break by themselves
          Nil

ASSUME NickNetAssumption ==
  /\ \A e \in Edge : e \subseteq Server /\ Cardinality(e) = 2
  /\ Home \in [User -> Server] /\ Time \subseteq Nat
  /\ Nil \notin Server \cup User

VARIABLES node, ops, splits,
          asked,   \* history: every nick taken at home, [nick, ts, id]
          left,    \* history: the users that quit or that an oper or services removed
          crossed  \* history: a user left or changed nick with messages under way
history == <<asked, left, crossed>>
vars == <<node, ops, splits, history>>

Neighbour(s) == {t \in Server : {s, t} \in Edge}

----------------------------------------------------------------------------
(* Looking up and sending.                                                 *)

HoldersOf(n, nick) == {r \in n.tbl : r.nick = nick}
RecordOf(n, u) == {r \in n.tbl : r.id = u}
Known(n, x) == {z \in n.srv : z.name = x}
Up(n) == {t \in DOMAIN n.end : n.end[t] = "up"}

SendOne(n, t, m) == [n EXCEPT !.out[t] = IF n.end[t] = "down" THEN @ ELSE Append(@, m)]
SendButOne(n, cptr, m) ==
  [n EXCEPT !.out = [t \in DOMAIN @ |->
      IF t \in Up(n) \ {cptr} THEN Append(@[t], m) ELSE @[t]]]

NickMsg(r) == [cmd |-> "NICK", nick |-> r.nick, ts |-> r.ts, id |-> r.id]
KillMsg(from, nick) == [cmd |-> "KILL", from |-> from, nick |-> nick]
ChangeMsg(from, nick, ts, spelt) ==
  [cmd |-> "CHG", from |-> from, nick |-> nick, ts |-> ts, spelt |-> spelt]
ServerMsg(up, x) == [cmd |-> "SERVER", from |-> up, srv |-> x]
SquitMsg(x) == [cmd |-> "SQUIT", srv |-> x]

----------------------------------------------------------------------------
(* Exits.                                                                  *)

(* add_history(sptr, 1): the old nick leads to the user for a while.       *)
Remember(n, nick, u) == [n EXCEPT !.hist[nick] = u]

(* add_history(sptr, 0) and off_history for everybody in gone.             *)
Forget(n, gone) ==
  [n EXCEPT !.tbl = @ \ gone,
            !.hist = [k \in Nick |->
               IF \E r \in gone : r.reg /\ (r.nick = k \/ r.id = @[k]) THEN Nil ELSE @[k]]]

ExitUser(n, cptr, r, killed) ==
  LET told == IF r.reg /\ ~killed
              THEN SendButOne(n, cptr, [cmd |-> "QUIT", from |-> r.nick]) ELSE n
  IN  Forget(told, {r})

(* x and the servers down-stream of it.                                    *)
Below(n, x) ==
  LET f[k \in 0..Cardinality(n.srv)] ==
        IF k = 0 THEN {x} ELSE f[k-1] \cup {z.name : z \in {y \in n.srv : y.up \in f[k-1]}}
  IN  f[Cardinality(n.srv)]

(* Links are NOQUIT: the others hear of the split by one SQUIT.            *)
ExitServer(n, cptr, x) ==
  LET gone == Below(n, x)
      closed == IF x \in DOMAIN n.end THEN [n EXCEPT !.end[x] = "down", !.out[x] = <<>>] ELSE n
      rest == Forget(closed, {r \in n.tbl : Home[r.id] \in gone})
  IN  SendButOne([rest EXCEPT !.srv = {z \in @ : z.name \notin gone}], cptr, SquitMsg(x))

----------------------------------------------------------------------------
(* m_nick, for a user that a server introduces.                            *)

AcceptNick(n, s, m) ==
  LET r == [nick |-> m.nick, ts |-> m.ts, id |-> m.id, via |-> s, reg |-> TRUE]
  IN  SendButOne([n EXCEPT !.tbl = @ \cup {r}], s, NickMsg(r))

(* A local connection that has a nick and is not registered gives way.     *)
Override(n, me, nick) ==
  Forget(n, {r \in HoldersOf(n, nick) : r.via = me /\ ~r.reg})

(* Mutant: the younger user wins.                                          *)
TheyWin_Younger(differ, ours, theirs) == IF differ THEN ours < theirs ELSE ours > theirs

TheyWin(differ, ours, theirs) ==
  \/ differ /\ ours > theirs
  \/ ~differ /\ ours < theirs

NickNew(n, me, s, m) ==
  LET o == Override(n, me, m.nick)
      h == CHOOSE r \in HoldersOf(o, m.nick) : TRUE
      differ == Host[h.id] # Host[m.id]
  IN  IF \A z \in Known(n, Home[m.id]) : z.via # s THEN n
      ELSE IF HoldersOf(o, m.nick) = {} THEN AcceptNick(o, s, m)
      ELSE IF h.ts = m.ts
      THEN ExitUser(SendButOne(o, Nil, KillMsg(me, h.nick)), Nil, h, TRUE)
      ELSE IF TheyWin(differ, h.ts, m.ts) \/ h.via = s
      THEN AcceptNick(ExitUser(SendButOne(o, s, KillMsg(me, h.nick)), Nil, h, TRUE), s, m)
      ELSE SendOne(SendOne(o, s, KillMsg(me, m.nick)), s, NickMsg(h))

(* m_nick, for a user that changes nick on another server.                 *)
Rename(n, s, r, m) ==
  LET ts == IF m.nick # r.nick \/ m.ts < r.ts THEN m.ts ELSE r.ts
      new == [r EXCEPT !.nick = m.nick, !.ts = ts]
  IN  SendButOne([Remember(n, r.nick, r.id) EXCEPT !.tbl = (@ \ {r}) \cup {new}],
                 s, ChangeMsg(r.nick, m.nick, ts, m.spelt))

NickChange(n, me, s, r, m) ==
  LET o == Override(n, me, m.nick)
      h == CHOOSE x \in HoldersOf(o, m.nick) : TRUE
      differ == Host[h.id] # Host[r.id]
      kill(k, cptr, x) == SendButOne(k, cptr, KillMsg(me, x.nick))
      exit(k, x) == ExitUser(k, Nil, x, TRUE)
  IN  IF HoldersOf(o, m.nick) = {} THEN Rename(o, s, r, m)
      ELSE IF h = r THEN IF m.spelt THEN n ELSE Rename(o, s, r, m)
      ELSE IF h.ts = m.ts
      THEN exit(exit(kill(kill(o, Nil, h), s, r), r), h)
      ELSE IF TheyWin(differ, h.ts, m.ts)
      THEN Rename(exit(kill(o, s, h), h), s, r, m)
      ELSE SendOne(SendOne(exit(kill(o, s, r), r), s, KillMsg(me, m.nick)), s, NickMsg(h))

----------------------------------------------------------------------------
(* m_kill, and get_history when the nick is free.                          *)

Target(n, nick, chase) ==
  IF HoldersOf(n, nick) # {} THEN HoldersOf(n, nick)
  ELSE IF chase THEN RecordOf(n, n.hist[nick]) ELSE {}

Kill(n, me, s, m, chase) ==
  LET t == {r \in Target(n, m.nick, chase) : r.reg}
      r == CHOOSE x \in t : TRUE
      passed == SendButOne(n, s, KillMsg(m.from, r.nick))
      back == IF HoldersOf(n, m.nick) = {} THEN SendOne(passed, s, KillMsg(me, r.nick)) ELSE passed
  IN  IF t = {} THEN n ELSE ExitUser(back, s, r, TRUE)

----------------------------------------------------------------------------
(* Links: m_server_synch, m_server_remote, m_squit.                        *)

Burst(n, t) ==
  LET others == {z \in n.srv : z.via # t}
      near == SetToSeq({ServerMsg(z.up, z.name) : z \in {y \in others : y.via = y.name}})
      far == SetToSeq({ServerMsg(z.up, z.name) : z \in {y \in others : y.via # y.name}})
  IN  near \o far \o SetToSeq({NickMsg(r) : r \in {x \in n.tbl : x.reg /\ x.via # t}})

Synch(n, me, t, hello) ==
  LET told == SendButOne(n, t, ServerMsg(me, t))
  IN  [told EXCEPT !.end[t] = "up", !.out[t] = hello \o Burst(n, t),
                   !.srv = @ \cup {[name |-> t, via |-> t, up |-> me]}]

ServerNew(n, s, m) ==
  SendButOne([n EXCEPT !.srv = @ \cup {[name |-> m.srv, via |-> s, up |-> m.from]}], s, m)

(* Mutant: a SQUIT is answered with a SQUIT, whether it meant anybody.     *)
Squit_Answers(n, me, s, m) ==
  SendOne(IF Known(n, m.srv) = {} THEN n ELSE ExitServer(n, s, m.srv), s, m)

Squit(n, me, s, m) ==
  LET x == IF m.srv = me THEN s ELSE m.srv
  IN  IF Known(n, x) = {} THEN n ELSE ExitServer(n, s, x)

----------------------------------------------------------------------------
(* parse: a message counts only if its sender is known, in that direction. *)

SenderDirections(n, me, m) ==
  IF m.from \in Server THEN {z.via : z \in Known(n, m.from)} \cup {x \in {me} : m.from = x}
  ELSE {r.via : r \in HoldersOf(n, m.from)}

RemoveUnknown(n, me, s, from) ==
  SendOne(n, s, IF from \in Server THEN SquitMsg(from) ELSE KillMsg(me, from))

Parse(n, me, s, m, chase) ==
  LET from == IF "from" \in DOMAIN m THEN SenderDirections(n, me, m) ELSE {s}
      sptr == CHOOSE r \in HoldersOf(n, m.from) : TRUE
  IN  IF n.end[s] = "await" THEN Synch(n, me, s, <<>>)
      ELSE IF from = {} THEN RemoveUnknown(n, me, s, m.from)
      ELSE IF s \notin from THEN n
      ELSE CASE m.cmd = "NICK" -> NickNew(n, me, s, m)
             [] m.cmd = "CHG" -> NickChange(n, me, s, sptr, m)
             [] m.cmd = "QUIT" -> ExitUser(n, s, sptr, FALSE)
             [] m.cmd = "KILL" -> Kill(n, me, s, m, chase)
             [] m.cmd = "SERVER" -> ServerNew(n, s, m)
             [] m.cmd = "SQUIT" -> Squit(n, me, s, m)

----------------------------------------------------------------------------
Init ==
  /\ node = [s \in Server |-> [tbl |-> {}, srv |-> {}, hist |-> [k \in Nick |-> Nil],
                               end |-> [t \in Neighbour(s) |-> "down"],
                               out |-> [t \in Neighbour(s) |-> <<>>]]]
  /\ ops = 0 /\ splits = 0 /\ asked = {} /\ left = {} /\ crossed = FALSE

(* What is written to a connection that the other side has closed is lost. *)
Wire(nodes) ==
  [s \in Server |-> [nodes[s] EXCEPT !.out =
      [t \in DOMAIN @ |-> IF nodes[t].end[s] = "down" THEN <<>> ELSE @[t]]]]

Becomes(s, n) == node' = Wire([node EXCEPT ![s] = n])

(* Messages under way that take a nick from somebody.                      *)
Removals == {m \in UNION {Range(node[e[1]].out[e[2]]) :
                          e \in {p \in Server \X Server : {p[1], p[2]} \in Edge}} :
               m.cmd \in {"KILL", "QUIT", "CHG"}}
KillUnderWay(nick) == \E m \in Removals : m.cmd = "KILL" /\ m.nick = nick

Receive(s, t) ==
  /\ node[s].end[t] # "down" /\ node[t].out[s] # <<>>
  /\ \E chase \in IF Head(node[t].out[s]).cmd = "KILL" THEN BOOLEAN ELSE {FALSE} :
       LET popped == [node EXCEPT ![t].out[s] = Tail(@)]
       IN  node' = Wire([popped EXCEPT ![s] = Parse(node[s], s, t, Head(node[t].out[s]), chase)])
  /\ UNCHANGED <<ops, splits, history>>

(* t connects to s: s answers the SERVER of t with its own and its burst.  *)
Connect(s, t) ==
  /\ node[s].end[t] = "down" /\ node[t].end[s] = "down"
  /\ node' = [node EXCEPT ![t].end[s] = "await",
                          ![s] = Synch(node[s], s, t, <<ServerMsg(s, s)>>)]
  /\ crossed' = (crossed \/ Removals # {})
  /\ UNCHANGED <<ops, splits, asked, left>>

Break(s, t) ==
  LET n == node[s]
  IN  Becomes(s, IF n.end[t] = "await" THEN [n EXCEPT !.end[t] = "down", !.out[t] = <<>>]
                 ELSE ExitServer(n, t, t))

(* s finds the connection to t dead: t has closed it, or it breaks.        *)
LoseClosed(s, t) ==
  /\ node[s].end[t] # "down" /\ node[t].end[s] = "down"
  /\ Break(s, t) /\ UNCHANGED <<ops, splits, history>>
Lose(s, t) ==
  /\ node[s].end[t] = "up" /\ splits < MaxSplits /\ splits' = splits + 1
  /\ Break(s, t) /\ UNCHANGED <<ops, history>>

----------------------------------------------------------------------------
(* What users, opers and services do at the user's server.                 *)

(* Every link is up and everything sent has been read.                    *)
Quiet == \A s \in Server : \A t \in Neighbour(s) :
           node[s].end[t] = "up" /\ node[s].out[t] = <<>>

Operate(what) ==
  /\ what \in Does
  /\ IF what = "register" THEN UNCHANGED ops ELSE ops < MaxOps /\ ops' = ops + 1
  /\ crossed' = (crossed \/ (what # "register" /\ ~Quiet))
  /\ UNCHANGED splits

Asks(u, nick, ts) == asked' = asked \cup {[nick |-> nick, ts |-> ts, id |-> u]}

Free(n, me, nick) == HoldersOf(Override(n, me, nick), nick) = {}

(* A new connection says NICK; it is not known elsewhere before USER.      *)
NickFirst(u, nick, ts) ==
  LET me == Home[u] n == node[me]
  IN  /\ Operate("register") /\ RecordOf(n, u) = {} /\ \A a \in asked : a.id # u /\ Free(n, me, nick)
      /\ Becomes(me, [Override(n, me, nick) EXCEPT !.tbl = @ \cup
           {[nick |-> nick, ts |-> ts, id |-> u, via |-> me, reg |-> FALSE]}])
        /\ UNCHANGED <<asked, left>>

RegisterUser(u) ==
  \E r \in RecordOf(node[Home[u]], u) :
    LET n == node[Home[u]] new == [r EXCEPT !.reg = TRUE]
    IN  /\ ~r.reg /\ UNCHANGED <<ops, splits, left>>
        /\ crossed' = (crossed \/ KillUnderWay(r.nick))
        /\ Asks(u, r.nick, r.ts)
        /\ Becomes(Home[u], SendButOne([n EXCEPT !.tbl = (@ \ {r}) \cup {new}], Nil, NickMsg(new)))

NickLocal(u, nick, ts) ==
  \E r \in RecordOf(node[Home[u]], u) :
    LET me == Home[u] n == node[me]
    IN  /\ Operate("change") /\ r.reg /\ UNCHANGED left
        /\ Asks(u, nick, IF nick = r.nick THEN r.ts ELSE ts)
        /\ \/ nick # r.nick /\ Free(n, me, nick)
              /\ Becomes(me, Rename(Override(n, me, nick), Nil, r, ChangeMsg(r.nick, nick, ts, FALSE)))
           \/ nick = r.nick
              /\ Becomes(me, Rename(n, Nil, r, ChangeMsg(r.nick, nick, r.ts, FALSE)))

SvsNick(u, nick, ts, spelt) ==
  \E r \in RecordOf(node[Home[u]], u) :
    LET me == Home[u] n == node[me] new == [r EXCEPT !.nick = nick, !.ts = ts]
    IN  /\ Operate("svsnick") /\ r.reg /\ (spelt => nick = r.nick)
        /\ \/ /\ HoldersOf(n, nick) \subseteq {r}
              /\ Becomes(me, SendButOne(
                   [Remember(n, r.nick, u) EXCEPT !.tbl = (@ \ {r}) \cup {new}],
                   Nil, ChangeMsg(r.nick, nick, ts, spelt)))
              /\ Asks(u, nick, ts) /\ UNCHANGED left
           \/ /\ ~(HoldersOf(n, nick) \subseteq {r})
              /\ Becomes(me, ExitUser(n, Nil, r, FALSE))
              /\ left' = left \cup {u} /\ UNCHANGED asked

QuitLocal(u) ==
  \E r \in RecordOf(node[Home[u]], u) :
    /\ Operate("quit") /\ Becomes(Home[u], ExitUser(node[Home[u]], Nil, r, FALSE))
    /\ left' = left \cup {u} /\ UNCHANGED asked

(* An oper on the server of u kills; one's own users go without a KILL.    *)
OperKill(u, nick, chase) ==
  \E r \in RecordOf(node[Home[u]], u) : \E v \in Target(node[Home[u]], nick, chase) :
    LET me == Home[u] n == node[me]
    IN  /\ Operate("kill") /\ r.reg /\ v.reg
        /\ left' = left \cup {v.id} /\ UNCHANGED asked
        /\ Becomes(me, IF v.via = me THEN ExitUser(n, Nil, v, FALSE)
                       ELSE ExitUser(SendButOne(n, Nil, KillMsg(r.nick, v.nick)), Nil, v, TRUE))

Next ==
  \/ \E s \in Server : \E t \in Neighbour(s) :
       Receive(s, t) \/ Connect(s, t) \/ LoseClosed(s, t) \/ Lose(s, t)
  \/ \E u \in User :
       \/ RegisterUser(u) \/ QuitLocal(u)
       \/ \E nick \in Nick : \E ts \in Time :
            NickFirst(u, nick, ts) \/ NickLocal(u, nick, ts)
            \/ \E spelt \in BOOLEAN : SvsNick(u, nick, ts, spelt)
       \/ \E nick \in Nick, chase \in BOOLEAN : OperKill(u, nick, chase)

(* Every ircd goes on reading what has arrived; which link first is open.  *)
(* Of the steps of Next that leave the rest alone only these make a queue  *)
(* shorter; said like this, TLC need not carry out the handlers again to   *)
(* see whether a step is a Receive.                                        *)
Reads ==
  /\ UNCHANGED <<ops, splits, history>>
  /\ \E s \in Server : \E t \in Neighbour(s) :
       /\ node[s].end[t] # "down" /\ node[t].out[s] # <<>>
       /\ \/ node' = [node EXCEPT ![t].out[s] = Tail(@)]
          \/ Len(node'[t].out[s]) < Len(node[t].out[s])
Delivers == Reads \/ \E s \in Server : \E t \in Neighbour(s) : LoseClosed(s, t)
Fairness == WF_vars(Delivers)

Spec == Init /\ [][Next]_vars /\ Fairness
----------------------------------------------------------------------------
Registered(s) == {r \in node[s].tbl : r.reg}
SameTables ==
  \A s, t \in Server :
    {<<r.nick, r.id>> : r \in Registered(s)} = {<<r.nick, r.id>> : r \in Registered(t)}

(* When everything sent has been read, all servers hold the same users     *)
(* under the same nicks: collisions of registrations, of nick changes and  *)
(* of a burst with what happened behind the split are settled alike on     *)
(* every server (m_nick), and SQUIT takes away what the burst brings back. *)
(* Whoever leaves or changes nick must do so with nothing under way, and a *)
(* nick must not come in while it is being removed: see TablesAgree.       *)
TablesAgreeAtRest == Quiet /\ ~crossed => SameTables

(* The same without that condition, which is what the comment in m_nick    *)
(* that "the old code just sat there and hoped the other server would kill *)
(* their user. Not anymore." promises.  It does not hold: the server that  *)
(* gives up its own user tells all but cptr, trusting that cptr finds the  *)
(* same collision, and cptr does not if its user has left meanwhile.       *)
TablesAgree == Quiet => SameTables

(* b is why a may have lost its nick: the older user keeps it, and of two  *)
(* with the same user@host, one who has reconnected, the younger.          *)
Beats(b, a) ==
  /\ b.nick = a.nick /\ b.id # a.id
  /\ b.ts = a.ts \/ IF Host[a.id] = Host[b.id] THEN b.ts > a.ts ELSE b.ts < a.ts

(* Nobody is killed for nothing: a user that is gone at rest, without a    *)
(* QUIT, an oper's KILL or services' doing, once had a nick to which       *)
(* another user had the better claim, or one as good.                      *)
RightfulKeeps ==
  Quiet /\ ~crossed =>
    \A u \in {c.id : c \in asked} \ left :
      \/ \E r \in Registered(Home[u]) : r.id = u
      \/ \E a, b \in asked : a.id = u /\ Beats(b, a)

(* Whatever crosses, no server holds a nick, a user or a server twice: the *)
(* one that find_client would hide could never be removed.                 *)
NickOnce ==
  \A s \in Server :
    /\ \A r, q \in node[s].tbl : r.nick = q.nick \/ r.id = q.id => r = q
    /\ \A y, z \in node[s].srv : y.name = z.name => y = z

(* At rest everybody holds the same users, each of them once, and none of  *)
(* those who had the better claim to a nick has lost it (m_nick, m_kill).  *)
NicksSound == TablesAgreeAtRest /\ NickOnce /\ RightfulKeeps

(* Collisions are not answered for ever: KILLs for unknown senders, KILLs  *)
(* that chase a nick and users introduced again die out.                   *)
Settles == <>[](\A s \in Server : \A t \in Neighbour(s) : node[s].out[t] = <<>>)
=============================================================================
