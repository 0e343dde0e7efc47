----------------------------- MODULE ServerLink -----------------------------
(***************************************************************************)
(* How ircds link (m_server.c, m_protoctl.c, m_eos.c, m_squit.c, s_serv.c, *)
(* the ends of a connection in s_bsd.c, ircd.c and s_misc.c).  Servers     *)
(* connect whenever they like, also twice between the same two or around a *)
(* circle, and the network must stay a tree: EAUTH and the list of pending *)
(* nets find most circles before the burst, the test in m_server_remote    *)
(* the rest, and firsttime decides which connection goes.                  *)
(*                                                                         *)
(* node[s] is what one server knows: srv, its list of servers in the order *)
(* they came, end[c], its end of connection c, pend, the pendingnet list,  *)
(* and out[c], the bytes it has written to c.  c = <<a, b>> is the one     *)
(* connection a has opened to b.  A name stands for the numeric too.       *)
(* Whatever the configuration may object to is the choice ok of a message: *)
(* link block, host, password, bans, class, version, hub, leaf, deny link. *)
(***************************************************************************)
EXTENDS Lists, FiniteSets, SequencesExt

CONSTANTS Server,
          Link,         \* <<a, b>>: a has a link block with autoconnect for b
          MaxConnects,  \* bounds on connections, and on the rest: links that
          MaxTroubles,  \* break, refusals by configuration, seconds that pass
          Nil

ASSUME ServerLinkAssumption ==
  /\ \A c \in Link : c \in Server \X Server /\ c[1] # c[2]
  /\ MaxConnects \in Nat /\ MaxTroubles \in Nat
  /\ Nil \notin Server \cup Link

VARIABLES node, now, connects, troubles,
          squit,   \* history: an oper has squitted a server elsewhere,
          crossed  \* and that met other changes on the way
history == <<squit, crossed>>
vars == <<node, now, connects, troubles, history>>

At(s) == {c \in Link : s \in {c[1], c[2]}}
Peer(s, c) == IF c[1] = s THEN c[2] ELSE c[1]

----------------------------------------------------------------------------
(* Looking up and sending.                                                 *)

NoEnd == [st |-> "none", first |-> 0, sent |-> FALSE]
IsServer(n, c) == n.end[c].st = "server"
Unlinked(n, c) == n.end[c].st \in {"unknown", "handshake"}

Names(n) == {z.name : z \in Range(n.srv)}
From(n, me, x) == IF x = me THEN Nil ELSE (CHOOSE z \in Range(n.srv) : z.name = x).via

Send(n, c, ms) == IF n.end[c].st = "none" THEN n ELSE [n EXCEPT !.out[c] = @ \o ms]
SendButOne(n, cptr, m) ==
  [n EXCEPT !.out = [c \in DOMAIN @ |->
      IF c # cptr /\ IsServer(n, c) THEN Append(@[c], m) ELSE @[c]]]

Protoctl(me, n, star) == [cmd |-> "PROTOCTL", name |-> me, servers |-> Names(n) \cup {me}, star |-> star]
Hello(me) == [cmd |-> "HELLO", name |-> me]
ServerMsg(up, x) == [cmd |-> "SERVER", from |-> up, name |-> x]
Eos(x) == [cmd |-> "EOS", from |-> x, name |-> x]
SquitMsg(x) == [cmd |-> "SQUIT", name |-> x]

----------------------------------------------------------------------------
(* Exits.                                                                  *)

FreePendingNet(pend, c) == {e \in pend : e.conn # c}

(* x and what is down-stream of it; a list shows parents first.            *)
Below(n, x) ==
  LET f[i \in 0..Len(n.srv)] ==
        IF i = 0 THEN {x}
        ELSE LET above == f[i-1]
             IN  IF n.srv[i].up \in above THEN above \cup {n.srv[i].name} ELSE above
  IN  f[Len(n.srv)]

ExitServer(n, cptr, x) ==
  LET gone == Below(n, x)
      left == {z \in Range(n.srv) : z.name \notin gone}
  IN  SendButOne([n EXCEPT !.srv = Keep(@, left)], cptr, SquitMsg(x))

(* exit_client of a connection: what was written may or may not arrive.    *)
ExitLink(n, me, cptr, c) ==
  LET closed == [n EXCEPT !.end[c] = NoEnd, !.pend = FreePendingNet(@, c)]
  IN  IF IsServer(n, c) THEN ExitServer(closed, cptr, Peer(me, c)) ELSE closed
Exit(n, me, c) == ExitLink(n, me, c, c)

----------------------------------------------------------------------------
(* The handshake.                                                          *)

(* x is here already: the younger of the two connections goes.             *)
Cancelled(n, me, c, x) ==
  LET d == From(n, me, x)
  IN  IF d = Nil \/ n.end[c].first > n.end[d].first THEN c ELSE d

Exists(n, me, x) == x \in Names(n) \cup {me}
VerifyLink(n, me, c, x, ok) ==
  IF ~ok THEN Exit(n, me, c)
  ELSE IF Exists(n, me, x) THEN Exit(n, me, Cancelled(n, me, c, x)) ELSE n
Verified(n, me, x, ok) == ok /\ ~Exists(n, me, x)

SendServerMessage(n, me, c) == [Send(n, c, <<Hello(me)>>) EXCEPT !.end[c].sent = TRUE]
MaySend(n, c) == n.end[c].st = "handshake" /\ ~n.end[c].sent

(* __PANGPANG__ is answered: the other side has sent no PROTOCTL.          *)
Read451(n, me, c) == IF MaySend(n, c) THEN SendServerMessage(n, me, c) ELSE n

(* A server of the list is known already, or about to come over another    *)
(* connection.                                                             *)
PendingClash(n, me, c, xs) ==
  \/ xs \cap (Names(n) \cup {me}) # {}
  \/ \E e \in n.pend : e.conn # c /\ e.servers \cap xs # {}

(* PROTOCTL EAUTH=name SERVERS=list.  An incoming one is followed by       *)
(* __PANGPANG__, whose answer 451 makes the other side say SERVER if no    *)
(* PROTOCTL came back.                                                     *)
ReadProtoctl(n, me, c, m, ok) ==
  LET auth == [n EXCEPT !.pend = @ \cup {[conn |-> c, servers |-> m.servers]}]
      reply == IF m.star THEN auth ELSE Send(auth, c, <<Protoctl(me, n, TRUE)>>)
      kept == VerifyLink(n, me, c, m.name, ok)
  IN  IF ~Verified(n, me, m.name, ok)
      THEN IF m.star THEN kept ELSE Send(kept, c, <<[cmd |-> "451"]>>)
      ELSE IF PendingClash(n, me, c, m.servers) THEN Exit(auth, me, c)
      ELSE IF MaySend(reply, c) THEN SendServerMessage(reply, me, c) ELSE reply

Burst(n, c) ==
  FlattenSeq([i \in 1..Len(n.srv) |->
    LET z == n.srv[i]
    IN  IF z.via = c THEN <<>>
        ELSE <<ServerMsg(z.up, z.name)>> \o IF z.synced THEN <<Eos(z.name)>> ELSE <<>>])

(* m_server_synch.                                                         *)
Synch(n, me, c, x) ==
  LET hello == IF n.end[c].st = "unknown" THEN Send(n, c, <<Hello(me)>>) ELSE n
      told == SendButOne(hello, c, ServerMsg(me, x))
      new == [name |-> x, via |-> c, up |-> me, synced |-> FALSE]
  IN  Send([told EXCEPT !.end[c].st = "server", !.pend = FreePendingNet(@, c),
                        !.srv = Append(@, new)],
           c, Burst(n, c) \o <<Eos(me)>>)

(* SERVER on a connection that is not a link yet.                          *)
ReadHello(n, me, c, x, ok) ==
  IF Verified(n, me, x, ok) THEN Synch(n, me, c, x) ELSE VerifyLink(n, me, c, x, ok)

----------------------------------------------------------------------------
(* Messages on a link.                                                     *)

(* Mutant: a server that is known already is taken for the same.           *)
ServerRemote_Ignores(n, me, c, m, ok) ==
  IF Exists(n, me, m.name) THEN n
  ELSE SendButOne([n EXCEPT !.srv = Append(@, [name |-> m.name, via |-> c, up |-> m.from,
                                               synced |-> FALSE])], c, m)

ServerRemote(n, me, c, m, ok) ==
  LET new == [name |-> m.name, via |-> c, up |-> m.from, synced |-> FALSE]
  IN  IF Exists(n, me, m.name) THEN Exit(n, me, Cancelled(n, me, c, m.name))
      ELSE IF ~ok THEN Exit(n, me, c)
      ELSE SendButOne([n EXCEPT !.srv = Append(@, new)], c, m)

ReadEos(n, c, x) ==
  SendButOne([n EXCEPT !.srv = [i \in DOMAIN @ |->
                IF @[i].name = x THEN [@[i] EXCEPT !.synced = TRUE] ELSE @[i]]], c, Eos(x))

Squit(n, me, c, x) ==
  IF x = me THEN Exit(n, me, c)
  ELSE IF x \notin Names(n) THEN n
  ELSE IF Peer(me, From(n, me, x)) = x THEN ExitLink(n, me, c, From(n, me, x))
  ELSE ExitServer(n, c, x)

(* parse: a prefix counts only on a link, and only from that direction; on *)
(* another connection SERVER is read as the peer's own.                    *)
Parse(n, me, c, m, ok) ==
  CASE m.cmd = "PROTOCTL" -> IF Unlinked(n, c) THEN ReadProtoctl(n, me, c, m, ok) ELSE n
    [] m.cmd = "451" -> Read451(n, me, c)
    [] m.cmd = "HELLO" -> ReadHello(n, me, c, m.name, ok)
    [] m.cmd \in {"SERVER", "EOS"} /\ IsServer(n, c) ->
         IF m.from \notin Names(n) \cup {me} THEN Send(n, c, <<SquitMsg(m.from)>>)
         ELSE IF From(n, me, m.from) # c THEN n
         ELSE IF m.cmd = "EOS" THEN ReadEos(n, c, m.name) ELSE ServerRemote(n, me, c, m, ok)
    [] m.cmd = "SERVER" /\ Unlinked(n, c) -> VerifyLink(n, me, c, m.name, FALSE)
    [] m.cmd = "SQUIT" /\ IsServer(n, c) -> Squit(n, me, c, m.name)
    [] OTHER -> n

----------------------------------------------------------------------------
Init ==
  /\ node = [s \in Server |-> [srv |-> <<>>, pend |-> {}, end |-> [c \in At(s) |-> NoEnd],
                               out |-> [c \in At(s) |-> <<>>]]]
  /\ now = 1 /\ connects = 0 /\ troubles = 0 /\ squit = FALSE /\ crossed = FALSE

(* Nothing is read any more at an end that is closed.                      *)
Wire(nodes) ==
  [s \in Server |-> [nodes[s] EXCEPT !.out =
     [c \in DOMAIN @ |-> IF nodes[Peer(s, c)].end[c].st = "none" THEN <<>> ELSE @[c]]]]
Becomes(s, n) == node' = Wire([node EXCEPT ![s] = n])

(* All that was sent is read, and both ends of a connection are the same.  *)
Quiet ==
  \A s \in Server : \A c \in At(s) :
    /\ node[s].end[c].st \in {"none", "server"} /\ node[s].out[c] = <<>>
    /\ node[s].end[c].st = node[Peer(s, c)].end[c].st

Trouble == troubles < MaxTroubles /\ troubles' = troubles + 1
Changes == crossed' = (crossed \/ (squit /\ ~Quiet)) /\ UNCHANGED squit

(* try_connections, connect_server.                                        *)
MayConnect(c) == c[2] \notin Names(node[c[1]])

ConnectServer(c) ==
  LET s == c[1]
  IN  /\ connects < MaxConnects /\ connects' = connects + 1 /\ MayConnect(c)
      /\ \A t \in {s, c[2]} : node[t].end[c].st = "none"
      /\ node' = [node EXCEPT ![s].end[c] = [NoEnd EXCEPT !.st = "connecting", !.first = now]]
      /\ Changes /\ UNCHANGED <<now, troubles>>

(* add_connection at the one end, completed_connection at the other.       *)
CompletedConnection(c) ==
  LET s == c[1] t == c[2]
  IN  /\ node[s].end[c].st = "connecting" /\ node[t].end[c].st = "none"
      /\ node' = [node EXCEPT
           ![s].end[c].st = "handshake",
           ![s].out[c] = <<Protoctl(s, node[s], FALSE)>>,
           ![t].end[c] = [NoEnd EXCEPT !.st = "unknown", !.first = now]]
      /\ UNCHANGED <<now, connects, troubles, history>>

Receive(s, c) ==
  LET t == Peer(s, c) m == Head(node[t].out[c])
  IN  /\ node[s].end[c].st \notin {"none", "connecting"} /\ node[t].out[c] # <<>>
      /\ \E ok \in IF troubles < MaxTroubles /\ m.cmd \in {"PROTOCTL", "HELLO", "SERVER"}
                   THEN BOOLEAN ELSE {TRUE} :
           /\ troubles' = IF ok THEN troubles ELSE troubles + 1
           /\ node' = Wire([node EXCEPT ![t].out[c] = Tail(@), ![s] = Parse(node[s], s, c, m, ok)])
      /\ UNCHANGED <<now, connects, history>>

(* The other end is closed, with or without what it had sent been read.    *)
LoseClosed(s, c) ==
  /\ node[s].end[c].st \notin {"none", "connecting"} /\ node[Peer(s, c)].end[c].st = "none"
  /\ Becomes(s, Exit(node[s], s, c)) /\ UNCHANGED <<now, connects, troubles, history>>

(* Mutant: a connect(2) that is under way is not given up.                 *)
HandshakeTimeout_Accepted(s, c) ==
  /\ node[s].end[c].st \in {"unknown", "handshake"}
  /\ Becomes(s, Exit(node[s], s, c)) /\ UNCHANGED <<now, connects, troubles, history>>

(* check_pings gives up on what has not become a link.                     *)
HandshakeTimeout(s, c) ==
  /\ node[s].end[c].st \in {"connecting", "unknown", "handshake"}
  /\ Becomes(s, Exit(node[s], s, c)) /\ UNCHANGED <<now, connects, troubles, history>>

(* A link breaks, or an oper squits it.                                    *)
Break(s, c) ==
  /\ IsServer(node[s], c) /\ Trouble
  /\ Becomes(s, Exit(node[s], s, c)) /\ Changes /\ UNCHANGED <<now, connects>>

(* An oper of s squits a server elsewhere.                                 *)
OperSquit(s, x) ==
  /\ x \in Names(node[s]) /\ Peer(s, From(node[s], s, x)) # x
  /\ Trouble
  /\ squit' = TRUE /\ crossed' = (crossed \/ ~Quiet)
  /\ Becomes(s, ExitServer(node[s], Nil, x)) /\ UNCHANGED <<now, connects>>

Tick == Trouble /\ now' = now + 1 /\ UNCHANGED <<node, connects, history>>

Next ==
  \/ \E c \in Link : ConnectServer(c) \/ CompletedConnection(c)
  \/ \E s \in Server : \E c \in At(s) :
       Receive(s, c) \/ LoseClosed(s, c) \/ HandshakeTimeout(s, c) \/ Break(s, c)
  \/ \E s, x \in Server : OperSquit(s, x)
  \/ Tick

(* Every ircd goes on reading, and its check_pings goes on running.        *)
(* Of the steps of Next that leave the rest alone only these make a queue  *)
(* shorter; said like this, TLC need not carry out the handlers again to   *)
(* see whether a step is a Receive.                                        *)
Reads ==
  /\ UNCHANGED <<now, connects, troubles, history>>
  /\ \E s \in Server : \E c \in At(s) : LET t == Peer(s, c) IN
       /\ node[s].end[c].st \notin {"none", "connecting"} /\ node[t].out[c] # <<>>
       /\ \/ node' = [node EXCEPT ![t].out[c] = Tail(@)]
          \/ Len(node'[t].out[c]) < Len(node[t].out[c])
Works == Reads \/ \E s \in Server : \E c \in At(s) : LoseClosed(s, c) \/ HandshakeTimeout(s, c)

Spec == Init /\ [][Next]_vars /\ WF_vars(Works)
----------------------------------------------------------------------------
(* The servers that t reaches without c.                                   *)
Far(t, c) ==
  LET f[k \in 0..Cardinality(Server)] ==
        IF k = 0 THEN {t}
        ELSE LET near == f[k-1]
             IN  near \cup {Peer(p[1], p[2]) : p \in
                   {q \in near \X (Link \ {c}) : q[2] \in At(q[1]) /\ IsServer(node[q[1]], q[2])}}
  IN  f[Cardinality(Server)]

Tree ==
  \A s \in Server : \A c \in At(s) :
    IsServer(node[s], c) =>
      LET far == Far(Peer(s, c), c)
      IN  s \notin far /\ {z.name : z \in {y \in Range(node[s].srv) : y.via = c}} = far

(* When all is read, the links form a tree, and every server knows exactly *)
(* the servers behind each of its links (m_server, m_server_remote,        *)
(* m_squit), however many connections were opened at once.  A SQUIT for a  *)
(* server elsewhere must not cross other changes: see TreeAfterSquit.      *)
TreeAtRest == Quiet /\ ~crossed => Tree

(* And every server has heard the end of the burst of every other, whether *)
(* it came before or after the link, which is what the comment on the race *)
(* of two servers linking at once in m_server_synch is about.              *)
SyncedAtRest == Quiet /\ ~crossed => \A s \in Server : \A z \in Range(node[s].srv) : z.synced

(* At rest the links are a tree, and all of it is synchronised.            *)
LinkedAtRest == TreeAtRest /\ SyncedAtRest

(* The same without that condition.  The comment in m_squit says the       *)
(* server with the target as local link sends SQUIT to all directions,     *)
(* also to the link from which the original SQUIT came.  exit_one_client   *)
(* leaves out cptr, so that when the target has gone and come back in      *)
(* between, the one that asked takes the new link for up.                  *)
TreeAfterSquit == Quiet => Tree

(* pendingnet holds connections that are still in their handshake, never a *)
(* freed struct or a link (free_pending_net); and no server is on the list *)
(* twice, where find_server would hide the one that is gone.               *)
PendingLive ==
  \A s \in Server :
    /\ \A e \in node[s].pend : Unlinked(node[s], e.conn)
    /\ \A i, j \in DOMAIN node[s].srv : node[s].srv[i].name = node[s].srv[j].name => i = j

(* Both of these: the tree of links and what is kept about it.             *)
LinksSound == LinkedAtRest /\ PendingLive

(* Cancelled links and their SQUITs die out.                               *)
LinksSettle == <>[]Quiet
=============================================================================
