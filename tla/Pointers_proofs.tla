-------------------------- MODULE Pointers_proofs --------------------------
(***************************************************************************)
(* Four lists of records that point to something which may go first, for   *)
(* any instance.  ServerLink: pendingnet, whose records point to           *)
(* connections.  ChanFlood: removefld_list, whose timers point to channels *)
(* and to the +f of them.  Whowas: WHOWAS, whose entries point to users.   *)
(* DccAllow: the lists of users, whose links point to other users.         *)
(*                                                                         *)
(* pendingnet: what a server does to one connection, Exit and Squit        *)
(* included, keeps Local, which says of one server alone that its records  *)
(* are of connections that are no servers yet; every action is one of      *)
(* these functions.  removefld_list: FInv says what may be without a flag, *)
(* a timer that was left behind (stray), and TInv adds that a mode which a *)
(* flood set (auto) has its timer.  WHOWAS: WhowasInv says which slot of   *)
(* the ring is in which place of the chain of all nicks, so that the slot  *)
(* which is used again is the last one; that the entries get older along   *)
(* the chain; and in which place the one is for who left a nick last.      *)
(* dccallow: DccInv has every link once, with one back.                    *)
(***************************************************************************)
EXTENDS ServerLink, ChanFlood, UserLists, Lists_proofs

(* What holds of the server n of name me whatever it is sent.              *)
Shaped(n, me) ==
  /\ DOMAIN n = {"srv", "pend", "end", "out"}
  /\ DOMAIN n.end = At(me) /\ \A c \in At(me) : DOMAIN n.end[c] = {"st", "first", "sent"}
Listed(q, me) ==
  /\ q \in Seq(Range(q))
  /\ \A z \in Range(q) : z.via \in At(me) /\ DOMAIN z = {"name", "via", "up", "synced"}
Once(q) == \A i, j \in DOMAIN q : q[i].name = q[j].name => i = j
Pending(n, me) == \A e \in n.pend : e.conn \in At(me) /\ Unlinked(n, e.conn)
Local(n, me) == Shaped(n, me) /\ Listed(n.srv, me) /\ Once(n.srv) /\ Pending(n, me)

Alike(n, k) == DOMAIN k = DOMAIN n /\ k.srv = n.srv /\ k.pend = n.pend /\ k.end = n.end

LEMMA AlikeLocal ==
  ASSUME NEW n, NEW k, NEW me, Local(n, me), Alike(n, k)
  PROVE  Local(k, me)
BY DEF Local, Alike, Shaped, Pending, Unlinked

LEMMA SendAlike ==
  ASSUME NEW n, NEW me, Local(n, me), NEW c, NEW ms
  PROVE  Alike(n, Send(n, c, ms)) /\ Local(Send(n, c, ms), me)
<1>1. Alike(n, Send(n, c, ms))
  BY DEF Local, Shaped, Alike, Send
<1> QED
  BY <1>1, AlikeLocal

LEMMA SendButOneAlike ==
  ASSUME NEW n, NEW me, Local(n, me), NEW c, NEW m
  PROVE  Alike(n, SendButOne(n, c, m)) /\ Local(SendButOne(n, c, m), me)
<1>1. Alike(n, SendButOne(n, c, m))
  BY DEF Local, Shaped, Alike, SendButOne
<1> QED
  BY <1>1, AlikeLocal

LEMMA KeepOnce ==
  ASSUME NEW q, NEW me, NEW A, Listed(q, me), Once(q)
  PROVE  Listed(Keep(q, A), me) /\ Once(Keep(q, A)) /\ Range(Keep(q, A)) \subseteq Range(q)
<1> DEFINE k == Keep(q, A)
<1>1. /\ k \in Seq(Range(q)) /\ Range(k) = Range(q) \cap A
  BY KeepMembers DEF Listed
<1>2. k \in Seq(Range(k))
  BY <1>1, LenProperties, ElementOfSeq, SeqDef DEF Range
<1>3. PICK p \in [DOMAIN k -> DOMAIN q] :
            /\ \A i, j \in DOMAIN k : p[i] = p[j] => i = j
            /\ \A i \in DOMAIN k : k[i] = q[p[i]]
  BY KeepPlaces DEF Listed
<1> HIDE DEF k
<1>4. Once(k)
  BY <1>3 DEF Once
<1>5. Listed(k, me)
  BY <1>1, <1>2 DEF Listed
<1> QED
  BY <1>1, <1>4, <1>5 DEF k

LEMMA ExitServerLocal ==
  ASSUME NEW n, NEW me, Local(n, me), NEW cptr, NEW x
  PROVE  Local(ExitServer(n, cptr, x), me)
<1> DEFINE A == {z \in Range(n.srv) : z.name \notin Below(n, x)}
           k == [n EXCEPT !.srv = Keep(@, A)]
<1>1. Listed(Keep(n.srv, A), me) /\ Once(Keep(n.srv, A))
  BY KeepOnce DEF Local
<1> HIDE DEF A
<1>2. k.srv = Keep(n.srv, A) /\ k.pend = n.pend /\ k.end = n.end /\ DOMAIN k = DOMAIN n
  BY DEF Local, Shaped
<1> HIDE DEF k
<1>3. Local(k, me)
  BY <1>1, <1>2 DEF Local, Shaped, Pending, Unlinked
<1>4. ExitServer(n, cptr, x) = SendButOne(k, cptr, SquitMsg(x))
  BY DEF ExitServer, k, A
<1> QED
  BY <1>3, <1>4, SendButOneAlike

LEMMA ExitLinkLocal ==
  ASSUME NEW n, NEW me, Local(n, me), NEW c \in At(me), NEW cptr
  PROVE  Local(ExitLink(n, me, cptr, c), me)
<1> DEFINE closed == [n EXCEPT !.end[c] = NoEnd, !.pend = FreePendingNet(@, c)]
<1>1. /\ closed.srv = n.srv /\ DOMAIN closed = DOMAIN n
      /\ closed.pend = {e \in n.pend : e.conn # c}
      /\ closed.end = [n.end EXCEPT ![c] = NoEnd]
  BY DEF Local, Shaped, FreePendingNet
<1> HIDE DEF closed
<1>2. Shaped(closed, me)
  BY <1>1 DEF Local, Shaped, NoEnd
<1>3. Pending(closed, me)
  BY <1>1 DEF Local, Shaped, Pending, Unlinked
<1>4. Local(closed, me)
  BY <1>1, <1>2, <1>3 DEF Local
<1> QED
  BY <1>4, ExitServerLocal DEF ExitLink, closed

LEMMA ExitLocal ==
  ASSUME NEW n, NEW me, Local(n, me), NEW c \in At(me)
  PROVE  Local(Exit(n, me, c), me)
BY ExitLinkLocal DEF Exit

LEMMA FromIsOurs ==
  ASSUME NEW n, NEW me, Local(n, me), NEW x \in Names(n), x # me
  PROVE  From(n, me, x) \in At(me)
<1>1. \E z \in Range(n.srv) : z.name = x
  BY DEF Names
<1> QED
  BY <1>1 DEF From, Local, Listed

LEMMA CancelledIsOurs ==
  ASSUME NEW n, NEW me, Local(n, me), NEW c \in At(me), NEW x, Exists(n, me, x)
  PROVE  Cancelled(n, me, c, x) \in At(me)
<1>1. CASE x = me
  BY <1>1 DEF Cancelled, From
<1>2. CASE x # me
  BY <1>2, FromIsOurs DEF Cancelled, Exists
<1> QED
  BY <1>1, <1>2

LEMMA VerifyLinkLocal ==
  ASSUME NEW n, NEW me, Local(n, me), NEW c \in At(me), NEW x, NEW ok
  PROVE  Local(VerifyLink(n, me, c, x, ok), me)
BY ExitLocal, CancelledIsOurs DEF VerifyLink

LEMMA SendServerMessageLocal ==
  ASSUME NEW n, NEW me, Local(n, me), NEW c \in At(me)
  PROVE  Local(SendServerMessage(n, me, c), me)
<1> DEFINE s == Send(n, c, <<Hello(me)>>)
           k == [s EXCEPT !.end[c].sent = TRUE]
<1>1. Local(s, me)
  BY SendAlike
<1> HIDE DEF s
<1>2. /\ k.srv = s.srv /\ k.pend = s.pend /\ DOMAIN k = DOMAIN s
      /\ DOMAIN k.end = At(me)
      /\ \A d \in At(me) : k.end[d].st = s.end[d].st /\ DOMAIN k.end[d] = {"st", "first", "sent"}
  BY <1>1 DEF Local, Shaped
<1> HIDE DEF k
<1>3. Local(k, me)
  BY <1>1, <1>2 DEF Local, Shaped, Pending, Unlinked
<1> QED
  BY <1>3 DEF SendServerMessage, s, k

LEMMA ReadProtoctlLocal ==
  ASSUME NEW n, NEW me, Local(n, me), NEW c \in At(me), Unlinked(n, c), NEW m, NEW ok
  PROVE  Local(ReadProtoctl(n, me, c, m, ok), me)
<1> DEFINE auth == [n EXCEPT !.pend = @ \cup {[conn |-> c, servers |-> m.servers]}]
           reply == IF m.star THEN auth ELSE Send(auth, c, <<Protoctl(me, n, TRUE)>>)
           kept == VerifyLink(n, me, c, m.name, ok)
<1>1. Local(auth, me)
  BY DEF Local, Shaped, Pending, Unlinked
<1> HIDE DEF auth
<1>2. Local(reply, me)
  BY <1>1, SendAlike
<1>3. Local(kept, me)
  BY VerifyLinkLocal
<1> HIDE DEF kept, reply
<1>4. Local(Send(kept, c, <<[cmd |-> "451"]>>), me)
  BY <1>3, SendAlike
<1>5. Local(Exit(auth, me, c), me) /\ Local(SendServerMessage(reply, me, c), me)
  BY <1>1, <1>2, ExitLocal, SendServerMessageLocal
<1> QED
  BY <1>1, <1>2, <1>3, <1>4, <1>5 DEF ReadProtoctl, auth, kept, reply

LEMMA AppendOnce ==
  ASSUME NEW q, NEW me, Listed(q, me), Once(q), NEW c \in At(me), NEW up, NEW x,
         x \notin {z.name : z \in Range(q)}
  PROVE  LET t == Append(q, [name |-> x, via |-> c, up |-> up, synced |-> FALSE])
         IN  Listed(t, me) /\ Once(t)
<1> DEFINE z == [name |-> x, via |-> c, up |-> up, synced |-> FALSE]
           S == Range(q) \cup {z}
           t == Append(q, z)
<1>0. q \in Seq(S)
  BY LenProperties, ElementOfSeq, SeqDef DEF Listed
<1>1. /\ t \in Seq(S) /\ Len(q) \in Nat /\ DOMAIN q = 1..Len(q) /\ DOMAIN t = 1..(Len(q) + 1)
      /\ t[Len(q) + 1] = z /\ \A n \in 1..Len(q) : t[n] = q[n]
  BY <1>0, AppendProperties, LenProperties
<1>2. Range(t) = S
  <2>1. z \in S
    OBVIOUS
  <2> HIDE DEF z, S
  <2>2. Range(t) = Range(q) \cup {z}
    BY <1>0, <2>1, RangeAppend
  <2> QED
    BY <2>2 DEF S
<1>3. Listed(t, me)
  <2>1. t \in Seq(Range(t))
    BY <1>1, <1>2
  <2>2. z.via \in At(me) /\ DOMAIN z = {"name", "via", "up", "synced"}
    OBVIOUS
  <2> HIDE DEF z, t
  <2>3. \A y \in Range(t) : y \in Range(q) \/ y = z
    BY <1>2
  <2> QED
    BY <2>1, <2>2, <2>3 DEF Listed
<1>4. \A i \in DOMAIN q : q[i].name # x
  BY DEF Range
<1> HIDE DEF t
<1>5. Once(t)
  BY <1>1, <1>4 DEF Once
<1> QED
  BY <1>3, <1>5 DEF t

LEMMA SynchLocal ==
  ASSUME NEW n, NEW me, Local(n, me), NEW c \in At(me), NEW x, x \notin Names(n)
  PROVE  Local(Synch(n, me, c, x), me)
<1> DEFINE hello == IF n.end[c].st = "unknown" THEN Send(n, c, <<Hello(me)>>) ELSE n
           told == SendButOne(hello, c, ServerMsg(me, x))
           new == [name |-> x, via |-> c, up |-> me, synced |-> FALSE]
           k == [told EXCEPT !.end[c].st = "server", !.pend = FreePendingNet(@, c),
                             !.srv = Append(@, new)]
           ms == Burst(n, c) \o <<Eos(me)>>
<1>1. Local(hello, me) /\ hello.srv = n.srv
  BY SendAlike DEF Alike
<1> HIDE DEF hello
<1>2. Local(told, me) /\ told.srv = n.srv
  BY <1>1, SendButOneAlike DEF Alike
<1> HIDE DEF told
<1>3. /\ k.srv = Append(told.srv, new) /\ DOMAIN k = DOMAIN told
      /\ k.pend = {e \in told.pend : e.conn # c} /\ DOMAIN k.end = At(me)
      /\ \A d \in At(me) : /\ d # c => k.end[d] = told.end[d]
                           /\ DOMAIN k.end[d] = {"st", "first", "sent"}
  BY <1>2 DEF Local, Shaped, FreePendingNet
<1>4. Listed(Append(told.srv, new), me) /\ Once(Append(told.srv, new))
  BY <1>2, AppendOnce DEF Local, Names
<1> HIDE DEF k, new
<1>5. Local(k, me)
  BY <1>2, <1>3, <1>4 DEF Local, Shaped, Pending, Unlinked
<1> HIDE DEF ms
<1>6. Local(Send(k, c, ms), me)
  BY <1>5, SendAlike
<1> QED
  BY <1>6 DEF Synch, hello, told, new, k, ms

LEMMA ReadHelloLocal ==
  ASSUME NEW n, NEW me, Local(n, me), NEW c \in At(me), NEW x, NEW ok
  PROVE  Local(ReadHello(n, me, c, x, ok), me)
BY SynchLocal, VerifyLinkLocal DEF ReadHello, Verified, Exists

LEMMA ServerRemoteLocal ==
  ASSUME NEW n, NEW me, Local(n, me), NEW c \in At(me), NEW m, NEW ok
  PROVE  Local(ServerRemote(n, me, c, m, ok), me)
<1> DEFINE new == [name |-> m.name, via |-> c, up |-> m.from, synced |-> FALSE]
           k == [n EXCEPT !.srv = Append(@, new)]
<1>1. CASE Exists(n, me, m.name)
  BY <1>1, ExitLocal, CancelledIsOurs DEF ServerRemote
<1>2. CASE ~Exists(n, me, m.name) /\ ~ok
  BY <1>2, ExitLocal DEF ServerRemote
<1>3. CASE ~Exists(n, me, m.name) /\ ok
  <2>1. /\ k.srv = Append(n.srv, new) /\ DOMAIN k = DOMAIN n /\ k.pend = n.pend /\ k.end = n.end
    BY DEF Local, Shaped
  <2>2. Listed(Append(n.srv, new), me) /\ Once(Append(n.srv, new))
    BY <1>3, AppendOnce DEF Local, Names, Exists
  <2> HIDE DEF k, new
  <2>3. Local(k, me)
    BY <2>1, <2>2 DEF Local, Shaped, Pending, Unlinked
  <2>4. ServerRemote(n, me, c, m, ok) = SendButOne(k, c, m)
    BY <1>3 DEF ServerRemote, k, new
  <2> QED
    BY <2>3, <2>4, SendButOneAlike
<1> QED
  BY <1>1, <1>2, <1>3

LEMMA ReadEosLocal ==
  ASSUME NEW n, NEW me, Local(n, me), NEW c, NEW x
  PROVE  Local(ReadEos(n, c, x), me)
<1> DEFINE q == n.srv
           t == [i \in DOMAIN q |-> IF q[i].name = x THEN [q[i] EXCEPT !.synced = TRUE] ELSE q[i]]
           k == [n EXCEPT !.srv = [i \in DOMAIN @ |->
                   IF @[i].name = x THEN [@[i] EXCEPT !.synced = TRUE] ELSE @[i]]]
<1>1. /\ k.srv = t /\ DOMAIN k = DOMAIN n /\ k.pend = n.pend /\ k.end = n.end
  BY DEF Local, Shaped
<1>2. Listed(q, me) /\ Once(q) /\ DOMAIN q = 1..Len(q) /\ Len(q) \in Nat
  BY LenProperties DEF Local, Listed
<1>3. \A i \in DOMAIN q : q[i] \in Range(q)
  BY DEF Range
<1> HIDE DEF q
<1>4. /\ DOMAIN t = DOMAIN q
      /\ \A i \in DOMAIN q : /\ t[i].name = q[i].name /\ t[i].via = q[i].via
                             /\ DOMAIN t[i] = {"name", "via", "up", "synced"}
  BY <1>2, <1>3 DEF Listed
<1>5. t \in Seq(Range(t))
  <2>1. t \in [1..Len(q) -> Range(t)]
    BY <1>2 DEF Range
  <2> QED
    BY <1>2, <2>1, SeqDef
<1> HIDE DEF t
<1>6. Listed(t, me) /\ Once(t)
  <2>1. \A z \in Range(t) : \E i \in DOMAIN q : z = t[i]
    BY <1>4 DEF Range
  <2>2. ASSUME NEW z \in Range(t)
        PROVE  z.via \in At(me) /\ DOMAIN z = {"name", "via", "up", "synced"}
    <3>1. PICK i \in DOMAIN q : z = t[i]
      BY <2>1
    <3> QED
      BY <1>2, <1>3, <1>4, <3>1 DEF Listed
  <2>3. Once(t)
    BY <1>2, <1>4 DEF Once
  <2> QED
    BY <1>5, <2>2, <2>3 DEF Listed
<1> HIDE DEF k
<1>7. Local(k, me)
  BY <1>1, <1>6 DEF Local, Shaped, Pending, Unlinked
<1> QED
  BY <1>7, SendButOneAlike DEF ReadEos, k

LEMMA SquitLocal ==
  ASSUME NEW n, NEW me, Local(n, me), NEW c \in At(me), NEW x
  PROVE  Local(Squit(n, me, c, x), me)
BY ExitLocal, FromIsOurs, ExitLinkLocal, ExitServerLocal DEF Squit

LEMMA Read451Local ==
  ASSUME NEW n, NEW me, Local(n, me), NEW c \in At(me)
  PROVE  Local(Read451(n, me, c), me)
BY SendServerMessageLocal DEF Read451

LEMMA ParseLocal ==
  ASSUME NEW n, NEW me, Local(n, me), NEW c \in At(me), NEW m, NEW ok
  PROVE  Local(Parse(n, me, c, m, ok), me)
<1>1. Local(Send(n, c, <<SquitMsg(m.from)>>), me)
  BY SendAlike
<1>2. Local(IF Unlinked(n, c) THEN ReadProtoctl(n, me, c, m, ok) ELSE n, me)
  BY ReadProtoctlLocal
<1>3. Local(Read451(n, me, c), me) /\ Local(ReadHello(n, me, c, m.name, ok), me)
  BY Read451Local, ReadHelloLocal
<1>4. Local(ReadEos(n, c, m.name), me) /\ Local(ServerRemote(n, me, c, m, ok), me)
  BY ReadEosLocal, ServerRemoteLocal
<1>5. Local(VerifyLink(n, me, c, m.name, FALSE), me) /\ Local(Squit(n, me, c, m.name), me)
  BY VerifyLinkLocal, SquitLocal
<1> QED
  BY <1>1, <1>2, <1>3, <1>4, <1>5 DEF Parse

----------------------------------------------------------------------------
Everywhere == DOMAIN node = Server /\ \A s \in Server : Local(node[s], s)

LEMMA WireLocal ==
  ASSUME NEW nodes, \A s \in Server : Local(nodes[s], s)
  PROVE  /\ DOMAIN Wire(nodes) = Server
         /\ \A s \in Server : Local(Wire(nodes)[s], s)
<1> SUFFICES ASSUME NEW s \in Server PROVE Local(Wire(nodes)[s], s)
  BY DEF Wire
<1>1. Alike(nodes[s], Wire(nodes)[s])
  BY DEF Wire, Alike, Local, Shaped
<1> QED
  BY <1>1, AlikeLocal

LEMMA BecomesLocal ==
  ASSUME Everywhere, NEW s \in Server, NEW n, Local(n, s), Becomes(s, n)
  PROVE  Everywhere'
<1> DEFINE nodes == [node EXCEPT ![s] = n]
<1>1. \A t \in Server : Local(nodes[t], t)
  BY DEF Everywhere
<1> QED
  BY <1>1, WireLocal DEF Becomes, Everywhere

LEMMA Ends ==
  ASSUME NEW c \in Link
  PROVE  /\ c[1] \in Server /\ c[2] \in Server /\ c[1] # c[2]
         /\ c \in At(c[1]) /\ c \in At(c[2])
         /\ \A s \in Server : c \in At(s) => Peer(s, c) \in Server /\ c \in At(Peer(s, c)) /\ Peer(s, c) # s
BY ServerLinkAssumption DEF At, Peer

LEMMA ConnectServerLocal ==
  ASSUME Everywhere, NEW c \in Link, ConnectServer(c)
  PROVE  Everywhere'
<1> DEFINE s == c[1]
           k == [node[s] EXCEPT !.end[c] = [NoEnd EXCEPT !.st = "connecting", !.first = now]]
<1>1. s \in Server /\ c \in At(s)
  BY Ends
<1>2. node' = [node EXCEPT ![s] = k] /\ node[s].end[c].st = "none" /\ Local(node[s], s)
  BY <1>1 DEF ConnectServer, Everywhere
<1>3. /\ k.srv = node[s].srv /\ k.pend = node[s].pend /\ DOMAIN k = DOMAIN node[s]
      /\ DOMAIN k.end = At(s) /\ \A d \in At(s) : d # c => k.end[d] = node[s].end[d]
      /\ DOMAIN k.end[c] = {"st", "first", "sent"}
  BY <1>1, <1>2 DEF Local, Shaped, NoEnd
<1> HIDE DEF s, k
<1>4. \A e \in node[s].pend : e.conn # c
  BY <1>2 DEF Local, Pending, Unlinked
<1>5. Local(k, s)
  BY <1>1, <1>2, <1>3, <1>4 DEF Local, Shaped, Pending, Unlinked
<1> QED
  BY <1>1, <1>2, <1>5 DEF Everywhere

LEMMA CompletedConnectionLocal ==
  ASSUME Everywhere, NEW c \in Link, CompletedConnection(c)
  PROVE  Everywhere'
<1> DEFINE s == c[1]
           t == c[2]
           end == [NoEnd EXCEPT !.st = "unknown", !.first = now]
           k == [node[s] EXCEPT !.end[c].st = "handshake", !.out[c] = <<Protoctl(s, node[s], FALSE)>>]
           l == [node[t] EXCEPT !.end[c] = end]
<1>1. s \in Server /\ t \in Server /\ s # t /\ c \in At(s) /\ c \in At(t)
  BY Ends
<1>2. /\ Local(node[s], s) /\ Local(node[t], t) /\ DOMAIN node = Server
      /\ node[s].end[c].st = "connecting" /\ node[t].end[c].st = "none"
  BY <1>1 DEF CompletedConnection, Everywhere
<1>3. node' = [node EXCEPT ![s] = k, ![t] = l]
  BY <1>1, <1>2 DEF CompletedConnection
<1>4. /\ k.srv = node[s].srv /\ k.pend = node[s].pend /\ DOMAIN k = DOMAIN node[s]
      /\ DOMAIN k.end = At(s) /\ \A d \in At(s) : d # c => k.end[d] = node[s].end[d]
      /\ DOMAIN k.end[c] = {"st", "first", "sent"}
  BY <1>1, <1>2 DEF Local, Shaped
<1>5. /\ l.srv = node[t].srv /\ l.pend = node[t].pend /\ DOMAIN l = DOMAIN node[t]
      /\ DOMAIN l.end = At(t) /\ \A d \in At(t) : d # c => l.end[d] = node[t].end[d]
      /\ DOMAIN l.end[c] = {"st", "first", "sent"}
  BY <1>1, <1>2 DEF Local, Shaped, NoEnd
<1> HIDE DEF s, t, k, l
<1>6. (\A e \in node[s].pend : e.conn # c) /\ (\A e \in node[t].pend : e.conn # c)
  BY <1>2 DEF Local, Pending, Unlinked
<1>7. Local(k, s)
  BY <1>1, <1>2, <1>4, <1>6 DEF Local, Shaped, Pending, Unlinked
<1>8. Local(l, t)
  BY <1>1, <1>2, <1>5, <1>6 DEF Local, Shaped, Pending, Unlinked
<1> QED
  BY <1>1, <1>2, <1>3, <1>7, <1>8 DEF Everywhere

LEMMA ReceiveLocal ==
  ASSUME Everywhere, NEW s \in Server, NEW c \in At(s), Receive(s, c)
  PROVE  Everywhere'
<1> DEFINE t == Peer(s, c)
           m == Head(node[t].out[c])
<1>1. t \in Server /\ t # s
  BY Ends DEF At
<1>2. PICK ok : node' = Wire([node EXCEPT ![t].out[c] = Tail(@), ![s] = Parse(node[s], s, c, m, ok)])
  BY DEF Receive
<1> HIDE DEF t, m
<1> DEFINE k == [node[t] EXCEPT !.out[c] = Tail(@)]
           p == Parse(node[s], s, c, m, ok)
           nodes == [node EXCEPT ![t].out[c] = Tail(@), ![s] = p]
<1>3. Local(p, s)
  BY ParseLocal DEF Everywhere
<1>4. Local(k, t)
  <2>1. Local(node[t], t) /\ Alike(node[t], k)
    BY <1>1 DEF Everywhere, Alike, Local, Shaped
  <2> QED
    BY <2>1, AlikeLocal
<1> HIDE DEF p
<1>5. DOMAIN nodes = Server /\ nodes[s] = p /\ nodes[t] = k
      /\ \A u \in Server \ {s, t} : nodes[u] = node[u]
  BY <1>1 DEF Everywhere
<1>6. \A u \in Server : Local(nodes[u], u)
  BY <1>3, <1>4, <1>5 DEF Everywhere
<1> QED
  BY <1>2, <1>6, WireLocal DEF Everywhere, p

LEMMA EverywhereStep ==
  ASSUME Everywhere, [Next]_vars
  PROVE  Everywhere'
<1>1. ASSUME NEW s \in Server, NEW c \in At(s), Becomes(s, Exit(node[s], s, c)) PROVE Everywhere'
  BY <1>1, ExitLocal, BecomesLocal DEF Everywhere
<1>2. ASSUME NEW s \in Server, NEW c \in At(s),
             LoseClosed(s, c) \/ HandshakeTimeout(s, c) \/ Break(s, c)
      PROVE  Everywhere'
  BY <1>1, <1>2 DEF LoseClosed, HandshakeTimeout, Break
<1>3. ASSUME NEW s \in Server, NEW x \in Server, OperSquit(s, x) PROVE Everywhere'
  BY <1>3, ExitServerLocal, BecomesLocal DEF Everywhere, OperSquit
<1>4. CASE Tick \/ UNCHANGED vars
  BY <1>4 DEF Tick, vars, Everywhere
<1> QED
  BY <1>2, <1>3, <1>4, ConnectServerLocal, CompletedConnectionLocal, ReceiveLocal DEF Next

LEMMA EverywhereInit == ASSUME Init PROVE Everywhere
<1>1. ASSUME NEW s \in Server PROVE Local(node[s], s)
  <2> DEFINE n == node[s]
  <2>1. n = [srv |-> <<>>, pend |-> {}, end |-> [c \in At(s) |-> NoEnd], out |-> [c \in At(s) |-> <<>>]]
    BY DEF Init
  <2>2. n.srv = <<>> /\ n.pend = {} /\ Shaped(n, s)
    BY <2>1 DEF Shaped, NoEnd
  <2> HIDE DEF n
  <2>3. Listed(n.srv, s) /\ Once(n.srv)
    BY <2>2, RangeEmpty, EmptySeq, LenProperties DEF Listed, Once
  <2>4. Local(n, s)
    BY <2>2, <2>3 DEF Local, Pending
  <2> QED
    BY <2>4 DEF n
<1> QED
  BY <1>1 DEF Init, Everywhere

(* pendingnet: a record that PROTOCTL SERVERS= made is of a connection that *)
(* is there and is no server yet: free_pending_net is called on every way  *)
(* out, when the connection closes and when it becomes a server, also by a *)
(* collision or a SQUIT that another link brings; and a server has one     *)
(* client per name, so that the walks of the list find the one they mean.  *)
THEOREM PendingIsLive == Spec => []PendingLive
<1>1. Init => Everywhere
  BY EverywhereInit
<1>2. Everywhere /\ [Next]_vars => Everywhere'
  BY EverywhereStep
<1>3. Everywhere => PendingLive
  BY DEF Everywhere, PendingLive, Local, Pending, Once
<1> QED
  BY <1>1, <1>2, <1>3, PTL DEF Spec

----------------------------------------------------------------------------
(* Part of a list: some of its members, each as often as it was there.     *)
Part(part, list) ==
  /\ part \in Seq(Range(part))
  /\ \E p \in [DOMAIN part -> DOMAIN list] :
        /\ \A i, j \in DOMAIN part : p[i] = p[j] => i = j
        /\ \A i \in DOMAIN part : part[i] = list[p[i]]

Pair(t) == <<t.chptr, t.m>>

(* The timers of list, for the channels ch: each belongs to a channel that *)
(* exists and has +f; one without its flag was left behind (st), and so    *)
(* was one of two for the same mode; and a flood has set the mode (au), or *)
(* the timer was left behind.                                              *)
Structs(ch) ==
  /\ DOMAIN ch = Channel /\ ch = [c \in Channel |-> ch[c]]
  /\ \A c \in Channel : /\ DOMAIN ch[c] = {"users", "mode", "f"}
                        /\ ch[c].users \in Nat /\ ch[c].f \in FloodProt \cup {NoFlood}
Sound(ch, list, au, st) ==
  /\ list \in Seq(Range(list))
  /\ \A i \in DOMAIN list :
        /\ DOMAIN list[i] = {"chptr", "m", "left"} /\ list[i].chptr \in Channel
        /\ ch[list[i].chptr].users > 0 /\ ch[list[i].chptr].f # NoFlood
        /\ list[i].m \in ch[list[i].chptr].f.timer_flags \/ Pair(list[i]) \in st
        /\ Pair(list[i]) \in au \cup st
  /\ \A i, j \in DOMAIN list : i # j /\ Pair(list[i]) = Pair(list[j]) => Pair(list[i]) \in st

LEMMA KeepPart ==
  ASSUME NEW list, list \in Seq(Range(list)), NEW A
  PROVE  Part(Keep(list, A), list) /\ Range(Keep(list, A)) = Range(list) \cap A
<1> DEFINE k == Keep(list, A)
<1>1. k \in Seq(Range(list)) /\ Range(k) = Range(list) \cap A
  BY KeepMembers
<1>2. k \in Seq(Range(k))
  BY <1>1, LenProperties, ElementOfSeq, SeqDef DEF Range
<1>3. \E p \in [DOMAIN k -> DOMAIN list] :
            /\ \A i, j \in DOMAIN k : p[i] = p[j] => i = j
            /\ \A i \in DOMAIN k : k[i] = list[p[i]]
  BY KeepPlaces
<1> HIDE DEF k
<1>4. Part(k, list)
  BY <1>2, <1>3 DEF Part
<1> QED
  BY <1>1, <1>4 DEF k

LEMMA RemovePart ==
  ASSUME NEW list, list \in Seq(Range(list)), NEW n \in DOMAIN list
  PROVE  /\ Part(RemoveAt(list, n), list)
         /\ \A i \in DOMAIN RemoveAt(list, n) :
               \E j \in DOMAIN list \ {n} : RemoveAt(list, n)[i] = list[j]
         /\ \A j \in DOMAIN list \ {n} : list[j] \in Range(RemoveAt(list, n))
<1> DEFINE k == RemoveAt(list, n)
           a == SubSeq(list, 1, n - 1)
           b == SubSeq(list, n + 1, Len(list))
           p == [i \in DOMAIN k |-> IF i < n THEN i ELSE i + 1]
<1>1. Len(list) \in Nat /\ DOMAIN list = 1..Len(list) /\ n \in 1..Len(list)
  BY LenProperties
<1>2. /\ a \in Seq(Range(list)) /\ Len(a) = n - 1
      /\ b \in Seq(Range(list)) /\ Len(b) = Len(list) - n
      /\ \A i \in 1..(n - 1) : a[i] = list[i]
      /\ \A i \in 1..(Len(list) - n) : b[i] = list[i + n]
  BY <1>1, SubSeqProperties
<1> HIDE DEF a, b
<1>3. k = a \o b
  BY DEF RemoveAt, a, b
<1>4. /\ k \in Seq(Range(list)) /\ Len(k) = Len(list) - 1
      /\ \A i \in 1..Len(k) : k[i] = IF i <= Len(a) THEN a[i] ELSE b[i - Len(a)]
  <2> DEFINE S == Range(list)
  <2> HIDE DEF S
  <2>1. a \in Seq(S) /\ b \in Seq(S)
    BY <1>2 DEF S
  <2>2. /\ a \o b \in Seq(S) /\ Len(a \o b) = Len(a) + Len(b)
        /\ \A i \in 1..(Len(a) + Len(b)) :
              (a \o b)[i] = IF i <= Len(a) THEN a[i] ELSE b[i - Len(a)]
    BY <2>1, ConcatProperties
  <2> HIDE DEF k
  <2>3. Len(a) + Len(b) = Len(list) - 1
    BY <1>1, <1>2
  <2> QED
    BY <1>3, <2>2, <2>3 DEF S
<1>5. DOMAIN k = 1..(Len(list) - 1)
  BY <1>4, LenProperties
<1> HIDE DEF k
<1>6. \A i \in 1..(Len(list) - 1) : k[i] = IF i < n THEN list[i] ELSE list[i + 1]
  <2> SUFFICES ASSUME NEW i \in 1..(Len(list) - 1)
               PROVE  k[i] = IF i < n THEN list[i] ELSE list[i + 1]
    OBVIOUS
  <2>1. CASE i < n
    <3>1. i \in 1..(n - 1) /\ i <= Len(a) /\ i \in 1..Len(k)
      BY <1>1, <1>2, <1>4, <2>1
    <3> QED
      BY <1>2, <1>4, <2>1, <3>1
  <2>2. CASE ~(i < n)
    <3>1. /\ i - (n - 1) \in 1..(Len(list) - n) /\ ~(i <= Len(a)) /\ i \in 1..Len(k)
          /\ (i - (n - 1)) + n = i + 1
      BY <1>1, <1>2, <1>4, <2>2
    <3>2. k[i] = b[i - (n - 1)] /\ b[i - (n - 1)] = list[(i - (n - 1)) + n]
      BY <1>2, <1>4, <3>1
    <3> QED
      BY <2>2, <3>1, <3>2
  <2> QED
    BY <2>1, <2>2
<1>7. /\ p \in [DOMAIN k -> DOMAIN list \ {n}]
      /\ \A i, j \in DOMAIN k : p[i] = p[j] => i = j
      /\ \A i \in DOMAIN k : k[i] = list[p[i]]
  BY <1>1, <1>5, <1>6
<1> HIDE DEF p
<1>8. k \in Seq(Range(k))
  BY <1>4, LenProperties, SeqDef DEF Range
<1>9. Part(k, list) /\ \A i \in DOMAIN k : \E j \in DOMAIN list \ {n} : k[i] = list[j]
  BY <1>7, <1>8 DEF Part
<1>10. ASSUME NEW j \in DOMAIN list \ {n} PROVE list[j] \in Range(k)
  <2>1. CASE j < n
    <3>1. j \in DOMAIN k /\ k[j] = list[j]
      BY <1>1, <1>5, <1>6, <2>1
    <3> QED
      BY <3>1 DEF Range
  <2>2. CASE j > n
    <3>1. j - 1 \in 1..(Len(list) - 1) /\ ~(j - 1 < n) /\ (j - 1) + 1 = j
      BY <1>1, <2>2
    <3>2. j - 1 \in DOMAIN k /\ k[j - 1] = list[j]
      BY <1>5, <1>6, <3>1
    <3> QED
      BY <3>2 DEF Range
  <2> QED
    BY <1>1, <2>1, <2>2
<1> QED
  BY <1>9, <1>10 DEF k

LEMMA PartSound ==
  ASSUME NEW ch, NEW list, NEW au, NEW st, Sound(ch, list, au, st), NEW part, Part(part, list)
  PROVE  Sound(ch, part, au, st)
<1>1. PICK p \in [DOMAIN part -> DOMAIN list] :
             /\ \A i, j \in DOMAIN part : p[i] = p[j] => i = j
             /\ \A i \in DOMAIN part : part[i] = list[p[i]]
  BY DEF Part
<1>2. \A i \in DOMAIN part : p[i] \in DOMAIN list /\ part[i] = list[p[i]]
  BY <1>1
<1>3. part \in Seq(Range(part))
  BY DEF Part
<1>4. \A i \in DOMAIN part :
        /\ DOMAIN part[i] = {"chptr", "m", "left"} /\ part[i].chptr \in Channel
        /\ ch[part[i].chptr].users > 0 /\ ch[part[i].chptr].f # NoFlood
        /\ part[i].m \in ch[part[i].chptr].f.timer_flags \/ Pair(part[i]) \in st
        /\ Pair(part[i]) \in au \cup st
  BY <1>2 DEF Sound
<1>5. \A i, j \in DOMAIN part : i # j /\ Pair(part[i]) = Pair(part[j]) => Pair(part[i]) \in st
  BY <1>1, <1>2 DEF Sound
<1> QED
  BY <1>3, <1>4, <1>5 DEF Sound

(* What becomes of a channel, of auto and of stray matters only for the    *)
(* channels that have timers.                                              *)
LEMMA SoundFrame ==
  ASSUME NEW ch, NEW list, NEW au, NEW st, Sound(ch, list, au, st),
         NEW ch2, NEW au2, NEW st2,
         \A i \in DOMAIN list :
            LET c == list[i].chptr
            IN  /\ ch2[c].users > 0 /\ ch2[c].f # NoFlood
                /\ list[i].m \in ch[c].f.timer_flags =>
                     list[i].m \in ch2[c].f.timer_flags \/ Pair(list[i]) \in st2
                /\ Pair(list[i]) \in st => Pair(list[i]) \in st2
                /\ Pair(list[i]) \in au => Pair(list[i]) \in au2 \cup st2
  PROVE  Sound(ch2, list, au2, st2)
BY DEF Sound

----------------------------------------------------------------------------
(* The counters.                                                           *)
LEMMA FreshProt ==
  ASSUME ChanFloodAssumption, NEW s \in Setting
  PROVE  NewProt(s) \in FloodProt /\ NewProt(s) # NoFlood
<1>1. s \in [per : Nat \ {0}, l : [Kind -> Nat], r : [Kind -> Nat], a : [Kind -> DOMAIN Code]]
  BY DEF ChanFloodAssumption
<1>2. NewProt(s) \in FloodProt
  BY <1>1 DEF NewProt, FloodProt
<1> QED
  BY <1>2 DEF ChanFloodAssumption

LEMMA CountedProt ==
  ASSUME ChanFloodAssumption, NEW f \in FloodProt \cup {NoFlood}, NEW k \in Kind
  PROVE  /\ Counted(f, k) \in FloodProt \cup {NoFlood}
         /\ f = NoFlood <=> Counted(f, k) = NoFlood
         /\ f # NoFlood => Counted(f, k).timer_flags = f.timer_flags
<1>1. CASE f = NoFlood
  BY <1>1 DEF Counted, Restricted
<1>2. CASE f \in FloodProt
  <2>1. f # NoFlood
    BY <1>2 DEF ChanFloodAssumption
  <2> DEFINE g == [f EXCEPT !.age[k] = 0, !.c[k] = 1]
             h == [f EXCEPT !.c[k] = IF @ <= f.l[k] THEN @ + 1 ELSE @]
  <2>3. g \in FloodProt /\ g.timer_flags = f.timer_flags
    BY <1>2 DEF FloodProt
  <2>4. h \in FloodProt /\ h.timer_flags = f.timer_flags
    BY <1>2 DEF FloodProt
  <2>5. Counted(f, k) \in {f, g, h}
    BY DEF Counted
  <2> HIDE DEF g, h
  <2>2. Counted(f, k) \in FloodProt /\ Counted(f, k).timer_flags = f.timer_flags
    BY <1>2, <2>3, <2>4, <2>5
  <2> QED
    BY <2>1, <2>2 DEF ChanFloodAssumption
<1> QED
  BY <1>1, <1>2

LEMMA TimerFound ==
  ASSUME NEW list, list \in Seq(Range(list)), NEW c, NEW m
  PROVE  /\ TimerOf(list, c, m) # 0 =>
              TimerOf(list, c, m) \in DOMAIN list /\ IsFor(list[TimerOf(list, c, m)], c, m)
         /\ TimerOf(list, c, m) = 0 => \A i \in DOMAIN list : ~IsFor(list[i], c, m)
<1> DEFINE I == {i \in 1..Len(list) : IsFor(list[i], c, m)}
<1>1. DOMAIN list = 1..Len(list) /\ Len(list) \in Nat /\ I \subseteq Nat
  BY LenProperties
<1>2. I # {} => \E i \in I : \A j \in I : i <= j
  <2> HIDE DEF I
  <2> QED
    BY <1>1, LeastOfNaturals
<1> QED
  BY <1>1, <1>2 DEF TimerOf, SelectInSeq, Min

LEMMA MergedProt ==
  ASSUME ChanFloodAssumption, NEW f \in FloodProt \cup {NoFlood},
         NEW s \in Setting \cup {NoFlood}
  PROVE  Merged(f, s) \in FloodProt \cup {NoFlood} /\ (f # NoFlood => Merged(f, s) # NoFlood)
<1> DEFINE g == [per |-> Larger(s.per, f.per),
                 l |-> [k \in Kind |-> Larger(s.l[k], f.l[k])],
                 r |-> [k \in Kind |-> Larger(s.r[k], f.r[k])],
                 a |-> [k \in Kind |-> LaterMode(<<s.l[k], f.l[k]>>, s.a[k], f.a[k])]]
<1>1. CASE s = NoFlood \/ f = FreshOr(s)
  BY <1>1 DEF Merged
<1>2. CASE s # NoFlood
  <2>1. NewProt(s) \in FloodProt /\ NewProt(s) # NoFlood
    BY <1>2, FreshProt
  <2>2. ASSUME f # NoFlood PROVE NewProt(g) \in FloodProt
    <3>1. f \in FloodProt
      BY <2>2
    <3>2. s \in [per : Nat \ {0}, l : [Kind -> Nat], r : [Kind -> Nat], a : [Kind -> DOMAIN Code]]
      BY <1>2 DEF ChanFloodAssumption
    <3>3. g.per \in Nat /\ g.l \in [Kind -> Nat] /\ g.r \in [Kind -> Nat]
      BY <3>1, <3>2 DEF FloodProt, Larger
    <3>4. g.a \in [Kind -> DOMAIN Code]
      BY <3>1, <3>2 DEF FloodProt, LaterMode
    <3> HIDE DEF g
    <3> QED
      BY <3>3, <3>4 DEF NewProt, FloodProt
  <2>3. \/ Merged(f, s) = f
        \/ Merged(f, s) = NewProt(s)
        \/ f # NoFlood /\ Merged(f, s) = NewProt(g)
    BY DEF Merged
  <2> HIDE DEF g
  <2> QED
    BY <2>1, <2>2, <2>3 DEF ChanFloodAssumption
<1> QED
  BY <1>1, <1>2

----------------------------------------------------------------------------
(* A channel with struct x: what one step makes of it and of the timers.   *)
Good(ch, c, s, st) ==
  /\ DOMAIN s = {"x", "list", "auto"} /\ DOMAIN s.x = {"users", "mode", "f"}
  /\ s.x.users \in Nat /\ s.x.users > 0 /\ s.x.f \in FloodProt \cup {NoFlood}
  /\ Sound([ch EXCEPT ![c] = s.x], s.list, s.auto, st)

LEMMA PrependSound ==
  ASSUME NEW ch, NEW list, NEW au, NEW st, Sound(ch, list, au, st),
         NEW t, DOMAIN t = {"chptr", "m", "left"}, t.chptr \in Channel,
         ch[t.chptr].users > 0, ch[t.chptr].f # NoFlood,
         t.m \in ch[t.chptr].f.timer_flags, Pair(t) \in au \cup st,
         \A i \in DOMAIN list : Pair(list[i]) = Pair(t) => Pair(t) \in st
  PROVE  Sound(ch, <<t>> \o list, au, st)
<1> DEFINE S == Range(list) \cup {t}
           k == <<t>> \o list
<1>1. list \in Seq(S) /\ t \in S
  BY LenProperties, ElementOfSeq, SeqDef DEF Sound
<1> HIDE DEF S
<1>2. /\ Len(list) \in Nat /\ DOMAIN list = 1..Len(list) /\ DOMAIN k = 1..(Len(list) + 1)
      /\ k[1] = t /\ (\A n \in 1..Len(list) : k[n + 1] = list[n]) /\ k \in Seq(S)
  BY <1>1, ConcatProperties, LenProperties
<1>3. k \in Seq(Range(k))
  <2>1. Range(<<t>> \o list) = {t} \cup Range(list)
    BY <1>1, RangeCons
  <2>2. Range(k) = S
    BY <2>1 DEF S
  <2>3. k \in Seq(S)
    BY <1>2
  <2> HIDE DEF k
  <2> QED
    BY <2>2, <2>3
<1> HIDE DEF k
<1>4. \A n \in DOMAIN k : n = 1 \/ (n - 1 \in DOMAIN list /\ k[n] = list[n - 1])
  <2> SUFFICES ASSUME NEW n \in DOMAIN k, n # 1
               PROVE  n - 1 \in DOMAIN list /\ k[n] = list[n - 1]
    OBVIOUS
  <2>1. n - 1 \in 1..Len(list) /\ (n - 1) + 1 = n
    BY <1>2
  <2> QED
    BY <1>2, <2>1
<1>5. \A i \in DOMAIN k :
        /\ DOMAIN k[i] = {"chptr", "m", "left"} /\ k[i].chptr \in Channel
        /\ ch[k[i].chptr].users > 0 /\ ch[k[i].chptr].f # NoFlood
        /\ k[i].m \in ch[k[i].chptr].f.timer_flags \/ Pair(k[i]) \in st
        /\ Pair(k[i]) \in au \cup st
  BY <1>2, <1>4 DEF Sound
<1>6. ASSUME NEW i \in DOMAIN k, NEW j \in DOMAIN k, i # j, Pair(k[i]) = Pair(k[j])
      PROVE  Pair(k[i]) \in st
  <2>1. CASE i = 1 \/ j = 1
    BY <1>2, <1>4, <1>6, <2>1
  <2>2. CASE i # 1 /\ j # 1
    <3>1. i - 1 # j - 1
      BY <1>2, <1>6
    <3> QED
      BY <1>4, <1>6, <2>2, <3>1 DEF Sound
  <2> QED
    BY <2>1, <2>2
<1>7. Sound(ch, k, au, st)
  BY <1>3, <1>5, <1>6 DEF Sound
<1> QED
  BY <1>7 DEF k

LEMMA ReplaceSound ==
  ASSUME NEW ch, NEW list, NEW au, NEW st, Sound(ch, list, au, st), NEW n \in DOMAIN list,
         NEW t, DOMAIN t = {"chptr", "m", "left"}, t.chptr = list[n].chptr, t.m = list[n].m
  PROVE  Sound(ch, [list EXCEPT ![n] = t], au, st)
<1> DEFINE k == [list EXCEPT ![n] = t]
<1>1. DOMAIN list = 1..Len(list) /\ Len(list) \in Nat
  BY LenProperties DEF Sound
<1>2. /\ DOMAIN k = DOMAIN list
      /\ \A i \in DOMAIN list : /\ k[i].chptr = list[i].chptr /\ k[i].m = list[i].m
                                /\ DOMAIN k[i] = {"chptr", "m", "left"}
  BY DEF Sound
<1>3. k \in Seq(Range(k))
  <2>1. k \in [1..Len(list) -> Range(k)]
    BY <1>1 DEF Range
  <2> HIDE DEF k
  <2> QED
    BY <1>1, <2>1, SeqDef
<1> HIDE DEF k
<1>4. \A i \in DOMAIN k : Pair(k[i]) = Pair(list[i])
  BY <1>2 DEF Pair
<1>5. Sound(ch, k, au, st)
  BY <1>2, <1>3, <1>4 DEF Sound
<1> QED
  BY <1>5 DEF k

LEMMA ActionGood ==
  ASSUME ChanFloodAssumption, NEW ch, Structs(ch), NEW c \in Channel, NEW st,
         NEW s, Good(ch, c, s, st), s.x.f # NoFlood, NEW k \in Kind
  PROVE  Good(ch, c, Action(s, c, k), st)
<1> DEFINE m == s.x.f.a[k]
           f == s.x.f
           timed == f.r[k] > 0
           flags == IF timed THEN f.timer_flags \cup {m} ELSE f.timer_flags
           y == [s.x EXCEPT !.mode = @ \cup {m},
                            !.f.timer_flags = IF timed THEN @ \cup {m} ELSE @]
           list == IF timed THEN TimerAdd(s.list, c, m, m \in f.timer_flags, f.r[k]) ELSE s.list
           au == IF timed THEN s.auto \cup {<<c, m>>} ELSE s.auto
           ch1 == [ch EXCEPT ![c] = s.x]
           ch2 == [ch EXCEPT ![c] = y]
           new == [chptr |-> c, m |-> m, left |-> f.r[k]]
<1>0. SUFFICES ASSUME m \notin s.x.mode PROVE Good(ch, c, Action(s, c, k), st)
  BY DEF Action
<1>1. Action(s, c, k) = [x |-> y, list |-> list, auto |-> au]
  BY <1>0 DEF Action
<1>2. f \in FloodProt /\ m \in DOMAIN Code
  BY DEF Good, FloodProt
<1>3. /\ DOMAIN y = {"users", "mode", "f"} /\ y.users = s.x.users
      /\ y.f = [f EXCEPT !.timer_flags = flags]
  BY DEF Good
<1> HIDE DEF y
<1>4. y.f \in FloodProt /\ y.f.timer_flags = flags
  BY <1>2, <1>3 DEF FloodProt
<1>5. y.f # NoFlood /\ y.users \in Nat /\ y.users > 0
  BY <1>3, <1>4 DEF ChanFloodAssumption, Good
<1>6. /\ ch1[c] = s.x /\ ch2[c] = y
      /\ \A d \in Channel : d # c => ch1[d] = ch[d] /\ ch2[d] = ch[d]
  BY DEF Structs
<1>7. Sound(ch1, s.list, s.auto, st)
  BY DEF Good
<1> HIDE DEF ch1, ch2
<1>8. Sound(ch2, s.list, au, st)
  <2>1. ASSUME NEW i \in DOMAIN s.list
        PROVE  LET d == s.list[i].chptr
               IN  /\ ch2[d].users > 0 /\ ch2[d].f # NoFlood
                   /\ s.list[i].m \in ch1[d].f.timer_flags =>
                        s.list[i].m \in ch2[d].f.timer_flags \/ Pair(s.list[i]) \in st
                   /\ Pair(s.list[i]) \in st => Pair(s.list[i]) \in st
                   /\ Pair(s.list[i]) \in s.auto => Pair(s.list[i]) \in au \cup st
    <3>1. s.list[i].chptr \in Channel
      BY <1>7 DEF Sound
    <3>2. CASE s.list[i].chptr = c
      BY <1>4, <1>5, <1>6, <3>2
    <3>3. CASE s.list[i].chptr # c
      BY <1>6, <1>7, <3>1, <3>3 DEF Sound
    <3> QED
      BY <3>2, <3>3
  <2> HIDE DEF au
  <2> QED
    BY <1>7, <2>1, SoundFrame
<1>9. Sound(ch2, list, au, st)
  <2>1. CASE ~timed
    BY <1>8, <2>1
  <2>2. CASE timed
    <3> DEFINE old == TimerOf(s.list, c, m)
    <3>1. /\ s.list \in Seq(Range(s.list))
      BY <1>7 DEF Sound
    <3>2. /\ DOMAIN new = {"chptr", "m", "left"} /\ new.chptr = c /\ new.m = m
          /\ Pair(new) = <<c, m>>
      BY DEF Pair
    <3>3. CASE m \in f.timer_flags /\ old # 0
      <4>1. old \in DOMAIN s.list /\ s.list[old].chptr = c /\ s.list[old].m = m
        BY <3>1, <3>3, TimerFound DEF IsFor
      <4>2. list = [s.list EXCEPT ![old] = new]
        BY <2>2, <3>3 DEF TimerAdd
      <4> HIDE DEF old, new, list, au, m
      <4> QED
        BY <1>8, <3>2, <4>1, <4>2, ReplaceSound
    <3>4. CASE ~(m \in f.timer_flags /\ old # 0)
      <4>1. list = <<new>> \o s.list
        BY <2>2, <3>4 DEF TimerAdd
      <4>2. ASSUME NEW i \in DOMAIN s.list, Pair(s.list[i]) = <<c, m>> PROVE <<c, m>> \in st
        <5>1. IsFor(s.list[i], c, m)
          BY <4>2 DEF Pair, IsFor
        <5>2. m \notin f.timer_flags
          BY <3>1, <3>4, <5>1, TimerFound
        <5>3. s.list[i].m \notin ch1[s.list[i].chptr].f.timer_flags
          BY <1>6, <5>1, <5>2 DEF IsFor
        <5> QED
          BY <1>7, <4>2, <5>3 DEF Sound
      <4>3. m \in ch2[c].f.timer_flags /\ ch2[c].users > 0 /\ ch2[c].f # NoFlood
        BY <1>4, <1>5, <1>6, <2>2
      <4>4. <<c, m>> \in au
        BY <2>2
      <4> HIDE DEF new, list, au, m
      <4> QED
        BY <1>8, <3>2, <4>1, <4>2, <4>3, <4>4, PrependSound
    <3> QED
      BY <3>3, <3>4
  <2> QED
    BY <2>1, <2>2
<1> HIDE DEF list, au
<1> QED
  BY <1>1, <1>3, <1>4, <1>5, <1>9 DEF Good, ch2

LEMMA CountedGood ==
  ASSUME ChanFloodAssumption, NEW ch, Structs(ch), NEW c \in Channel, NEW st,
         NEW s, Good(ch, c, s, st), NEW k \in Kind
  PROVE  /\ Good(ch, c, [s EXCEPT !.x.f = Counted(@, k)], st)
         /\ [s EXCEPT !.x.f = Counted(@, k)].x.f = Counted(s.x.f, k)
<1> DEFINE f == Counted(s.x.f, k)
           y == [s.x EXCEPT !.f = f]
           t == [s EXCEPT !.x.f = Counted(@, k)]
           ch1 == [ch EXCEPT ![c] = s.x]
           ch2 == [ch EXCEPT ![c] = y]
<1>1. t.x = y /\ t.list = s.list /\ t.auto = s.auto /\ DOMAIN t = DOMAIN s
  BY DEF Good
<1>2. y.f = f /\ y.users = s.x.users /\ DOMAIN y = {"users", "mode", "f"}
  BY DEF Good
<1>3. /\ f \in FloodProt \cup {NoFlood} /\ (s.x.f = NoFlood <=> f = NoFlood)
      /\ s.x.f # NoFlood => f.timer_flags = s.x.f.timer_flags
  BY CountedProt DEF Good
<1>4. Sound(ch1, s.list, s.auto, st)
  BY DEF Good
<1>5. /\ ch1[c] = s.x /\ ch2[c] = y
      /\ \A d \in Channel : d # c => ch1[d] = ch[d] /\ ch2[d] = ch[d]
  BY DEF Structs
<1> HIDE DEF f, y, t, ch1, ch2
<1>6. ASSUME NEW i \in DOMAIN s.list
      PROVE  LET d == s.list[i].chptr
             IN  /\ ch2[d].users > 0 /\ ch2[d].f # NoFlood
                 /\ s.list[i].m \in ch1[d].f.timer_flags =>
                      s.list[i].m \in ch2[d].f.timer_flags \/ Pair(s.list[i]) \in st
                 /\ Pair(s.list[i]) \in st => Pair(s.list[i]) \in st
                 /\ Pair(s.list[i]) \in s.auto => Pair(s.list[i]) \in s.auto \cup st
  <2>1. s.list[i].chptr \in Channel
    BY <1>4 DEF Sound
  <2>2. CASE s.list[i].chptr = c
    <3>1. s.x.f # NoFlood
      BY <1>4, <1>5, <2>2 DEF Sound
    <3> QED
      BY <1>2, <1>3, <1>5, <2>2, <3>1 DEF Good
  <2>3. CASE s.list[i].chptr # c
    BY <1>4, <1>5, <2>1, <2>3 DEF Sound
  <2> QED
    BY <2>2, <2>3
<1>7. Sound(ch2, s.list, s.auto, st)
  BY <1>4, <1>6, SoundFrame
<1>8. Good(ch, c, t, st)
  BY <1>1, <1>2, <1>3, <1>7 DEF Good, ch2
<1> QED
  BY <1>1, <1>2, <1>8 DEF t, f

LEMMA EventGood ==
  ASSUME ChanFloodAssumption, NEW ch, Structs(ch), NEW c \in Channel, NEW st,
         NEW s, Good(ch, c, s, st), NEW k \in Kind, NEW mine
  PROVE  Good(ch, c, Event(s, c, k, mine), st)
<1> DEFINE t == [s EXCEPT !.x.f = Counted(@, k)]
<1>1. Good(ch, c, t, st) /\ t.x.f = Counted(s.x.f, k)
  BY CountedGood
<1>2. Event(s, c, k, mine) = IF IsFlood(s.x.f, k) /\ mine THEN Action(t, c, k) ELSE t
  BY DEF Event
<1> HIDE DEF t
<1>3. IsFlood(s.x.f, k) => t.x.f # NoFlood
  BY <1>1, CountedProt DEF Good, IsFlood, Restricted
<1> QED
  BY <1>1, <1>2, <1>3, ActionGood

----------------------------------------------------------------------------
(* The steps.                                                              *)
FInv == Structs(chan) /\ Sound(chan, removefld_list, auto, stray)

(* One channel gets a new struct.                                          *)
LEMMA ChannelFrame ==
  ASSUME NEW ch, Structs(ch), NEW list, NEW au, NEW st, Sound(ch, list, au, st),
         NEW c \in Channel, NEW x, NEW au2, NEW st2,
         \A i \in DOMAIN list : /\ Pair(list[i]) \in st => Pair(list[i]) \in st2
                                /\ Pair(list[i]) \in au => Pair(list[i]) \in au2 \cup st2,
         \A i \in DOMAIN list : list[i].chptr = c =>
            /\ x.users > 0 /\ x.f # NoFlood
            /\ list[i].m \in ch[c].f.timer_flags =>
                 list[i].m \in x.f.timer_flags \/ Pair(list[i]) \in st2
  PROVE  Sound([ch EXCEPT ![c] = x], list, au2, st2)
<1> DEFINE ch2 == [ch EXCEPT ![c] = x]
<1>1. ch2[c] = x /\ \A d \in Channel : d # c => ch2[d] = ch[d]
  BY DEF Structs
<1> HIDE DEF ch2
<1>2. ASSUME NEW i \in DOMAIN list
      PROVE  LET d == list[i].chptr
             IN  /\ ch2[d].users > 0 /\ ch2[d].f # NoFlood
                 /\ list[i].m \in ch[d].f.timer_flags =>
                      list[i].m \in ch2[d].f.timer_flags \/ Pair(list[i]) \in st2
                 /\ Pair(list[i]) \in st => Pair(list[i]) \in st2
                 /\ Pair(list[i]) \in au => Pair(list[i]) \in au2 \cup st2
  <2>1. list[i].chptr \in Channel
    BY DEF Sound
  <2>2. CASE list[i].chptr = c
    BY <1>1, <2>2
  <2>3. CASE list[i].chptr # c
    BY <1>1, <2>1, <2>3 DEF Sound
  <2> QED
    BY <2>2, <2>3
<1>3. Sound(ch2, list, au2, st2)
  BY <1>2, SoundFrame
<1> QED
  BY <1>3 DEF ch2

LEMMA StructsFrame ==
  ASSUME NEW ch, Structs(ch), NEW c \in Channel, NEW x, DOMAIN x = {"users", "mode", "f"},
         x.users \in Nat, x.f \in FloodProt \cup {NoFlood}
  PROVE  Structs([ch EXCEPT ![c] = x])
BY DEF Structs

LEMMA AsIsGood ==
  ASSUME FInv, NEW c \in Channel, NEW x, DOMAIN x = {"users", "mode", "f"},
         x.users \in Nat, x.users > 0, x.f \in FloodProt \cup {NoFlood},
         chan[c].users > 0 => x.f = chan[c].f
  PROVE  Good(chan, c, AsIs(x), stray)
<1>1. Structs(chan) /\ Sound(chan, removefld_list, auto, stray)
  BY DEF FInv
<1>2. \A i \in DOMAIN removefld_list : removefld_list[i].chptr = c =>
         x.users > 0 /\ x.f # NoFlood /\ x.f = chan[c].f
  BY <1>1 DEF Sound
<1>3. Sound([chan EXCEPT ![c] = x], removefld_list, auto, stray)
  BY <1>1, <1>2, ChannelFrame
<1> QED
  BY <1>3 DEF Good, AsIs

LEMMA SetToSound ==
  ASSUME FInv, NEW c \in Channel, NEW s, Good(chan, c, s, stray), SetTo(c, s), UNCHANGED stray
  PROVE  FInv'
<1>1. chan' = [chan EXCEPT ![c] = s.x] /\ removefld_list' = s.list /\ auto' = s.auto
  BY DEF SetTo
<1>2. Structs(chan') /\ Sound(chan', removefld_list', auto', stray')
  BY <1>1, StructsFrame DEF Good, FInv
<1> QED
  BY <1>2 DEF FInv, Structs, Sound

LEMMA FreshOrProt ==
  ASSUME ChanFloodAssumption, NEW s \in Setting \cup {NoFlood}
  PROVE  FreshOr(s) \in FloodProt \cup {NoFlood}
BY FreshProt DEF FreshOr

LEMMA JoinSound ==
  ASSUME ChanFloodAssumption, FInv, NEW c \in Channel, NEW mine, NEW counted, "join" \in Kind,
         Join(c, mine, counted)
  PROVE  FInv'
<1> DEFINE x == IF chan[c].users = 0 /\ mine
                THEN [users |-> 1, mode |-> OnJoin.mode, f |-> FreshOr(OnJoin.f)]
                ELSE [chan[c] EXCEPT !.users = @ + 1]
<1>1. /\ DOMAIN chan[c] = {"users", "mode", "f"} /\ chan[c].users \in Nat
      /\ chan[c].f \in FloodProt \cup {NoFlood}
  BY DEF FInv, Structs
<1>2. FreshOr(OnJoin.f) \in FloodProt \cup {NoFlood}
  BY FreshOrProt DEF ChanFloodAssumption
<1>3. /\ DOMAIN x = {"users", "mode", "f"} /\ x.users \in Nat /\ x.users > 0
      /\ x.f \in FloodProt \cup {NoFlood} /\ (chan[c].users > 0 => x.f = chan[c].f)
  BY <1>1, <1>2
<1>4. UNCHANGED stray /\ SetTo(c, IF counted THEN Event(AsIs(x), c, "join", mine) ELSE AsIs(x))
  BY DEF Join
<1> HIDE DEF x
<1>5. Good(chan, c, AsIs(x), stray)
  BY <1>3, AsIsGood
<1>6. Good(chan, c, Event(AsIs(x), c, "join", mine), stray)
  BY <1>5, EventGood DEF FInv
<1> QED
  BY <1>4, <1>5, <1>6, SetToSound

LEMMA HereGood ==
  ASSUME FInv, NEW c \in Channel, chan[c].users > 0
  PROVE  Good(chan, c, AsIs(chan[c]), stray)
BY AsIsGood DEF FInv, Structs

LEMMA SaidSound ==
  ASSUME ChanFloodAssumption, FInv, NEW c \in Channel, NEW mine, NEW ctcp,
         \/ "knock" \in Kind /\ Knock(c, mine)
         \/ {"msg", "ctcp"} \subseteq Kind /\ ChannelMessage(c, mine, ctcp)
         \/ "nick" \in Kind /\ NickChange(c, mine)
  PROVE  FInv'
<1> DEFINE here == AsIs(chan[c])
           said == Event(here, c, "msg", mine)
<1>1. Good(chan, c, here, stray) /\ Structs(chan) /\ UNCHANGED stray
  BY HereGood DEF Knock, ChannelMessage, NickChange, FInv
<1> HIDE DEF here
<1>2. ASSUME NEW k \in Kind PROVE Good(chan, c, Event(here, c, k, mine), stray)
  BY <1>1, EventGood
<1>3. CASE "knock" \in Kind /\ Knock(c, mine)
  <2>1. SetTo(c, Event(here, c, "knock", mine))
    BY <1>3 DEF Knock, here
  <2> QED
    BY <1>1, <1>2, <1>3, <2>1, SetToSound
<1>4. CASE "nick" \in Kind /\ NickChange(c, mine)
  <2>1. SetTo(c, Event(here, c, "nick", mine))
    BY <1>4 DEF NickChange, here
  <2> QED
    BY <1>1, <1>2, <1>4, <2>1, SetToSound
<1>5. CASE {"msg", "ctcp"} \subseteq Kind /\ ChannelMessage(c, mine, ctcp)
  <2>1. SetTo(c, IF ctcp THEN Event(said, c, "ctcp", mine) ELSE said)
    BY <1>5 DEF ChannelMessage, here
  <2>2. Good(chan, c, said, stray)
    BY <1>2, <1>5
  <2> HIDE DEF said
  <2>3. Good(chan, c, Event(said, c, "ctcp", mine), stray)
    BY <1>1, <1>5, <2>2, EventGood
  <2> QED
    BY <1>1, <2>1, <2>2, <2>3, SetToSound
<1> QED
  BY <1>3, <1>4, <1>5

(* The timers of a channel are stopped: nothing is left of it.             *)
LEMMA StopSound ==
  ASSUME NEW ch, Structs(ch), NEW list, NEW au, NEW st, Sound(ch, list, au, st),
         NEW c \in Channel, NEW x, NEW au2, au2 = {p \in au : p[1] # c},
         NEW st2, st2 = {p \in st : p[1] # c}
  PROVE  Sound([ch EXCEPT ![c] = x], StopChanTimers(list, c), au2, st2)
<1> DEFINE k == StopChanTimers(list, c)
<1>1. Part(k, list) /\ Range(k) \subseteq {t \in Range(list) : t.chptr # c}
  BY KeepPart DEF StopChanTimers, Sound
<1> HIDE DEF k
<1>2. Sound(ch, k, au, st)
  BY <1>1, PartSound
<1>3. \A i \in DOMAIN k : k[i].chptr # c /\ Pair(k[i])[1] = k[i].chptr
  BY <1>1 DEF Range, Pair
<1>4. \A i \in DOMAIN k : /\ Pair(k[i]) \in st => Pair(k[i]) \in st2
                          /\ Pair(k[i]) \in au => Pair(k[i]) \in au2 \cup st2
  BY <1>3
<1>5. Sound([ch EXCEPT ![c] = x], k, au2, st2)
  BY <1>2, <1>3, <1>4, ChannelFrame
<1> QED
  BY <1>5 DEF k

LEMMA LeaveSound ==
  ASSUME ChanFloodAssumption, FInv, NEW c \in Channel, LeaveChannel(c)
  PROVE  FInv'
<1>1. /\ DOMAIN chan[c] = {"users", "mode", "f"} /\ chan[c].users \in Nat
      /\ chan[c].f \in FloodProt \cup {NoFlood} /\ chan[c].users > 0
      /\ Structs(chan) /\ Sound(chan, removefld_list, auto, stray)
  BY DEF FInv, Structs, LeaveChannel
<1>2. CASE chan[c].users = 1
  <2>1. /\ chan' = [chan EXCEPT ![c] = NoChannel]
        /\ removefld_list' = StopChanTimers(removefld_list, c)
        /\ auto' = {p \in auto : p[1] # c} /\ stray' = {p \in stray : p[1] # c}
    BY <1>2 DEF LeaveChannel
  <2>4. Sound([chan EXCEPT ![c] = NoChannel], StopChanTimers(removefld_list, c), auto', stray')
    BY <1>1, <2>1, StopSound
  <2>2. Sound(chan', removefld_list', auto', stray')
    BY <2>1, <2>4
  <2>3. Structs(chan')
    BY <1>1, <2>1, StructsFrame DEF NoChannel
  <2> QED
    BY <2>2, <2>3 DEF FInv, Structs, Sound
<1>3. CASE chan[c].users # 1
  <2> DEFINE x == [chan[c] EXCEPT !.users = @ - 1]
  <2>1. /\ chan' = [chan EXCEPT ![c] = x] /\ removefld_list' = removefld_list
        /\ auto' = auto /\ stray' = stray
    BY <1>1, <1>3 DEF LeaveChannel, Structs
  <2>2. /\ DOMAIN x = {"users", "mode", "f"} /\ x.users \in Nat /\ x.users > 0
        /\ x.f = chan[c].f
    BY <1>1, <1>3
  <2> HIDE DEF x
  <2>3. Good(chan, c, AsIs(x), stray)
    BY <1>1, <2>2, AsIsGood
  <2>4. Sound(chan', removefld_list', auto', stray') /\ Structs(chan')
    BY <1>1, <2>1, <2>2, <2>3, StructsFrame DEF Good, AsIs
  <2> QED
    BY <2>4 DEF FInv, Structs, Sound
<1> QED
  BY <1>2, <1>3

LEMMA DelFSound ==
  ASSUME FInv, NEW c \in Channel, DelF(c)
  PROVE  FInv'
<1> DEFINE x == [chan[c] EXCEPT !.f = NoFlood]
<1>1. /\ DOMAIN chan[c] = {"users", "mode", "f"} /\ chan[c].users \in Nat
      /\ Structs(chan) /\ Sound(chan, removefld_list, auto, stray)
  BY DEF FInv, Structs
<1>2. /\ chan' = [chan EXCEPT ![c] = x]
      /\ removefld_list' = StopChanTimers(removefld_list, c)
      /\ auto' = {p \in auto : p[1] # c} /\ stray' = {p \in stray : p[1] # c}
  BY DEF DelF
<1>3. DOMAIN x = {"users", "mode", "f"} /\ x.users \in Nat /\ x.f = NoFlood
  BY <1>1
<1> HIDE DEF x
<1>5. Sound([chan EXCEPT ![c] = x], StopChanTimers(removefld_list, c), auto', stray')
  BY <1>1, <1>2, StopSound
<1>4. Sound(chan', removefld_list', auto', stray') /\ Structs(chan')
  BY <1>1, <1>2, <1>3, <1>5, StructsFrame
<1> QED
  BY <1>4 DEF FInv, Structs, Sound

LEMMA ModeAddSound ==
  ASSUME FInv, NEW c \in Channel, NEW m, ModeAdd(c, m)
  PROVE  FInv'
<1> DEFINE x == [chan[c] EXCEPT !.mode = @ \cup {m}]
<1>1. /\ DOMAIN chan[c] = {"users", "mode", "f"} /\ chan[c].users \in Nat /\ chan[c].users > 0
      /\ chan[c].f \in FloodProt \cup {NoFlood} /\ Structs(chan)
  BY DEF FInv, Structs, ModeAdd
<1>2. chan' = [chan EXCEPT ![c] = x] /\ UNCHANGED <<removefld_list, auto, stray>>
  BY DEF ModeAdd
<1>3. DOMAIN x = {"users", "mode", "f"} /\ x.users = chan[c].users /\ x.f = chan[c].f
  BY <1>1
<1> HIDE DEF x
<1>4. Good(chan, c, AsIs(x), stray)
  BY <1>1, <1>3, AsIsGood
<1>5. Sound(chan', removefld_list', auto', stray') /\ Structs(chan')
  BY <1>1, <1>2, <1>3, <1>4, StructsFrame DEF Good, AsIs
<1> QED
  BY <1>5 DEF FInv, Structs, Sound

LEMMA SetFSound ==
  ASSUME ChanFloodAssumption, FInv, NEW c \in Channel, NEW s \in Setting, SetF(c, s)
  PROVE  FInv'
<1> DEFINE x == [chan[c] EXCEPT !.f = NewProt(s)]
<1>1. /\ DOMAIN chan[c] = {"users", "mode", "f"} /\ chan[c].users \in Nat /\ chan[c].users > 0
      /\ Structs(chan) /\ Sound(chan, removefld_list, auto, stray)
  BY DEF FInv, Structs, SetF
<1>2. /\ chan' = [chan EXCEPT ![c] = x] /\ removefld_list' = removefld_list /\ auto' = auto
      /\ stray' = stray \cup Running(c)
  BY DEF SetF
<1>3. /\ DOMAIN x = {"users", "mode", "f"} /\ x.users = chan[c].users
      /\ x.f \in FloodProt /\ x.f # NoFlood
  BY <1>1, FreshProt
<1> HIDE DEF x
<1>4. \A i \in DOMAIN removefld_list : removefld_list[i].chptr = c => Pair(removefld_list[i]) \in stray'
  BY <1>1, <1>2, LenProperties DEF Running, Timers, Pair, Sound
<1>5. Sound([chan EXCEPT ![c] = x], removefld_list, auto, stray')
  BY <1>1, <1>2, <1>3, <1>4, ChannelFrame
<1>6. Sound(chan', removefld_list', auto', stray') /\ Structs(chan')
  BY <1>1, <1>2, <1>3, <1>5, StructsFrame
<1> QED
  BY <1>6 DEF FInv, Structs, Sound

(* MODE -m deletes the timer it finds, if its flag is set: one that stays  *)
(* was left behind before.                                                 *)
LEMMA DelSound ==
  ASSUME NEW ch, NEW list, NEW au, NEW st, Sound(ch, list, au, st), NEW c \in Channel, NEW m,
         NEW flagged, flagged = (ch[c].f # NoFlood /\ m \in ch[c].f.timer_flags)
  PROVE  LET k == TimerDel(list, c, m, flagged)
         IN  /\ Sound(ch, k, au, st)
             /\ \A i \in DOMAIN k : Pair(k[i]) = <<c, m>> => <<c, m>> \in st
<1> DEFINE old == TimerOf(list, c, m)
           k == TimerDel(list, c, m, flagged)
<1>1. /\ list \in Seq(Range(list))
      /\ old # 0 => old \in DOMAIN list /\ IsFor(list[old], c, m)
      /\ old = 0 => \A i \in DOMAIN list : ~IsFor(list[i], c, m)
  BY TimerFound DEF Sound
<1>2. CASE flagged /\ old # 0
  <2>1. k = RemoveAt(list, old)
    BY <1>2 DEF TimerDel
  <2> HIDE DEF k, old
  <2>2. Part(k, list) /\ \A i \in DOMAIN k : \E j \in DOMAIN list \ {old} : k[i] = list[j]
    BY <1>1, <1>2, <2>1, RemovePart
  <2>3. ASSUME NEW i \in DOMAIN k, Pair(k[i]) = <<c, m>> PROVE <<c, m>> \in st
    <3>1. PICK j \in DOMAIN list \ {old} : k[i] = list[j]
      BY <2>2
    <3>2. Pair(list[old]) = <<c, m>>
      BY <1>1, <1>2 DEF IsFor, Pair
    <3> QED
      BY <1>1, <1>2, <2>3, <3>1, <3>2 DEF Sound
  <2>4. Sound(ch, k, au, st)
    BY <2>2, PartSound
  <2> QED
    BY <2>3, <2>4 DEF k
<1>3. CASE ~(flagged /\ old # 0)
  <2>1. k = list
    BY <1>3 DEF TimerDel
  <2>2. ASSUME NEW i \in DOMAIN list, Pair(list[i]) = <<c, m>> PROVE <<c, m>> \in st
    <3>1. list[i].chptr = c /\ list[i].m = m
      BY <2>2 DEF Pair
    <3>2. ~flagged
      BY <1>1, <1>3, <3>1 DEF IsFor
    <3>3. m \notin ch[c].f.timer_flags
      BY <3>1, <3>2 DEF Sound
    <3> QED
      BY <2>2, <3>1, <3>3 DEF Sound
  <2> HIDE DEF k
  <2>3. Sound(ch, k, au, st) /\ \A i \in DOMAIN k : Pair(k[i]) = <<c, m>> => <<c, m>> \in st
    BY <2>1, <2>2
  <2> QED
    BY <2>3 DEF k
<1> QED
  BY <1>2, <1>3

LEMMA ModeDelSound ==
  ASSUME ChanFloodAssumption, FInv, NEW c \in Channel, NEW m, ModeDel(c, m)
  PROVE  FInv'
<1> DEFINE y == chan[c]
           flagged == y.f # NoFlood /\ m \in y.f.timer_flags
           away == {m} \cup Along(y, m)
           list == TimerDel(removefld_list, c, m, flagged)
           f == IF y.f = NoFlood THEN y.f ELSE ResetBy(y.f, m, removefld_list, c)
           x == [y EXCEPT !.mode = @ \ away,
                          !.f = IF @ = NoFlood THEN @ ELSE ResetBy(@, m, removefld_list, c)]
<1>1. /\ DOMAIN y = {"users", "mode", "f"} /\ y.users \in Nat /\ y.users > 0
      /\ y.f \in FloodProt \cup {NoFlood}
      /\ Structs(chan) /\ Sound(chan, removefld_list, auto, stray)
  BY DEF FInv, Structs, ModeDel
<1>2. /\ chan' = [chan EXCEPT ![c] = x] /\ removefld_list' = list
      /\ auto' = auto \ ({c} \X away)
      /\ stray' = stray \cup {p \in {c} \X Along(y, m) : TimerOf(list, c, p[2]) # 0}
  BY DEF ModeDel
<1>3. DOMAIN x = {"users", "mode", "f"} /\ x.users = y.users /\ x.f = f
  BY <1>1
<1>4. /\ f \in FloodProt \cup {NoFlood} /\ (y.f # NoFlood => f # NoFlood)
      /\ y.f # NoFlood => \A o \in y.f.timer_flags : o # m => o \in f.timer_flags
  <2>1. CASE y.f = NoFlood
    BY <2>1
  <2>2. CASE y.f \in FloodProt /\ y.f # NoFlood
    <3> DEFINE g == y.f
               h == ResetBy(g, m, removefld_list, c)
    <3>1. /\ h.timer_flags = FlagsAfterDel(removefld_list, c, m, g.timer_flags)
          /\ h = [g EXCEPT !.c = h.c, !.timer_flags = h.timer_flags]
          /\ h.c \in [Kind -> Nat]
      BY <2>2 DEF ResetBy, FloodProt
    <3>2. g.timer_flags \ {m} \subseteq h.timer_flags /\ h.timer_flags \subseteq g.timer_flags
      BY <3>1 DEF FlagsAfterDel
    <3>3. h \in FloodProt
      <4> HIDE DEF h
      <4> QED
        BY <2>2, <3>1, <3>2 DEF FloodProt
    <3>4. f = h
      BY <2>2
    <3> HIDE DEF g, h, f
    <3> QED
      BY <3>2, <3>3, <3>4 DEF ChanFloodAssumption, g
  <2> QED
    BY <1>1, <2>1, <2>2
<1>5. /\ Sound(chan, list, auto, stray)
      /\ \A i \in DOMAIN list : Pair(list[i]) = <<c, m>> => <<c, m>> \in stray
  <2> HIDE DEF list
  <2> QED
    BY <1>1, DelSound DEF list
<1> HIDE DEF x, f, list, flagged, away
<1>6. ASSUME NEW i \in DOMAIN list
      PROVE  /\ Pair(list[i]) \in stray => Pair(list[i]) \in stray'
             /\ Pair(list[i]) \in auto => Pair(list[i]) \in auto' \cup stray'
  <2>1. Pair(list[i]) \in stray => Pair(list[i]) \in stray'
    BY <1>2
  <2>2. CASE Pair(list[i]) \notin {c} \X away
    BY <1>2, <2>1, <2>2
  <2>3. CASE Pair(list[i]) = <<c, m>>
    BY <1>5, <2>1, <2>3
  <2>4. CASE \E o \in Along(y, m) : Pair(list[i]) = <<c, o>>
    <3>1. PICK o \in Along(y, m) : Pair(list[i]) = <<c, o>>
      BY <2>4
    <3>2. IsFor(list[i], c, o)
      BY <3>1 DEF Pair, IsFor
    <3>3. TimerOf(list, c, o) # 0
      BY <1>5, <3>2, TimerFound DEF Sound
    <3>4. <<c, o>> \in {c} \X Along(y, m) /\ <<c, o>>[2] = o
      OBVIOUS
    <3>5. <<c, o>> \in stray'
      BY <1>2, <3>3, <3>4
    <3> QED
      BY <2>1, <3>1, <3>5
  <2> QED
    BY <2>2, <2>3, <2>4 DEF away, Pair
<1>7. ASSUME NEW i \in DOMAIN list, list[i].chptr = c
      PROVE  /\ x.users > 0 /\ x.f # NoFlood
             /\ list[i].m \in chan[c].f.timer_flags =>
                  list[i].m \in x.f.timer_flags \/ Pair(list[i]) \in stray'
  <2>1. y.f # NoFlood
    BY <1>5, <1>7 DEF Sound
  <2>2. list[i].m = m => Pair(list[i]) \in stray'
    BY <1>2, <1>5, <1>7 DEF Pair
  <2> QED
    BY <1>1, <1>3, <1>4, <2>1, <2>2
<1>8. Sound([chan EXCEPT ![c] = x], list, auto', stray')
  BY <1>1, <1>5, <1>6, <1>7, ChannelFrame
<1>9. Sound(chan', removefld_list', auto', stray') /\ Structs(chan')
  BY <1>1, <1>2, <1>3, <1>4, <1>8, StructsFrame
<1> QED
  BY <1>9 DEF FInv, Structs, Sound

LEMMA SJoinSound ==
  ASSUME ChanFloodAssumption, FInv, NEW c \in Channel, NEW removeours \in BOOLEAN, NEW theirs,
         theirs.f \in Setting \cup {NoFlood}, NEW counted, counted => "join" \in Kind,
         SJoin(c, removeours, theirs, counted)
  PROVE  FInv'
<1> DEFINE f0 == IF removeours THEN NoFlood ELSE chan[c].f
           f1 == IF counted THEN Counted(f0, "join") ELSE f0
           merged == Merged(f1, theirs.f)
           x == [chan[c] EXCEPT !.users = @ + 1,
                                !.mode = IF removeours THEN {} ELSE @,
                                !.f = IF removeours THEN NoFlood ELSE @]
           y == IF counted THEN [x EXCEPT !.f = Counted(@, "join")] ELSE x
           new == {m \in theirs.mode : m = "K" => "i" \in x.mode \cup theirs.mode}
           z == [y EXCEPT !.mode = @ \cup new, !.f = merged]
           kept == IF removeours THEN {p \in stray : p[1] # c} ELSE stray
           list == IF removeours THEN StopChanTimers(removefld_list, c) ELSE removefld_list
<1>1. /\ DOMAIN chan[c] = {"users", "mode", "f"} /\ chan[c].users \in Nat
      /\ chan[c].f \in FloodProt \cup {NoFlood}
      /\ Structs(chan) /\ Sound(chan, removefld_list, auto, stray)
  BY DEF FInv, Structs
<1>2. DOMAIN x = {"users", "mode", "f"} /\ x.users = chan[c].users + 1 /\ x.f = f0
  BY <1>1
<1> HIDE DEF x
<1>3. DOMAIN y = {"users", "mode", "f"} /\ y.users = chan[c].users + 1 /\ y.f = f1
  BY <1>2
<1>4. /\ chan' = [chan EXCEPT ![c] = z] /\ removefld_list' = list
      /\ auto' = IF removeours THEN {p \in auto : p[1] # c} ELSE auto
      /\ stray' = IF f1 = merged \/ removeours THEN kept ELSE kept \cup Running(c)
  <2>1. /\ chan' = [chan EXCEPT ![c] = [y EXCEPT !.mode = @ \cup new, !.f = Merged(y.f, theirs.f)]]
        /\ removefld_list' = list
        /\ auto' = IF removeours THEN {p \in auto : p[1] # c} ELSE auto
        /\ stray' = IF Merged(y.f, theirs.f) = y.f \/ removeours THEN kept ELSE kept \cup Running(c)
    BY DEF SJoin, x
  <2> HIDE DEF y, new, f1
  <2> QED
    BY <1>3, <2>1
<1> HIDE DEF y, new
<1>5. DOMAIN z = {"users", "mode", "f"} /\ z.users = chan[c].users + 1 /\ z.f = merged
  BY <1>3
<1> HIDE DEF z
<1>6. /\ f1 \in FloodProt \cup {NoFlood} /\ (f0 # NoFlood => f1 # NoFlood)
      /\ f0 # NoFlood => f1.timer_flags = f0.timer_flags
  BY <1>1, CountedProt
<1> HIDE DEF f1
<1>7. merged \in FloodProt \cup {NoFlood} /\ (f1 # NoFlood => merged # NoFlood)
  BY <1>6, MergedProt
<1> HIDE DEF merged
<1>8. Structs(chan')
  <2>1. z.users \in Nat
    BY <1>1, <1>5
  <2>2. Structs([chan EXCEPT ![c] = z])
    BY <1>1, <1>5, <1>7, <2>1, StructsFrame
  <2> QED
    BY <1>4, <2>2
<1>9. CASE removeours
  <2>1. /\ auto' = {p \in auto : p[1] # c} /\ stray' = {p \in stray : p[1] # c}
        /\ removefld_list' = StopChanTimers(removefld_list, c)
    BY <1>4, <1>9
  <2>2. Sound([chan EXCEPT ![c] = z], StopChanTimers(removefld_list, c), auto', stray')
    BY <1>1, <2>1, StopSound
  <2>3. Sound(chan', removefld_list', auto', stray')
    BY <1>4, <2>1, <2>2
  <2> QED
    BY <1>8, <2>3 DEF FInv, Structs, Sound
<1>10. CASE ~removeours
  <2>1. /\ removefld_list' = removefld_list /\ auto' = auto /\ stray \subseteq stray'
        /\ merged # f1 => stray' = stray \cup Running(c)
    BY <1>4, <1>10
  <2>2. ASSUME NEW i \in DOMAIN removefld_list, removefld_list[i].chptr = c
        PROVE  /\ z.users > 0 /\ z.f # NoFlood
               /\ removefld_list[i].m \in chan[c].f.timer_flags =>
                    removefld_list[i].m \in z.f.timer_flags \/ Pair(removefld_list[i]) \in stray'
    <3>1. f0 = chan[c].f /\ f0 # NoFlood
      BY <1>1, <1>10, <2>2 DEF Sound
    <3>2. merged # f1 => Pair(removefld_list[i]) \in stray'
      BY <1>1, <2>1, <2>2, LenProperties DEF Running, Timers, Pair, Sound
    <3> HIDE DEF f0
    <3> QED
      BY <1>1, <1>5, <1>6, <1>7, <3>1, <3>2
  <2>3. Sound([chan EXCEPT ![c] = z], removefld_list, auto, stray')
    BY <1>1, <2>1, <2>2, ChannelFrame
  <2>4. Sound(chan', removefld_list', auto', stray')
    BY <1>4, <2>1, <2>3
  <2> QED
    BY <1>8, <2>4 DEF FInv, Structs, Sound
<1> QED
  BY <1>9, <1>10

LEMMA TickSound ==
  ASSUME ChanFloodAssumption, FInv, FloodTick
  PROVE  FInv'
<1> DEFINE list == [i \in DOMAIN removefld_list |->
                      [removefld_list[i] EXCEPT !.left = IF @ = 0 THEN 0 ELSE @ - 1]]
<1>1. Structs(chan) /\ Sound(chan, removefld_list, auto, stray)
  BY DEF FInv
<1>2. /\ chan' = [c \in Channel |-> IF chan[c].f = NoFlood THEN chan[c]
                                    ELSE [chan[c] EXCEPT !.f = Older(@)]]
      /\ removefld_list' = list /\ auto' = auto /\ stray' = stray
  BY DEF FloodTick
<1>3. ASSUME NEW g \in FloodProt PROVE Older(g) \in FloodProt /\ Older(g).timer_flags = g.timer_flags
  BY DEF Older, FloodProt
<1>4. ASSUME NEW c \in Channel
      PROVE  /\ DOMAIN chan'[c] = {"users", "mode", "f"} /\ chan'[c].users = chan[c].users
             /\ chan'[c].f \in FloodProt \cup {NoFlood}
             /\ chan[c].f # NoFlood =>
                  chan'[c].f # NoFlood /\ chan'[c].f.timer_flags = chan[c].f.timer_flags
  <2>1. /\ DOMAIN chan[c] = {"users", "mode", "f"} /\ chan[c].f \in FloodProt \cup {NoFlood}
    BY <1>1 DEF Structs
  <2>2. CASE chan[c].f = NoFlood
    BY <1>2, <2>1, <2>2
  <2>3. CASE chan[c].f # NoFlood
    <3> DEFINE y == [chan[c] EXCEPT !.f = Older(@)]
    <3>1. chan'[c] = y
      BY <1>2, <2>3
    <3>2. DOMAIN y = {"users", "mode", "f"} /\ y.users = chan[c].users /\ y.f = Older(chan[c].f)
      BY <2>1
    <3> HIDE DEF y
    <3> QED
      BY <1>3, <2>1, <2>3, <3>1, <3>2 DEF ChanFloodAssumption
  <2> QED
    BY <2>2, <2>3
<1>5. DOMAIN chan' = Channel /\ chan' = [c \in Channel |-> chan'[c]]
  BY <1>2
<1>6. Structs(chan')
  <2>1. \A c \in Channel : /\ DOMAIN chan'[c] = {"users", "mode", "f"} /\ chan'[c].users \in Nat
                            /\ chan'[c].f \in FloodProt \cup {NoFlood}
    BY <1>1, <1>4 DEF Structs
  <2> QED
    BY <1>5, <2>1 DEF Structs
<1>7. /\ DOMAIN list = DOMAIN removefld_list
      /\ \A i \in DOMAIN removefld_list :
            /\ DOMAIN list[i] = {"chptr", "m", "left"}
            /\ list[i].chptr = removefld_list[i].chptr /\ list[i].m = removefld_list[i].m
  BY <1>1 DEF Sound
<1>8. DOMAIN removefld_list = 1..Len(removefld_list) /\ Len(removefld_list) \in Nat
  BY <1>1, LenProperties DEF Sound
<1>9. list \in Seq(Range(list))
  <2>1. list \in [1..Len(removefld_list) -> Range(list)]
    BY <1>8 DEF Range
  <2> HIDE DEF list
  <2> QED
    BY <1>8, <2>1, SeqDef
<1> HIDE DEF list
<1>10. \A i \in DOMAIN list : Pair(list[i]) = Pair(removefld_list[i])
  BY <1>7 DEF Pair
<1>11. ASSUME NEW i \in DOMAIN list
       PROVE  /\ DOMAIN list[i] = {"chptr", "m", "left"} /\ list[i].chptr \in Channel
              /\ chan'[list[i].chptr].users > 0 /\ chan'[list[i].chptr].f # NoFlood
              /\ list[i].m \in chan'[list[i].chptr].f.timer_flags \/ Pair(list[i]) \in stray
              /\ Pair(list[i]) \in auto \cup stray
  BY <1>1, <1>4, <1>7, <1>10 DEF Sound
<1>12. \A i, j \in DOMAIN list : i # j /\ Pair(list[i]) = Pair(list[j]) => Pair(list[i]) \in stray
  BY <1>1, <1>7, <1>10 DEF Sound
<1>13. Sound(chan', removefld_list', auto', stray')
  BY <1>2, <1>9, <1>11, <1>12 DEF Sound
<1> QED
  BY <1>6, <1>13 DEF FInv, Structs, Sound

LEMMA ModefEventSound ==
  ASSUME FInv, ModefEvent
  PROVE  FInv'
<1> DEFINE rest == Keep(removefld_list, {t \in Timers : t.left > 0})
           pairs == {<<rest[i].chptr, rest[i].m>> : i \in DOMAIN rest}
<1>1. Structs(chan) /\ Sound(chan, removefld_list, auto, stray)
  BY DEF FInv
<1>2. /\ chan' = [c \in Channel |-> [chan[c] EXCEPT !.mode = {m \in @ : <<c, m>> \notin Due}]]
      /\ removefld_list' = rest /\ auto' = auto \ Due /\ stray' = stray \cap pairs
  BY DEF ModefEvent
<1>3. ASSUME NEW c \in Channel
      PROVE  /\ DOMAIN chan'[c] = {"users", "mode", "f"} /\ chan'[c].users = chan[c].users
             /\ chan'[c].f = chan[c].f
  <2> DEFINE y == [chan[c] EXCEPT !.mode = {m \in @ : <<c, m>> \notin Due}]
  <2>1. chan'[c] = y
    BY <1>2
  <2>2. DOMAIN y = {"users", "mode", "f"} /\ y.users = chan[c].users /\ y.f = chan[c].f
    BY <1>1 DEF Structs
  <2> HIDE DEF y
  <2> QED
    BY <2>1, <2>2
<1>4. Structs(chan')
  <2>1. DOMAIN chan' = Channel /\ chan' = [c \in Channel |-> chan'[c]]
    BY <1>2
  <2>2. \A c \in Channel : /\ DOMAIN chan'[c] = {"users", "mode", "f"} /\ chan'[c].users \in Nat
                            /\ chan'[c].f \in FloodProt \cup {NoFlood}
    BY <1>1, <1>3 DEF Structs
  <2> QED
    BY <2>1, <2>2 DEF Structs
<1>5. /\ rest \in Seq(Range(rest)) /\ Range(rest) = Range(removefld_list) \cap {t \in Timers : t.left > 0}
      /\ \E p \in [DOMAIN rest -> DOMAIN removefld_list] :
            /\ \A i, j \in DOMAIN rest : p[i] = p[j] => i = j
            /\ \A i \in DOMAIN rest : rest[i] = removefld_list[p[i]]
      /\ Part(rest, removefld_list)
  <2>1. /\ Range(rest) = Range(removefld_list) \cap {t \in Timers : t.left > 0}
        /\ Part(rest, removefld_list)
    <3> DEFINE A == {t \in Timers : t.left > 0}
    <3> HIDE DEF A
    <3>1. /\ Range(Keep(removefld_list, A)) = Range(removefld_list) \cap A
          /\ Part(Keep(removefld_list, A), removefld_list)
      BY <1>1, KeepPart DEF Sound
    <3> QED
      BY <3>1 DEF A
  <2> HIDE DEF rest
  <2> QED
    BY <2>1 DEF Part
<1> HIDE DEF rest
<1>6. Sound(chan, rest, auto, stray)
  BY <1>1, <1>5, PartSound
<1>7. \A i \in DOMAIN rest : rest[i].left > 0 /\ Pair(rest[i]) \in pairs
  BY <1>5 DEF Range, Pair
<1>8. ASSUME NEW i \in DOMAIN rest, Pair(rest[i]) \in Due PROVE Pair(rest[i]) \in stray
  <2>1. PICK j \in DOMAIN removefld_list :
               removefld_list[j].left = 0 /\ Pair(removefld_list[j]) = Pair(rest[i])
    BY <1>1, <1>8, LenProperties DEF Due, Timers, Pair, Sound
  <2>2. PICK k \in DOMAIN removefld_list : rest[i] = removefld_list[k]
    BY <1>5
  <2>3. j # k
    BY <1>7, <2>1, <2>2
  <2> QED
    BY <1>1, <2>1, <2>2, <2>3 DEF Sound
<1>9. ASSUME NEW i \in DOMAIN rest
      PROVE  LET d == rest[i].chptr
             IN  /\ chan'[d].users > 0 /\ chan'[d].f # NoFlood
                 /\ rest[i].m \in chan[d].f.timer_flags =>
                      rest[i].m \in chan'[d].f.timer_flags \/ Pair(rest[i]) \in stray'
                 /\ Pair(rest[i]) \in stray => Pair(rest[i]) \in stray'
                 /\ Pair(rest[i]) \in auto => Pair(rest[i]) \in auto' \cup stray'
  <2>1. rest[i].chptr \in Channel /\ chan[rest[i].chptr].users > 0 /\ chan[rest[i].chptr].f # NoFlood
    BY <1>6 DEF Sound
  <2>2. Pair(rest[i]) \in stray => Pair(rest[i]) \in stray'
    BY <1>2, <1>7
  <2>3. Pair(rest[i]) \in auto => Pair(rest[i]) \in auto' \cup stray'
    BY <1>2, <1>8, <2>2
  <2> QED
    BY <1>3, <2>1, <2>2, <2>3
<1>10. Sound(chan', rest, auto', stray')
  BY <1>6, <1>9, SoundFrame
<1>11. Sound(chan', removefld_list', auto', stray')
  BY <1>2, <1>10
<1> QED
  BY <1>4, <1>11 DEF FInv, Structs, Sound

LEMMA FInvInit ==
  ASSUME ChanFloodAssumption, FloodInit
  PROVE  FInv
<1>1. DOMAIN removefld_list = {} /\ Range(removefld_list) = {}
      /\ removefld_list \in Seq(Range(removefld_list))
  BY RangeEmpty, LenProperties, EmptySeq DEF FloodInit
<1>2. Structs(chan)
  BY DEF Structs, FloodInit, NoChannel
<1> QED
  BY <1>1, <1>2 DEF FInv, Sound

LEMMA FInvStep ==
  ASSUME ChanFloodAssumption, FInv, [FloodNext]_floodVars
  PROVE  FInv'
<1>1. CASE UNCHANGED floodVars
  <2>1. /\ chan' = chan /\ removefld_list' = removefld_list /\ auto' = auto /\ stray' = stray
    BY <1>1 DEF floodVars
  <2> QED
    BY <2>1 DEF FInv, Structs, Sound
<1>2. CASE Users
  <2>1. PICK c \in Channel, mine \in BOOLEAN, b \in BOOLEAN :
          \/ "join" \in Kind /\ Join(c, mine, b)
          \/ "knock" \in Kind /\ Knock(c, mine)
          \/ {"msg", "ctcp"} \subseteq Kind /\ ChannelMessage(c, mine, b)
          \/ "nick" \in Kind /\ NickChange(c, mine)
          \/ LeaveChannel(c)
    BY <1>2 DEF Users
  <2> QED
    BY <2>1, JoinSound, SaidSound, LeaveSound
<1>3. CASE Modes
  <2>1. PICK c \in Channel :
          \/ \E m \in Mode : ModeAdd(c, m) \/ ModeDel(c, m)
          \/ \E s \in Setting : SetF(c, s)
          \/ DelF(c)
          \/ \E removeours \in BOOLEAN, counted \in {FALSE, "join" \in Kind},
                m \in SUBSET Mode, s \in Setting \cup {NoFlood} :
               SJoin(c, removeours, [mode |-> m, f |-> s], counted)
    BY <1>3 DEF Modes
  <2>2. ASSUME NEW removeours \in BOOLEAN, NEW counted \in {FALSE, "join" \in Kind},
               NEW m \in SUBSET Mode, NEW s \in Setting \cup {NoFlood},
               SJoin(c, removeours, [mode |-> m, f |-> s], counted)
        PROVE  FInv'
    <3> DEFINE theirs == [mode |-> m, f |-> s]
    <3>1. theirs.f \in Setting \cup {NoFlood}
      OBVIOUS
    <3>2. counted => "join" \in Kind
      OBVIOUS
    <3> HIDE DEF theirs
    <3>3. SJoin(c, removeours, theirs, counted)
      BY <2>2 DEF theirs
    <3> QED
      BY <3>1, <3>2, <3>3, SJoinSound
  <2>3. CASE \E m \in Mode : ModeAdd(c, m) \/ ModeDel(c, m)
    BY <2>3, ModeAddSound, ModeDelSound
  <2>4. CASE (\E s \in Setting : SetF(c, s)) \/ DelF(c)
    BY <2>4, SetFSound, DelFSound
  <2> QED
    BY <2>1, <2>2, <2>3, <2>4
<1> QED
  BY <1>1, <1>2, <1>3, TickSound, ModefEventSound DEF FloodNext


----------------------------------------------------------------------------
(* A mode that a flood set is on and has a timer.                          *)
Has(list, p) == \E t \in Range(list) : Pair(t) = p
Timed(ch, list, au) ==
  /\ \A t \in Range(list) : t.left \in Nat
  /\ \A p \in au : p[2] \in ch[p[1]].mode /\ Has(list, p)

LEMMA TimedFrame ==
  ASSUME NEW ch, NEW list, NEW au, Timed(ch, list, au), NEW ch2, NEW list2, NEW au2,
         \A t \in Range(list2) : t.left \in Nat,
         \A p \in au2 : /\ p \in au
                        /\ p[2] \in ch[p[1]].mode => p[2] \in ch2[p[1]].mode
                        /\ Has(list, p) => Has(list2, p)
  PROVE  Timed(ch2, list2, au2)
BY DEF Timed

LEMMA PairsAreLive ==
  ASSUME NEW ch, NEW list, NEW au, NEW st, Sound(ch, list, au, st), NEW p, Has(list, p)
  PROVE  p[1] \in Channel /\ p = <<p[1], p[2]>> /\ ch[p[1]].users > 0 /\ ch[p[1]].f # NoFlood
<1>1. PICK i \in DOMAIN list : Pair(list[i]) = p
  BY DEF Has, Range
<1> QED
  BY <1>1 DEF Sound, Pair

LEMMA AddHas ==
  ASSUME NEW list, list \in Seq(Range(list)), NEW c, NEW m, NEW flagged, NEW when \in Nat,
         \A t \in Range(list) : t.left \in Nat
  PROVE  LET k == TimerAdd(list, c, m, flagged, when)
         IN  /\ \A t \in Range(k) : t.left \in Nat
             /\ Has(k, <<c, m>>) /\ \A p : Has(list, p) => Has(k, p)
<1> DEFINE old == IF flagged THEN TimerOf(list, c, m) ELSE 0
           new == [chptr |-> c, m |-> m, left |-> when]
           k == TimerAdd(list, c, m, flagged, when)
<1>1. Pair(new) = <<c, m>> /\ new.left \in Nat
  BY DEF Pair
<1>2. CASE old # 0
  <2>1. old \in DOMAIN list /\ IsFor(list[old], c, m)
    BY <1>2, TimerFound
  <2>2. k = [list EXCEPT ![old] = new]
    BY <1>2 DEF TimerAdd
  <2>3. Pair(list[old]) = <<c, m>>
    BY <2>1 DEF Pair, IsFor
  <2> HIDE DEF new, old, k
  <2>4. /\ DOMAIN k = DOMAIN list /\ k[old] = new
        /\ \A i \in DOMAIN list : i # old => k[i] = list[i]
    BY <2>1, <2>2
  <2>5. \A i \in DOMAIN list : Pair(k[i]) = Pair(list[i]) /\ k[i].left \in Nat
    BY <1>1, <2>1, <2>3, <2>4 DEF Range
  <2>6. \A p : Has(list, p) => Has(k, p)
    BY <2>4, <2>5 DEF Has, Range
  <2>7. Has(k, <<c, m>>)
    BY <2>1, <2>3, <2>4, <2>5 DEF Has, Range
  <2>8. \A t \in Range(k) : t.left \in Nat
    BY <2>4, <2>5 DEF Range
  <2> QED
    BY <2>6, <2>7, <2>8 DEF k
<1>3. CASE old = 0
  <2> DEFINE S == Range(list) \cup {new}
  <2>1. k = <<new>> \o list
    BY <1>3 DEF TimerAdd
  <2>2. list \in Seq(S) /\ new \in S
    BY LenProperties, ElementOfSeq, SeqDef DEF Range
  <2> HIDE DEF new, old, k, S
  <2>3. Range(k) = {new} \cup Range(list)
    BY <2>1, <2>2, RangeCons
  <2>4. \A p : Has(list, p) => Has(k, p)
    BY <2>3 DEF Has
  <2>5. Has(k, <<c, m>>) /\ \A t \in Range(k) : t.left \in Nat
    BY <1>1, <2>3 DEF Has
  <2> QED
    BY <2>4, <2>5 DEF k
<1> QED
  BY <1>2, <1>3

LEMMA ActionTimed ==
  ASSUME ChanFloodAssumption, NEW ch, Structs(ch), NEW c \in Channel, NEW st,
         NEW s, Good(ch, c, s, st), s.x.f # NoFlood, NEW k \in Kind,
         Timed([ch EXCEPT ![c] = s.x], s.list, s.auto)
  PROVE  Timed([ch EXCEPT ![c] = Action(s, c, k).x], Action(s, c, k).list, Action(s, c, k).auto)
<1> DEFINE f == s.x.f
           m == f.a[k]
           timed == f.r[k] > 0
           y == [s.x EXCEPT !.mode = @ \cup {m},
                            !.f.timer_flags = IF timed THEN @ \cup {m} ELSE @]
           list == IF timed THEN TimerAdd(s.list, c, m, m \in f.timer_flags, f.r[k]) ELSE s.list
           au == IF timed THEN s.auto \cup {<<c, m>>} ELSE s.auto
           ch1 == [ch EXCEPT ![c] = s.x]
           ch2 == [ch EXCEPT ![c] = y]
<1>0. SUFFICES ASSUME m \notin s.x.mode
               PROVE  Timed([ch EXCEPT ![c] = Action(s, c, k).x],
                            Action(s, c, k).list, Action(s, c, k).auto)
  BY DEF Action
<1>1. Action(s, c, k) = [x |-> y, list |-> list, auto |-> au]
  BY <1>0 DEF Action
<1>2. f.r[k] \in Nat
  BY DEF Good, FloodProt
<1>3. y.mode = s.x.mode \cup {m}
  BY DEF Good
<1>4. /\ ch1[c] = s.x /\ ch2[c] = y /\ \A d \in Channel : d # c => ch1[d] = ch[d] /\ ch2[d] = ch[d]
  BY DEF Structs
<1>5. Sound(ch1, s.list, s.auto, st) /\ Timed(ch1, s.list, s.auto)
  BY DEF Good
<1> HIDE DEF y, ch1, ch2
<1>6. /\ \A t \in Range(list) : t.left \in Nat
      /\ \A p : Has(s.list, p) => Has(list, p)
      /\ timed => Has(list, <<c, m>>)
  <2>1. CASE timed
    <3> DEFINE flagged == m \in f.timer_flags
               l == TimerAdd(s.list, c, m, flagged, f.r[k])
    <3>1. list = l
      BY <2>1
    <3> HIDE DEF flagged
    <3>2. /\ \A t \in Range(l) : t.left \in Nat
          /\ Has(l, <<c, m>>) /\ \A p : Has(s.list, p) => Has(l, p)
      BY <1>2, <1>5, AddHas DEF Sound, Timed
    <3> HIDE DEF l, list, timed
    <3> QED
      BY <3>1, <3>2
  <2>2. CASE ~timed
    BY <1>5, <2>2 DEF Timed
  <2> QED
    BY <2>1, <2>2
<1> HIDE DEF list
<1>7. ASSUME NEW p \in au PROVE p[2] \in ch2[p[1]].mode /\ Has(list, p)
  <2>1. CASE p \in s.auto
    <3>1. p[2] \in ch1[p[1]].mode /\ Has(s.list, p) /\ p[1] \in Channel
      BY <1>5, <2>1, PairsAreLive DEF Timed
    <3> QED
      BY <1>3, <1>4, <1>6, <3>1
  <2>2. CASE p = <<c, m>> /\ timed
    <3>1. p[1] = c /\ p[2] = m
      BY <2>2
    <3> QED
      BY <1>3, <1>4, <1>6, <2>2, <3>1
  <2> QED
    BY <2>1, <2>2
<1> HIDE DEF au, timed
<1>8. Timed(ch2, list, au)
  BY <1>6, <1>7 DEF Timed
<1> QED
  BY <1>1, <1>8 DEF ch2

LEMMA StructTimed ==
  ASSUME NEW ch, Structs(ch), NEW c \in Channel, NEW list, NEW au, NEW st, NEW x, NEW y,
         Sound([ch EXCEPT ![c] = x], list, au, st), Timed([ch EXCEPT ![c] = x], list, au),
         x.users > 0 => x.mode \subseteq y.mode
  PROVE  Timed([ch EXCEPT ![c] = y], list, au)
<1> DEFINE ch1 == [ch EXCEPT ![c] = x]
           ch2 == [ch EXCEPT ![c] = y]
<1>1. /\ ch1[c] = x /\ ch2[c] = y /\ \A d \in Channel : d # c => ch1[d] = ch[d] /\ ch2[d] = ch[d]
  BY DEF Structs
<1>2. Sound(ch1, list, au, st) /\ Timed(ch1, list, au)
  OBVIOUS
<1> HIDE DEF ch1, ch2
<1>3. \A p \in au : p[2] \in ch1[p[1]].mode => p[2] \in ch2[p[1]].mode
  <2> SUFFICES ASSUME NEW p \in au, p[2] \in ch1[p[1]].mode PROVE p[2] \in ch2[p[1]].mode
    OBVIOUS
  <2>1. p[1] \in Channel /\ ch1[p[1]].users > 0
    BY <1>2, PairsAreLive DEF Timed
  <2> QED
    BY <1>1, <2>1
<1>4. Timed(ch2, list, au)
  BY <1>2, <1>3 DEF Timed
<1> QED
  BY <1>4 DEF ch2

LEMMA EventTimed ==
  ASSUME ChanFloodAssumption, NEW ch, Structs(ch), NEW c \in Channel, NEW st,
         NEW s, Good(ch, c, s, st), NEW k \in Kind, NEW mine,
         Timed([ch EXCEPT ![c] = s.x], s.list, s.auto)
  PROVE  LET t == Event(s, c, k, mine) IN Timed([ch EXCEPT ![c] = t.x], t.list, t.auto)
<1> DEFINE t == [s EXCEPT !.x.f = Counted(@, k)]
<1>1. Good(ch, c, t, st) /\ t.x.f = Counted(s.x.f, k)
  BY CountedGood
<1>2. Event(s, c, k, mine) = IF IsFlood(s.x.f, k) /\ mine THEN Action(t, c, k) ELSE t
  BY DEF Event
<1>3. t.list = s.list /\ t.auto = s.auto /\ t.x.mode = s.x.mode
  BY DEF Good
<1> HIDE DEF t
<1>4. Timed([ch EXCEPT ![c] = t.x], s.list, s.auto)
  BY <1>3, StructTimed DEF Good
<1>5. Timed([ch EXCEPT ![c] = t.x], t.list, t.auto)
  BY <1>3, <1>4
<1>6. IsFlood(s.x.f, k) => t.x.f # NoFlood
  BY <1>1, CountedProt DEF Good, IsFlood, Restricted
<1>7. CASE IsFlood(s.x.f, k) /\ mine
  BY <1>1, <1>2, <1>5, <1>6, <1>7, ActionTimed
<1>8. CASE ~(IsFlood(s.x.f, k) /\ mine)
  BY <1>2, <1>5, <1>8
<1> QED
  BY <1>7, <1>8

TInv == FInv /\ Timed(chan, removefld_list, auto)

LEMMA AsIsTimed ==
  ASSUME TInv, NEW c \in Channel, NEW x, Good(chan, c, AsIs(x), stray),
         chan[c].users > 0 => chan[c].mode \subseteq x.mode
  PROVE  LET s == AsIs(x) IN Timed([chan EXCEPT ![c] = s.x], s.list, s.auto)
<1>1. chan = [chan EXCEPT ![c] = chan[c]]
  BY DEF TInv, FInv, Structs
<1>2. Timed([chan EXCEPT ![c] = chan[c]], removefld_list, auto)
  BY <1>1 DEF TInv
<1>3. Sound([chan EXCEPT ![c] = chan[c]], removefld_list, auto, stray) /\ Structs(chan)
  BY <1>1 DEF TInv, FInv
<1>4. Timed([chan EXCEPT ![c] = x], removefld_list, auto)
  BY <1>2, <1>3, StructTimed
<1> QED
  BY <1>4 DEF AsIs

LEMMA SetToTimed ==
  ASSUME NEW c \in Channel, NEW s, SetTo(c, s), Timed([chan EXCEPT ![c] = s.x], s.list, s.auto)
  PROVE  Timed(chan', removefld_list', auto')
BY DEF SetTo

LEMMA JoinTimed ==
  ASSUME ChanFloodAssumption, TInv, NEW c \in Channel, NEW mine, NEW counted, "join" \in Kind,
         Join(c, mine, counted)
  PROVE  Timed(chan', removefld_list', auto')
<1> DEFINE x == IF chan[c].users = 0 /\ mine
                THEN [users |-> 1, mode |-> OnJoin.mode, f |-> FreshOr(OnJoin.f)]
                ELSE [chan[c] EXCEPT !.users = @ + 1]
<1>1. /\ DOMAIN chan[c] = {"users", "mode", "f"} /\ chan[c].users \in Nat
      /\ chan[c].f \in FloodProt \cup {NoFlood}
  BY DEF TInv, FInv, Structs
<1>2. FreshOr(OnJoin.f) \in FloodProt \cup {NoFlood}
  BY FreshOrProt DEF ChanFloodAssumption
<1>3. /\ DOMAIN x = {"users", "mode", "f"} /\ x.users \in Nat /\ x.users > 0
      /\ x.f \in FloodProt \cup {NoFlood} /\ (chan[c].users > 0 => x.f = chan[c].f)
      /\ chan[c].users > 0 => chan[c].mode \subseteq x.mode
  BY <1>1, <1>2
<1>4. SetTo(c, IF counted THEN Event(AsIs(x), c, "join", mine) ELSE AsIs(x))
  BY DEF Join
<1> HIDE DEF x
<1> DEFINE s == AsIs(x)
           t == Event(s, c, "join", mine)
<1>5. Good(chan, c, s, stray) /\ Structs(chan)
  BY <1>3, AsIsGood DEF TInv, FInv
<1>6. Timed([chan EXCEPT ![c] = s.x], s.list, s.auto)
  BY <1>3, <1>5, AsIsTimed
<1> HIDE DEF s
<1>7. Timed([chan EXCEPT ![c] = t.x], t.list, t.auto)
  BY <1>5, <1>6, EventTimed
<1>8. SetTo(c, s) \/ SetTo(c, t)
  BY <1>4 DEF s
<1> HIDE DEF t
<1> QED
  BY <1>6, <1>7, <1>8, SetToTimed

LEMMA SaidTimed ==
  ASSUME ChanFloodAssumption, TInv, NEW c \in Channel, NEW mine, NEW ctcp,
         \/ "knock" \in Kind /\ Knock(c, mine)
         \/ {"msg", "ctcp"} \subseteq Kind /\ ChannelMessage(c, mine, ctcp)
         \/ "nick" \in Kind /\ NickChange(c, mine)
  PROVE  Timed(chan', removefld_list', auto')
<1> DEFINE here == AsIs(chan[c])
           E(k) == Event(here, c, k, mine)
<1>1. Good(chan, c, here, stray) /\ Structs(chan)
  BY HereGood DEF Knock, ChannelMessage, NickChange, FInv, TInv
<1>2. Timed([chan EXCEPT ![c] = here.x], here.list, here.auto)
  BY <1>1, AsIsTimed
<1> HIDE DEF here
<1>3. ASSUME NEW k \in Kind
      PROVE  Good(chan, c, E(k), stray) /\ Timed([chan EXCEPT ![c] = E(k).x], E(k).list, E(k).auto)
  BY <1>1, <1>2, EventGood, EventTimed
<1>4. CASE "knock" \in Kind /\ Knock(c, mine)
  <2>1. SetTo(c, E("knock"))
    BY <1>4 DEF Knock, here
  <2> HIDE DEF E
  <2> QED
    BY <1>3, <1>4, <2>1, SetToTimed
<1>5. CASE "nick" \in Kind /\ NickChange(c, mine)
  <2>1. SetTo(c, E("nick"))
    BY <1>5 DEF NickChange, here
  <2> HIDE DEF E
  <2> QED
    BY <1>3, <1>5, <2>1, SetToTimed
<1>6. CASE {"msg", "ctcp"} \subseteq Kind /\ ChannelMessage(c, mine, ctcp)
  <2> DEFINE said == E("msg")
             both == Event(said, c, "ctcp", mine)
  <2>1. SetTo(c, both) \/ SetTo(c, said)
    BY <1>6 DEF ChannelMessage, here
  <2>2. Good(chan, c, said, stray) /\ Timed([chan EXCEPT ![c] = said.x], said.list, said.auto)
    BY <1>3, <1>6
  <2> HIDE DEF said
  <2>3. Timed([chan EXCEPT ![c] = both.x], both.list, both.auto)
    BY <1>1, <1>6, <2>2, EventTimed
  <2> HIDE DEF both
  <2> QED
    BY <2>1, <2>2, <2>3, SetToTimed
<1> QED
  BY <1>4, <1>5, <1>6

(* The modes of another channel, or of this one, stay on.                  *)
LEMMA StopTimed ==
  ASSUME TInv, NEW c \in Channel, NEW x, NEW au2, au2 = {p \in auto : p[1] # c}
  PROVE  Timed([chan EXCEPT ![c] = x], StopChanTimers(removefld_list, c), au2)
<1> DEFINE k == StopChanTimers(removefld_list, c)
           ch2 == [chan EXCEPT ![c] = x]
<1>1. Range(k) = {t \in Range(removefld_list) : t.chptr # c}
  BY KeepPart DEF StopChanTimers, Sound, FInv, TInv
<1>2. \A d \in Channel : d # c => ch2[d] = chan[d]
  BY DEF TInv, FInv, Structs
<1> HIDE DEF k, ch2
<1>3. ASSUME NEW p \in au2
      PROVE  /\ p \in auto /\ (p[2] \in chan[p[1]].mode => p[2] \in ch2[p[1]].mode)
             /\ Has(removefld_list, p) => Has(k, p)
  <2>1. p \in auto /\ p[1] # c /\ p[1] \in Channel
    BY PairsAreLive DEF TInv, FInv, Timed
  <2>2. ASSUME Has(removefld_list, p) PROVE Has(k, p)
    <3>1. PICK t \in Range(removefld_list) : Pair(t) = p
      BY <2>2 DEF Has
    <3>2. t.chptr # c
      BY <2>1, <3>1 DEF Pair
    <3> QED
      BY <1>1, <3>1, <3>2 DEF Has
  <2> QED
    BY <1>2, <2>1, <2>2
<1>4. \A t \in Range(k) : t.left \in Nat
  BY <1>1 DEF TInv, Timed
<1>5. Timed(ch2, k, au2)
  BY <1>3, <1>4, TimedFrame DEF TInv
<1> QED
  BY <1>5 DEF k, ch2

LEMMA SameTimed ==
  ASSUME TInv, NEW c \in Channel, NEW x, chan[c].mode \subseteq x.mode
  PROVE  Timed([chan EXCEPT ![c] = x], removefld_list, auto)
<1>1. chan = [chan EXCEPT ![c] = chan[c]]
  BY DEF TInv, FInv, Structs
<1> QED
  BY <1>1, StructTimed DEF TInv, FInv

LEMMA OtherTimed ==
  ASSUME ChanFloodAssumption, TInv, NEW c \in Channel,
         \/ LeaveChannel(c)
         \/ \E m : ModeAdd(c, m)
         \/ \E s : SetF(c, s)
         \/ DelF(c)
  PROVE  Timed(chan', removefld_list', auto')
<1>0. DOMAIN chan[c] = {"users", "mode", "f"}
  BY DEF TInv, FInv, Structs
<1>1. CASE LeaveChannel(c) /\ chan[c].users = 1
  <2>1. /\ chan' = [chan EXCEPT ![c] = NoChannel] /\ auto' = {p \in auto : p[1] # c}
        /\ removefld_list' = StopChanTimers(removefld_list, c)
    BY <1>1 DEF LeaveChannel
  <2>2. Timed([chan EXCEPT ![c] = NoChannel], StopChanTimers(removefld_list, c), auto')
    BY <2>1, StopTimed
  <2> QED
    BY <2>1, <2>2
<1>2. CASE DelF(c)
  <2> DEFINE x == [chan[c] EXCEPT !.f = NoFlood]
  <2>1. /\ chan' = [chan EXCEPT ![c] = x] /\ auto' = {p \in auto : p[1] # c}
        /\ removefld_list' = StopChanTimers(removefld_list, c)
    BY <1>2 DEF DelF
  <2> HIDE DEF x
  <2>2. Timed([chan EXCEPT ![c] = x], StopChanTimers(removefld_list, c), auto')
    BY <2>1, StopTimed
  <2> QED
    BY <2>1, <2>2
<1>3. ASSUME NEW x, chan' = [chan EXCEPT ![c] = x], chan[c].mode \subseteq x.mode,
             removefld_list' = removefld_list, auto' = auto
      PROVE  Timed(chan', removefld_list', auto')
  BY <1>3, SameTimed
<1>4. CASE LeaveChannel(c) /\ chan[c].users # 1
  <2> DEFINE x == [chan[c] EXCEPT !.users = @ - 1]
  <2>1. chan' = [chan EXCEPT ![c] = x] /\ removefld_list' = removefld_list /\ auto' = auto
    BY <1>4 DEF LeaveChannel
  <2>2. x.mode = chan[c].mode
    BY <1>0
  <2> HIDE DEF x
  <2> QED
    BY <1>3, <2>1, <2>2
<1>5. ASSUME NEW m, ModeAdd(c, m) PROVE Timed(chan', removefld_list', auto')
  <2> DEFINE x == [chan[c] EXCEPT !.mode = @ \cup {m}]
  <2>1. chan' = [chan EXCEPT ![c] = x] /\ removefld_list' = removefld_list /\ auto' = auto
    BY <1>5 DEF ModeAdd
  <2>2. x.mode = chan[c].mode \cup {m}
    BY <1>0
  <2> HIDE DEF x
  <2> QED
    BY <1>3, <2>1, <2>2
<1>6. ASSUME NEW s, SetF(c, s) PROVE Timed(chan', removefld_list', auto')
  <2> DEFINE x == [chan[c] EXCEPT !.f = NewProt(s)]
  <2>1. chan' = [chan EXCEPT ![c] = x] /\ removefld_list' = removefld_list /\ auto' = auto
    BY <1>6 DEF SetF
  <2>2. x.mode = chan[c].mode
    BY <1>0
  <2> HIDE DEF x
  <2> QED
    BY <1>3, <2>1, <2>2
<1> QED
  BY <1>1, <1>2, <1>4, <1>5, <1>6

LEMMA ModeDelTimed ==
  ASSUME TInv, NEW c \in Channel, NEW m, ModeDel(c, m)
  PROVE  Timed(chan', removefld_list', auto')
<1> DEFINE y == chan[c]
           flagged == y.f # NoFlood /\ m \in y.f.timer_flags
           away == {m} \cup Along(y, m)
           old == TimerOf(removefld_list, c, m)
           list == TimerDel(removefld_list, c, m, flagged)
           x == [y EXCEPT !.mode = @ \ away,
                          !.f = IF @ = NoFlood THEN @ ELSE ResetBy(@, m, removefld_list, c)]
           ch2 == [chan EXCEPT ![c] = x]
<1>1. DOMAIN y = {"users", "mode", "f"} /\ removefld_list \in Seq(Range(removefld_list))
  BY DEF TInv, FInv, Structs, Sound
<1>2. chan' = ch2 /\ removefld_list' = list /\ auto' = auto \ ({c} \X away)
  BY DEF ModeDel
<1>3. x.mode = y.mode \ away
  BY <1>1
<1>4. ch2[c] = x /\ \A d \in Channel : d # c => ch2[d] = chan[d]
  BY DEF TInv, FInv, Structs
<1> HIDE DEF x
<1>5. Range(list) \subseteq Range(removefld_list) /\ \A t \in Range(removefld_list) : Pair(t) # <<c, m>> => t \in Range(list)
  <2>1. CASE flagged /\ old # 0
    <3>1. old \in DOMAIN removefld_list /\ Pair(removefld_list[old]) = <<c, m>>
      BY <1>1, <2>1, TimerFound DEF IsFor, Pair
    <3>2. list = RemoveAt(removefld_list, old)
      BY <2>1 DEF TimerDel
    <3> HIDE DEF list, old
    <3>3. /\ \A i \in DOMAIN list : \E j \in DOMAIN removefld_list \ {old} : list[i] = removefld_list[j]
          /\ \A j \in DOMAIN removefld_list \ {old} : removefld_list[j] \in Range(list)
      BY <1>1, <3>1, <3>2, RemovePart
    <3> QED
      BY <3>1, <3>3 DEF Range
  <2>2. CASE ~(flagged /\ old # 0)
    BY <2>2 DEF TimerDel
  <2> QED
    BY <2>1, <2>2
<1> HIDE DEF list, ch2, away
<1>6. ASSUME NEW p \in auto'
      PROVE  /\ p \in auto /\ (p[2] \in chan[p[1]].mode => p[2] \in ch2[p[1]].mode)
             /\ Has(removefld_list, p) => Has(list, p)
  <2>1. /\ p \in auto /\ p \notin {c} \X away /\ p[1] \in Channel /\ p = <<p[1], p[2]>>
    BY <1>2, PairsAreLive DEF TInv, FInv, Timed
  <2>2. p[1] = c => p[2] \notin away
    BY <2>1
  <2>3. p # <<c, m>>
    BY <2>1 DEF away
  <2> QED
    BY <1>3, <1>4, <1>5, <2>1, <2>2, <2>3 DEF Has
<1>7. \A t \in Range(list) : t.left \in Nat
  BY <1>5 DEF TInv, Timed
<1>8. Timed(ch2, list, auto')
  BY <1>6, <1>7, TimedFrame DEF TInv
<1> QED
  BY <1>2, <1>8

LEMMA SJoinTimed ==
  ASSUME TInv, NEW c \in Channel, NEW removeours \in BOOLEAN, NEW theirs, NEW counted,
         SJoin(c, removeours, theirs, counted)
  PROVE  Timed(chan', removefld_list', auto')
<1> DEFINE x == [chan[c] EXCEPT !.users = @ + 1,
                                !.mode = IF removeours THEN {} ELSE @,
                                !.f = IF removeours THEN NoFlood ELSE @]
           y == IF counted THEN [x EXCEPT !.f = Counted(@, "join")] ELSE x
           new == {m \in theirs.mode : m = "K" => "i" \in x.mode \cup theirs.mode}
           z == [y EXCEPT !.mode = @ \cup new, !.f = Merged(y.f, theirs.f)]
<1>1. DOMAIN chan[c] = {"users", "mode", "f"}
  BY DEF TInv, FInv, Structs
<1>2. DOMAIN x = {"users", "mode", "f"} /\ (~removeours => x.mode = chan[c].mode)
  BY <1>1
<1>3. /\ chan' = [chan EXCEPT ![c] = z]
      /\ removefld_list' = IF removeours THEN StopChanTimers(removefld_list, c) ELSE removefld_list
      /\ auto' = IF removeours THEN {p \in auto : p[1] # c} ELSE auto
  BY DEF SJoin
<1> HIDE DEF x
<1>4. DOMAIN y = {"users", "mode", "f"} /\ y.mode = x.mode
  BY <1>2
<1> HIDE DEF y, new
<1>5. z.mode = y.mode \cup new
  BY <1>4
<1> HIDE DEF z
<1>6. CASE removeours
  <2>1. Timed([chan EXCEPT ![c] = z], StopChanTimers(removefld_list, c), auto')
    BY <1>3, <1>6, StopTimed
  <2> QED
    BY <1>3, <1>6, <2>1
<1>7. CASE ~removeours
  <2>1. Timed([chan EXCEPT ![c] = z], removefld_list, auto)
    BY <1>2, <1>4, <1>5, <1>7, SameTimed
  <2> QED
    BY <1>3, <1>7, <2>1
<1> QED
  BY <1>6, <1>7

LEMMA TickTimed ==
  ASSUME TInv, FloodTick
  PROVE  Timed(chan', removefld_list', auto')
<1> DEFINE list == [i \in DOMAIN removefld_list |->
                      [removefld_list[i] EXCEPT !.left = IF @ = 0 THEN 0 ELSE @ - 1]]
<1>1. /\ chan' = [c \in Channel |-> IF chan[c].f = NoFlood THEN chan[c]
                                    ELSE [chan[c] EXCEPT !.f = Older(@)]]
      /\ removefld_list' = list /\ auto' = auto
  BY DEF FloodTick
<1>2. \A c \in Channel : chan'[c].mode = chan[c].mode
  BY <1>1 DEF TInv, FInv, Structs
<1>3. /\ DOMAIN list = DOMAIN removefld_list
      /\ \A i \in DOMAIN list : list[i].left \in Nat /\ Pair(list[i]) = Pair(removefld_list[i])
  <2>1. \A i \in DOMAIN removefld_list :
           DOMAIN removefld_list[i] = {"chptr", "m", "left"} /\ removefld_list[i].left \in Nat
    BY DEF TInv, FInv, Sound, Timed, Range
  <2>2. \A i \in DOMAIN list : /\ list[i].chptr = removefld_list[i].chptr
                               /\ list[i].m = removefld_list[i].m /\ list[i].left \in Nat
    BY <2>1
  <2> HIDE DEF list
  <2>3. \A i \in DOMAIN list : Pair(list[i]) = Pair(removefld_list[i])
    BY <2>2 DEF Pair
  <2>4. DOMAIN list = DOMAIN removefld_list
    BY DEF list
  <2> QED
    BY <2>2, <2>3, <2>4
<1> HIDE DEF list
<1>4. \A t \in Range(list) : t.left \in Nat
  BY <1>3 DEF Range
<1>5. ASSUME NEW p \in auto
      PROVE  /\ p[2] \in chan[p[1]].mode => p[2] \in chan'[p[1]].mode
             /\ Has(removefld_list, p) => Has(list, p)
  <2>1. p[1] \in Channel
    BY PairsAreLive DEF TInv, FInv, Timed
  <2>2. Has(removefld_list, p) => Has(list, p)
    BY <1>3 DEF Has, Range
  <2> QED
    BY <1>2, <2>1, <2>2
<1>6. Timed(chan', list, auto)
  BY <1>4, <1>5, TimedFrame DEF TInv
<1> QED
  BY <1>1, <1>6

LEMMA ModefEventTimed ==
  ASSUME TInv, ModefEvent
  PROVE  Timed(chan', removefld_list', auto')
<1> DEFINE A == {t \in Timers : t.left > 0}
           rest == Keep(removefld_list, A)
<1>1. /\ chan' = [c \in Channel |-> [chan[c] EXCEPT !.mode = {m \in @ : <<c, m>> \notin Due}]]
      /\ removefld_list' = rest /\ auto' = auto \ Due
  BY DEF ModefEvent
<1>2. \A c \in Channel : chan'[c].mode = {m \in chan[c].mode : <<c, m>> \notin Due}
  BY <1>1 DEF TInv, FInv, Structs
<1>3. Timers = Range(removefld_list)
  BY LenProperties DEF Timers, Range, TInv, FInv, Sound
<1>4. Range(rest) = Range(removefld_list) \cap A
  <2> HIDE DEF A
  <2> QED
    BY KeepPart DEF TInv, FInv, Sound
<1> HIDE DEF rest
<1>5. \A t \in Range(rest) : t.left \in Nat
  BY <1>4 DEF TInv, Timed
<1>6. ASSUME NEW p \in auto'
      PROVE  /\ p \in auto /\ (p[2] \in chan[p[1]].mode => p[2] \in chan'[p[1]].mode)
             /\ Has(removefld_list, p) => Has(rest, p)
  <2>1. p \in auto /\ p \notin Due /\ p[1] \in Channel /\ p = <<p[1], p[2]>>
    BY <1>1, PairsAreLive DEF TInv, FInv, Timed
  <2>2. ASSUME NEW t \in Range(removefld_list), Pair(t) = p PROVE t \in Range(rest)
    <3>1. t.left # 0 /\ t.left \in Nat
      BY <1>3, <2>1, <2>2 DEF Due, Pair, TInv, Timed
    <3> QED
      BY <1>3, <1>4, <3>1
  <2> QED
    BY <1>2, <2>1, <2>2 DEF Has
<1>7. Timed(chan', rest, auto')
  BY <1>5, <1>6, TimedFrame DEF TInv
<1> QED
  BY <1>1, <1>7

LEMMA TInvInit ==
  ASSUME ChanFloodAssumption, FloodInit
  PROVE  TInv
BY FInvInit, RangeEmpty DEF FloodInit, TInv, Timed

LEMMA TInvStep ==
  ASSUME ChanFloodAssumption, TInv, [FloodNext]_floodVars
  PROVE  TInv'
<1>0. FInv'
  BY FInvStep DEF TInv
<1>1. Timed(chan', removefld_list', auto')
  <2>1. CASE UNCHANGED floodVars
    BY <2>1 DEF floodVars, TInv
  <2>2. CASE Users
    <3>1. PICK c \in Channel, mine \in BOOLEAN, b \in BOOLEAN :
            \/ "join" \in Kind /\ Join(c, mine, b)
            \/ "knock" \in Kind /\ Knock(c, mine)
            \/ {"msg", "ctcp"} \subseteq Kind /\ ChannelMessage(c, mine, b)
            \/ "nick" \in Kind /\ NickChange(c, mine)
            \/ LeaveChannel(c)
      BY <2>2 DEF Users
    <3> QED
      BY <3>1, JoinTimed, SaidTimed, OtherTimed
  <2>3. CASE Modes
    <3>1. PICK c \in Channel :
            \/ \E m \in Mode : ModeAdd(c, m) \/ ModeDel(c, m)
            \/ \E s \in Setting : SetF(c, s)
            \/ DelF(c)
            \/ \E removeours \in BOOLEAN, counted \in {FALSE, "join" \in Kind},
                  m \in SUBSET Mode, s \in Setting \cup {NoFlood} :
                 SJoin(c, removeours, [mode |-> m, f |-> s], counted)
      BY <2>3 DEF Modes
    <3>2. CASE \E removeours \in BOOLEAN, counted \in {FALSE, "join" \in Kind},
                  m \in SUBSET Mode, s \in Setting \cup {NoFlood} :
                 SJoin(c, removeours, [mode |-> m, f |-> s], counted)
      BY <3>2, SJoinTimed
    <3> QED
      BY <3>1, <3>2, ModeDelTimed, OtherTimed
  <2> QED
    BY <2>1, <2>2, <2>3, TickTimed, ModefEventTimed DEF FloodNext
<1> QED
  BY <1>0, <1>1 DEF TInv, Timed


(* Flood timers: whatever MODE, SJOIN and the end of a channel do, a timer *)
(* is of a channel that exists and has +f; a mode that a flood set, and    *)
(* that nobody touched, is on and has the timer that takes it back; and    *)
(* modef_event takes back no other mode, unless -i with +K or a new +f     *)
(* left a timer behind.  Of any number of channels, timers and settings.   *)
THEOREM OnlyFloodModesEnd ==
  ASSUME ChanFloodAssumption
  PROVE  FloodSpec => []TimersLive /\ []AutoHasTimer /\ OnlyFloodModesExpire
<1>1. FloodInit => TInv
  BY TInvInit
<1>2. TInv /\ [FloodNext]_floodVars => TInv'
  BY TInvStep
<1>3. TInv => TimersLive
  BY LenProperties DEF TInv, FInv, Sound, TimersLive, Timers
<1>4. TInv => AutoHasTimer
  <2> SUFFICES ASSUME TInv, NEW p \in auto
               PROVE  p[2] \in chan[p[1]].mode /\ TimerOf(removefld_list, p[1], p[2]) # 0
    BY DEF AutoHasTimer
  <2>1. p[2] \in chan[p[1]].mode /\ Has(removefld_list, p)
    BY DEF TInv, Timed
  <2>2. PICK i \in DOMAIN removefld_list : Pair(removefld_list[i]) = p
    BY <2>1 DEF Has, Range
  <2>3. IsFor(removefld_list[i], p[1], p[2])
    BY <2>2 DEF Pair, IsFor
  <2> QED
    BY <2>1, <2>3, TimerFound DEF TInv, FInv, Sound
<1>5. TInv => [\A c \in Channel : \A m \in chan[c].mode \ chan'[c].mode :
                 removefld_list' # removefld_list /\ <<c, m>> \in Due /\ ModefEvent
                   => <<c, m>> \in auto \cup stray]_floodVars
  <2>1. TInv => Due \subseteq auto \cup stray
    BY LenProperties DEF TInv, FInv, Sound, Due, Timers, Pair
  <2> QED
    BY <2>1
<1> QED
  BY <1>1, <1>2, <1>3, <1>4, <1>5, PTL DEF FloodSpec, OnlyFloodModesExpire
----------------------------------------------------------------------------
(* Position j of the chain of all nicks is the slot that was filled j      *)
(* entries ago.                                                            *)
Filled == Len(WHOWASHASH)
Back(j) == IF j <= whowas_next THEN whowas_next - j ELSE whowas_next - j + HistoryLength
Ring ==
  /\ Filled <= HistoryLength /\ (Filled < HistoryLength => whowas_next = Filled)
  /\ \A j \in 1..Filled : WHOWASHASH[j] = Back(j)

Entry(j) == WHOWAS[WHOWASHASH[j]]
Ages == \A j, k \in 1..Filled : j <= k => Entry(j).age <= Entry(k).age
NoName ==
  \A i \in Slot : IF \E j \in 1..Filled : WHOWASHASH[j] = i THEN WHOWAS[i].name # None
                  ELSE WHOWAS[i] = UnusedEntry
Chains == \A u \in Owner : Range(clist[u]) = {i \in Slot : WHOWAS[i].online = u}
Leads == \A i \in Slot : WHOWAS[i].online # None => nick[WHOWAS[i].online] # None

(* Who left n last is in the entry since, and no newer one is for n.       *)
LastFor(n) ==
  LET k == left[n].since
  IN  /\ \A j \in 1..Filled : j < k \/ k = 0 => Entry(j).name # n
      /\ k \in 1..HistoryLength =>
           /\ k <= Filled
           /\ Entry(k) = [name |-> n, online |-> left[n].user, age |-> left[n].age]
      /\ k = HistoryLength + 1 => Filled = HistoryLength
Left == [user : Owner \cup {None}, age : 0..TimeLimit + 1, since : 0..HistoryLength + 1]
LeftLast == left \in [WasNick -> Left] /\ \A n \in WasNick : LastFor(n)

WhowasInv == WhowasTypeOK /\ Ring /\ NoName /\ Ages /\ Chains /\ Leads /\ LeftLast

----------------------------------------------------------------------------
(* An entry that comes in moves all others one place, the oldest off.      *)
Enters ==
  /\ WHOWASHASH' = <<whowas_next>> \o Keep(WHOWASHASH, Slot \ {whowas_next})
  /\ whowas_next' = NextSlot

LEMMA ChainMoves ==
  ASSUME WhowasTypeOK, Ring, Enters
  PROVE  /\ WHOWASHASH' \in Seq(Slot) /\ whowas_next' \in Slot
         /\ Filled \in Nat /\ Filled' = IF Filled < HistoryLength THEN Filled + 1 ELSE HistoryLength
         /\ WHOWASHASH'[1] = whowas_next
         /\ \A j \in 2..Filled' : WHOWASHASH'[j] = WHOWASHASH[j - 1] /\ WHOWASHASH'[j] # whowas_next
         /\ \A j \in 1..Filled : WHOWASHASH[j] = whowas_next => j = HistoryLength
<1> DEFINE w == whowas_next
           s == WHOWASHASH
           A == Slot \ {w}
           f == SubSeq(s, 1, HistoryLength - 1)
<1>1. s \in Seq(Slot) /\ w \in Slot /\ HistoryLength \in Nat \ {0}
  BY WhowasAssumption DEF WhowasTypeOK
<1>2. Filled \in Nat /\ \A j \in 1..Filled : s[j] \in Slot
  BY <1>1, LenProperties DEF Filled
<1>3. \A j \in 1..Filled : s[j] = w => j = HistoryLength
  BY <1>1, <1>2 DEF Ring, Back, Slot
<1>4. PICK k \in Seq(Slot) : /\ k = Keep(s, A)
                             /\ Len(k) = IF Filled < HistoryLength THEN Filled ELSE HistoryLength - 1
                             /\ \A j \in 1..Len(k) : k[j] = s[j]
  <2>1. CASE Filled < HistoryLength
    <3>1. \A j \in 1..Len(s) : s[j] \in A
      BY <1>2, <1>3, <2>1, <1>1 DEF Filled
    <3>2. Keep(s, A) = s
      BY <1>1, <3>1, KeepAll
    <3> QED
      BY <1>1, <3>2, <2>1 DEF Filled
  <2>2. CASE Filled = HistoryLength
    <3>1. /\ f \in Seq(Slot) /\ Len(f) = HistoryLength - 1
          /\ \A j \in 1..(HistoryLength - 1) : f[j] = s[j]
      BY <1>1, <1>2, <2>2, SubSeqProperties DEF Filled
    <3>2. s[HistoryLength] = w
      BY <1>1, <2>2 DEF Ring, Back, Slot
    <3>3. Append(f, w) = s
      <4>1. /\ Append(f, w) \in Seq(Slot) /\ Len(Append(f, w)) = HistoryLength
            /\ Append(f, w)[HistoryLength] = w
            /\ \A j \in 1..(HistoryLength - 1) : Append(f, w)[j] = f[j]
        BY <1>1, <3>1, AppendProperties
      <4>2. \A j \in 1..HistoryLength : Append(f, w)[j] = s[j]
        BY <1>1, <3>1, <3>2, <4>1
      <4> QED
        BY <1>1, <2>2, <4>1, <4>2, SeqEqual DEF Filled
    <3>4. Keep(f, A) = f
      <4>1. \A j \in 1..Len(f) : f[j] \in A
        BY <1>1, <1>2, <1>3, <2>2, <3>1
      <4> QED
        BY <3>1, <4>1, KeepAll
    <3>5. Keep(s, A) = f
      <4>1. Keep(Append(f, w), A) = Keep(f, A)
        <5>1. w \in Slot /\ w \notin A /\ f \in Seq(Slot)
          BY <1>1, <3>1
        <5> HIDE DEF f, A, w
        <5> QED
          BY <5>1, KeepAppend
      <4> QED
        BY <3>3, <3>4, <4>1
    <3>6. Len(f) = HistoryLength - 1 /\ ~(Filled < HistoryLength)
      BY <1>1, <2>2, <3>1
    <3> HIDE DEF f, A, s
    <3> QED
      BY <3>1, <3>5, <3>6
  <2>3. Filled < HistoryLength \/ Filled = HistoryLength
    BY <1>1, <1>2 DEF Ring
  <2> QED
    BY <2>1, <2>2, <2>3
<1>5. WHOWASHASH' = <<w>> \o k
  BY <1>4 DEF Enters
<1>6. /\ <<w>> \o k \in Seq(Slot) /\ Len(<<w>> \o k) = Len(k) + 1 /\ (<<w>> \o k)[1] = w
      /\ \A j \in 2..(Len(k) + 1) : (<<w>> \o k)[j] = k[j - 1]
  <2>1. <<w>> \in Seq(Slot) /\ Len(<<w>>) = 1 /\ <<w>>[1] = w
    BY <1>1
  <2> QED
    BY <1>4, <2>1, ConcatProperties, LenProperties
<1>7. Filled' = Len(k) + 1 /\ Len(k) \in Nat
  BY <1>4, <1>5, <1>6, LenProperties DEF Filled
<1>8. whowas_next' \in Slot
  BY <1>1 DEF Enters, NextSlot, Slot
<1>9. \A j \in 2..Filled' : WHOWASHASH'[j] = WHOWASHASH[j - 1] /\ WHOWASHASH'[j] # w
  <2> SUFFICES ASSUME NEW j \in 2..Filled'
               PROVE  WHOWASHASH'[j] = s[j - 1] /\ s[j - 1] # w
    OBVIOUS
  <2>1. j - 1 \in 1..Len(k) /\ j - 1 \in 1..Filled /\ j - 1 # HistoryLength
    BY <1>1, <1>2, <1>4, <1>7
  <2> QED
    BY <1>3, <1>4, <1>5, <1>6, <1>7, <2>1
<1>10. Filled' = IF Filled < HistoryLength THEN Filled + 1 ELSE HistoryLength
  BY <1>1, <1>2, <1>4, <1>7
<1> QED
  BY <1>2, <1>3, <1>5, <1>6, <1>8, <1>9, <1>10
Slots == [name : WasNick \cup {None}, online : Owner \cup {None}, age : 0..TimeLimit + 1]

(* What an entry for n does to the others: their users may go offline.     *)
EntryFor(n) ==
  /\ Enters /\ WHOWAS' \in [Slot -> Slots]
  /\ WHOWAS'[whowas_next].name = n /\ WHOWAS'[whowas_next].age = 0
  /\ \A i \in Slot \ {whowas_next} :
       \/ WHOWAS'[i] = WHOWAS[i]
       \/ WHOWAS[i].online # None /\ WHOWAS'[i] = [WHOWAS[i] EXCEPT !.online = None]

LEMMA RingMoves ==
  ASSUME WhowasTypeOK, Ring, Enters
  PROVE  Ring'
<1>1. /\ Filled \in Nat /\ Filled' = IF Filled < HistoryLength THEN Filled + 1 ELSE HistoryLength
      /\ WHOWASHASH'[1] = whowas_next
      /\ \A j \in 2..Filled' : WHOWASHASH'[j] = WHOWASHASH[j - 1]
  BY ChainMoves
<1>2. HistoryLength \in Nat \ {0} /\ whowas_next \in 0..HistoryLength - 1 /\ whowas_next' = NextSlot
  BY WhowasAssumption DEF WhowasTypeOK, Slot, Enters
<1>3. Filled' <= HistoryLength /\ (Filled' < HistoryLength => whowas_next' = Filled')
  BY <1>1, <1>2 DEF NextSlot, Ring
<1>4. ASSUME NEW j \in 1..Filled' PROVE WHOWASHASH'[j] = Back(j)'
  <2>1. CASE j = 1
    BY <1>1, <1>2, <2>1 DEF Back, NextSlot
  <2>2. CASE j # 1
    <3>1. j - 1 \in 1..Filled /\ j \in 2..Filled' /\ j - 1 < HistoryLength
      BY <1>1, <1>2, <2>2 DEF Ring
    <3>2. WHOWASHASH'[j] = Back(j - 1)
      BY <1>1, <3>1 DEF Ring
    <3> QED
      BY <1>2, <3>1, <3>2 DEF Back, NextSlot
  <2> QED
    BY <2>1, <2>2
<1> QED
  BY <1>3, <1>4 DEF Ring

LEMMA EntriesMove ==
  ASSUME WhowasInv, NEW n \in WasNick, EntryFor(n)
  PROVE  /\ WHOWAS'[WHOWASHASH'[1]].name = n /\ WHOWAS'[WHOWASHASH'[1]].age = 0
         /\ \A j \in 2..Filled' :
              /\ j - 1 \in 1..Filled /\ WHOWASHASH'[j] = WHOWASHASH[j - 1]
              /\ WHOWASHASH[j - 1] \in Slot \ {whowas_next}
              /\ WHOWAS'[WHOWASHASH'[j]].name = WHOWAS[WHOWASHASH[j - 1]].name
              /\ WHOWAS'[WHOWASHASH'[j]].age = WHOWAS[WHOWASHASH[j - 1]].age
<1>1. /\ Filled \in Nat /\ Filled' = IF Filled < HistoryLength THEN Filled + 1 ELSE HistoryLength
      /\ WHOWASHASH'[1] = whowas_next
      /\ \A j \in 2..Filled' : WHOWASHASH'[j] = WHOWASHASH[j - 1] /\ WHOWASHASH'[j] # whowas_next
  BY ChainMoves DEF WhowasInv, EntryFor
<1>2. WHOWASHASH \in Seq(Slot) /\ WHOWAS \in [Slot -> Slots] /\ HistoryLength \in Nat \ {0}
  BY WhowasAssumption DEF WhowasInv, WhowasTypeOK, Slots
<1>3. \A j \in 1..Filled : WHOWASHASH[j] \in Slot
  BY <1>2, LenProperties DEF Filled
<1>4. ASSUME NEW j \in 2..Filled'
      PROVE  /\ j - 1 \in 1..Filled /\ WHOWASHASH'[j] = WHOWASHASH[j - 1]
             /\ WHOWASHASH[j - 1] \in Slot \ {whowas_next}
  <2>1. j - 1 \in 1..Filled
    BY <1>1, <1>2 DEF WhowasInv, Ring
  <2> QED
    BY <1>1, <1>3, <2>1
<1>5. \A i \in Slot \ {whowas_next} : WHOWAS'[i].name = WHOWAS[i].name /\ WHOWAS'[i].age = WHOWAS[i].age
  BY <1>2 DEF EntryFor, Slots
<1> QED
  BY <1>1, <1>4, <1>5 DEF EntryFor

LEMMA AgesMove ==
  ASSUME WhowasInv, NEW n \in WasNick, EntryFor(n)
  PROVE  Ages' /\ NoName'
<1>1. /\ WHOWAS'[WHOWASHASH'[1]].name = n /\ WHOWAS'[WHOWASHASH'[1]].age = 0
      /\ \A j \in 2..Filled' :
           /\ j - 1 \in 1..Filled /\ WHOWASHASH'[j] = WHOWASHASH[j - 1]
           /\ WHOWASHASH[j - 1] \in Slot \ {whowas_next}
           /\ WHOWAS'[WHOWASHASH'[j]].name = WHOWAS[WHOWASHASH[j - 1]].name
           /\ WHOWAS'[WHOWASHASH'[j]].age = WHOWAS[WHOWASHASH[j - 1]].age
  BY EntriesMove
<1>2. WHOWAS \in [Slot -> Slots] /\ HistoryLength \in Nat \ {0} /\ TimeLimit \in Nat
  BY WhowasAssumption DEF WhowasInv, WhowasTypeOK, Slots
<1>3. /\ Filled \in Nat /\ Filled' = IF Filled < HistoryLength THEN Filled + 1 ELSE HistoryLength
      /\ WHOWASHASH'[1] = whowas_next
      /\ \A j \in 1..Filled : WHOWASHASH[j] = whowas_next => j = HistoryLength
  BY ChainMoves DEF WhowasInv, EntryFor
<1>4. Filled' \in Nat /\ Filled' >= 1 /\ Filled <= HistoryLength
  BY <1>2, <1>3 DEF WhowasInv, Ring
<1>5. ASSUME NEW j \in 1..Filled', NEW k \in 1..Filled', j <= k
      PROVE  WHOWAS'[WHOWASHASH'[j]].age <= WHOWAS'[WHOWASHASH'[k]].age
  <2>1. CASE j = 1 /\ k = 1
    BY <1>1, <2>1
  <2>2. CASE j = 1 /\ k # 1
    <3>1. k \in 2..Filled'
      BY <2>2
    <3>2. WHOWAS[WHOWASHASH[k - 1]].age \in 0..TimeLimit + 1
      BY <1>1, <1>2, <3>1 DEF Slots
    <3> QED
      BY <1>1, <1>2, <2>2, <3>1, <3>2
  <2>3. CASE j # 1
    <3>1. j \in 2..Filled' /\ k \in 2..Filled' /\ j - 1 <= k - 1
      BY <1>4, <1>5, <2>3
    <3>2. WHOWAS[WHOWASHASH[j - 1]].age <= WHOWAS[WHOWASHASH[k - 1]].age
      BY <1>1, <3>1 DEF WhowasInv, Ages, Entry
    <3> QED
      BY <1>1, <3>1, <3>2
  <2> QED
    BY <2>1, <2>2, <2>3
<1>6. Ages'
  BY <1>5 DEF Ages, Entry
<1>7. ASSUME NEW i \in Slot
      PROVE  IF \E j \in 1..Filled' : WHOWASHASH'[j] = i THEN WHOWAS'[i].name # None
             ELSE WHOWAS'[i] = UnusedEntry
  <2>1. CASE i = whowas_next
    <3>1. 1 \in 1..Filled' /\ WHOWAS'[i].name # None
      BY <1>4, <2>1, WhowasAssumption DEF EntryFor
    <3> QED
      BY <1>3, <2>1, <3>1
  <2>2. CASE i # whowas_next /\ \E j \in 1..Filled : WHOWASHASH[j] = i
    <3>1. PICK j \in 1..Filled : WHOWASHASH[j] = i
      BY <2>2
    <3>2. WHOWAS[i].name # None
      BY <2>2 DEF WhowasInv, NoName
    <3>3. j < HistoryLength
      <4>1. CASE j = HistoryLength
        BY <1>2, <1>3, <1>4, <2>2, <3>1, <4>1 DEF WhowasInv, WhowasTypeOK, Ring, Back, Slot
      <4> QED
        BY <1>2, <1>3, <1>4, <4>1
    <3>4. j + 1 \in 2..Filled' /\ (j + 1) - 1 = j
      BY <1>2, <1>3, <1>4, <3>3
    <3>5. WHOWASHASH'[j + 1] = i /\ WHOWAS'[i].name = WHOWAS[i].name
      BY <1>1, <3>1, <3>4
    <3>6. j + 1 \in 1..Filled' /\ WHOWAS'[i].name # None
      BY <1>4, <3>2, <3>4, <3>5
    <3> QED
      BY <3>5, <3>6
  <2>3. CASE i # whowas_next /\ ~\E j \in 1..Filled : WHOWASHASH[j] = i
    <3>1. ~\E j \in 1..Filled' : WHOWASHASH'[j] = i
      BY <1>1, <1>3, <2>3
    <3>2. WHOWAS[i] = UnusedEntry
      BY <2>3 DEF WhowasInv, NoName
    <3>3. WHOWAS'[i] = UnusedEntry
      BY <2>3, <3>2 DEF EntryFor, UnusedEntry
    <3> QED
      BY <3>1, <3>3
  <2> QED
    BY <2>1, <2>2, <2>3
<1>8. NoName'
  BY <1>7 DEF NoName
<1> QED
  BY <1>6, <1>8
(* Who left m is one place further down, or off the ring.                  *)
LEMMA LastMoves ==
  ASSUME WhowasInv, NEW n \in WasNick, EntryFor(n), NEW m \in WasNick \ {n},
         left'[m].since = IF left[m].since \in 1..HistoryLength THEN left[m].since + 1
                          ELSE left[m].since,
         left'[m].age = left[m].age,
         \A i \in Slot \ {whowas_next} :
           WHOWAS[i].name = m /\ WHOWAS[i].online = left[m].user =>
             WHOWAS'[i].online = left'[m].user
  PROVE  LastFor(m)'
<1> DEFINE k == left[m].since
<1>1. /\ WHOWAS'[WHOWASHASH'[1]].name = n /\ WHOWAS'[WHOWASHASH'[1]].age = 0
      /\ \A j \in 2..Filled' :
           /\ j - 1 \in 1..Filled /\ WHOWASHASH'[j] = WHOWASHASH[j - 1]
           /\ WHOWASHASH[j - 1] \in Slot \ {whowas_next}
           /\ WHOWAS'[WHOWASHASH'[j]].name = WHOWAS[WHOWASHASH[j - 1]].name
           /\ WHOWAS'[WHOWASHASH'[j]].age = WHOWAS[WHOWASHASH[j - 1]].age
  BY EntriesMove
<1>2. WHOWAS \in [Slot -> Slots] /\ WHOWAS' \in [Slot -> Slots] /\ HistoryLength \in Nat \ {0}
  BY WhowasAssumption DEF WhowasInv, WhowasTypeOK, Slots, EntryFor
<1>3. Filled \in Nat /\ Filled' = IF Filled < HistoryLength THEN Filled + 1 ELSE HistoryLength
  BY ChainMoves DEF WhowasInv, EntryFor
<1>4. Filled' \in Nat /\ Filled' >= 1 /\ Filled <= HistoryLength
  BY <1>2, <1>3 DEF WhowasInv, Ring
<1>5. k \in 0..HistoryLength + 1 /\ LastFor(m)
  BY DEF WhowasInv, LeftLast, Left
<1>6. ASSUME NEW j \in 1..Filled', j < left'[m].since \/ left'[m].since = 0
      PROVE  WHOWAS'[WHOWASHASH'[j]].name # m
  <2>1. CASE j = 1
    BY <1>1, <2>1
  <2>2. CASE j # 1
    <3>1. j \in 2..Filled' /\ (j - 1 < k \/ k = 0) /\ j - 1 \in 1..Filled
      BY <1>1, <1>2, <1>3, <1>4, <1>5, <1>6, <2>2 DEF WhowasInv, Ring
    <3>2. WHOWAS[WHOWASHASH[j - 1]].name # m
      BY <1>5, <3>1 DEF LastFor, Entry
    <3> QED
      BY <1>1, <3>1, <3>2
  <2> QED
    BY <2>1, <2>2
<1>7. ASSUME left'[m].since \in 1..HistoryLength
      PROVE  /\ left'[m].since <= Filled'
             /\ WHOWAS'[WHOWASHASH'[left'[m].since]] =
                  [name |-> m, online |-> left'[m].user, age |-> left'[m].age]
  <2>1. k \in 1..HistoryLength /\ left'[m].since = k + 1
    BY <1>2, <1>5, <1>7
  <2>2. k <= Filled /\ WHOWAS[WHOWASHASH[k]] = [name |-> m, online |-> left[m].user, age |-> left[m].age]
    BY <1>5, <2>1 DEF LastFor, Entry
  <2>3. k + 1 <= Filled' /\ k + 1 \in 2..Filled' /\ (k + 1) - 1 = k
    BY <1>2, <1>3, <1>4, <1>7, <2>1, <2>2
  <2>4. /\ WHOWASHASH'[k + 1] = WHOWASHASH[k] /\ WHOWASHASH[k] \in Slot \ {whowas_next}
        /\ WHOWAS'[WHOWASHASH[k]].name = m /\ WHOWAS'[WHOWASHASH[k]].age = left'[m].age
    BY <1>1, <2>2, <2>3
  <2>5. WHOWAS'[WHOWASHASH[k]].online = left'[m].user /\ WHOWAS'[WHOWASHASH[k]] \in Slots
    BY <1>2, <2>2, <2>4
  <2> QED
    BY <2>1, <2>3, <2>4, <2>5 DEF Slots
<1>8. left'[m].since = HistoryLength + 1 => Filled' = HistoryLength
  BY <1>2, <1>3, <1>4, <1>5 DEF LastFor
<1> QED
  BY <1>6, <1>7, <1>8 DEF LastFor, Entry

LEMMA LastEnters ==
  ASSUME WhowasInv, NEW n \in WasNick, EntryFor(n),
         left'[n] = [user |-> WHOWAS'[whowas_next].online, age |-> 0, since |-> 1]
  PROVE  LastFor(n)'
<1>1. HistoryLength \in Nat \ {0} /\ WHOWAS' \in [Slot -> Slots] /\ whowas_next \in Slot
  BY WhowasAssumption DEF WhowasInv, WhowasTypeOK, EntryFor
<1>2. /\ Filled \in Nat /\ Filled' = IF Filled < HistoryLength THEN Filled + 1 ELSE HistoryLength
      /\ WHOWASHASH'[1] = whowas_next
  BY ChainMoves DEF WhowasInv, EntryFor
<1>3. WHOWAS'[whowas_next] = [name |-> n, online |-> WHOWAS'[whowas_next].online, age |-> 0]
  BY <1>1 DEF EntryFor, Slots
<1>4. left'[n].since = 1 /\ 1 <= Filled' /\ ~(1 = HistoryLength + 1)
  BY <1>1, <1>2
<1> QED
  BY <1>2, <1>3, <1>4 DEF LastFor, Entry
----------------------------------------------------------------------------
(* The slot that is used again leaves the chain of its user.               *)
LEMMA ReusedChains ==
  ASSUME WhowasInv
  PROVE  /\ Reused(clist) \in [Owner -> Seq(Slot)]
         /\ \A v \in Owner : Range(Reused(clist)[v]) =
                               {i \in Slot \ {whowas_next} : WHOWAS[i].online = v}
<1> DEFINE A == Slot \ {whowas_next}
<1>1. clist \in [Owner -> Seq(Slot)] /\ \A v \in Owner : Range(clist[v]) = {i \in Slot : WHOWAS[i].online = v}
  BY DEF WhowasInv, WhowasTypeOK, Chains
<1>2. ASSUME NEW v \in Owner
      PROVE  Keep(clist[v], A) \in Seq(Slot) /\ Range(Keep(clist[v], A)) = Range(clist[v]) \cap A
  BY <1>1, KeepMembers
<1>3. \A v \in Owner : Reused(clist)[v] = IF v = WHOWAS[whowas_next].online
                                           THEN Keep(clist[v], A) ELSE clist[v]
  BY DEF Reused
<1>4. ASSUME NEW v \in Owner
      PROVE  /\ Reused(clist)[v] \in Seq(Slot)
             /\ Range(Reused(clist)[v]) = {i \in A : WHOWAS[i].online = v}
  <2>1. CASE v = WHOWAS[whowas_next].online
    BY <1>1, <1>2, <1>3, <2>1
  <2>2. CASE v # WHOWAS[whowas_next].online
    BY <1>1, <1>3, <2>2
  <2> QED
    BY <2>1, <2>2
<1>5. Reused(clist) \in [Owner -> Seq(Slot)]
  BY <1>4 DEF Reused
<1> QED
  BY <1>4, <1>5

LEMMA ChangesNickSound ==
  ASSUME WhowasInv, NEW u \in Owner, NEW n \in WasNick, ChangesNick(u, n)
  PROVE  WhowasInv'
<1> DEFINE w == whowas_next
           old == nick[u]
<1>1. /\ nick \in [Owner -> WasNick \cup {None}] /\ WHOWAS \in [Slot -> Slots]
      /\ w \in Slot /\ HistoryLength \in Nat \ {0} /\ TimeLimit \in Nat /\ old \in WasNick
      /\ None \notin Owner /\ None \notin WasNick /\ left \in [WasNick -> Left]
  BY WhowasAssumption DEF WhowasInv, WhowasTypeOK, LeftLast, ChangesNick, Slots
<1>2. /\ WHOWAS' = [WHOWAS EXCEPT ![w] = [name |-> old, online |-> u, age |-> 0]]
      /\ clist' = [Reused(clist) EXCEPT ![u] = <<w>> \o Reused(clist)[u]] /\ Enters
      /\ nick' = [nick EXCEPT ![u] = n]
      /\ left' = [m \in WasNick |->
                   IF m = old THEN [user |-> u, age |-> 0, since |-> 1]
                   ELSE [left[m] EXCEPT !.since = IF @ \in 1..HistoryLength THEN @ + 1 ELSE @]]
  BY DEF ChangesNick, AddHistory, Leaves, Enters
<1>3. WHOWAS' \in [Slot -> Slots] /\ WHOWAS'[w] = [name |-> old, online |-> u, age |-> 0]
      /\ \A i \in Slot \ {w} : WHOWAS'[i] = WHOWAS[i]
  BY <1>1, <1>2 DEF Slots
<1>4. EntryFor(old)
  BY <1>2, <1>3 DEF EntryFor
<1>5. Ring' /\ Ages' /\ NoName' /\ WHOWASHASH' \in Seq(Slot) /\ whowas_next' \in Slot
  BY <1>1, <1>2, <1>4, RingMoves, AgesMove, ChainMoves DEF WhowasInv
<1>6. clist' \in [Owner -> Seq(Slot)] /\ Chains'
  <2>1. /\ Reused(clist) \in [Owner -> Seq(Slot)]
        /\ \A v \in Owner : Range(Reused(clist)[v]) = {i \in Slot \ {w} : WHOWAS[i].online = v}
    BY ReusedChains
  <2>2. /\ <<w>> \o Reused(clist)[u] \in Seq(Slot)
        /\ Range(<<w>> \o Reused(clist)[u]) = {w} \cup Range(Reused(clist)[u])
    <3>1. <<w>> \in Seq(Slot)
      BY <1>1
    <3> QED
      BY <1>1, <2>1, <3>1, RangeCons, ConcatProperties
  <2>3. ASSUME NEW v \in Owner PROVE Range(clist'[v]) = {i \in Slot : WHOWAS'[i].online = v}
    BY <1>1, <1>2, <1>3, <2>1, <2>2
  <2> QED
    BY <1>2, <2>1, <2>2, <2>3 DEF Chains
<1>7. Leads'
  BY <1>1, <1>2, <1>3 DEF WhowasInv, Leads
<1>8. left' \in [WasNick -> Left]
  <2>1. ASSUME NEW m \in WasNick PROVE left'[m] \in Left
    <3>1. left[m] \in Left
      BY <1>1
    <3>2. CASE m = old
      BY <1>1, <1>2, <3>2 DEF Left
    <3>3. CASE m # old
      <4>1. left'[m] = [left[m] EXCEPT !.since = IF @ \in 1..HistoryLength THEN @ + 1 ELSE @]
        BY <1>2, <3>3
      <4> QED
        BY <1>1, <3>1, <4>1 DEF Left
    <3> QED
      BY <3>2, <3>3
  <2>2. left' = [m \in WasNick |-> left'[m]]
    BY <1>2
  <2> QED
    BY <2>1, <2>2
<1>9. ASSUME NEW m \in WasNick PROVE LastFor(m)'
  <2>1. CASE m = old
    BY <1>1, <1>2, <1>3, <1>4, <2>1, LastEnters
  <2>2. CASE m # old
    <3>1. /\ left'[m].since = IF left[m].since \in 1..HistoryLength THEN left[m].since + 1
                              ELSE left[m].since
          /\ left'[m].age = left[m].age /\ left'[m].user = left[m].user
      BY <1>1, <1>2, <2>2 DEF Left
    <3> QED
      BY <1>1, <1>3, <1>4, <2>2, <3>1, LastMoves
  <2> QED
    BY <2>1, <2>2
<1>10. WhowasTypeOK'
  BY <1>1, <1>2, <1>3, <1>5, <1>6 DEF WhowasTypeOK, Slots
<1> QED
  BY <1>5, <1>6, <1>7, <1>8, <1>9, <1>10 DEF WhowasInv, LeftLast

LEMMA ClientExitsSound ==
  ASSUME WhowasInv, NEW u \in Owner, ClientExits(u)
  PROVE  WhowasInv'
<1> DEFINE w == whowas_next
           old == nick[u]
           mid == [WHOWAS EXCEPT ![w] = [name |-> old, online |-> None, age |-> 0]]
<1>1. /\ nick \in [Owner -> WasNick \cup {None}] /\ WHOWAS \in [Slot -> Slots]
      /\ w \in Slot /\ HistoryLength \in Nat \ {0} /\ TimeLimit \in Nat /\ old \in WasNick
      /\ None \notin Owner /\ None \notin WasNick /\ left \in [WasNick -> Left]
  BY WhowasAssumption DEF WhowasInv, WhowasTypeOK, LeftLast, ClientExits, Slots
<1>2. /\ WHOWAS' = OffHistory(mid, Reused(clist)[u])
      /\ clist' = [Reused(clist) EXCEPT ![u] = <<>>] /\ Enters
      /\ nick' = [nick EXCEPT ![u] = None]
  BY DEF ClientExits, LastEntry, Enters
<1>3. /\ Reused(clist) \in [Owner -> Seq(Slot)]
      /\ \A v \in Owner : Range(Reused(clist)[v]) = {i \in Slot \ {w} : WHOWAS[i].online = v}
  BY ReusedChains
<1>4. mid \in [Slot -> Slots] /\ mid[w] = [name |-> old, online |-> None, age |-> 0]
      /\ \A i \in Slot \ {w} : mid[i] = WHOWAS[i]
  BY <1>1 DEF Slots
<1>5. ASSUME NEW i \in Slot
      PROVE  /\ WHOWAS'[i] \in Slots
             /\ i = w => WHOWAS'[i] = [name |-> old, online |-> None, age |-> 0]
             /\ i # w /\ WHOWAS[i].online = u => WHOWAS'[i] = [WHOWAS[i] EXCEPT !.online = None]
             /\ i # w /\ WHOWAS[i].online # u => WHOWAS'[i] = WHOWAS[i]
  <2>1. i \in ToSet(Reused(clist)[u]) <=> i # w /\ WHOWAS[i].online = u
    BY <1>1, <1>3 DEF ToSet, Range
  <2>2. WHOWAS'[i] = IF i # w /\ WHOWAS[i].online = u THEN [mid[i] EXCEPT !.online = None] ELSE mid[i]
    BY <1>2, <2>1 DEF OffHistory
  <2> HIDE DEF mid
  <2> QED
    BY <1>1, <1>4, <2>2 DEF Slots
<1>6. WHOWAS' \in [Slot -> Slots]
  BY <1>2, <1>5 DEF OffHistory
<1>15. ASSUME NEW i \in Slot
       PROVE  WHOWAS'[i].online = IF i = w \/ WHOWAS[i].online = u THEN None ELSE WHOWAS[i].online
  <2>1. CASE i = w
    <3>1. WHOWAS'[i] = [name |-> old, online |-> None, age |-> 0]
      BY <1>5, <2>1
    <3> QED
      BY <3>1, <2>1
  <2>2. CASE i # w /\ WHOWAS[i].online = u
    <3>1. WHOWAS'[i] = [WHOWAS[i] EXCEPT !.online = None] /\ WHOWAS[i] \in Slots
      BY <1>1, <1>5, <2>2
    <3> QED
      BY <3>1, <2>2 DEF Slots
  <2>3. CASE i # w /\ WHOWAS[i].online # u
    BY <1>5, <2>3
  <2> QED
    BY <2>1, <2>2, <2>3
<1>7. EntryFor(old)
  <2>1. WHOWAS'[w].name = old /\ WHOWAS'[w].age = 0
    <3>1. WHOWAS'[w] = [name |-> old, online |-> None, age |-> 0]
      BY <1>1, <1>5
    <3> QED
      BY <3>1
  <2>2. ASSUME NEW i \in Slot \ {w}
        PROVE  \/ WHOWAS'[i] = WHOWAS[i]
               \/ WHOWAS[i].online # None /\ WHOWAS'[i] = [WHOWAS[i] EXCEPT !.online = None]
    BY <1>1, <1>5
  <2> QED
    BY <1>2, <1>6, <2>1, <2>2 DEF EntryFor
<1>8. Ring' /\ Ages' /\ NoName' /\ WHOWASHASH' \in Seq(Slot) /\ whowas_next' \in Slot
  BY <1>1, <1>2, <1>7, RingMoves, AgesMove, ChainMoves DEF WhowasInv
<1>9. clist' \in [Owner -> Seq(Slot)] /\ Chains'
  <2>1. ASSUME NEW v \in Owner PROVE Range(clist'[v]) = {i \in Slot : WHOWAS'[i].online = v}
    <3>1. CASE v = u
      <4>1. clist'[v] = <<>>
        BY <1>2, <1>3, <3>1
      <4>2. \A i \in Slot : WHOWAS'[i].online # u
        BY <1>1, <1>15
      <4> QED
        BY <4>1, <4>2, <3>1, RangeEmpty
    <3>2. CASE v # u
      <4>1. clist'[v] = Reused(clist)[v]
        BY <1>2, <1>3, <3>2
      <4>2. \A i \in Slot : WHOWAS'[i].online = v <=> i # w /\ WHOWAS[i].online = v
        BY <1>1, <1>15, <3>2
      <4> QED
        BY <1>3, <4>1, <4>2
    <3> QED
      BY <3>1, <3>2
  <2> QED
    BY <1>2, <1>3, <2>1, RangeEmpty DEF Chains
<1>10. Leads'
  <2>1. \A i \in Slot : WHOWAS'[i].online # None => WHOWAS'[i].online = WHOWAS[i].online /\ WHOWAS[i].online # u
    BY <1>1, <1>15
  <2> QED
    BY <1>1, <1>2, <2>1 DEF WhowasInv, Leads, Slots
<1>11. ASSUME NEW m \in WasNick
       PROVE  /\ left'[m] \in Left
              /\ m = old => left'[m] = [user |-> None, age |-> 0, since |-> 1]
              /\ m # old =>
                   /\ left'[m].since = IF left[m].since \in 1..HistoryLength THEN left[m].since + 1
                                       ELSE left[m].since
                   /\ left'[m].age = left[m].age
                   /\ left'[m].user = IF left[m].user = u THEN None ELSE left[m].user
  <2>1. CASE m = old
    <3>1. left'[m] = [user |-> None, age |-> 0, since |-> 1]
      BY <2>1 DEF ClientExits, Nobody
    <3> QED
      BY <1>1, <2>1, <3>1 DEF Left
  <2>2. CASE m # old
    <3> DEFINE g == IF left[m].user = u THEN [left[m] EXCEPT !.user = None] ELSE left[m]
    <3>1. left'[m] = [g EXCEPT !.since = IF @ \in 1..HistoryLength THEN @ + 1 ELSE @]
      BY <2>2 DEF ClientExits, Forget
    <3>2. left[m] \in Left
      BY <1>1
    <3>3. g \in Left /\ g.since = left[m].since /\ g.age = left[m].age
          /\ g.user = IF left[m].user = u THEN None ELSE left[m].user
      BY <3>2 DEF Left
    <3> HIDE DEF g
    <3> QED
      BY <1>1, <2>2, <3>1, <3>3 DEF Left
  <2> QED
    BY <2>1, <2>2
<1>12. left' \in [WasNick -> Left]
  <2>2. left' = [m \in WasNick |-> left'[m]]
    BY DEF ClientExits
  <2> QED
    BY <1>11, <2>2
<1>13. ASSUME NEW m \in WasNick PROVE LastFor(m)'
  <2>1. CASE m = old
    <3>1. left'[old] = [user |-> WHOWAS'[w].online, age |-> 0, since |-> 1]
      BY <1>1, <1>11, <1>15
    <3> QED
      BY <1>1, <1>7, <2>1, <3>1, LastEnters
  <2>2. CASE m # old
    <3>1. /\ left'[m].since = IF left[m].since \in 1..HistoryLength THEN left[m].since + 1
                              ELSE left[m].since
          /\ left'[m].age = left[m].age
          /\ left'[m].user = IF left[m].user = u THEN None ELSE left[m].user
      BY <1>11, <2>2
    <3>2. \A i \in Slot \ {w} : WHOWAS[i].online = left[m].user => WHOWAS'[i].online = left'[m].user
      BY <1>1, <1>15, <3>1
    <3> QED
      BY <1>1, <1>7, <2>2, <3>1, <3>2, LastMoves
  <2> QED
    BY <2>1, <2>2
<1>14. WhowasTypeOK'
  BY <1>1, <1>2, <1>6, <1>8, <1>9 DEF WhowasTypeOK, Slots
<1> QED
  BY <1>8, <1>9, <1>10, <1>12, <1>13, <1>14 DEF WhowasInv, LeftLast
LEMMA ComesSound ==
  ASSUME WhowasInv, NEW u \in Owner, NEW n \in WasNick, Comes(u, n)
  PROVE  WhowasInv'
<1>1. /\ UNCHANGED <<WHOWAS, WHOWASHASH, clist, whowas_next, left>>
      /\ nick' = [nick EXCEPT ![u] = n] /\ nick \in [Owner -> WasNick \cup {None}]
      /\ None \notin WasNick /\ WHOWAS \in [Slot -> Slots]
  BY WhowasAssumption DEF Comes, WhowasInv, WhowasTypeOK, Slots
<1>2. WhowasTypeOK'
  BY <1>1 DEF WhowasInv, WhowasTypeOK
<1>3. Leads'
  BY <1>1 DEF WhowasInv, Leads, Slots
<1>4. Ring' /\ NoName' /\ Ages' /\ Chains' /\ LeftLast'
  BY <1>1 DEF WhowasInv, Ring, NoName, Ages, Chains, LeftLast, LastFor, Entry, Filled, Back
<1> QED
  BY <1>2, <1>3, <1>4 DEF WhowasInv

LEMMA TimePassesSound ==
  ASSUME WhowasInv, TimePasses
  PROVE  WhowasInv'
<1> DEFINE older(a) == IF a <= TimeLimit THEN a + 1 ELSE a
<1>1. /\ WHOWAS \in [Slot -> Slots] /\ left \in [WasNick -> Left] /\ WHOWASHASH \in Seq(Slot)
      /\ HistoryLength \in Nat \ {0} /\ TimeLimit \in Nat /\ None \notin WasNick
  BY WhowasAssumption DEF WhowasInv, WhowasTypeOK, LeftLast, Slots
<1>2. /\ WHOWAS' = [i \in Slot |->
                     [WHOWAS[i] EXCEPT !.age = IF WHOWAS[i].name = None THEN 0 ELSE older(@)]]
      /\ left' = [n \in WasNick |->
                   [left[n] EXCEPT !.age = IF left[n].since = 0 THEN 0 ELSE older(@)]]
      /\ UNCHANGED <<nick, WHOWASHASH, clist, whowas_next>>
  BY DEF TimePasses
<1>3. \A a \in 0..TimeLimit + 1 : older(a) \in 0..TimeLimit + 1
  BY <1>1
<1>4. \A a, b \in 0..TimeLimit + 1 : a <= b => older(a) <= older(b)
  BY <1>1
<1> HIDE DEF older
<1>5. ASSUME NEW i \in Slot
      PROVE  /\ WHOWAS'[i] \in Slots /\ WHOWAS'[i].name = WHOWAS[i].name
             /\ WHOWAS'[i].online = WHOWAS[i].online
             /\ WHOWAS'[i].age = IF WHOWAS[i].name = None THEN 0 ELSE older(WHOWAS[i].age)
             /\ WHOWAS'[i] = [name |-> WHOWAS[i].name, online |-> WHOWAS[i].online,
                              age |-> WHOWAS'[i].age]
  <2>1. /\ WHOWAS[i] \in Slots
        /\ WHOWAS'[i] = [WHOWAS[i] EXCEPT !.age = IF WHOWAS[i].name = None THEN 0 ELSE older(@)]
    BY <1>1, <1>2
  <2>2. 0 \in 0..TimeLimit + 1
    BY <1>1
  <2> QED
    BY <1>3, <2>1, <2>2 DEF Slots
<1>6. ASSUME NEW n \in WasNick
      PROVE  /\ left'[n] \in Left /\ left'[n].user = left[n].user /\ left'[n].since = left[n].since
             /\ left'[n].age = IF left[n].since = 0 THEN 0 ELSE older(left[n].age)
  <2>1. /\ left[n] \in Left
        /\ left'[n] = [left[n] EXCEPT !.age = IF left[n].since = 0 THEN 0 ELSE older(@)]
    BY <1>1, <1>2
  <2>2. 0 \in 0..TimeLimit + 1
    BY <1>1
  <2> QED
    BY <1>3, <2>1, <2>2 DEF Left
<1>7. WHOWAS' \in [Slot -> Slots] /\ left' \in [WasNick -> Left]
  BY <1>2, <1>5, <1>6
<1>8. WhowasTypeOK' /\ Ring'
  BY <1>2, <1>7 DEF WhowasInv, WhowasTypeOK, Ring, Filled, Back, Slots
<1>9. \A j \in 1..Filled : WHOWASHASH[j] \in Slot /\ WHOWAS[WHOWASHASH[j]].name # None
  <2>1. \A j \in 1..Filled : WHOWASHASH[j] \in Slot
    BY <1>1, LenProperties DEF Filled
  <2> QED
    BY <2>1 DEF WhowasInv, NoName
<1>10. NoName' /\ Chains' /\ Leads'
  <2>1. ASSUME NEW i \in Slot, WHOWAS[i] = UnusedEntry PROVE WHOWAS'[i] = UnusedEntry
    <3>1. WHOWAS[i].name = None /\ WHOWAS[i].online = None
      BY <2>1 DEF UnusedEntry
    <3>2. WHOWAS'[i] = [name |-> None, online |-> None, age |-> 0]
      BY <1>5, <3>1
    <3> QED
      BY <3>2 DEF UnusedEntry
  <2>2. NoName'
    BY <1>2, <1>5, <2>1 DEF WhowasInv, NoName, Filled
  <2>3. \A v \in Owner : {i \in Slot : WHOWAS'[i].online = v} = {i \in Slot : WHOWAS[i].online = v}
    BY <1>5
  <2>4. Chains'
    BY <1>2, <2>3 DEF WhowasInv, Chains
  <2>5. Leads'
    <3>1. \A i \in Slot : WHOWAS'[i].online = WHOWAS[i].online
      BY <1>5
    <3> QED
      BY <1>2, <3>1 DEF WhowasInv, Leads
  <2> QED
    BY <2>2, <2>4, <2>5
<1>11. \A j \in 1..Filled : WHOWAS'[WHOWASHASH[j]].age = older(WHOWAS[WHOWASHASH[j]].age)
  BY <1>5, <1>9
<1>12. ASSUME NEW j \in 1..Filled, NEW k \in 1..Filled, j <= k
       PROVE  WHOWAS'[WHOWASHASH[j]].age <= WHOWAS'[WHOWASHASH[k]].age
  <2>1. WHOWAS[WHOWASHASH[j]].age <= WHOWAS[WHOWASHASH[k]].age
    BY <1>12 DEF WhowasInv, Ages, Entry
  <2>2. /\ WHOWAS[WHOWASHASH[j]].age \in 0..TimeLimit + 1
        /\ WHOWAS[WHOWASHASH[k]].age \in 0..TimeLimit + 1
    BY <1>1, <1>9 DEF Slots
  <2> QED
    BY <1>4, <1>11, <2>1, <2>2
<1>13. Ages'
  BY <1>2, <1>12 DEF Ages, Entry, Filled
<1>14. ASSUME NEW n \in WasNick PROVE LastFor(n)'
  <2> DEFINE k == left[n].since
  <2>1. LastFor(n) /\ left'[n].since = k /\ left'[n].user = left[n].user
    BY <1>6 DEF WhowasInv, LeftLast
  <2>2. \A j \in 1..Filled : WHOWAS'[WHOWASHASH[j]].name = WHOWAS[WHOWASHASH[j]].name
    BY <1>5, <1>9
  <2>3. ASSUME k \in 1..HistoryLength
        PROVE  /\ k <= Filled
               /\ WHOWAS'[WHOWASHASH[k]] = [name |-> n, online |-> left'[n].user, age |-> left'[n].age]
    <3>1. k <= Filled /\ WHOWAS[WHOWASHASH[k]] = [name |-> n, online |-> left[n].user, age |-> left[n].age]
      BY <2>1, <2>3 DEF LastFor, Entry
    <3>2. k \in 1..Filled /\ k # 0
      BY <1>1, <2>3, <3>1, LenProperties DEF Filled
    <3>3. left'[n].age = older(left[n].age)
      BY <1>6, <3>2
    <3>4. WHOWAS'[WHOWASHASH[k]].age = older(left[n].age)
      BY <1>11, <3>1, <3>2
    <3> QED
      BY <1>5, <1>9, <2>1, <3>1, <3>2, <3>3, <3>4
  <2>4. /\ \A j \in 1..Filled : j < k \/ k = 0 => WHOWAS'[WHOWASHASH[j]].name # n
        /\ k = HistoryLength + 1 => Filled = HistoryLength
    BY <2>1, <2>2 DEF LastFor, Entry
  <2> QED
    BY <1>2, <2>1, <2>3, <2>4 DEF LastFor, Entry, Filled
<1> QED
  BY <1>7, <1>8, <1>10, <1>13, <1>14 DEF WhowasInv, LeftLast
----------------------------------------------------------------------------
(* The first entry for n that is young enough is the newest for n, or none *)
(* is: those behind it are as old.                                         *)
LEMMA HistoryFound ==
  ASSUME WhowasInv, NEW n \in WasNick
  PROVE  GetHistory(n) = IF left[n].since \in 1..HistoryLength /\ left[n].age <= TimeLimit
                         THEN left[n].user ELSE None
<1> DEFINE k == left[n].since
           I == {j \in 1..Len(WHOWASHASH) :
                   WHOWAS[WHOWASHASH[j]].name = n /\ WHOWAS[WHOWASHASH[j]].age <= TimeLimit}
<1>1. /\ WHOWAS \in [Slot -> Slots] /\ left \in [WasNick -> Left] /\ WHOWASHASH \in Seq(Slot)
      /\ HistoryLength \in Nat \ {0} /\ TimeLimit \in Nat /\ LastFor(n)
  BY WhowasAssumption DEF WhowasInv, WhowasTypeOK, LeftLast, Slots
<1>2. Filled \in Nat /\ Filled = Len(WHOWASHASH) /\ k \in 0..HistoryLength + 1
      /\ Filled <= HistoryLength
  BY <1>1, LenProperties DEF Filled, Left, WhowasInv, Ring
<1>3. \A j \in 1..Filled : WHOWASHASH[j] \in Slot /\ WHOWAS[WHOWASHASH[j]].age \in 0..TimeLimit + 1
  BY <1>1, <1>2, LenProperties DEF Slots
<1>4. GetHistory(n) = IF (IF I # {} THEN Min(I) ELSE 0) = 0 THEN None
                      ELSE WHOWAS[WHOWASHASH[IF I # {} THEN Min(I) ELSE 0]].online
  BY DEF GetHistory, SelectInSeq
<1>5. CASE k \in 1..HistoryLength /\ left[n].age <= TimeLimit
  <2>1. k \in 1..Filled /\ WHOWAS[WHOWASHASH[k]] = [name |-> n, online |-> left[n].user, age |-> left[n].age]
    BY <1>1, <1>2, <1>5 DEF LastFor, Entry
  <2>2. k \in I
    BY <1>2, <1>5, <2>1
  <2>3. \A j \in I : k <= j
    BY <1>1, <1>2 DEF LastFor, Entry
  <2>4. Min(I) = k
    BY <1>2, <2>2, <2>3 DEF Min
  <2> HIDE DEF I
  <2> QED
    BY <1>4, <1>5, <2>1, <2>2, <2>4
<1>6. CASE ~(k \in 1..HistoryLength /\ left[n].age <= TimeLimit)
  <2>1. ASSUME NEW j \in I PROVE FALSE
    <3>1. j \in 1..Filled /\ WHOWAS[WHOWASHASH[j]].name = n /\ WHOWAS[WHOWASHASH[j]].age <= TimeLimit
      BY <1>2
    <3>2. ~(j < k) /\ k # 0
      BY <1>1, <3>1 DEF LastFor, Entry
    <3>3. k \in 1..HistoryLength
      BY <1>1, <1>2, <3>1, <3>2
    <3>4. k \in 1..Filled /\ k <= j /\ WHOWAS[WHOWASHASH[k]].age = left[n].age
      BY <1>1, <1>2, <3>1, <3>2, <3>3 DEF LastFor, Entry
    <3>5. WHOWAS[WHOWASHASH[k]].age <= WHOWAS[WHOWASHASH[j]].age
      BY <3>1, <3>4 DEF WhowasInv, Ages, Entry
    <3>6. left[n].age \in 0..TimeLimit + 1
      BY <1>1 DEF Left
    <3> QED
      BY <1>1, <1>3, <1>6, <3>1, <3>3, <3>4, <3>5, <3>6
  <2>2. I = {}
    BY <2>1
  <2> HIDE DEF I
  <2> QED
    BY <1>4, <1>6, <2>2
<1> QED
  BY <1>5, <1>6

LEMMA WhowasStarts ==
  ASSUME WhowasInit
  PROVE  WhowasInv
<1>1. Filled = 0 /\ HistoryLength \in Nat \ {0} /\ TimeLimit \in Nat /\ None \notin Owner
  BY WhowasAssumption, EmptySeq DEF WhowasInit, Filled
<1>2. WhowasTypeOK
  BY <1>1, RangeEmpty DEF WhowasInit, WhowasTypeOK, UnusedEntry, Slot
<1>3. Ring /\ NoName /\ Ages /\ Leads
  BY <1>1 DEF WhowasInit, Ring, NoName, Ages, Leads, UnusedEntry
<1>4. Chains
  BY <1>1, RangeEmpty DEF WhowasInit, Chains, UnusedEntry
<1>5. LeftLast
  BY <1>1 DEF WhowasInit, LeftLast, LastFor, Left, Nobody
<1> QED
  BY <1>2, <1>3, <1>4, <1>5 DEF WhowasInv

LEMMA WhowasSteps ==
  ASSUME WhowasInv, [WhowasNext]_whowasVars
  PROVE  WhowasInv'
<1>1. CASE UNCHANGED whowasVars
  BY <1>1 DEF whowasVars, WhowasInv, WhowasTypeOK, Ring, NoName, Ages, Chains, Leads, LeftLast,
              LastFor, Entry, Filled, Back
<1>2. CASE WhowasNext
  BY <1>2, ComesSound, ChangesNickSound, ClientExitsSound, TimePassesSound DEF WhowasNext
<1> QED
  BY <1>1, <1>2

(* A KILL or KICK for a nick that was left reaches the user who left it    *)
(* last, as long as that was less than KILLCHASETIMELIMIT and fewer than   *)
(* NICKNAMEHISTORYLENGTH entries ago and the user is online, and nobody    *)
(* else ever (add_history, off_history and get_history of whowas.c).       *)
THEOREM HistoryIsRight == WhowasSpec => []ChaseIsRight
<1>1. WhowasInv => ChaseIsRight
  BY HistoryFound DEF ChaseIsRight, WhowasInv, Leads
<1> QED
  BY <1>1, WhowasStarts, WhowasSteps, PTL DEF WhowasSpec
----------------------------------------------------------------------------
(* A list that has each of its links once.                                 *)
AllOnce(s) == \A i, j \in DOMAIN s : s[i] = s[j] => i = j

(* What is left of such a list is what RemoveFirst does not take.          *)
LEMMA RemoveFirstOnce ==
  ASSUME NEW S, NEW s \in Seq(S), AllOnce(s), NEW e
  PROVE  /\ RemoveFirst(s, e) \in Seq(S) /\ AllOnce(RemoveFirst(s, e))
         /\ Range(RemoveFirst(s, e)) = Range(s) \ {e}
<1>1. Len(s) \in Nat /\ DOMAIN s = 1..Len(s) /\ Range(s) \subseteq S
  BY LenProperties DEF Range
<1>2. CASE ~\E i \in 1..Len(s) : s[i] = e
  BY <1>1, <1>2 DEF RemoveFirst, Range
<1>3. CASE \E i \in 1..Len(s) : s[i] = e
  <2>1. PICK n \in 1..Len(s) : s[n] = e
    BY <1>3
  <2> DEFINE I == {i \in 1..Len(s) : s[i] = e}
             k == RemoveAt(s, n)
  <2>2. I = {n}
    BY <1>1, <2>1 DEF AllOnce
  <2>3. Min(I) = n /\ I # {}
    BY <2>2 DEF Min
  <2>4. RemoveFirst(s, e) = k
    <3>1. RemoveFirst(s, e) = RemoveAt(s, IF I # {} THEN Min(I) ELSE 0)
      BY <1>3 DEF RemoveFirst, SelectInSeq
    <3> HIDE DEF I
    <3> QED
      BY <3>1, <2>3
  <2>5. s \in Seq(Range(s)) /\ n \in DOMAIN s
    BY <1>1, LenProperties, ElementOfSeq, SeqDef DEF Range
  <2>6. /\ Part(k, s)
        /\ \A i \in DOMAIN k : \E j \in DOMAIN s \ {n} : k[i] = s[j]
        /\ \A j \in DOMAIN s \ {n} : s[j] \in Range(k)
    BY <2>5, RemovePart
  <2> HIDE DEF k
  <2>7. PICK p \in [DOMAIN k -> DOMAIN s] :
            /\ \A i, j \in DOMAIN k : p[i] = p[j] => i = j
            /\ \A i \in DOMAIN k : k[i] = s[p[i]]
    BY <2>6 DEF Part
  <2>8. AllOnce(k)
    BY <2>7 DEF AllOnce
  <2>9. Range(k) = Range(s) \ {e}
    BY <1>1, <2>1, <2>6 DEF Range, AllOnce
  <2>10. k \in Seq(S)
    <3>1. k \in Seq(Range(k))
      BY <2>6 DEF Part
    <3> QED
      BY <1>1, <2>9, <3>1, SeqDef
  <2> QED
    BY <2>4, <2>8, <2>9, <2>10
<1> QED
  BY <1>2, <1>3

LEMMA ConsOnce ==
  ASSUME NEW S, NEW s \in Seq(S), AllOnce(s), NEW x \in S, x \notin Range(s)
  PROVE  /\ <<x>> \o s \in Seq(S) /\ AllOnce(<<x>> \o s)
         /\ Range(<<x>> \o s) = {x} \cup Range(s)
<1> DEFINE t == <<x>> \o s
<1>1. /\ Len(s) \in Nat /\ DOMAIN s = 1..Len(s) /\ <<x>> \in Seq(S) /\ Len(<<x>>) = 1 /\ <<x>>[1] = x
  BY LenProperties
<1>2. /\ t \in Seq(S) /\ Len(t) = Len(s) + 1 /\ t[1] = x
      /\ \A i \in 2..(Len(s) + 1) : t[i] = s[i - 1]
  BY <1>1, ConcatProperties
<1>3. DOMAIN t = 1..(Len(s) + 1)
  BY <1>1, <1>2, LenProperties
<1> HIDE DEF t
<1>4. ASSUME NEW i \in DOMAIN t, NEW j \in DOMAIN t, t[i] = t[j] PROVE i = j
  <2>1. \A n \in 2..(Len(s) + 1) : n - 1 \in DOMAIN s /\ t[n] = s[n - 1] /\ t[n] # x
    BY <1>1, <1>2 DEF Range
  <2>2. CASE i = 1 \/ j = 1
    BY <1>1, <1>2, <1>3, <1>4, <2>1, <2>2
  <2>3. CASE i # 1 /\ j # 1
    <3>1. i \in 2..(Len(s) + 1) /\ j \in 2..(Len(s) + 1)
      BY <1>1, <1>3, <2>3
    <3>2. i - 1 = j - 1
      BY <1>4, <2>1, <3>1 DEF AllOnce
    <3> QED
      BY <1>1, <3>1, <3>2
  <2> QED
    BY <2>2, <2>3
<1> QED
  BY <1>2, <1>4, RangeCons DEF AllOnce, t

DccLink == [user : DccUser, me : BOOLEAN]
Backs == \A u, v \in DccUser : Me(v) \in Range(dccallow[u]) <=> Remote(u) \in Range(dccallow[v])
Heres == \A u, v \in DccUser : Me(v) \in Range(dccallow[u]) => u \in ours /\ v \in arrived /\ u # v
Takes(s) == {l \in Range(s) : l.me}
DccInv ==
  /\ DccTypeOK /\ Backs /\ Heres
  /\ \A u \in DccUser : /\ AllOnce(dccallow[u])
                        /\ Cardinality(Takes(dccallow[u])) <= MaxDccAllow

LEMMA RangeFinite ==
  ASSUME NEW S, NEW s \in Seq(S)
  PROVE  IsFiniteSet(Range(s))
<1>1. DOMAIN s = 1..Len(s) /\ Len(s) \in Nat
  BY LenProperties
<1>2. IsFiniteSet(DOMAIN s)
  BY <1>1, FS_Interval
<1>3. s \in Surjection(DOMAIN s, Range(s))
  BY <1>1 DEF Range, Surjection
<1> QED
  BY <1>2, <1>3, FS_Surjection

(* What the two counts are for such a list.                                *)
LEMMA CountsOnce ==
  ASSUME NEW S, NEW s \in Seq(S), AllOnce(s)
  PROVE  /\ \A l : Cardinality({i \in DOMAIN s : s[i] = l}) = IF l \in Range(s) THEN 1 ELSE 0
         /\ Cardinality({i \in DOMAIN s : s[i].me}) = Cardinality(Takes(s))
<1>1. DOMAIN s = 1..Len(s) /\ Len(s) \in Nat
  BY LenProperties
<1>2. ASSUME NEW l
      PROVE  Cardinality({i \in DOMAIN s : s[i] = l}) = IF l \in Range(s) THEN 1 ELSE 0
  <2>1. CASE l \in Range(s)
    <3>1. PICK n \in DOMAIN s : s[n] = l
      BY <2>1 DEF Range
    <3>2. {i \in DOMAIN s : s[i] = l} = {n}
      BY <3>1 DEF AllOnce
    <3> QED
      BY <2>1, <3>2, FS_Singleton
  <2>2. CASE l \notin Range(s)
    <3>1. {i \in DOMAIN s : s[i] = l} = {}
      BY <2>2 DEF Range
    <3> QED
      BY <2>2, <3>1, FS_EmptySet
  <2> QED
    BY <2>1, <2>2
<1>3. Cardinality({i \in DOMAIN s : s[i].me}) = Cardinality(Takes(s))
  <2> DEFINE A == {i \in DOMAIN s : s[i].me}
             f == [i \in A |-> s[i]]
  <2>1. IsFiniteSet(A)
    <3>1. IsFiniteSet(1..Len(s)) /\ A \subseteq 1..Len(s)
      BY <1>1, FS_Interval
    <3> QED
      BY <3>1, FS_Subset
  <2>2. f \in Bijection(A, Takes(s))
    BY DEF Bijection, Injection, Surjection, IsInjective, AllOnce, Takes, Range
  <2> QED
    BY <2>1, <2>2, FS_Bijection DEF ExistsBijection
<1> QED
  BY <1>2, <1>3

LEMMA LinkedBackHolds ==
  ASSUME DccInv
  PROVE  LinkedBack
<1>1. dccallow \in [DccUser -> Seq(DccLink)] /\ \A u \in DccUser : AllOnce(dccallow[u])
  BY DEF DccInv, DccTypeOK, DccLink
<1>2. ASSUME NEW u \in DccUser
      PROVE  /\ \A l : Links(u, l) = IF l \in Range(dccallow[u]) THEN 1 ELSE 0
             /\ Allowed(u) = Cardinality(Takes(dccallow[u]))
  BY <1>1, CountsOnce DEF Links, Allowed
<1> QED
  BY <1>2 DEF LinkedBack, DccInv, Backs, Heres

LEMMA LinkKinds ==
  /\ \A x, y : /\ Me(x) = Me(y) <=> x = y
               /\ Remote(x) = Remote(y) <=> x = y
               /\ Me(x) # Remote(y)
               /\ Me(x).user = x /\ Me(x).me /\ Remote(x).user = x /\ ~Remote(x).me
  /\ \A u, v : LinkBack(u, Remote(v)) = Me(u) /\ LinkBack(u, Me(v)) = Remote(u)
<1>1. \A x, y : /\ Me(x) = Me(y) <=> x = y
               /\ Remote(x) = Remote(y) <=> x = y
               /\ Me(x) # Remote(y)
               /\ Me(x).user = x /\ Me(x).me /\ Remote(x).user = x /\ ~Remote(x).me
  BY DEF Me, Remote
<1>2. ASSUME NEW u, NEW v
      PROVE  LinkBack(u, Remote(v)) = Me(u) /\ LinkBack(u, Me(v)) = Remote(u)
  <2>1. Remote(v).me = FALSE /\ Me(v).me = TRUE
    BY DEF Me, Remote
  <2>2. ~(Remote(v).me) = TRUE /\ ~(Me(v).me) = FALSE
    BY <2>1
  <2> QED
    BY <2>2 DEF LinkBack, Me, Remote
<1> QED
  BY <1>1, <1>2

----------------------------------------------------------------------------
(* The walk over the links of u: what is left of all lists after n links.  *)
Leaving(g, d, u, m) == [n \in 0..m |-> IF n = 0 THEN d ELSE LinkTaken(g[n-1], u, d[u][n])]

LEMMA LeavingExists ==
  ASSUME NEW d, NEW u, NEW m \in Nat
  PROVE  \E g : g = Leaving(g, d, u, m)
<1> DEFINE Bad == {l \in Nat : ~\E g : g = Leaving(g, d, u, l)}
<1>1. SUFFICES ASSUME Bad # {} PROVE FALSE
  OBVIOUS
<1>2. PICK l \in Bad : \A k \in Bad : l <= k
  BY <1>1, LeastOfNaturals
<1>3. l # 0
  <2> DEFINE g0 == [n \in 0..0 |-> d]
  <2>1. g0 = Leaving(g0, d, u, 0)
    BY DEF Leaving
  <2> QED
    BY <2>1
<1>4. PICK g : g = Leaving(g, d, u, l - 1)
  <2>1. l \in Nat /\ l - 1 \in Nat /\ ~(l <= l - 1)
    BY <1>2, <1>3
  <2>2. l - 1 \notin Bad
    BY <1>2, <2>1
  <2> QED
    BY <2>1, <2>2
<1> DEFINE h == [n \in 0..l |-> IF n = l THEN LinkTaken(g[l-1], u, d[u][l]) ELSE g[n]]
<1>5. ASSUME NEW n \in 0..l
      PROVE  h[n] = IF n = 0 THEN d ELSE LinkTaken(h[n-1], u, d[u][n])
  <2>1. CASE n = l
    <3>1. h[n] = LinkTaken(g[l-1], u, d[u][l]) /\ h[n-1] = g[l-1] /\ n # 0
      BY <1>2, <1>3, <2>1
    <3> QED
      BY <2>1, <3>1
  <2>2. CASE n # l
    <3>1. n \in 0..(l-1)
      BY <1>2, <2>2
    <3>2. g[n] = IF n = 0 THEN d ELSE LinkTaken(g[n-1], u, d[u][n])
      BY <1>4, <3>1 DEF Leaving
    <3>3. h[n] = g[n] /\ (n # 0 => h[n-1] = g[n-1])
      BY <1>2, <2>2
    <3> QED
      BY <3>2, <3>3
  <2> QED
    BY <2>1, <2>2
<1>6. h = Leaving(h, d, u, l)
  BY <1>5 DEF Leaving
<1> QED
  BY <1>2, <1>6

LEMMA LeavingSteps ==
  ASSUME NEW d, NEW u, Len(d[u]) \in Nat
  PROVE  \E g : /\ g[0] = d /\ RemoveReferences(d, u) = g[Len(d[u])]
                /\ \A n \in 1..Len(d[u]) : g[n] = LinkTaken(g[n-1], u, d[u][n])
<1> DEFINE g0 == CHOOSE g : g = Leaving(g, d, u, Len(d[u]))
<1>1. g0 = Leaving(g0, d, u, Len(d[u]))
  BY LeavingExists
<1>2. RemoveReferences(d, u) = g0[Len(d[u])]
  BY DEF RemoveReferences, Leaving
<1> HIDE DEF g0
<1>3. \A n \in 0..Len(d[u]) : g0[n] = IF n = 0 THEN d ELSE LinkTaken(g0[n-1], u, d[u][n])
  BY <1>1 DEF Leaving
<1>4. g0[0] = d
  BY <1>3
<1>5. \A n \in 1..Len(d[u]) : g0[n] = LinkTaken(g0[n-1], u, d[u][n])
  BY <1>3
<1> QED
  BY <1>2, <1>4, <1>5

LEMMA ReferencesGone ==
  ASSUME DccInv, NEW u \in DccUser
  PROVE  /\ RemoveReferences(dccallow, u) \in [DccUser -> Seq(DccLink)]
         /\ \A v \in DccUser \ {u} :
              /\ AllOnce(RemoveReferences(dccallow, u)[v])
              /\ Range(RemoveReferences(dccallow, u)[v]) =
                   Range(dccallow[v]) \ {Me(u), Remote(u)}
<1> DEFINE d == dccallow
           s == dccallow[u]
           Taken(v, n) == {LinkBack(u, s[i]) : i \in {j \in 1..n : s[j].user = v}}
<1>1. /\ d \in [DccUser -> Seq(DccLink)] /\ s \in Seq(DccLink) /\ Len(s) \in Nat
      /\ \A i \in 1..Len(s) : s[i] \in DccLink
  BY LenProperties DEF DccInv, DccTypeOK, DccLink
<1>2. PICK g : /\ g[0] = d /\ RemoveReferences(d, u) = g[Len(s)]
               /\ \A n \in 1..Len(s) : g[n] = LinkTaken(g[n-1], u, s[n])
  BY <1>1, LeavingSteps
<1> DEFINE Walked(n) == /\ g[n] \in [DccUser -> Seq(DccLink)]
                      /\ \A v \in DccUser \ {u} : /\ AllOnce(g[n][v])
                                                  /\ Range(g[n][v]) = Range(d[v]) \ Taken(v, n)
           Bad == {n \in Nat : n <= Len(s) /\ ~Walked(n)}
<1>3. Walked(0)
  BY <1>1, <1>2 DEF DccInv
<1>4. ASSUME NEW n \in 1..Len(s), Walked(n - 1) PROVE Walked(n)
  <2> DEFINE l == s[n]
             w == l.user
             e == LinkBack(u, l)
  <2>1. l \in DccLink /\ w \in DccUser
    BY <1>1 DEF DccLink
  <2>2. w # u
    <3>1. l \in Range(s) /\ (l = Me(w) \/ l = Remote(w))
      BY <1>1, <2>1, LenProperties DEF Range, DccLink, Me, Remote
    <3> QED
      BY <3>1, <2>1 DEF DccInv, Backs, Heres
  <2>3. g[n] = [g[n-1] EXCEPT ![w] = RemoveFirst(g[n-1][w], e)]
    BY <1>2 DEF LinkTaken
  <2>4. g[n-1] \in [DccUser -> Seq(DccLink)] /\ AllOnce(g[n-1][w])
    BY <1>4, <2>1, <2>2
  <2>5. /\ RemoveFirst(g[n-1][w], e) \in Seq(DccLink) /\ AllOnce(RemoveFirst(g[n-1][w], e))
        /\ Range(RemoveFirst(g[n-1][w], e)) = Range(g[n-1][w]) \ {e}
    BY <2>1, <2>4, RemoveFirstOnce
  <2>6. g[n] \in [DccUser -> Seq(DccLink)]
    BY <2>1, <2>3, <2>4, <2>5
  <2>7. ASSUME NEW v \in DccUser \ {u}
        PROVE  AllOnce(g[n][v]) /\ Range(g[n][v]) = Range(d[v]) \ Taken(v, n)
    <3>1. AllOnce(g[n-1][v]) /\ Range(g[n-1][v]) = Range(d[v]) \ Taken(v, n - 1)
      BY <1>4, <2>7
    <3>2. {j \in 1..n : s[j].user = v} =
            {j \in 1..(n - 1) : s[j].user = v} \cup {j \in {n} : s[j].user = v}
      BY <1>1
    <3>3. CASE v = w
      <4>1. Taken(v, n) = Taken(v, n - 1) \cup {e}
        BY <3>2, <3>3
      <4>2. g[n][v] = RemoveFirst(g[n-1][w], e)
        BY <2>3, <2>4, <3>3
      <4> HIDE DEF Taken, e, w
      <4> QED
        BY <2>5, <3>1, <3>3, <4>1, <4>2
    <3>4. CASE v # w
      <4>1. Taken(v, n) = Taken(v, n - 1)
        BY <3>2, <3>4
      <4>2. g[n][v] = g[n-1][v]
        BY <2>3, <2>4, <3>4
      <4> HIDE DEF Taken
      <4> QED
        BY <3>1, <4>1, <4>2
    <3> QED
      BY <3>3, <3>4
  <2> QED
    BY <2>6, <2>7
<1>5. Walked(Len(s))
  <2> HIDE DEF Walked
  <2>1. SUFFICES ASSUME Bad # {} PROVE FALSE
    BY <1>1
  <2>2. PICK n \in Bad : \A k \in Bad : n <= k
    <3>1. Bad \subseteq Nat
      OBVIOUS
    <3> HIDE DEF Bad
    <3> QED
      BY <2>1, <3>1, LeastOfNaturals
  <2>3. n \in 1..Len(s) /\ n - 1 \in Nat /\ n - 1 <= Len(s) /\ ~(n <= n - 1)
    BY <1>1, <1>3, <2>2
  <2>4. Walked(n - 1)
    BY <2>2, <2>3
  <2> QED
    BY <1>4, <2>2, <2>3, <2>4
<1>6. ASSUME NEW v \in DccUser \ {u}
      PROVE  Range(d[v]) \ Taken(v, Len(s)) = Range(d[v]) \ {Me(u), Remote(u)}
  <2>1. Taken(v, Len(s)) \subseteq {Me(u), Remote(u)}
    BY <1>1 DEF LinkBack, Me, Remote, DccLink
  <2>2. ASSUME Me(u) \in Range(d[v]) PROVE Me(u) \in Taken(v, Len(s))
    <3>1. Remote(v) \in Range(s)
      BY <2>2 DEF DccInv, Backs
    <3>2. PICK i \in 1..Len(s) : s[i] = Remote(v)
      BY <1>1, <3>1, LenProperties DEF Range
    <3>3. s[i].user = v /\ LinkBack(u, s[i]) = Me(u)
      BY <3>2, LinkKinds
    <3> QED
      BY <3>3
  <2>3. ASSUME Remote(u) \in Range(d[v]) PROVE Remote(u) \in Taken(v, Len(s))
    <3>1. Me(v) \in Range(s)
      BY <2>3 DEF DccInv, Backs
    <3>2. PICK i \in 1..Len(s) : s[i] = Me(v)
      BY <1>1, <3>1, LenProperties DEF Range
    <3>3. s[i].user = v /\ LinkBack(u, s[i]) = Remote(u)
      BY <3>2, LinkKinds
    <3> QED
      BY <3>3
  <2> HIDE DEF Taken
  <2> QED
    BY <2>1, <2>2, <2>3
<1> QED
  BY <1>2, <1>5, <1>6

----------------------------------------------------------------------------
LEMMA TakesFinite ==
  ASSUME DccInv, NEW u \in DccUser
  PROVE  IsFiniteSet(Takes(dccallow[u])) /\ Cardinality(Takes(dccallow[u])) \in Nat
<1>1. IsFiniteSet(Range(dccallow[u])) /\ Takes(dccallow[u]) \subseteq Range(dccallow[u])
  BY RangeFinite DEF DccInv, DccTypeOK, Takes
<1> QED
  BY <1>1, FS_Subset, FS_CardinalityType

(* Nobody's limit is passed by a list that lost links.                     *)
LEMMA FewerTaken ==
  ASSUME DccInv, NEW u \in DccUser, NEW s, Range(s) \subseteq Range(dccallow[u])
  PROVE  Cardinality(Takes(s)) <= MaxDccAllow
<1>1. Takes(s) \subseteq Takes(dccallow[u])
  BY DEF Takes
<1>2. /\ IsFiniteSet(Takes(dccallow[u])) /\ Cardinality(Takes(dccallow[u])) \in Nat
      /\ Cardinality(Takes(dccallow[u])) <= MaxDccAllow /\ MaxDccAllow \in Nat
  BY TakesFinite, DccAllowAssumption DEF DccInv
<1>3. Cardinality(Takes(s)) <= Cardinality(Takes(dccallow[u])) /\ Cardinality(Takes(s)) \in Nat
  BY <1>1, <1>2, FS_Subset, FS_CardinalityType
<1> QED
  BY <1>2, <1>3

LEMMA ArrivesSound ==
  ASSUME DccInv, NEW u \in DccUser, NEW local \in BOOLEAN, Arrives(u, local)
  PROVE  DccInv'
<1>1. /\ u \notin arrived /\ arrived' = arrived \cup {u} /\ dccallow' = [dccallow EXCEPT ![u] = <<>>]
      /\ ours' = IF local THEN ours \cup {u} ELSE ours
      /\ dccallow \in [DccUser -> Seq(DccLink)] /\ ours \subseteq arrived /\ arrived \subseteq DccUser
  BY DEF Arrives, DccInv, DccTypeOK, DccLink
<1>2. Range(dccallow[u]) = {}
  <2>1. ASSUME NEW l \in Range(dccallow[u]) PROVE FALSE
    <3>1. l \in DccLink
      BY <1>1, LenProperties DEF Range
    <3>2. l.user \in DccUser /\ (l = Me(l.user) \/ l = Remote(l.user))
      BY <3>1 DEF DccLink, Me, Remote
    <3> QED
      BY <1>1, <2>1, <3>2 DEF DccInv, Backs, Heres
  <2> QED
    BY <2>1
<1>3. DccTypeOK'
  BY <1>1, RangeEmpty DEF DccTypeOK, DccLink
<1>4. ASSUME NEW v \in DccUser
      PROVE  /\ Range(dccallow'[v]) = Range(dccallow[v]) /\ AllOnce(dccallow'[v])
             /\ Cardinality(Takes(dccallow'[v])) <= MaxDccAllow
  <2>1. CASE v = u
    <3>1. dccallow'[v] = <<>>
      BY <1>1, <2>1
    <3>2. Range(<<>>) = {} /\ AllOnce(<<>>)
      BY RangeEmpty, EmptySeq, LenProperties DEF AllOnce
    <3> QED
      BY <1>2, <2>1, <3>1, <3>2, FewerTaken
  <2>2. CASE v # u
    BY <1>1, <2>2 DEF DccInv
  <2> QED
    BY <2>1, <2>2
<1>5. Backs' /\ Heres'
  BY <1>1, <1>4 DEF DccInv, Backs, Heres
<1> QED
  BY <1>3, <1>4, <1>5 DEF DccInv

LEMMA LinkSound ==
  ASSUME DccInv, NEW u \in DccUser, NEW v \in DccUser, AddDccAllow(u, v)
  PROVE  DccInv'
<1>1. /\ u \in ours /\ v \in arrived /\ u # v /\ arrived' = arrived /\ ours' = ours
      /\ Me(v) \notin Range(dccallow[u]) /\ Allowed(u) < MaxDccAllow
      /\ dccallow' = [dccallow EXCEPT ![u] = <<Me(v)>> \o dccallow[u],
                                      ![v] = <<Remote(u)>> \o dccallow[v]]
      /\ dccallow \in [DccUser -> Seq(DccLink)] /\ \A x \in DccUser : AllOnce(dccallow[x])
  BY DEF AddDccAllow, DccInv, DccTypeOK, DccLink, ToSet, Range
<1>2. Remote(u) \notin Range(dccallow[v]) /\ Me(v) \in DccLink /\ Remote(u) \in DccLink
  BY <1>1 DEF DccInv, Backs, Me, Remote, DccLink
<1>3. /\ dccallow'[u] = <<Me(v)>> \o dccallow[u] /\ dccallow'[v] = <<Remote(u)>> \o dccallow[v]
      /\ \A x \in DccUser \ {u, v} : dccallow'[x] = dccallow[x]
  BY <1>1
<1>4. /\ dccallow'[u] \in Seq(DccLink) /\ AllOnce(dccallow'[u])
      /\ Range(dccallow'[u]) = {Me(v)} \cup Range(dccallow[u])
  BY <1>1, <1>2, <1>3, ConsOnce
<1>5. /\ dccallow'[v] \in Seq(DccLink) /\ AllOnce(dccallow'[v])
      /\ Range(dccallow'[v]) = {Remote(u)} \cup Range(dccallow[v])
  BY <1>1, <1>2, <1>3, ConsOnce
<1>6. DccTypeOK'
  <2>1. \A x \in DccUser : dccallow'[x] \in Seq(DccLink)
    BY <1>1, <1>3, <1>4, <1>5
  <2>2. dccallow' \in [DccUser -> Seq(DccLink)]
    BY <1>1, <2>1
  <2> QED
    BY <1>1, <2>2 DEF DccInv, DccTypeOK, DccLink
<1>9. Backs' /\ Heres'
  <2>1. ASSUME NEW x \in DccUser, NEW y \in DccUser
        PROVE  /\ Me(y) \in Range(dccallow'[x]) <=> Me(y) \in Range(dccallow[x]) \/ (x = u /\ y = v)
               /\ Remote(x) \in Range(dccallow'[y]) <=>
                    Remote(x) \in Range(dccallow[y]) \/ (x = u /\ y = v)
    <3>1. Me(y) \in Range(dccallow'[x]) <=> Me(y) \in Range(dccallow[x]) \/ (x = u /\ y = v)
      <4>1. CASE x = u
        BY <1>4, <4>1, LinkKinds
      <4>2. CASE x = v
        BY <1>1, <1>5, <4>2, LinkKinds
      <4>3. CASE x # u /\ x # v
        BY <1>3, <4>3
      <4> QED
        BY <4>1, <4>2, <4>3
    <3>2. Remote(x) \in Range(dccallow'[y]) <=>
            Remote(x) \in Range(dccallow[y]) \/ (x = u /\ y = v)
      <4>1. CASE y = u
        BY <1>1, <1>4, <4>1, LinkKinds
      <4>2. CASE y = v
        BY <1>5, <4>2, LinkKinds
      <4>3. CASE y # u /\ y # v
        BY <1>3, <4>3
      <4> QED
        BY <4>1, <4>2, <4>3
    <3> QED
      BY <3>1, <3>2
  <2>2. Backs'
    BY <2>1 DEF DccInv, Backs
  <2>3. Heres'
    BY <1>1, <2>1 DEF DccInv, Heres
  <2> QED
    BY <2>2, <2>3
<1>10. ASSUME NEW x \in DccUser PROVE Cardinality(Takes(dccallow'[x])) <= MaxDccAllow
  <2>1. CASE x = u
    <3>1. Takes(dccallow'[u]) = Takes(dccallow[u]) \cup {Me(v)}
      BY <1>4 DEF Takes, Me
    <3>2. Cardinality(Takes(dccallow[u])) = Allowed(u)
      BY <1>1, CountsOnce DEF Allowed
    <3>3. Me(v) \notin Takes(dccallow[u])
      BY <1>1 DEF Takes
    <3>4. IsFiniteSet(Takes(dccallow[u])) /\ Cardinality(Takes(dccallow[u])) \in Nat
      BY TakesFinite
    <3>5. Cardinality(Takes(dccallow'[u])) = Cardinality(Takes(dccallow[u])) + 1
      BY <3>1, <3>3, <3>4, FS_AddElement
    <3> QED
      BY <1>1, <2>1, <3>2, <3>4, <3>5, DccAllowAssumption
  <2>2. CASE x # u
    <3>1. CASE x = v
      <4>1. Takes(dccallow'[v]) = Takes(dccallow[v])
        BY <1>5, LinkKinds DEF Takes
      <4> QED
        BY <3>1, <4>1 DEF DccInv
    <3>2. CASE x # v
      BY <1>3, <2>2, <3>2 DEF DccInv
    <3> QED
      BY <3>1, <3>2
  <2> QED
    BY <2>1, <2>2
<1>11. \A x \in DccUser : AllOnce(dccallow'[x])
  BY <1>1, <1>3, <1>4, <1>5
<1> QED
  BY <1>6, <1>9, <1>10, <1>11 DEF DccInv

(* What both kinds of removal have in common.                              *)
LEMMA LinksGone ==
  ASSUME DccInv, DccTypeOK',
         \A x \in DccUser : /\ AllOnce(dccallow'[x])
                            /\ Range(dccallow'[x]) \subseteq Range(dccallow[x])
  PROVE  Backs' /\ Heres' => DccInv'
<1>1. \A x \in DccUser : Cardinality(Takes(dccallow'[x])) <= MaxDccAllow
  BY FewerTaken
<1> QED
  BY <1>1 DEF DccInv

LEMMA UnlinkSound ==
  ASSUME DccInv, NEW u \in DccUser, NEW v \in DccUser, DelDccAllow(u, v)
  PROVE  DccInv'
<1>1. /\ u # v /\ arrived' = arrived /\ ours' = ours
      /\ dccallow' = [dccallow EXCEPT ![u] = RemoveFirst(dccallow[u], Me(v)),
                                      ![v] = RemoveFirst(dccallow[v], Remote(u))]
      /\ dccallow \in [DccUser -> Seq(DccLink)] /\ \A x \in DccUser : AllOnce(dccallow[x])
  BY DEF DelDccAllow, DccInv, DccTypeOK, DccLink
<1>2. /\ dccallow'[u] = RemoveFirst(dccallow[u], Me(v))
      /\ dccallow'[v] = RemoveFirst(dccallow[v], Remote(u))
      /\ \A x \in DccUser \ {u, v} : dccallow'[x] = dccallow[x]
  BY <1>1
<1>3. /\ dccallow'[u] \in Seq(DccLink) /\ AllOnce(dccallow'[u])
      /\ Range(dccallow'[u]) = Range(dccallow[u]) \ {Me(v)}
  BY <1>1, <1>2, RemoveFirstOnce
<1>4. /\ dccallow'[v] \in Seq(DccLink) /\ AllOnce(dccallow'[v])
      /\ Range(dccallow'[v]) = Range(dccallow[v]) \ {Remote(u)}
  BY <1>1, <1>2, RemoveFirstOnce
<1>5. DccTypeOK'
  <2>1. \A x \in DccUser : dccallow'[x] \in Seq(DccLink)
    BY <1>1, <1>2, <1>3, <1>4
  <2>2. dccallow' \in [DccUser -> Seq(DccLink)]
    BY <1>1, <2>1
  <2> QED
    BY <1>1, <2>2 DEF DccInv, DccTypeOK, DccLink
<1>6. \A x, y \in DccUser : /\ Me(x) = Me(y) <=> x = y
                            /\ Remote(x) = Remote(y) <=> x = y
                            /\ Me(x) # Remote(y)
  BY DEF Me, Remote
<1>7. ASSUME NEW x \in DccUser, NEW y \in DccUser
      PROVE  /\ Me(y) \in Range(dccallow'[x]) <=> Me(y) \in Range(dccallow[x]) /\ ~(x = u /\ y = v)
             /\ Remote(x) \in Range(dccallow'[y]) <=>
                  Remote(x) \in Range(dccallow[y]) /\ ~(x = u /\ y = v)
  BY <1>1, <1>2, <1>3, <1>4, <1>6
<1>8. Backs'
  BY <1>7 DEF DccInv, Backs
<1>9. Heres'
  BY <1>1, <1>7 DEF DccInv, Heres
<1>10. \A x \in DccUser : AllOnce(dccallow'[x]) /\ Range(dccallow'[x]) \subseteq Range(dccallow[x])
  BY <1>1, <1>2, <1>3, <1>4
<1> QED
  BY <1>5, <1>8, <1>9, <1>10, LinksGone

LEMMA DccExitSound ==
  ASSUME DccInv, NEW u \in DccUser, DccExit(u)
  PROVE  DccInv'
<1>1. /\ arrived' = arrived \ {u} /\ ours' = ours \ {u}
      /\ dccallow' = [RemoveReferences(dccallow, u) EXCEPT ![u] = <<>>]
  BY DEF DccExit
<1>2. /\ RemoveReferences(dccallow, u) \in [DccUser -> Seq(DccLink)]
      /\ \A v \in DccUser \ {u} :
           /\ AllOnce(RemoveReferences(dccallow, u)[v])
           /\ Range(RemoveReferences(dccallow, u)[v]) = Range(dccallow[v]) \ {Me(u), Remote(u)}
  BY ReferencesGone
<1>3. dccallow'[u] = <<>> /\ AllOnce(<<>>) /\ Range(<<>>) = {} /\ <<>> \in Seq(DccLink)
  BY <1>1, <1>2, RangeEmpty, EmptySeq, LenProperties DEF AllOnce
<1>4. ASSUME NEW v \in DccUser \ {u}
      PROVE  /\ dccallow'[v] \in Seq(DccLink) /\ AllOnce(dccallow'[v])
             /\ Range(dccallow'[v]) = Range(dccallow[v]) \ {Me(u), Remote(u)}
  BY <1>1, <1>2
<1>5. DccTypeOK'
  BY <1>1, <1>2, <1>3 DEF DccInv, DccTypeOK, DccLink
<1>6. \A x \in DccUser : AllOnce(dccallow'[x]) /\ Range(dccallow'[x]) \subseteq Range(dccallow[x])
  BY <1>3, <1>4
<1>7. \A x, y \in DccUser : /\ Me(x) = Me(y) <=> x = y
                            /\ Remote(x) = Remote(y) <=> x = y
                            /\ Me(x) # Remote(y)
  BY DEF Me, Remote
<1>8. ASSUME NEW x \in DccUser, NEW y \in DccUser
      PROVE  /\ Me(y) \in Range(dccallow'[x]) <=> Me(y) \in Range(dccallow[x]) /\ x # u /\ y # u
             /\ Remote(x) \in Range(dccallow'[y]) <=>
                  Remote(x) \in Range(dccallow[y]) /\ x # u /\ y # u
  <2>1. CASE x # u /\ y # u
    BY <1>4, <1>7, <2>1
  <2>2. CASE x = u \/ y = u
    BY <1>3, <1>4, <1>7, <2>2
  <2> QED
    BY <2>1, <2>2
<1>9. Backs'
  BY <1>8 DEF DccInv, Backs
<1>10. Heres'
  BY <1>1, <1>8 DEF DccInv, Heres
<1> QED
  BY <1>5, <1>6, <1>9, <1>10, LinksGone

LEMMA DccStarts ==
  ASSUME DccInit
  PROVE  DccInv
<1>1. /\ dccallow \in [DccUser -> Seq(DccLink)]
      /\ \A u \in DccUser : dccallow[u] = <<>> /\ Range(dccallow[u]) = {} /\ AllOnce(dccallow[u])
  BY RangeEmpty, EmptySeq, LenProperties DEF DccInit, AllOnce
<1>2. \A u \in DccUser : Takes(dccallow[u]) = {}
  BY <1>1 DEF Takes
<1>3. \A u \in DccUser : Cardinality(Takes(dccallow[u])) <= MaxDccAllow
  BY <1>2, FS_EmptySet, DccAllowAssumption
<1>4. DccTypeOK
  BY <1>1 DEF DccInit, DccTypeOK, DccLink
<1>5. Backs /\ Heres
  BY <1>1 DEF Backs, Heres
<1> QED
  BY <1>1, <1>3, <1>4, <1>5 DEF DccInv

(* A link of a DCCALLOW list is to a user that is there, has exactly one   *)
(* back, and no user takes the files of more than MAXDCCALLOW, whoever     *)
(* leaves first (add_dccallow, del_dccallow, remove_dcc_references).       *)
THEOREM LinksAreBack == DccSpec => []LinkedBack
<1>1. DccInv /\ [DccNext]_dccVars => DccInv'
  <2> SUFFICES ASSUME DccInv, [DccNext]_dccVars PROVE DccInv'
    OBVIOUS
  <2>1. CASE UNCHANGED dccVars
    BY <2>1 DEF dccVars, DccInv, DccTypeOK, Backs, Heres
  <2>2. ASSUME NEW u \in DccUser, NEW v \in DccUser, AddDccAllow(u, v) \/ DelDccAllow(u, v)
        PROVE  DccInv'
    BY <2>2, LinkSound, UnlinkSound
  <2>3. ASSUME NEW u \in DccUser, DccExit(u) PROVE DccInv'
    BY <2>3, DccExitSound
  <2>4. ASSUME NEW u \in DccUser, NEW local \in BOOLEAN, Arrives(u, local) PROVE DccInv'
    BY <2>4, ArrivesSound
  <2> QED
    BY <2>1, <2>2, <2>3, <2>4 DEF DccNext
<1> QED
  BY <1>1, DccStarts, LinkedBackHolds, PTL DEF DccSpec

(* Both: whoever leaves, no entry of the nick history and no DCCALLOW list *)
(* leads to the wrong user or to one that is gone.                         *)
THEOREM UsersAreTraced == WhowasSpec /\ DccSpec => []UsersTraced
BY HistoryIsRight, LinksAreBack, PTL DEF UsersTraced
============================================================================
