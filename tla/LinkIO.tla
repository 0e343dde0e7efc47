------------------------------ MODULE LinkIO ------------------------------
(***************************************************************************)
(* The message loop (SocketLoop, read_message) and what it keeps for every *)
(* local connection: the sendQ (send.c), the recvQ and fake lag            *)
(* (read_packet, parse_addlag) and the timers (check_pings).               *)
(*                                                                         *)
(* The server is one thread: a pass polls, accepts, visits the polled      *)
(* connections in turn, checks pings, flushes, and polls again.  Queues    *)
(* are measured in messages; times are kept as ages, so that only the      *)
(* passing of time changes them.  timeofday does not move while            *)
(* read_message works, so time passes in Tick only.                        *)
(***************************************************************************)
EXTENDS Integers

CONSTANTS Conn,       \* slots of local[]
          Builds,     \* which of "poll" (USE_POLL) and "select" to look at
          Limit,      \* get_sendq of every kind of connection
          Step,       \* messages in the 1024 bytes of lastsq
          PollLimit,  \* the recvQ at which it is not polled (4088 bytes)
          FloodLimit, \* get_recvq, CLIENT_FLOOD
          MaxRead,    \* messages that one recv can return
          MaxLag,     \* seconds of fake lag that stop a client (10)
          Penalty,    \* seconds of fake lag a command costs, 0 if exempt
          Ping,       \* pingfreq of the classes
          Connect,    \* CONNECTTIMEOUT
          MaxUnknown, \* seconds that a connection may be unknown (100)
          Gap,        \* seconds between two check_pings (9)
          MaxDelay    \* seconds that a pass can take (TIMESEC)

ASSUME LinkIOAssumption ==
  /\ Builds \subseteq {"poll", "select"}
  /\ Limit \in [{"lookup", "unknown", "person", "server"} -> Nat]
  /\ Step \in Nat \ {0} /\ MaxLag \in Nat \ {0} /\ Penalty \subseteq Nat
  /\ PollLimit \in Nat \ {0} /\ FloodLimit \in Nat /\ MaxRead \in Nat
  /\ Ping \in Nat \ {0} /\ Connect \in Nat \ {0} /\ MaxUnknown \in Nat
  /\ Gap \in Nat \ {0} /\ MaxDelay \in Nat \ {0}

VARIABLES
  build,   \* which read_message was compiled
  link,    \* what local[] has of every connection
  phase,   \* where the pass of the loop is
  wantIn,  \* the connections polled for input
  wantOut, \* the connections polled for output
  todo,    \* those that the current loop still has to look at
  cur,     \* the connection whose input is being processed
  batch,   \* commands left in the read buffer of a server
  due      \* seconds until nextping

vars == <<build, link, phase, wantIn, wantOut, todo, cur, batch, due>>
loop == <<build, wantIn, wantOut>>

Kinds == {"lookup", "unknown", "person", "server"}
Registered == {"person", "server"}
Phases == {"poll", "accept", "visit", "lines", "packet", "after",
           "ping", "flush"}

(* dead, blocked, nonl and pinged are FLAGS_DEADSOCKET, FLAGS_BLOCKED,     *)
(* FLAGS_NONL and FLAGS_PINGSENT.  The recvQ is a number of lines and a    *)
(* tail without an end of line: none, short, or of 510 bytes and more.     *)
(* idle = now - lasttime, lag = since - now, age = now - firsttime.  The   *)
(* history variables are open, the time since an unregistered connection   *)
(* was accepted; heard, the time since the last recv of a registered one   *)
(* or its registration; asked, the time since the PING that it has not     *)
(* answered; corpse, the time since dead_link.  The code does not look at  *)
(* age after the registration, so it stops there.                          *)
Free == [kind |-> "free", dead |-> FALSE, blocked |-> FALSE, nonl |-> FALSE,
         pinged |-> FALSE, sendQ |-> 0, lastsq |-> 0, lines |-> 0, tail |-> 0,
         idle |-> 0, lag |-> 0, age |-> 0, open |-> 0, heard |-> 0,
         asked |-> 0, corpse |-> 0]

RecvQ(l) == l.lines + l.tail
Live(f) == {c \in Conn : f[c].kind # "free"}

Init ==
  /\ build \in Builds
  /\ link = [c \in Conn |-> Free]
  /\ phase = "poll" /\ todo = {} /\ cur \in Conn /\ batch = 0
  /\ wantIn = {} /\ wantOut = {} /\ due = 0

(***************************************************************************)
(* send.c.  Each operator gives the connections that its function can      *)
(* leave behind; the kernel decides which.                                 *)
(***************************************************************************)
DeadLink(l) ==
  [l EXCEPT !.dead = TRUE, !.sendQ = 0, !.lines = 0, !.tail = 0]

(* Wrong: a write that empties the queue blocks the connection too.        *)
Written_BlocksOnEnd(l, n) ==
  [l EXCEPT !.sendQ = @ - n, !.lastsq = (l.sendQ - n) \div Step,
            !.blocked = n <= l.sendQ]

Written(l, n) ==
  [l EXCEPT !.sendQ = @ - n, !.lastsq = (l.sendQ - n) \div Step,
            !.blocked = n < l.sendQ]

(* A write error kills the connection; a short write blocks it.            *)
SendQueued(l) ==
  IF l.blocked \/ l.dead \/ l.sendQ = 0 THEN {l}
  ELSE {DeadLink(l)} \cup {Written(l, n) : n \in 0..l.sendQ}

(* The limit is looked at before the message is queued.  The queue is      *)
(* tried each time it has grown by 1024 bytes.                             *)
SendBufToOne(l) ==
  IF l.dead THEN {l}
  ELSE IF l.sendQ > Limit[l.kind] THEN {DeadLink(l)}
  ELSE LET queued == [l EXCEPT !.sendQ = @ + 1] IN
       {DeadLink(l)} \cup (IF queued.sendQ \div Step > queued.lastsq
                           THEN SendQueued(queued) ELSE {queued})

(* Wrong: a blocked connection is not polled for output.                   *)
Poll_NotBlocked ==
  /\ phase = "poll" /\ phase' = "accept"
  /\ wantIn' = {c \in Live(link) :
                  link[c].kind # "lookup" /\ RecvQ(link[c]) < PollLimit}
  /\ wantOut' = {c \in Live(link) :
        link[c].kind # "lookup" /\ link[c].sendQ > 0 /\ ~link[c].blocked}
  /\ UNCHANGED <<build, link, todo, cur, batch, due>>

(***************************************************************************)
(* The poll, and new connections.                                          *)
(***************************************************************************)
(* A connection whose host or ident is looked up is not polled.            *)
Poll ==
  /\ phase = "poll" /\ phase' = "accept"
  /\ wantIn' = {c \in Live(link) :
                  link[c].kind # "lookup" /\ RecvQ(link[c]) < PollLimit}
  /\ wantOut' = {c \in Live(link) :
                  link[c].kind # "lookup" /\ link[c].sendQ > 0}
  /\ UNCHANGED <<build, link, todo, cur, batch, due>>

(* add_connection; what was polled for the slot before was forgotten when  *)
(* it was closed.  Accepting brings the next check_pings forward.          *)
AddConnection(c) ==
  /\ phase = "accept" /\ link[c].kind = "free"
  /\ \E k \in {"lookup", "unknown"} :
       link' = [link EXCEPT ![c] = [Free EXCEPT !.kind = k]]
  /\ wantIn' = wantIn \ {c} /\ wantOut' = wantOut \ {c}
  /\ due' = 0
  /\ UNCHANGED <<build, phase, todo, cur, batch>>

(* read_authports with a part of an answer, and the end of the look-up:    *)
(* an answer, ident_failed or proceed_normal_client_handshake.             *)
LookUp(c) ==
  /\ phase = "accept" /\ link[c].kind = "lookup"
  /\ \E l \in {[link[c] EXCEPT !.idle = 0], [link[c] EXCEPT !.kind = "unknown"],
               [link[c] EXCEPT !.kind = "unknown", !.idle = 0]} :
       link' = [link EXCEPT ![c] = l]
  /\ UNCHANGED <<loop, phase, todo, cur, batch, due>>

(* With poll only the connections that asked for something are visited.    *)
Visited == IF build = "poll" THEN wantIn \cup wantOut ELSE Live(link)

StartVisits ==
  /\ phase = "accept" /\ phase' = "visit"
  /\ todo' = Visited
  /\ UNCHANGED <<loop, link, cur, batch, due>>

(***************************************************************************)
(* A visit: write, read, process, flush.                                   *)
(***************************************************************************)
(* The write that a visit starts with, if the socket has room.             *)
WriteFirst(c) ==
  {link[c]} \cup (IF c \in wantOut
                  THEN SendQueued([link[c] EXCEPT !.blocked = FALSE]) ELSE {})

(* Wrong: only the ping flag is cleared.                                   *)
Heard_KeepsNoNewLine(l) ==
  [l EXCEPT !.idle = 0, !.lag = IF @ < 0 THEN 0 ELSE @,
            !.pinged = FALSE, !.heard = 0, !.asked = 0]

(* What recv does to the timers, whatever it returns.                      *)
Heard(l) == [l EXCEPT !.idle = 0, !.lag = IF @ < 0 THEN 0 ELSE @,
                      !.pinged = FALSE, !.nonl = FALSE,
                      !.heard = 0, !.asked = 0]

(* k lines are read, and the start of another one.                         *)
Arrived(l, k, t) ==
  [l EXCEPT !.lines = @ + k, !.tail = IF k > 0 THEN t
                                      ELSE IF @ + t > 2 THEN 2 ELSE @ + t]

ExcessFlood(l) == l.kind = "person" /\ RecvQ(l) > FloodLimit

(* What a visit can go on with: a connection that the write has not killed. *)
GoesOn(c) == {l \in WriteFirst(c) : l = link[c] \/ ~l.dead}

Visiting(c) ==
  /\ phase = "visit" /\ c \in todo /\ todo' = todo \ {c}
  /\ UNCHANGED <<loop, due>>
Polled(c) == link[c].kind \notin {"free", "lookup"}
Process(c, p, n) == phase' = p /\ cur' = c /\ batch' = n
Leave(c) == link' = [link EXCEPT ![c] = Free] /\ UNCHANGED <<phase, cur, batch>>

(* It was freed since the poll, or is still looked up.                     *)
VisitNothing(c) ==
  /\ Visiting(c) /\ ~Polled(c)
  /\ UNCHANGED <<link, phase, cur, batch>>

(* A write error, a connection found dead, an error or the end of file on  *)
(* read, no block left for the recvQ.                                      *)
VisitFails(c) ==
  /\ Visiting(c) /\ Polled(c)
  /\ c \in wantIn \/ (c \in wantOut /\ \E l \in WriteFirst(c) : l.dead)
  /\ Leave(c)

(* Wrong: the recvQ is only looked at when there is new data.              *)
VisitQuiet_WaitsForData(c) ==
  /\ Visiting(c) /\ Polled(c)
  /\ \E l \in GoesOn(c) :
       link' = [link EXCEPT ![c] = l] /\ Process(c, "after", 0)

(* Nothing to read: read_packet(cptr, 0) looks at the recvQ of a client.   *)
VisitQuiet(c) ==
  /\ Visiting(c) /\ Polled(c)
  /\ \E l \in GoesOn(c) :
       /\ link' = [link EXCEPT ![c] = l]
       /\ Process(c, IF RecvQ(l) > 0 /\ l.kind # "server" THEN "lines"
                                                         ELSE "after", 0)

(* recv has nothing after all (EWOULDBLOCK).                               *)
VisitAgain(c) ==
  /\ Visiting(c) /\ Polled(c) /\ c \in wantIn
  /\ \E l \in GoesOn(c) : link' = [link EXCEPT ![c] = Heard(l)]
  /\ Process(c, "after", 0)

(* recv returns data: a server's is parsed from the read buffer, a         *)
(* client's is put on the recvQ.                                           *)
VisitReads(c) ==
  /\ Visiting(c) /\ Polled(c) /\ c \in wantIn
  /\ \E l \in GoesOn(c), k \in 0..MaxRead, t \in 0..2 :
       LET read == Arrived(Heard(l), k, t) IN
       /\ k + t > 0
       /\ \/ /\ l.kind = "server"
             /\ link' = [link EXCEPT ![c] = Heard(l)]
             /\ Process(c, "packet", k)
          \/ /\ l.kind # "server" /\ ~ExcessFlood(read)
             /\ link' = [link EXCEPT ![c] = read]
             /\ Process(c, "lines", 0)
          \/ /\ l.kind # "server" /\ ExcessFlood(read)
             /\ Leave(c)

(***************************************************************************)
(* The input of cur: the loop of read_packet, and dopacket.                *)
(***************************************************************************)
MoreInput(l) == RecvQ(l) > 0 /\ ~l.nonl /\ l.lag < MaxLag

In(p) == phase = p /\ UNCHANGED <<loop, todo, cur, due>>

Registration(l, k) ==
  [l EXCEPT !.kind = k, !.age = 0, !.open = 0]

(* What a command of c does to the connections: nothing, a message to one, *)
(* the end of one, its own registration.                                   *)
Effects(f, c) ==
  {f}
  \cup (UNION {{[f EXCEPT ![d] = l] : l \in {Free} \cup SendBufToOne(f[d])} :
                 d \in Live(f)})
  \cup {[f EXCEPT ![c] = Registration(@, k)] :
          k \in IF f[c].kind = "unknown" THEN Registered ELSE {}}

(* dopacket looks whether the connection is still there and not dead.      *)
Executes(f, c, n) ==
  \E g \in Effects(f, c) :
    IF g[c].kind = "free" \/ g[c].dead
    THEN link' = [g EXCEPT ![c] = Free] /\ batch' = 0 /\ phase' = "visit"
    ELSE link' = g /\ batch' = n /\ phase' = phase

(* A client's command costs it fake lag before it runs.                    *)
Command ==
  /\ In("lines") /\ link[cur].kind # "server"
  /\ MoreInput(link[cur]) /\ link[cur].lines > 0
  /\ \E p \in Penalty :
       Executes([link EXCEPT ![cur].lines = @ - 1, ![cur].lag = @ + p], cur, 0)

(* No end of line in the recvQ: wait for one, or throw the line away.      *)
NoLine ==
  /\ In("lines") /\ link[cur].kind # "server"
  /\ MoreInput(link[cur]) /\ link[cur].lines = 0
  /\ link' = [link EXCEPT ![cur].nonl = (link[cur].tail < 2),
                          ![cur].tail = IF @ < 2 THEN @ ELSE 0]
  /\ UNCHANGED <<phase, batch>>

(* It has become a server: the recvQ goes to dopacket as a whole.          *)
BecameServer ==
  /\ In("lines") /\ link[cur].kind = "server" /\ MoreInput(link[cur])
  /\ link' = [link EXCEPT ![cur].lines = 0, ![cur].tail = 0]
  /\ batch' = link[cur].lines /\ phase' = "packet"

ServerCommand ==
  In("packet") /\ batch > 0 /\ Executes(link, cur, batch - 1)

EndOfInput ==
  /\ phase = "lines" => ~MoreInput(link[cur])
  /\ phase = "packet" => batch = 0
  /\ phase \in {"lines", "packet"} /\ phase' = "after"
  /\ UNCHANGED <<loop, link, todo, cur, batch, due>>

(* flush_connections(cptr), and a dead connection is closed.               *)
FlushVisited ==
  /\ In("after") /\ phase' = "visit" /\ UNCHANGED batch
  /\ \E l \in SendQueued(link[cur]) :
       link' = [link EXCEPT ![cur] = IF l.dead THEN Free ELSE l]

(***************************************************************************)
(* After read_message: the time, check_pings and flush_connections(&me).   *)
(***************************************************************************)
Later(l, k) ==
  LET all == [l EXCEPT !.idle = @ + k, !.lag = @ - k,
                       !.corpse = IF l.dead THEN @ + k ELSE @] IN
  IF l.kind = "free" THEN l
  ELSE IF l.kind \in Registered THEN [all EXCEPT !.heard = @ + k, !.asked = IF l.pinged THEN @ + k ELSE @]
  ELSE [all EXCEPT !.age = @ + k, !.open = @ + k]

Tick(k) ==
  /\ phase = "visit" /\ todo = {}
  /\ link' = [c \in Conn |-> Later(link[c], k)]
  /\ IF due - k <= 0 THEN phase' = "ping" /\ due' = Gap
                     ELSE phase' = "flush" /\ due' = due - k
  /\ todo' = Live(link)
  /\ UNCHANGED <<loop, cur, batch>>

PingOf(l) == IF l.kind \in Registered THEN Ping ELSE Connect

(* Wrong: the ping is not given a ping time of its own.                    *)
Overdue_AfterOnePing(l) ==
  /\ l.idle >= PingOf(l)
  /\ \/ l.pinged
     \/ l.kind \notin Registered /\ -l.lag >= PingOf(l)

Overdue(l) ==
  /\ l.idle >= PingOf(l)
  /\ \/ l.pinged /\ l.idle >= 2 * PingOf(l)
     \/ l.kind \notin Registered /\ -l.lag >= PingOf(l)

(* check_pings has a look-up that takes too long given up, and starts the  *)
(* time of the connection again.                                           *)
GiveUpLookUp(l) == [l EXCEPT !.kind = "unknown", !.age = 0, !.idle = 0]

(* Wrong: the ping counts as a sign of life.                               *)
PingSent_Refreshes(l) ==
  SendBufToOne([l EXCEPT !.pinged = TRUE, !.idle = 0])

PingSent(l) ==
  SendBufToOne([l EXCEPT !.pinged = TRUE, !.idle = Ping])

TooLongUnknown(l) == l.kind \notin Registered /\ l.age > MaxUnknown

Checked(l) ==
  CASE l.dead -> {Free}
    [] ~l.dead /\ Overdue(l) ->
         IF l.kind = "lookup" THEN {GiveUpLookUp(l)} ELSE {Free}
    [] ~l.dead /\ ~Overdue(l) /\ l.kind \in Registered
         /\ l.idle >= Ping /\ ~l.pinged -> PingSent(l)
    [] OTHER -> IF TooLongUnknown(l) THEN {Free} ELSE {l}

CheckPing(c) ==
  /\ phase = "ping" /\ c \in todo /\ todo' = todo \ {c}
  /\ IF link[c].kind = "free" THEN UNCHANGED link
     ELSE \E l \in Checked(link[c]) : link' = [link EXCEPT ![c] = l]
  /\ UNCHANGED <<loop, phase, cur, batch, due>>

PingsChecked ==
  /\ phase = "ping" /\ todo = {}
  /\ phase' = "flush" /\ todo' = Live(link)
  /\ UNCHANGED <<loop, link, cur, batch, due>>

FlushConnection(c) ==
  /\ phase = "flush" /\ c \in todo /\ todo' = todo \ {c}
  /\ \E l \in SendQueued(link[c]) : link' = [link EXCEPT ![c] = l]
  /\ UNCHANGED <<loop, phase, cur, batch, due>>

EndOfPass ==
  /\ phase = "flush" /\ todo = {} /\ phase' = "poll"
  /\ UNCHANGED <<loop, link, todo, cur, batch, due>>

(* Everything else that writes to a connection or ends it: events, the     *)
(* reads of the server and busy client lists, notices about an exit.       *)
OtherWork(c) ==
  /\ phase \in {"poll", "accept", "visit", "ping"} /\ c \in Live(link)
  /\ \E l \in SendBufToOne(link[c]) \cup {Free} :
       link' = [link EXCEPT ![c] = l]
  /\ UNCHANGED <<loop, phase, todo, cur, batch, due>>

LoopStep ==
  \/ Poll \/ StartVisits
  \/ \E c \in Conn : \/ VisitNothing(c) \/ VisitFails(c) \/ VisitQuiet(c)
                     \/ VisitAgain(c) \/ VisitReads(c)
                     \/ CheckPing(c) \/ FlushConnection(c)
  \/ Command \/ NoLine \/ BecameServer \/ ServerCommand
  \/ EndOfInput \/ FlushVisited
  \/ \E k \in 0..MaxDelay : Tick(k)
  \/ PingsChecked \/ EndOfPass

Next ==
  \/ LoopStep
  \/ \E c \in Conn : AddConnection(c) \/ LookUp(c) \/ OtherWork(c)

Spec == Init /\ [][Next]_vars

(* A visit that finds room for the whole sendQ.                            *)
VisitWrites(c) ==
  /\ VisitQuiet(c) \/ VisitAgain(c) \/ VisitReads(c)
  /\ ~link'[c].blocked

(* The thread goes on; time passes, so that a pass takes a second again    *)
(* and again; and a connection that is polled for output finds room for    *)
(* all of it some time, if that happens again and again.                   *)
FairSpec ==
  /\ Spec /\ WF_vars(LoopStep) /\ SF_vars(\E k \in 1..MaxDelay : Tick(k))
  /\ \A c \in Conn : SF_vars(c \in wantOut /\ VisitWrites(c))

(***************************************************************************)
(* Properties.                                                             *)
(***************************************************************************)
Link == [kind : Kinds \cup {"free"}, dead : BOOLEAN, blocked : BOOLEAN,
         nonl : BOOLEAN, pinged : BOOLEAN, sendQ : Nat, lastsq : Nat,
         lines : Nat, tail : 0..2, idle : Nat, lag : Int, age : Nat,
         open : Nat, heard : Nat, asked : Nat,
         corpse : Nat]

(* The types; what the loop has polled and still has to visit are slots.   *)
TypeOK ==
  /\ build \in Builds
  /\ link \in [Conn -> Link]
  /\ phase \in Phases /\ todo \subseteq Conn /\ cur \in Conn
  /\ wantIn \subseteq Conn /\ wantOut \subseteq Conn
  /\ batch \in Nat /\ due \in Int

Alive(c) == link[c].kind # "free" /\ ~link[c].dead

(* send_queued, flush_connections and sendbufto_one do not touch a blocked *)
(* connection, and only one with a sendQ is polled for output: a blocked   *)
(* connection must have a sendQ, or it is never unblocked.                 *)
BlockedHasQueue == \A c \in Conn : Alive(c) /\ link[c].blocked => link[c].sendQ > 0

(* "Thus we call send_queued() every time 2k has been added to the queue   *)
(* since the last non-fatal write": lastsq is never behind the queue of a  *)
(* connection that can be written to.                                      *)
GrowthIsTried ==
  \A c \in Conn : Alive(c) /\ ~link[c].blocked =>
    link[c].sendQ \div Step <= link[c].lastsq

(* What is queued is never forgotten: a connection that can be written to  *)
(* has been tried, one that cannot is polled.                              *)
BlockedTried == BlockedHasQueue /\ GrowthIsTried

(* FLAGS_NONL stops the processing until the next recv: a complete line    *)
(* never waits behind it, and the wait is for a short line only.           *)
NoLineStuck ==
  \A c \in Conn : link[c].nonl => link[c].lines = 0 /\ link[c].tail < 2

(* A registered peer that says nothing is pinged and then removed: two     *)
(* ping times, and twice the time that check_pings needs to notice.        *)
SilentGone ==
  \A c \in Conn : link[c].kind \in Registered =>
    link[c].heard <= 2 * (Ping + Gap + MaxDelay - 2)

(* An unregistered connection does not stay, whatever it sends and         *)
(* whatever its look-ups do: check_pings gives it its time twice at most.  *)
UnknownGone ==
  \A c \in Conn : link[c].open <= 2 * (MaxUnknown + Gap + MaxDelay)

(* check_pings removes a registered peer that is not dead only after a     *)
(* PING and a whole ping time in which not a byte came back.               *)
TimeoutIsSilence ==
  [][\A c \in Conn :
       /\ phase = "ping" /\ c \in todo \ todo'
       /\ Alive(c) /\ link[c].kind \in Registered /\ link'[c].kind = "free"
       => link[c].pinged /\ link[c].asked >= Ping]_vars

(* dead_link cannot close.  read_message or check_pings does, in the time  *)
(* that check_pings needs to notice, whether the connection is polled or   *)
(* not.                                                                    *)
DeadGone == \A c \in Conn : link[c].corpse < Gap + MaxDelay

(* Nobody stays who should not: silent, unregistered and dead connections  *)
(* are closed within the times that check_pings allows them.               *)
GoneInTime == SilentGone /\ UnknownGone /\ DeadGone

(* If the peers read, a blocked connection is unblocked or closed: it is   *)
(* polled for output for as long as it is blocked.                         *)
BlockedEnds == \A c \in Conn : link[c].blocked ~> ~link[c].blocked

(* "If we don't have anything to read and we have any recvQ, then          *)
(* read_packet must still be called" (read_message): after a pass, a       *)
(* client for which recv was not tried has no line left that its fake lag  *)
(* would let it execute.                                                   *)
Unserved(l) ==
  l.kind = "person" /\ l.lines > 0 /\ MoreInput(l) /\ l.idle > 0
RecvQServed ==
  phase = "visit" /\ todo = {} => \A c \in Conn : ~Unserved(link[c])
SelectServes == build = "select" => RecvQServed
=============================================================================
