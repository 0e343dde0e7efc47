---------------------------- MODULE ClientTable ----------------------------
(***************************************************************************)
(* The client list of one ircd (list.c, s_misc.c, s_bsd.c): every local    *)
(* connection, every remote user and every server known to this server is  *)
(* one aClient on the list that `client' heads.  Connections are accepted  *)
(* or opened, become a user or a server, bring in remote users and         *)
(* servers, and exit_client takes a struct off the list together with      *)
(* everything that depends on it.                                          *)
(*                                                                         *)
(* The daemon is single threaded: a handler runs to its end before the     *)
(* next one starts.  exit_client is nevertheless modelled step by step,    *)
(* with its recursion as an explicit stack of frames, because it walks the *)
(* list with a saved `next' pointer while its own recursive calls take     *)
(* structs off that list.                                                  *)
(***************************************************************************)
EXTENDS Integers, Sequences, FiniteSets

CONSTANTS Client,        \* addresses an aClient can be allocated at
          Listener,      \* listen {} blocks
          SSLListener,   \* the listeners with the ssl option
          Me,            \* the struct of this server, never on the list here
          Nil,           \* the NULL pointer
          UseSSL         \* built with USE_SSL

ASSUME ClientTableAssumption ==
  /\ IsFiniteSet(Client)
  /\ Me \notin Client /\ Nil \notin Client /\ Me # Nil
  /\ Me \notin Listener /\ Nil \notin Listener
  /\ SSLListener \subseteq Listener
  /\ UseSSL \in BOOLEAN
  /\ ~UseSSL => SSLListener = {}

VARIABLES
  status,     \* cptr->status; "free" is an address that is not allocated
  fd,         \* "open" (>= 0), "closed" (-2), "remote" (-256)
  from,       \* cptr->from
  srvptr,     \* cptr->srvptr
  listener,   \* cptr->listener; Me for a connection that we opened
  secure,     \* the structs with FLAGS_SSL
  list,       \* the list `client' heads, newest struct first
  users,      \* serv->users of every server
  lclients,   \* clients of every listen {} block
  IRCstats,   \* the counters LUSERS reports
  stack       \* frames of the running exit_client and m_close calls

vars == <<status, fd, from, srvptr, listener, secure, list, users, lclients,
          IRCstats, stack>>

Handshaking == {"ssl_accept", "ssl_connect", "ssl_starttls"}
Pending == {"unknown", "connecting", "handshake"} \cup Handshaking
Status == {"free", "server", "client"} \cup Pending

Allocated == {c \in Client : status[c] # "free"}

(* The fields of IRCstats that count structs; this server is one of the    *)
(* servers.                                                                *)
Counter == {"clients", "me_clients", "servers", "me_servers", "unknown"}

MyConnect(c) == fd[c] # "remote"
Idle == stack = << >>

Init ==
  /\ status = [c \in Client |-> "free"]
  /\ fd = [c \in Client |-> "closed"]
  /\ from = [c \in Client |-> Nil]
  /\ srvptr = [c \in Client |-> Nil]
  /\ listener = [c \in Client |-> Nil]
  /\ secure = {}
  /\ list = << >>
  /\ users = [s \in Client \cup {Me} |-> 0]
  /\ lclients = [l \in Listener |-> 0]
  /\ IRCstats = [k \in Counter |-> IF k = "servers" THEN 1 ELSE 0]
  /\ stack = << >>

(***************************************************************************)
(* Allocation: make_client and add_client_to_list.                         *)
(***************************************************************************)

MakeClient(c, st, f, src, srv, l) ==
  /\ status[c] = "free"
  /\ status' = [status EXCEPT ![c] = st]
  /\ fd' = [fd EXCEPT ![c] = f]
  /\ from' = [from EXCEPT ![c] = src]
  /\ srvptr' = [srvptr EXCEPT ![c] = srv]
  /\ listener' = [listener EXCEPT ![c] = l]
  /\ list' = <<c>> \o list

(* A connection on listener l that passes the per-address, ban, Z-line and *)
(* throttle checks; the ones they refuse never reach the list.             *)
AddConnection(c, l) ==
  /\ Idle
  /\ MakeClient(c, IF l \in SSLListener THEN "ssl_accept" ELSE "unknown",
                "open", c, Me, l)
  /\ secure' = IF l \in SSLListener THEN secure \cup {c} ELSE secure
  /\ lclients' = [lclients EXCEPT ![l] = @ + 1]
  /\ IRCstats' = [IRCstats EXCEPT !["unknown"] = @ + 1]
  /\ UNCHANGED <<users, stack>>

(* connect_server: a non-blocking connect to a link {} block is under way. *)
ConnectServer(c) ==
  /\ Idle
  /\ MakeClient(c, "connecting", "open", c, Nil, Me)
  /\ IRCstats' = [IRCstats EXCEPT !["unknown"] = @ + 1]
  /\ UNCHANGED <<secure, users, lclients, stack>>

(***************************************************************************)
(* From connection to user or server.                                      *)
(***************************************************************************)
SetStatus(c, st) == status' = [status EXCEPT ![c] = st]

(* The connect has completed: SSL goes first when the block asks for it.   *)
CompletedConnection(c) ==
  /\ Idle /\ status[c] = "connecting"
  /\ \/ /\ SetStatus(c, "handshake")
        /\ UNCHANGED secure
     \/ /\ UseSSL
        /\ SetStatus(c, "ssl_connect")
        /\ secure' = secure \cup {c}
  /\ UNCHANGED <<fd, from, srvptr, listener, list, users, lclients, IRCstats,
                 stack>>

StartTLS(c) ==
  /\ Idle /\ UseSSL
  /\ status[c] = "unknown" /\ fd[c] = "open" /\ c \notin secure
  /\ SetStatus(c, "ssl_starttls")
  /\ secure' = secure \cup {c}
  /\ UNCHANGED <<fd, from, srvptr, listener, list, users, lclients, IRCstats,
                 stack>>

(* read_message finds the SSL handshake of c finished.                     *)
SSLInitFinished(c) ==
  /\ Idle /\ status[c] \in Handshaking
  /\ SetStatus(c, IF status[c] = "ssl_connect" THEN "handshake"
                                               ELSE "unknown")
  /\ UNCHANGED <<fd, from, srvptr, listener, secure, list, users, lclients,
                 IRCstats, stack>>

(* _register_user for a local connection.                                  *)
RegisterUser(c) ==
  /\ Idle /\ status[c] = "unknown" /\ fd[c] = "open"
  /\ SetStatus(c, "client")
  /\ users' = [users EXCEPT ![srvptr[c]] = @ + 1]
  /\ IRCstats' = [IRCstats EXCEPT !["clients"] = @ + 1, !["unknown"] = @ - 1,
                                  !["me_clients"] = @ + 1]
  /\ UNCHANGED <<fd, from, srvptr, listener, secure, list, lclients, stack>>

(* Wrong: the connection stays counted as unknown.                         *)
ServerSynch_StillUnknown(c) ==
  /\ Idle /\ status[c] \in {"unknown", "handshake"} /\ fd[c] = "open"
  /\ SetStatus(c, "server")
  /\ srvptr' = [srvptr EXCEPT ![c] = Me]
  /\ users' = [users EXCEPT ![c] = 0]
  /\ IRCstats' = [IRCstats EXCEPT !["me_servers"] = @ + 1,
                                  !["servers"] = @ + 1]
  /\ UNCHANGED <<fd, from, listener, secure, list, lclients, stack>>

(* m_server_synch: SERVER from a connection that _verify_link accepted.    *)
ServerSynch(c) ==
  /\ Idle /\ status[c] \in {"unknown", "handshake"} /\ fd[c] = "open"
  /\ SetStatus(c, "server")
  /\ srvptr' = [srvptr EXCEPT ![c] = Me]
  /\ users' = [users EXCEPT ![c] = 0]
  /\ IRCstats' = [IRCstats EXCEPT !["me_servers"] = @ + 1,
                                  !["servers"] = @ + 1, !["unknown"] = @ - 1]
  /\ UNCHANGED <<fd, from, listener, secure, list, lclients, stack>>

(***************************************************************************)
(* What a linked server brings in.  The prefix check of parse() has        *)
(* established that the sending server lies behind the link via.           *)
(***************************************************************************)
Link(via) == status[via] = "server" /\ fd[via] = "open"
Behind(p, via) == status[p] = "server" /\ from[p] = via

(* m_server_remote: server p, behind link via, introduces server c.        *)
ServerRemote(c, via, p) ==
  /\ Idle /\ Link(via) /\ Behind(p, via)
  /\ MakeClient(c, "server", "remote", via, p, Nil)
  /\ users' = [users EXCEPT ![c] = 0]
  /\ IRCstats' = [IRCstats EXCEPT !["servers"] = @ + 1]
  /\ UNCHANGED <<secure, lclients, stack>>

Frame == [pc : {"start", "users", "servers", "one", "close"},
          ptr : Client \cup {Nil}, cursor : Client \cup {Nil}]
Call(c) == [pc |-> "start", ptr |-> c, cursor |-> Nil]

(* Wrong: no check that the user's server lies behind the link.            *)
NickRemote_AnyDirection(c, via, p) ==
  /\ Idle /\ Link(via)
  /\ p # Nil => status[p] = "server"
  /\ MakeClient(c, "client", "remote", via, p, Nil)
  /\ users' = IF p = Nil THEN users ELSE [users EXCEPT ![p] = @ + 1]
  /\ IRCstats' = [IRCstats EXCEPT !["clients"] = @ + 1]
  /\ stack' = IF p # Nil THEN << >> ELSE <<Call(c)>>
  /\ UNCHANGED <<secure, lclients>>

(* m_nick with _register_user: link via introduces user c, naming p as the *)
(* user's server, with Nil for a name that finds no server.  The struct is *)
(* registered and counted first; a user whose server is unknown, or whose  *)
(* server lies behind another link, is exited by the same handler.         *)
NickRemote(c, via, p) ==
  /\ Idle /\ Link(via)
  /\ p # Nil => status[p] = "server"
  /\ MakeClient(c, "client", "remote", via, p, Nil)
  /\ users' = IF p = Nil THEN users ELSE [users EXCEPT ![p] = @ + 1]
  /\ IRCstats' = [IRCstats EXCEPT !["clients"] = @ + 1]
  /\ stack' = IF p # Nil /\ from[p] = via THEN << >> ELSE <<Call(c)>>
  /\ UNCHANGED <<secure, lclients>>

(***************************************************************************)
(* What calls exit_client: QUIT, KILL, SQUIT, errors and dead sockets,     *)
(* ping and registration timeouts, refused links, "Server Exists".  Any    *)
(* struct on the list can be its target.                                   *)
(***************************************************************************)
Exit(c) ==
  /\ Idle /\ c \in Allocated
  /\ stack' = <<Call(c)>>
  /\ UNCHANGED <<status, fd, from, srvptr, listener, secure, list, users,
                 lclients, IRCstats>>

(* m_close by a local operator.                                            *)
Close(o) ==
  /\ Idle /\ status[o] = "client" /\ fd[o] = "open"
  /\ stack' = <<[pc |-> "close", ptr |-> Nil, cursor |-> Nil]>>
  /\ UNCHANGED <<status, fd, from, srvptr, listener, secure, list, users,
                 lclients, IRCstats>>

(***************************************************************************)
(* The frames.                                                             *)
(***************************************************************************)
Depth == Len(stack)
Top == stack[Depth]
Below == SubSeq(stack, 1, Depth - 1)
Goto(f) == stack' = [stack EXCEPT ![Depth] = f]

First(s) == IF s = << >> THEN Nil ELSE s[1]
OnList(c) == \E i \in DOMAIN list : list[i] = c
Pos(c) == CHOOSE i \in DOMAIN list : list[i] = c
(* cptr->next *)
Next(c) == IF OnList(c) /\ Pos(c) < Len(list) THEN list[Pos(c) + 1] ELSE Nil
(* The list with c unlinked. *)
Without(c) == IF OnList(c)
              THEN SubSeq(list, 1, Pos(c) - 1)
                     \o SubSeq(list, Pos(c) + 1, Len(list))
              ELSE list

(* Wrong: the listen block keeps counting a connection that has closed.    *)
CloseLocal_KeepsListener ==
  LET c == Top.ptr IN
  /\ ~Idle /\ Top.pc = "start"
  /\ IF MyConnect(c)
     THEN /\ IRCstats' = [IRCstats EXCEPT
                 !["me_clients"] = IF status[c] = "client" THEN @ - 1 ELSE @,
                 !["me_servers"] = IF status[c] = "server" THEN @ - 1 ELSE @]
          /\ fd' = [fd EXCEPT ![c] = "closed"]
          /\ from' = [from EXCEPT ![c] = Nil]
     ELSE UNCHANGED <<IRCstats, fd, from>>
  /\ Goto([Top EXCEPT !.pc = IF status[c] = "server" THEN "users" ELSE "one",
                      !.cursor = First(list)])
  /\ UNCHANGED <<status, srvptr, listener, secure, list, users, lclients>>

(* Closing the local connection: its counters, then close_connection.      *)
CloseLocal ==
  LET c == Top.ptr IN
  /\ ~Idle /\ Top.pc = "start"
  /\ IF MyConnect(c)
     THEN /\ IRCstats' = [IRCstats EXCEPT
                 !["me_clients"] = IF status[c] = "client" THEN @ - 1 ELSE @,
                 !["me_servers"] = IF status[c] = "server" THEN @ - 1 ELSE @]
          /\ lclients' = IF listener[c] \in Listener
                         THEN [lclients EXCEPT ![listener[c]] = @ - 1]
                         ELSE lclients
          /\ fd' = [fd EXCEPT ![c] = "closed"]
          /\ from' = [from EXCEPT ![c] = Nil]
     ELSE UNCHANGED <<IRCstats, lclients, fd, from>>
  /\ Goto([Top EXCEPT !.pc = IF status[c] = "server" THEN "users" ELSE "one",
                      !.cursor = First(list)])
  /\ UNCHANGED <<status, srvptr, listener, secure, list, users>>

(* remove_client_from_list unlinks and frees the struct.                   *)
RemoveClient(c) ==
  /\ list' = Without(c)
  /\ status' = [status EXCEPT ![c] = "free"]
  /\ fd' = [fd EXCEPT ![c] = "closed"]
  /\ from' = [from EXCEPT ![c] = Nil]
  /\ srvptr' = [srvptr EXCEPT ![c] = Nil]
  /\ listener' = [listener EXCEPT ![c] = Nil]
  /\ secure' = secure \ {c}
  /\ UNCHANGED lclients

(* Wrong: the user stays in the global count.                              *)
RemoveOne_KeepsCount(c) ==
  /\ IRCstats' = [IRCstats EXCEPT
         !["servers"] = IF status[c] = "server" THEN @ - 1 ELSE @,
         !["unknown"] = IF status[c] \in Pending THEN @ - 1 ELSE @]
  /\ users' = IF status[c] = "client" /\ srvptr[c] # Nil
              THEN [users EXCEPT ![srvptr[c]] = @ - 1] ELSE users
  /\ RemoveClient(c)

(* exit_one_client, which ends in remove_client_from_list; the counters of *)
(* user modes are in another module.                                       *)
RemoveOne(c) ==
  /\ IRCstats' = [IRCstats EXCEPT
         !["servers"] = IF status[c] = "server" THEN @ - 1 ELSE @,
         !["clients"] = IF status[c] = "client" THEN @ - 1 ELSE @,
         !["unknown"] = IF status[c] \in Pending THEN @ - 1 ELSE @]
  /\ users' = IF status[c] = "client" /\ srvptr[c] # Nil
              THEN [users EXCEPT ![srvptr[c]] = @ - 1] ELSE users
  /\ RemoveClient(c)

(* Wrong: every user of the network goes, not those of the server.         *)
WalkUsers_Every ==
  LET a == Top.cursor IN
  /\ ~Idle /\ Top.pc = "users" /\ a # Nil
  /\ Goto([Top EXCEPT !.cursor = Next(a)])
  /\ IF status[a] = "client"
     THEN RemoveOne(a)
     ELSE UNCHANGED <<status, fd, from, srvptr, listener, secure, list,
                      users, lclients, IRCstats>>

(* Wrong: the walk starts over after each struct.                          *)
WalkUsers_Restart ==
  LET a == Top.cursor IN
  /\ ~Idle /\ Top.pc = "users" /\ a # Nil
  /\ Goto([Top EXCEPT !.cursor = First(list)])
  /\ IF status[a] = "client" /\ srvptr[a] = Top.ptr
     THEN RemoveOne(a)
     ELSE UNCHANGED <<status, fd, from, srvptr, listener, secure, list,
                      users, lclients, IRCstats>>

(* The first walk of exit_client: the users of the server that exits.      *)
WalkUsers ==
  LET a == Top.cursor IN
  /\ ~Idle /\ Top.pc = "users" /\ a # Nil
  /\ Goto([Top EXCEPT !.cursor = Next(a)])
  /\ IF status[a] = "client" /\ srvptr[a] = Top.ptr
     THEN RemoveOne(a)
     ELSE UNCHANGED <<status, fd, from, srvptr, listener, secure, list,
                      users, lclients, IRCstats>>

(* Wrong: the servers behind the one that exits are forgotten.             *)
UsersDone_SkipServers ==
  /\ ~Idle /\ Top.pc = "users" /\ Top.cursor = Nil
  /\ Goto([Top EXCEPT !.pc = "one"])
  /\ UNCHANGED <<status, fd, from, srvptr, listener, secure, list, users,
                 lclients, IRCstats>>

UsersDone ==
  /\ ~Idle /\ Top.pc = "users" /\ Top.cursor = Nil
  /\ Goto([Top EXCEPT !.pc = "servers", !.cursor = First(list)])
  /\ UNCHANGED <<status, fd, from, srvptr, listener, secure, list, users,
                 lclients, IRCstats>>

(* The second walk: the servers behind it, each by a recursive call that   *)
(* starts after `next' has been saved.                                     *)
WalkServers ==
  LET a == Top.cursor
      saved == [Top EXCEPT !.cursor = Next(a)]
  IN
  /\ ~Idle /\ Top.pc = "servers" /\ a # Nil
  /\ IF status[a] = "server" /\ srvptr[a] = Top.ptr
     THEN stack' = Append(Append(Below, saved), Call(a))
     ELSE Goto(saved)
  /\ UNCHANGED <<status, fd, from, srvptr, listener, secure, list, users,
                 lclients, IRCstats>>

ServersDone ==
  /\ ~Idle /\ Top.pc = "servers" /\ Top.cursor = Nil
  /\ Goto([Top EXCEPT !.pc = "one"])
  /\ UNCHANGED <<status, fd, from, srvptr, listener, secure, list, users,
                 lclients, IRCstats>>

(* Finally the struct itself; the call returns.                            *)
ExitOne ==
  /\ ~Idle /\ Top.pc = "one"
  /\ RemoveOne(Top.ptr)
  /\ stack' = Below

(* The loop of m_close over local[], then IRCstats.unknown = 0.            *)
CloseTargets == {c \in Client : /\ status[c] \in {"unknown", "connecting",
                                                  "handshake"}
                                /\ fd[c] = "open"}
CloseLoop ==
  /\ ~Idle /\ Top.pc = "close"
  /\ \/ /\ \E c \in CloseTargets : stack' = Append(stack, Call(c))
        /\ UNCHANGED IRCstats
     \/ /\ CloseTargets = {}
        /\ IRCstats' = [IRCstats EXCEPT !["unknown"] = 0]
        /\ stack' = Below
  /\ UNCHANGED <<status, fd, from, srvptr, listener, secure, list, users,
                 lclients>>

ExitStep == \/ CloseLocal \/ WalkUsers \/ UsersDone \/ WalkServers
            \/ ServersDone \/ ExitOne \/ CloseLoop

Arrive == \E c \in Client :
  \/ \E l \in Listener : AddConnection(c, l)
  \/ ConnectServer(c)
  \/ \E via, p \in Client : ServerRemote(c, via, p)
  \/ \E via \in Client, p \in Client \cup {Nil} : NickRemote(c, via, p)

Promote == \E c \in Client :
  \/ CompletedConnection(c) \/ StartTLS(c) \/ SSLInitFinished(c)
  \/ RegisterUser(c) \/ ServerSynch(c)

Leave == \E c \in Client : Exit(c) \/ Close(c)

NextStep == Arrive \/ Promote \/ Leave \/ ExitStep

(* A handler that was called returns: the process keeps running it.        *)
Spec == Init /\ [][NextStep]_vars /\ WF_vars(ExitStep)

(***************************************************************************)
(* Properties.                                                             *)
(***************************************************************************)
TypeOK ==
  /\ status \in [Client -> Status]
  /\ fd \in [Client -> {"open", "closed", "remote"}]
  /\ from \in [Client -> Client \cup {Nil}]
  /\ srvptr \in [Client -> Client \cup {Me, Nil}]
  /\ listener \in [Client -> Listener \cup {Me, Nil}]
  /\ secure \in SUBSET Client
  /\ list \in Seq(Client)
  /\ users \in [Client \cup {Me} -> Int]
  /\ lclients \in [Listener -> Int]
  /\ IRCstats \in [Counter -> Int]
  /\ stack \in Seq(Frame)

Persons == {c \in Client : status[c] = "client"}
Servers == {c \in Client : status[c] = "server"}
Local == {c \in Client : fd[c] = "open"}
PendingClients == {c \in Client : status[c] \in Pending}
UsersOf(s) == {c \in Persons : srvptr[c] = s}
ClientsOf(l) == {c \in Local : listener[c] = l}

(* The four counters of users and servers that LUSERS reports equal what   *)
(* is on the list, at every step of every exit.                            *)
CountsExact ==
  /\ IRCstats["clients"] = Cardinality(Persons)
  /\ IRCstats["servers"] = 1 + Cardinality(Servers)
  /\ IRCstats["me_clients"] = Cardinality(Persons \cap Local)
  /\ IRCstats["me_servers"] = Cardinality(Servers \cap Local)

(* serv->users of each server (what LINKS and MAP report, and what the     *)
(* split of a server has to bring to nothing) is the number of its users.  *)
UsersExact ==
  \A s \in Servers \cup {Me} : users[s] = Cardinality(UsersOf(s))

(* A listen {} block counts the connections it accepted that are open: a   *)
(* temporary block is deleted when its count comes to 0, so a low count    *)
(* would free a block that a connection still points to.                   *)
ListenerExact == \A l \in Listener : lclients[l] = Cardinality(ClientsOf(l))

(* IRCstats.unknown is the number of local connections that are neither a  *)
(* user nor a server yet.                                                  *)
UnknownExact == IRCstats["unknown"] = Cardinality(PendingClients)

(* The `next' pointer a frame of exit_client has saved, and the struct it  *)
(* is exiting, are still on the list: the recursive calls never free them. *)
FramesListed ==
  \A i \in DOMAIN stack :
     /\ stack[i].ptr # Nil => OnList(stack[i].ptr)
     /\ stack[i].cursor # Nil => OnList(stack[i].cursor)

(* A struct that was freed is not on the list, one in use is on it once.   *)
ListExact ==
  /\ \A c \in Client : OnList(c) <=> status[c] # "free"
  /\ \A i, j \in DOMAIN list : list[i] = list[j] => i = j

(* No struct on the list points to a server or a link that was freed.      *)
NoDangling ==
  \A c \in Allocated :
     /\ srvptr[c] \in Client => status[srvptr[c]] = "server"
     /\ from[c] \in Client => from[c] \in Allocated

(* Between handlers a remote struct is reached by the same link as the     *)
(* server it is on, and that link is an open server connection.            *)
RouteExact ==
  Idle => \A c \in Allocated \ Local :
     /\ srvptr[c] \in Servers /\ from[c] = from[srvptr[c]]
     /\ Link(from[c])

(* The list and all that points into it hold while structs come and go     *)
(* under the walks of nested exits: make_client, remove_client_from_list,  *)
(* exit_client.                                                            *)
ListSound == FramesListed /\ ListExact /\ NoDangling

(* Every user and server is counted where it is, and reached by the link   *)
(* it is behind, also when an introduction came the wrong way.             *)
UsersRouted == UsersExact /\ RouteExact

(* Both at once: no struct is lost, and all of them are where they belong. *)
ClientsSound == ListSound /\ UsersRouted

(* An exit frees nothing outside the branch of the struct it was asked to  *)
(* exit: the users and servers of every other link stay.                   *)
Branch(r) ==
  {c \in Client : \A S \in SUBSET Client :
     r \in S /\ (\A d \in Client : srvptr[d] \in S => d \in S) => c \in S}
Freed(c) == status[c] # "free" /\ status'[c] = "free"
OnlyBranchFreed ==
  [][\A c \in Client : Freed(c) =>
        \E i \in DOMAIN stack :
           stack[i].ptr # Nil /\ c \in Branch(stack[i].ptr)]_vars

(* Every exit ends: the walks terminate although the list shrinks under    *)
(* them.                                                                   *)
ExitEnds == ~Idle ~> Idle

(***************************************************************************)
(* What the counters rest on: how status, fd and srvptr of a struct go     *)
(* together, and which structs the frames are about.                       *)
(***************************************************************************)
StructOK ==
  \A c \in Client :
     /\ status[c] = "free" => fd[c] = "closed"
     /\ status[c] \in Pending => fd[c] # "remote"
     /\ status[c] \in {"unknown", "ssl_accept", "ssl_starttls"} =>
           srvptr[c] = Me
     /\ status[c] \in {"client", "server"} /\ fd[c] # "remote" =>
           srvptr[c] = Me

Exiting == {"users", "servers", "one"}
FramesOK ==
  /\ \A i \in DOMAIN stack :
        /\ stack[i].pc = "start" =>
              /\ i = Len(stack) /\ stack[i].ptr \in Client
              /\ status[stack[i].ptr] # "free" /\ fd[stack[i].ptr] # "closed"
        /\ stack[i].pc \in Exiting =>
              stack[i].ptr \in Client /\ fd[stack[i].ptr] # "open"
        /\ stack[i].pc = "close" => i = 1
  /\ \A c \in Client : status[c] # "free" /\ fd[c] = "closed" =>
        \E i \in DOMAIN stack : stack[i].ptr = c /\ stack[i].pc \in Exiting

(* c comes before d on the list: it is the newer struct of the two.        *)
Before(c, d) == \E i, j \in DOMAIN list : i < j /\ list[i] = c /\ list[j] = d

(* A user introduced the wrong way, while the same handler exits it.       *)
Stray(c) == Len(stack) = 1 /\ stack[1].ptr = c /\ status[c] = "client"

(* Where the pointers of a struct lead: srvptr to a server that is older,  *)
(* from to the link that its server is behind.                             *)
PointersOK ==
  \A c \in Allocated :
     /\ srvptr[c] \in Client =>
           /\ fd[c] = "remote" /\ status[srvptr[c]] = "server"
           /\ Before(c, srvptr[c])
     /\ fd[c] = "open" => from[c] = c
     /\ fd[c] = "closed" => from[c] = Nil
     /\ fd[c] = "remote" =>
           /\ from[c] \in Client /\ status[from[c]] = "server"
           /\ fd[from[c]] # "remote"
     /\ fd[c] = "remote" /\ ~Stray(c) =>
           /\ srvptr[c] \in Client
           /\ from[c] = IF fd[srvptr[c]] = "remote" THEN from[srvptr[c]]
                                                    ELSE srvptr[c]

(* c is still to come in the walk of frame f.                              *)
Ahead(f, c) == f.cursor # Nil /\ (c = f.cursor \/ Before(f.cursor, c))

(* The frames from the bottom up: each is about a struct that is newer     *)
(* than those of the frames below it and than the ones they have saved,    *)
(* and what a walk has passed is gone.                                     *)
FrameOK(i) ==
  LET f == stack[i] IN
  /\ i < Len(stack) => f.pc \in {"close", "servers"}
  /\ f.pc = "close" => f.ptr = Nil /\ f.cursor = Nil
  /\ f.pc # "close" => OnList(f.ptr)
  /\ f.cursor # Nil => OnList(f.cursor)
  /\ f.pc \in {"users", "servers"} => status[f.ptr] = "server"
  /\ \A j \in DOMAIN stack : i < j /\ f.pc = "servers" =>
        /\ Before(stack[j].ptr, f.ptr)
        /\ f.cursor # Nil => Before(stack[j].ptr, f.cursor)
  /\ \A c \in Client : status[c] = "client" /\ srvptr[c] = f.ptr =>
        /\ f.pc = "users" => Ahead(f, c)
        /\ f.pc \notin {"servers", "one"}
  /\ \A c \in Client : status[c] = "server" /\ srvptr[c] = f.ptr =>
        /\ f.pc = "servers" =>
              Ahead(f, c) \/ (i < Len(stack) /\ c = stack[i + 1].ptr)
        /\ f.pc # "one"
StackOK == \A i \in DOMAIN stack : FrameOK(i)

(* What the table promises: a tree that only ever gains and loses leaves.  *)
Tree == INSTANCE ClientTree WITH
  nodes <- Allocated,
  up <- [c \in Client |->
           IF status[c] # "free" /\ srvptr[c] = Nil THEN Me ELSE srvptr[c]]
TreeSpec == Tree!Spec
=============================================================================
