------------------------- MODULE ClientTable_proofs -------------------------
(***************************************************************************)
(* Proofs about ClientTable, for any number of structs and any shape of    *)
(* the network: the counters of LUSERS and of the listen blocks are exact  *)
(* at every step of every exit; the list and all that points into it (the  *)
(* frames of nested exits, srvptr, from and serv->users) are right; an     *)
(* exit frees nothing outside its branch; and the table implements         *)
(* ClientTree.                                                             *)
(***************************************************************************)
EXTENDS ClientTable, Lists_proofs

(***************************************************************************)
(* The list and the stack of frames.                                       *)
(***************************************************************************)
LEMMA StackFacts ==
  ASSUME TypeOK, ~Idle
  PROVE  /\ Depth \in Nat \ {0} /\ DOMAIN stack = 1..Depth
         /\ Top \in Frame
         /\ Below \in Seq(Frame) /\ Len(Below) = Depth - 1
         /\ \A i \in 1..(Depth - 1) : Below[i] = stack[i]
<1>1. stack \in Seq(Frame) /\ stack # << >>
  BY DEF TypeOK, Idle
<1>2. /\ Len(stack) \in Nat \ {0} /\ DOMAIN stack = 1..Len(stack)
      /\ \A i \in 1..Len(stack) : stack[i] \in Frame
  BY <1>1, EmptySeq, LenProperties
<1>3. /\ SubSeq(stack, 1, Len(stack) - 1) \in Seq(Frame)
      /\ Len(SubSeq(stack, 1, Len(stack) - 1)) = Len(stack) - 1
      /\ \A i \in 1..(Len(stack) - 1) :
            SubSeq(stack, 1, Len(stack) - 1)[i] = stack[i]
  BY <1>2, SubSeqProperties
<1> QED
  BY <1>2, <1>3 DEF Depth, Top, Below

LEMMA GotoFacts ==
  ASSUME TypeOK, ~Idle, NEW f \in Frame, Goto(f)
  PROVE  /\ stack' \in Seq(Frame) /\ Len(stack') = Depth
         /\ DOMAIN stack' = 1..Depth /\ stack'[Depth] = f
         /\ \A i \in 1..(Depth - 1) : stack'[i] = stack[i]
<1>1. /\ stack \in Seq(Frame) /\ Depth = Len(stack)
      /\ Depth \in Nat \ {0} /\ Depth \in 1..Len(stack)
  BY StackFacts DEF TypeOK, Depth
<1>2. stack' = [stack EXCEPT ![Depth] = f]
  BY DEF Goto
<1>3. /\ stack' \in Seq(Frame) /\ Len(stack') = Len(stack)
      /\ \A i \in 1..Len(stack) :
            stack'[i] = IF i = Depth THEN f ELSE stack[i]
  BY <1>1, <1>2, ExceptSeq
<1>4. DOMAIN stack' = 1..Len(stack')
  BY <1>3, LenProperties
<1> QED
  BY <1>1, <1>3, <1>4

LEMMA PushFacts ==
  ASSUME NEW s \in Seq(Frame), NEW c \in Client
  PROVE  /\ Append(s, Call(c)) \in Seq(Frame)
         /\ Len(Append(s, Call(c))) = Len(s) + 1
         /\ DOMAIN Append(s, Call(c)) = 1..(Len(s) + 1)
         /\ \A i \in 1..Len(s) : Append(s, Call(c))[i] = s[i]
         /\ Append(s, Call(c))[Len(s) + 1] = Call(c)
<1>1. Call(c) \in Frame
  BY DEF Call, Frame
<1> QED
  BY <1>1, AppendProperties, LenProperties

LEMMA FirstType == ASSUME TypeOK PROVE First(list) \in Client \cup {Nil}
  BY EmptySeq, ElementOfSeq DEF TypeOK, First

LEMMA PosFacts ==
  ASSUME TypeOK, NEW c \in Client, OnList(c)
  PROVE  Pos(c) \in 1..Len(list) /\ list[Pos(c)] = c
  BY LenProperties DEF TypeOK, Pos, OnList

LEMMA NextType ==
  ASSUME TypeOK, NEW c \in Client PROVE Next(c) \in Client \cup {Nil}
<1>1. CASE OnList(c) /\ Pos(c) < Len(list)
  <2>1. list \in Seq(Client) /\ Len(list) \in Nat /\ Pos(c) + 1 \in 1..Len(list)
    BY <1>1, PosFacts, LenProperties DEF TypeOK
  <2> QED
    BY <1>1, <2>1, ElementOfSeq DEF Next
<1>2. CASE ~(OnList(c) /\ Pos(c) < Len(list))
  BY <1>2 DEF Next
<1> QED
  BY <1>1, <1>2

LEMMA WithoutType ==
  ASSUME TypeOK, NEW c \in Client PROVE Without(c) \in Seq(Client)
<1>1. CASE OnList(c)
  <2>1. /\ list \in Seq(Client) /\ Len(list) \in Nat
        /\ Pos(c) \in 1..Len(list) /\ \A i \in 1..Len(list) : list[i] \in Client
    BY <1>1, PosFacts, LenProperties, ElementOfSeq DEF TypeOK
  <2>2. SubSeq(list, 1, Pos(c) - 1) \in Seq(Client)
    BY <2>1, SubSeqProperties
  <2>3. SubSeq(list, Pos(c) + 1, Len(list)) \in Seq(Client)
    BY <2>1, SubSeqProperties
  <2> QED
    BY <1>1, <2>2, <2>3, ConcatProperties DEF Without
<1>2. CASE ~OnList(c)
  BY <1>2 DEF Without, TypeOK
<1> QED
  BY <1>1, <1>2

(***************************************************************************)
(* Types.                                                                  *)
(***************************************************************************)
LEMMA MakeClientType ==
  ASSUME TypeOK, NEW c \in Client, NEW st \in Status,
         NEW f \in {"open", "closed", "remote"}, NEW src \in Client \cup {Nil},
         NEW srv \in Client \cup {Me, Nil}, NEW l \in Listener \cup {Me, Nil},
         MakeClient(c, st, f, src, srv, l)
  PROVE  /\ status' \in [Client -> Status]
         /\ fd' \in [Client -> {"open", "closed", "remote"}]
         /\ from' \in [Client -> Client \cup {Nil}]
         /\ srvptr' \in [Client -> Client \cup {Me, Nil}]
         /\ listener' \in [Client -> Listener \cup {Me, Nil}]
         /\ list' \in Seq(Client)
<1>1. list' \in Seq(Client)
  BY ConcatProperties DEF TypeOK, MakeClient
<1> QED
  BY <1>1 DEF TypeOK, MakeClient

LEMMA RemoveOneType ==
  ASSUME TypeOK, NEW c \in Client, RemoveOne(c), stack' \in Seq(Frame)
  PROVE  TypeOK'
<1>1. list' \in Seq(Client)
  BY WithoutType DEF RemoveOne, RemoveClient
<1>2. users' \in [Client \cup {Me} -> Int]
  BY DEF TypeOK, RemoveOne, RemoveClient
<1>3. IRCstats' \in [Counter -> Int]
  BY DEF TypeOK, RemoveOne, RemoveClient, Counter
<1> QED
  BY <1>1, <1>2, <1>3 DEF TypeOK, RemoveOne, RemoveClient, Status

LEMMA TypeInit == ASSUME ClientTableAssumption, Init PROVE TypeOK
<1>1. << >> \in Seq(Client) /\ << >> \in Seq(Frame)
  BY EmptySeq
<1> QED
  BY <1>1 DEF Init, TypeOK, Status, Counter

LEMMA TopTypes ==
  ASSUME TypeOK, ~Idle, Top.pc # "close", FramesOK
  PROVE  Top.ptr \in Client
<1>1. Top \in Frame /\ Depth \in DOMAIN stack /\ Depth = Len(stack)
  BY StackFacts DEF Depth
<1>2. Top.pc = "start" \/ Top.pc \in Exiting
  BY <1>1 DEF Frame, Exiting
<1> QED
  BY <1>1, <1>2 DEF FramesOK, Top

LEMMA TypeArrive == ASSUME TypeOK, Arrive PROVE TypeOK'
<1>1. PICK c \in Client :
        \/ \E l \in Listener : AddConnection(c, l)
        \/ ConnectServer(c)
        \/ \E via, p \in Client : ServerRemote(c, via, p)
        \/ \E via \in Client, p \in Client \cup {Nil} : NickRemote(c, via, p)
  BY DEF Arrive
<1>2. CASE \E l \in Listener : AddConnection(c, l)
  <2>1. PICK l \in Listener : AddConnection(c, l)
    BY <1>2
  <2> DEFINE st == IF l \in SSLListener THEN "ssl_accept" ELSE "unknown"
  <2>2. st \in Status /\ MakeClient(c, st, "open", c, Me, l)
    BY <2>1 DEF AddConnection, Status, Pending, Handshaking
  <2> HIDE DEF st
  <2>3. /\ IRCstats' \in [Counter -> Int] /\ lclients' \in [Listener -> Int]
        /\ secure' \in SUBSET Client /\ UNCHANGED <<users, stack>>
    BY <2>1 DEF AddConnection, TypeOK, Counter
  <2> QED
    BY <2>2, <2>3, MakeClientType DEF TypeOK
<1>3. CASE ConnectServer(c)
  <2>1. "connecting" \in Status /\ MakeClient(c, "connecting", "open", c, Nil, Me)
    BY <1>3 DEF ConnectServer, Status, Pending
  <2>2. /\ IRCstats' \in [Counter -> Int]
        /\ UNCHANGED <<secure, lclients, users, stack>>
    BY <1>3 DEF ConnectServer, TypeOK, Counter
  <2> QED
    BY <2>1, <2>2, MakeClientType DEF TypeOK
<1>4. CASE \E via, p \in Client : ServerRemote(c, via, p)
  <2>1. PICK via \in Client, p \in Client : ServerRemote(c, via, p)
    BY <1>4
  <2>2. "server" \in Status /\ MakeClient(c, "server", "remote", via, p, Nil)
    BY <2>1 DEF ServerRemote, Status
  <2>3. /\ IRCstats' \in [Counter -> Int] /\ users' \in [Client \cup {Me} -> Int]
        /\ UNCHANGED <<secure, lclients, stack>>
    BY <2>1 DEF ServerRemote, TypeOK, Counter
  <2> QED
    BY <2>2, <2>3, MakeClientType DEF TypeOK
<1>5. CASE \E via \in Client, p \in Client \cup {Nil} : NickRemote(c, via, p)
  <2>1. PICK via \in Client, p \in Client \cup {Nil} : NickRemote(c, via, p)
    BY <1>5
  <2>2. "client" \in Status /\ MakeClient(c, "client", "remote", via, p, Nil)
    BY <2>1 DEF NickRemote, Status
  <2>3. stack' \in Seq(Frame)
    <3>1. << >> \in Seq(Frame) /\ Call(c) \in Frame
      BY EmptySeq DEF Call, Frame
    <3> QED
      BY <2>1, <3>1 DEF NickRemote
  <2>4. /\ IRCstats' \in [Counter -> Int] /\ users' \in [Client \cup {Me} -> Int]
        /\ UNCHANGED <<secure, lclients>>
    BY <2>1 DEF NickRemote, TypeOK, Counter
  <2> QED
    BY <2>2, <2>3, <2>4, MakeClientType DEF TypeOK
<1> QED
  BY <1>1, <1>2, <1>3, <1>4, <1>5

LEMMA TypePromote == ASSUME TypeOK, StructOK, Promote PROVE TypeOK'
<1>1. PICK c \in Client :
        \/ CompletedConnection(c) \/ StartTLS(c) \/ SSLInitFinished(c)
        \/ RegisterUser(c) \/ ServerSynch(c)
  BY DEF Promote
<1>2. CASE CompletedConnection(c) \/ StartTLS(c) \/ SSLInitFinished(c)
  BY <1>2 DEF CompletedConnection, StartTLS, SSLInitFinished, SetStatus, TypeOK,
              Status, Pending, Handshaking
<1>3. CASE RegisterUser(c)
  <2>1. srvptr[c] = Me
    BY <1>3 DEF RegisterUser, StructOK
  <2> QED
    BY <1>3, <2>1 DEF RegisterUser, SetStatus, TypeOK, Status, Counter
<1>4. CASE ServerSynch(c)
  BY <1>4 DEF ServerSynch, SetStatus, TypeOK, Status, Counter
<1> QED
  BY <1>1, <1>2, <1>3, <1>4

LEMMA TypeLeave == ASSUME TypeOK, Leave PROVE TypeOK'
<1>1. stack' \in Seq(Frame)
  <2>1. \E f \in Frame : stack' = <<f>>
    BY DEF Leave, Exit, Close, Call, Frame
  <2> QED
    BY <2>1
<1> QED
  BY <1>1 DEF Leave, Exit, Close, TypeOK

LEMMA TypeExitStep == ASSUME TypeOK, FramesOK, ExitStep PROVE TypeOK'
<1>1. CASE CloseLocal
  <2>1. Top.ptr \in Client
    BY <1>1, TopTypes DEF CloseLocal
  <2> DEFINE f == [Top EXCEPT
                     !.pc = IF status[Top.ptr] = "server" THEN "users" ELSE "one",
                     !.cursor = First(list)]
  <2>2. Top \in Frame /\ ~Idle /\ Goto(f)
    BY <1>1, StackFacts DEF CloseLocal
  <2>3. f \in Frame
    BY <2>2, FirstType DEF Frame
  <2> HIDE DEF f
  <2>4. stack' \in Seq(Frame)
    BY <2>2, <2>3, GotoFacts
  <2>5. CASE MyConnect(Top.ptr)
    <3> DEFINE c == Top.ptr
    <3>1. /\ IRCstats' = [IRCstats EXCEPT
                !["me_clients"] = IF status[c] = "client" THEN @ - 1 ELSE @,
                !["me_servers"] = IF status[c] = "server" THEN @ - 1 ELSE @]
          /\ lclients' = IF listener[c] \in Listener
                         THEN [lclients EXCEPT ![listener[c]] = @ - 1]
                         ELSE lclients
          /\ fd' = [fd EXCEPT ![c] = "closed"] /\ from' = [from EXCEPT ![c] = Nil]
          /\ UNCHANGED <<status, srvptr, listener, secure, list, users>>
      BY <1>1, <2>5 DEF CloseLocal
    <3> HIDE DEF c
    <3>2. IRCstats' \in [Counter -> Int]
      BY <3>1 DEF TypeOK, Counter
    <3>3. lclients' \in [Listener -> Int]
      BY <3>1 DEF TypeOK
    <3>4. /\ fd' \in [Client -> {"open", "closed", "remote"}]
          /\ from' \in [Client -> Client \cup {Nil}]
      BY <3>1 DEF TypeOK
    <3> QED
      BY <2>4, <3>1, <3>2, <3>3, <3>4 DEF TypeOK
  <2>6. CASE ~MyConnect(Top.ptr)
    <3>1. UNCHANGED <<IRCstats, lclients, fd, from, status, srvptr, listener,
                      secure, list, users>>
      BY <1>1, <2>6 DEF CloseLocal
    <3> QED
      BY <2>4, <3>1 DEF TypeOK
  <2> QED
    BY <2>5, <2>6
<1>2. CASE WalkUsers
  <2> DEFINE f == [Top EXCEPT !.cursor = Next(Top.cursor)]
  <2>1. Top \in Frame /\ ~Idle /\ Goto(f) /\ Top.cursor # Nil
    BY <1>2, StackFacts DEF WalkUsers
  <2>2. Top.cursor \in Client /\ f \in Frame
    BY <2>1, NextType DEF Frame
  <2> HIDE DEF f
  <2>3. stack' \in Seq(Frame)
    BY <2>1, <2>2, GotoFacts
  <2>4. CASE RemoveOne(Top.cursor)
    BY <2>2, <2>3, <2>4, RemoveOneType
  <2>5. CASE UNCHANGED <<status, fd, from, srvptr, listener, secure, list,
                         users, lclients, IRCstats>>
    BY <2>3, <2>5 DEF TypeOK
  <2> QED
    BY <1>2, <2>4, <2>5 DEF WalkUsers
<1>3. CASE UsersDone
  <2> DEFINE f == [Top EXCEPT !.pc = "servers", !.cursor = First(list)]
  <2>1. Top \in Frame /\ ~Idle /\ Goto(f)
    BY <1>3, StackFacts DEF UsersDone
  <2>2. f \in Frame
    BY <2>1, FirstType DEF Frame
  <2> HIDE DEF f
  <2>3. stack' \in Seq(Frame)
    BY <2>1, <2>2, GotoFacts
  <2> QED
    BY <1>3, <2>3 DEF UsersDone, TypeOK
<1>4. CASE WalkServers
  <2> DEFINE f == [Top EXCEPT !.cursor = Next(Top.cursor)]
  <2>1. /\ Top \in Frame /\ ~Idle /\ Below \in Seq(Frame)
        /\ stack' = Append(Append(Below, f), Call(Top.cursor)) \/ Goto(f)
        /\ Top.cursor # Nil
    BY <1>4, StackFacts DEF WalkServers
  <2>2. Top.cursor \in Client /\ f \in Frame
    BY <2>1, NextType DEF Frame
  <2> HIDE DEF f
  <2>3. stack' \in Seq(Frame)
    BY <2>1, <2>2, GotoFacts, AppendProperties, PushFacts
  <2> QED
    BY <1>4, <2>3 DEF WalkServers, TypeOK
<1>5. CASE ServersDone
  <2> DEFINE f == [Top EXCEPT !.pc = "one"]
  <2>1. Top \in Frame /\ ~Idle /\ Goto(f)
    BY <1>5, StackFacts DEF ServersDone
  <2>2. f \in Frame
    BY <2>1 DEF Frame
  <2> HIDE DEF f
  <2>3. stack' \in Seq(Frame)
    BY <2>1, <2>2, GotoFacts
  <2> QED
    BY <1>5, <2>3 DEF ServersDone, TypeOK
<1>6. CASE ExitOne
  <2>1. Top.ptr \in Client
    BY <1>6, TopTypes DEF ExitOne
  <2>2. RemoveOne(Top.ptr) /\ stack' \in Seq(Frame)
    BY <1>6, StackFacts DEF ExitOne
  <2> QED
    BY <2>1, <2>2, RemoveOneType
<1>7. CASE CloseLoop
  <2>1. ~Idle /\ stack \in Seq(Frame) /\ Below \in Seq(Frame)
    BY <1>7, StackFacts DEF CloseLoop, TypeOK
  <2>2. stack' \in Seq(Frame)
    BY <1>7, <2>1, PushFacts DEF CloseLoop, CloseTargets
  <2> QED
    BY <1>7, <2>2 DEF CloseLoop, TypeOK, Counter
<1> QED
  BY <1>1, <1>2, <1>3, <1>4, <1>5, <1>6, <1>7 DEF ExitStep

LEMMA TypeStep ==
  ASSUME TypeOK, StructOK, FramesOK, [NextStep]_vars PROVE TypeOK'
<1>1. CASE UNCHANGED vars
  BY <1>1 DEF vars, TypeOK
<1> QED
  BY <1>1, TypeArrive, TypePromote, TypeLeave, TypeExitStep DEF NextStep

(***************************************************************************)
(* StructOK and FramesOK.                                                  *)
(***************************************************************************)
LEMMA StructArrive ==
  ASSUME ClientTableAssumption, TypeOK, StructOK, Arrive PROVE StructOK'
<1>1. PICK c \in Client, st \in Status, f \in {"open", "remote"},
           src \in Client \cup {Nil}, srv \in Client \cup {Me, Nil},
           l \in Listener \cup {Me, Nil} :
        /\ MakeClient(c, st, f, src, srv, l)
        /\ st \in {"unknown", "ssl_accept"} => srv = Me /\ f = "open"
        /\ st = "connecting" => f = "open"
        /\ st \in {"server", "client"} => f = "remote"
        /\ st \in {"unknown", "ssl_accept", "connecting", "server", "client"}
  <2>1. ASSUME NEW c \in Client, NEW l \in Listener, AddConnection(c, l)
        PROVE  MakeClient(c, IF l \in SSLListener THEN "ssl_accept" ELSE "unknown",
                          "open", c, Me, l)
    BY <2>1 DEF AddConnection
  <2>2. ASSUME NEW c \in Client, ConnectServer(c)
        PROVE  MakeClient(c, "connecting", "open", c, Nil, Me)
    BY <2>2 DEF ConnectServer
  <2>3. ASSUME NEW c \in Client, NEW via \in Client, NEW p \in Client,
               ServerRemote(c, via, p)
        PROVE  MakeClient(c, "server", "remote", via, p, Nil)
    BY <2>3 DEF ServerRemote
  <2>4. ASSUME NEW c \in Client, NEW via \in Client, NEW p \in Client \cup {Nil},
               NickRemote(c, via, p)
        PROVE  MakeClient(c, "client", "remote", via, p, Nil)
    BY <2>4 DEF NickRemote
  <2>5. {"unknown", "ssl_accept", "connecting", "server", "client"} \subseteq Status
    BY DEF Status, Pending, Handshaking
  <2> QED
    BY <2>1, <2>2, <2>3, <2>4, <2>5 DEF Arrive
<1> QED
  BY <1>1 DEF MakeClient, StructOK, TypeOK, Pending, Handshaking

LEMMA StructPromote ==
  ASSUME ClientTableAssumption, TypeOK, StructOK, Promote PROVE StructOK'
  BY DEF Promote, CompletedConnection, StartTLS, SSLInitFinished, RegisterUser,
         ServerSynch, SetStatus, StructOK, TypeOK, Pending, Handshaking

LEMMA StructRemove ==
  ASSUME TypeOK, StructOK, NEW c \in Client, RemoveOne(c) PROVE StructOK'
  BY DEF RemoveOne, RemoveClient, StructOK, TypeOK, Pending, Handshaking

LEMMA StructExitStep ==
  ASSUME TypeOK, StructOK, FramesOK, ExitStep PROVE StructOK'
<1>1. CASE CloseLocal
  <2>1. Top.ptr \in Client /\ Depth \in DOMAIN stack /\ Top.pc = "start"
    BY <1>1, TopTypes, StackFacts DEF CloseLocal
  <2>2. status[Top.ptr] # "free"
    BY <2>1 DEF FramesOK, Top
  <2>3. fd' = [fd EXCEPT ![Top.ptr] = "closed"] \/ fd' = fd
    BY <1>1 DEF CloseLocal
  <2>4. fd[Top.ptr] = "remote" => fd' = fd
    BY <1>1 DEF CloseLocal, MyConnect
  <2>5. UNCHANGED <<status, srvptr>>
    BY <1>1 DEF CloseLocal
  <2> QED
    BY <2>1, <2>2, <2>3, <2>4, <2>5 DEF StructOK, TypeOK
<1>2. CASE WalkUsers
  <2>1. Top.cursor \in Client
    BY <1>2, StackFacts DEF WalkUsers, Frame
  <2> QED
    BY <1>2, <2>1, StructRemove DEF WalkUsers, StructOK
<1>3. CASE ExitOne
  BY <1>3, TopTypes, StructRemove DEF ExitOne
<1>4. CASE UsersDone \/ WalkServers \/ ServersDone \/ CloseLoop
  BY <1>4 DEF UsersDone, WalkServers, ServersDone, CloseLoop, StructOK
<1> QED
  BY <1>1, <1>2, <1>3, <1>4 DEF ExitStep

LEMMA StructStep ==
  ASSUME ClientTableAssumption, TypeOK, StructOK, FramesOK, [NextStep]_vars
  PROVE  StructOK'
<1>1. CASE UNCHANGED vars
  BY <1>1 DEF vars, StructOK
<1>2. CASE Leave
  BY <1>2 DEF Leave, Exit, Close, StructOK
<1> QED
  BY <1>1, <1>2, StructArrive, StructPromote, StructExitStep DEF NextStep

(* A step that leaves the frames below the top alone and keeps the top one *)
(* about the same struct.                                                  *)
LEMMA FramesGoto ==
  ASSUME TypeOK, FramesOK, ~Idle, NEW f \in Frame, Goto(f),
         f.pc \in Exiting, f.ptr = Top.ptr, Top.ptr \in Client,
         fd'[Top.ptr] # "open",
         \A x \in Client : fd'[x] = "open" => fd[x] = "open",
         \A x \in Client : status'[x] # "free" /\ fd'[x] = "closed" =>
             x = Top.ptr \/ (status[x] # "free" /\ fd[x] = "closed")
  PROVE  FramesOK'
<1>1. /\ Depth \in Nat \ {0} /\ Depth = Len(stack) /\ DOMAIN stack = 1..Depth
      /\ Len(stack') = Depth /\ DOMAIN stack' = 1..Depth /\ stack'[Depth] = f
      /\ \A i \in 1..(Depth - 1) : stack'[i] = stack[i]
      /\ Top = stack[Depth]
  BY StackFacts, GotoFacts DEF Depth, Top
<1>2. ASSUME NEW i \in DOMAIN stack'
      PROVE  /\ stack'[i].pc = "start" =>
                   /\ i = Len(stack') /\ stack'[i].ptr \in Client
                   /\ status'[stack'[i].ptr] # "free"
                   /\ fd'[stack'[i].ptr] # "closed"
             /\ stack'[i].pc \in Exiting =>
                   stack'[i].ptr \in Client /\ fd'[stack'[i].ptr] # "open"
             /\ stack'[i].pc = "close" => i = 1
  <2>1. CASE i = Depth
    BY <1>1, <2>1 DEF Exiting
  <2>2. CASE i \in 1..(Depth - 1)
    BY <1>1, <2>2 DEF FramesOK
  <2> QED
    BY <1>1, <2>1, <2>2
<1>3. ASSUME NEW x \in Client, status'[x] # "free", fd'[x] = "closed"
      PROVE  \E i \in DOMAIN stack' : stack'[i].ptr = x /\ stack'[i].pc \in Exiting
  <2>1. CASE x = Top.ptr
    BY <1>1, <2>1
  <2>2. CASE status[x] # "free" /\ fd[x] = "closed"
    <3>1. PICK i \in 1..Depth : stack[i].ptr = x /\ stack[i].pc \in Exiting
      BY <1>1, <2>2 DEF FramesOK
    <3>2. CASE i = Depth
      BY <1>1, <3>1, <3>2
    <3>3. CASE i \in 1..(Depth - 1)
      BY <1>1, <3>1, <3>3
    <3> QED
      BY <1>1, <3>1, <3>2, <3>3
  <2> QED
    BY <1>3, <2>1, <2>2
<1> QED
  BY <1>2, <1>3 DEF FramesOK

LEMMA FramesIdle ==
  ASSUME FramesOK, Idle, NEW c \in Client, status[c] # "free"
  PROVE  fd[c] # "closed"
  BY DEF FramesOK, Idle

LEMMA FramesOne ==
  ASSUME stack' = << >> \/ \E c \in Client : /\ stack' = <<Call(c)>>
                                            /\ status'[c] # "free",
         \A x \in Client : status'[x] # "free" => fd'[x] # "closed"
  PROVE  FramesOK'
<1>1. CASE stack' = << >>
  BY <1>1 DEF FramesOK
<1>2. CASE \E c \in Client : stack' = <<Call(c)>> /\ status'[c] # "free"
  BY <1>2 DEF FramesOK, Call, Exiting
<1> QED
  BY <1>1, <1>2

LEMMA FramesOpenStep ==
  ASSUME TypeOK, FramesOK, Arrive \/ Promote \/ Leave PROVE FramesOK'
<1>1. CASE Arrive
  <2>1. PICK c \in Client, st \in Status \ {"free"}, f \in {"open", "remote"},
             src \in Client \cup {Nil}, srv \in Client \cup {Me, Nil},
             l \in Listener \cup {Me, Nil} :
          Idle /\ MakeClient(c, st, f, src, srv, l)
          /\ (stack' = << >> \/ stack' = <<Call(c)>>)
    <3>1. ASSUME NEW c \in Client, NEW l \in Listener, AddConnection(c, l)
          PROVE  /\ Idle /\ stack' = << >>
                 /\ MakeClient(c, IF l \in SSLListener THEN "ssl_accept"
                                                        ELSE "unknown",
                               "open", c, Me, l)
      BY <3>1 DEF AddConnection, Idle
    <3>2. ASSUME NEW c \in Client, ConnectServer(c)
          PROVE  /\ Idle /\ stack' = << >>
                 /\ MakeClient(c, "connecting", "open", c, Nil, Me)
      BY <3>2 DEF ConnectServer, Idle
    <3>3. ASSUME NEW c \in Client, NEW via \in Client, NEW p \in Client,
                 ServerRemote(c, via, p)
          PROVE  /\ Idle /\ stack' = << >>
                 /\ MakeClient(c, "server", "remote", via, p, Nil)
      BY <3>3 DEF ServerRemote, Idle
    <3>4. ASSUME NEW c \in Client, NEW via \in Client, NEW p \in Client \cup {Nil},
                 NickRemote(c, via, p)
          PROVE  /\ Idle /\ (stack' = << >> \/ stack' = <<Call(c)>>)
                 /\ MakeClient(c, "client", "remote", via, p, Nil)
      BY <3>4 DEF NickRemote
    <3>5. {"unknown", "ssl_accept", "connecting", "server", "client"}
             \subseteq Status \ {"free"}
      BY DEF Status, Pending, Handshaking
    <3> QED
      BY <1>1, <3>1, <3>2, <3>3, <3>4, <3>5 DEF Arrive
  <2>2. \A x \in Client : status'[x] # "free" => fd'[x] # "closed"
    BY <2>1, FramesIdle DEF MakeClient, TypeOK
  <2>3. status'[c] # "free"
    BY <2>1 DEF MakeClient, TypeOK
  <2> QED
    BY <2>1, <2>2, <2>3, FramesOne
<1>2. CASE Promote
  <2>1. PICK c \in Client :
          Idle /\ stack' = << >> /\ fd' = fd /\ status[c] # "free"
          /\ \E st \in Status : SetStatus(c, st)
    BY <1>2 DEF Promote, CompletedConnection, StartTLS, SSLInitFinished,
                RegisterUser, ServerSynch, Idle, Status, Pending, Handshaking
  <2>2. \A x \in Client : status'[x] # "free" => fd'[x] # "closed"
    BY <2>1, FramesIdle DEF SetStatus, TypeOK
  <2> QED
    BY <2>1, <2>2, FramesOne
<1>3. CASE \E c \in Client : Exit(c)
  <2>1. \A x \in Client : status'[x] # "free" => fd'[x] # "closed"
    BY <1>3, FramesIdle DEF Exit
  <2> QED
    BY <1>3, <2>1, FramesOne DEF Exit, Allocated
<1>4. CASE \E c \in Client : Close(c)
  <2>1. \A x \in Client : status'[x] # "free" => fd'[x] # "closed"
    BY <1>4, FramesIdle DEF Close
  <2>2. stack' = <<[pc |-> "close", ptr |-> Nil, cursor |-> Nil]>>
    BY <1>4 DEF Close
  <2> QED
    BY <2>1, <2>2 DEF FramesOK, Exiting
<1> QED
  BY <1>1, <1>2, <1>3, <1>4 DEF Leave

LEMMA FramesPush ==
  ASSUME TypeOK, FramesOK, ~Idle, NEW f \in Frame, NEW c \in Client,
         f.pc = Top.pc, f.ptr = Top.ptr, f.pc # "start",
         stack' = Append(Append(Below, f), Call(c)),
         status[c] # "free", fd[c] # "closed", UNCHANGED <<status, fd>>
  PROVE  FramesOK'
<1>1. /\ Depth \in Nat \ {0} /\ Depth = Len(stack) /\ DOMAIN stack = 1..Depth
      /\ Below \in Seq(Frame) /\ Len(Below) = Depth - 1
      /\ \A i \in 1..(Depth - 1) : Below[i] = stack[i]
      /\ Top = stack[Depth]
  BY StackFacts DEF Depth, Top
<1>2. /\ Append(Below, f) \in Seq(Frame) /\ Len(Append(Below, f)) = Depth
      /\ \A i \in 1..(Depth - 1) : Append(Below, f)[i] = stack[i]
      /\ Append(Below, f)[Depth] = f
  BY <1>1, AppendProperties
<1>3. /\ DOMAIN stack' = 1..(Depth + 1) /\ Len(stack') = Depth + 1
      /\ stack'[Depth + 1] = Call(c) /\ stack'[Depth] = f
      /\ \A i \in 1..(Depth - 1) : stack'[i] = stack[i]
  BY <1>1, <1>2, PushFacts
<1>4. /\ \A i \in 1..Depth : stack'[i].pc = stack[i].pc /\ stack'[i].ptr = stack[i].ptr
      /\ stack'[Depth + 1].pc = "start" /\ stack'[Depth + 1].ptr = c
  BY <1>1, <1>3 DEF Call
<1>5. \A i \in 1..Depth : stack[i].pc # "start"
  BY <1>1 DEF FramesOK
<1>6. \A i \in DOMAIN stack' : i \in 1..Depth \/ i = Depth + 1
  BY <1>1, <1>3
<1>7. ASSUME NEW i \in DOMAIN stack'
      PROVE  /\ stack'[i].pc = "start" =>
                   /\ i = Len(stack') /\ stack'[i].ptr \in Client
                   /\ status'[stack'[i].ptr] # "free"
                   /\ fd'[stack'[i].ptr] # "closed"
             /\ stack'[i].pc \in Exiting =>
                   stack'[i].ptr \in Client /\ fd'[stack'[i].ptr] # "open"
             /\ stack'[i].pc = "close" => i = 1
  BY <1>1, <1>3, <1>4, <1>5, <1>6 DEF FramesOK, Exiting
<1>8. ASSUME NEW x \in Client, status'[x] # "free", fd'[x] = "closed"
      PROVE  \E i \in DOMAIN stack' : stack'[i].ptr = x /\ stack'[i].pc \in Exiting
  <2>1. PICK i \in 1..Depth : stack[i].ptr = x /\ stack[i].pc \in Exiting
    BY <1>1, <1>8 DEF FramesOK
  <2> QED
    BY <1>1, <1>3, <1>4, <2>1
<1> QED
  BY <1>7, <1>8 DEF FramesOK

LEMMA FramesPop ==
  ASSUME TypeOK, FramesOK, ~Idle, stack' = Below,
         Top.pc \in Exiting => status'[Top.ptr] = "free",
         \A x \in Client : /\ fd'[x] = "open" => fd[x] = "open"
                           /\ status'[x] # "free" /\ fd'[x] = "closed" =>
                                 status[x] # "free" /\ fd[x] = "closed"
  PROVE  FramesOK'
<1>1. /\ Depth \in Nat \ {0} /\ Depth = Len(stack) /\ DOMAIN stack = 1..Depth
      /\ Len(stack') = Depth - 1 /\ stack' \in Seq(Frame)
      /\ \A i \in 1..(Depth - 1) : stack'[i] = stack[i]
      /\ Top = stack[Depth]
  BY StackFacts DEF Depth, Top
<1>2. DOMAIN stack' = 1..(Depth - 1)
  BY <1>1, LenProperties
<1>3. \A i \in DOMAIN stack' :
        /\ stack'[i].pc # "start"
        /\ stack'[i].pc \in Exiting =>
              stack'[i].ptr \in Client /\ fd'[stack'[i].ptr] # "open"
        /\ stack'[i].pc = "close" => i = 1
  BY <1>1, <1>2 DEF FramesOK
<1>4. ASSUME NEW x \in Client, status'[x] # "free", fd'[x] = "closed"
      PROVE  \E i \in DOMAIN stack' : stack'[i].ptr = x /\ stack'[i].pc \in Exiting
  <2>1. PICK i \in 1..Depth : stack[i].ptr = x /\ stack[i].pc \in Exiting
    BY <1>1, <1>4 DEF FramesOK
  <2>2. i # Depth
    BY <1>1, <1>4, <2>1
  <2> QED
    BY <1>1, <1>2, <2>1, <2>2
<1> QED
  BY <1>3, <1>4 DEF FramesOK

LEMMA TopFacts ==
  ASSUME TypeOK, FramesOK, ~Idle
  PROVE  /\ Depth \in DOMAIN stack /\ Top \in Frame
         /\ Top.pc = "start" =>
               status[Top.ptr] # "free" /\ fd[Top.ptr] # "closed"
         /\ Top.pc \in Exiting => fd[Top.ptr] # "open"
         /\ Top.pc # "close" => Top.ptr \in Client
<1>1. Depth \in DOMAIN stack /\ Top \in Frame
  BY StackFacts
<1> QED
  BY <1>1, TopTypes DEF FramesOK, Top

LEMMA RemoveFrame ==
  ASSUME TypeOK, StructOK, NEW c \in Client, RemoveOne(c)
  PROVE  /\ status'[c] = "free"
         /\ \A x \in Client : /\ fd'[x] = "open" => fd[x] = "open"
                              /\ status'[x] # "free" =>
                                    status[x] # "free" /\ fd'[x] = fd[x]
  BY DEF RemoveOne, RemoveClient, TypeOK

LEMMA FramesExitStep ==
  ASSUME ClientTableAssumption, TypeOK, StructOK, FramesOK, ExitStep
  PROVE  FramesOK'
<1>1. CASE CloseLocal
  <2> DEFINE f == [Top EXCEPT
                     !.pc = IF status[Top.ptr] = "server" THEN "users" ELSE "one",
                     !.cursor = First(list)]
  <2>1. ~Idle /\ Goto(f) /\ Top.pc = "start" /\ Top \in Frame
    BY <1>1, StackFacts DEF CloseLocal
  <2>2. Top.ptr \in Client /\ fd[Top.ptr] # "closed"
    BY <2>1, TopFacts
  <2>3. f \in Frame /\ f.pc \in Exiting /\ f.ptr = Top.ptr
    BY <2>1, FirstType DEF Frame, Exiting
  <2> HIDE DEF f
  <2>4. /\ \/ fd' = [fd EXCEPT ![Top.ptr] = "closed"]
           \/ fd' = fd /\ fd[Top.ptr] = "remote"
        /\ UNCHANGED status
    BY <1>1 DEF CloseLocal, MyConnect
  <2>5. /\ fd'[Top.ptr] # "open"
        /\ \A x \in Client : fd'[x] = "open" => fd[x] = "open"
        /\ \A x \in Client : status'[x] # "free" /\ fd'[x] = "closed" =>
              x = Top.ptr \/ (status[x] # "free" /\ fd[x] = "closed")
    BY <2>2, <2>4 DEF TypeOK
  <2> QED
    BY <2>1, <2>2, <2>3, <2>5, FramesGoto
<1>2. CASE WalkUsers
  <2> DEFINE f == [Top EXCEPT !.cursor = Next(Top.cursor)]
  <2>1. ~Idle /\ Goto(f) /\ Top.pc = "users" /\ Top \in Frame /\ Top.cursor # Nil
    BY <1>2, StackFacts DEF WalkUsers
  <2>2. /\ Top.ptr \in Client /\ Top.cursor \in Client
        /\ Top.pc \in Exiting /\ fd[Top.ptr] # "open"
    BY <2>1, TopFacts DEF Frame, Exiting
  <2>3. f \in Frame /\ f.pc \in Exiting /\ f.ptr = Top.ptr
    BY <2>1, <2>2, NextType DEF Frame, Exiting
  <2> HIDE DEF f
  <2>4. /\ \A x \in Client : fd'[x] = "open" => fd[x] = "open"
        /\ \A x \in Client : status'[x] # "free" =>
              status[x] # "free" /\ fd'[x] = fd[x]
    <3>1. RemoveOne(Top.cursor) \/ UNCHANGED <<status, fd>>
      BY <1>2 DEF WalkUsers
    <3> QED
      BY <2>2, <3>1, RemoveFrame
  <2> QED
    BY <2>1, <2>2, <2>3, <2>4, FramesGoto
<1>3. CASE UsersDone
  <2> DEFINE f == [Top EXCEPT !.pc = "servers", !.cursor = First(list)]
  <2>1. ~Idle /\ Goto(f) /\ Top.pc = "users" /\ Top \in Frame
    BY <1>3, StackFacts DEF UsersDone
  <2>2. Top.ptr \in Client /\ fd[Top.ptr] # "open"
    BY <2>1, TopFacts DEF Exiting
  <2>3. f \in Frame /\ f.pc \in Exiting /\ f.ptr = Top.ptr
    BY <2>1, FirstType DEF Frame, Exiting
  <2> HIDE DEF f
  <2>4. UNCHANGED <<status, fd>>
    BY <1>3 DEF UsersDone
  <2> QED
    BY <2>1, <2>2, <2>3, <2>4, FramesGoto
<1>4. CASE WalkServers
  <2> DEFINE f == [Top EXCEPT !.cursor = Next(Top.cursor)]
             a == Top.cursor
  <2>1. /\ ~Idle /\ Top.pc = "servers" /\ Top \in Frame /\ a # Nil
        /\ UNCHANGED <<status, fd>>
        /\ \/ /\ status[a] = "server" /\ srvptr[a] = Top.ptr
              /\ stack' = Append(Append(Below, f), Call(a))
           \/ Goto(f)
    BY <1>4, StackFacts DEF WalkServers
  <2>2. /\ Top.ptr \in Client /\ a \in Client
        /\ Top.pc \in Exiting /\ fd[Top.ptr] # "open"
    BY <2>1, TopFacts DEF Frame, Exiting
  <2>3. /\ f \in Frame /\ f.pc = Top.pc /\ f.pc \in Exiting /\ f.pc # "start"
        /\ f.ptr = Top.ptr
    BY <2>1, <2>2, NextType DEF Frame, Exiting
  <2> HIDE DEF f
  <2>4. CASE Goto(f)
    BY <2>1, <2>2, <2>3, <2>4, FramesGoto
  <2>5. CASE /\ status[a] = "server" /\ srvptr[a] = Top.ptr
             /\ stack' = Append(Append(Below, f), Call(a))
    <3>1. srvptr[a] # Me
      BY <2>2, <2>5 DEF ClientTableAssumption
    <3>2. fd[a] # "closed"
      BY <2>2, <2>5, <3>1 DEF StructOK
    <3>3. status[a] # "free"
      BY <2>5
    <3> QED
      BY <2>1, <2>2, <2>3, <2>5, <3>2, <3>3, FramesPush
  <2> QED
    BY <2>1, <2>4, <2>5
<1>5. CASE ServersDone
  <2> DEFINE f == [Top EXCEPT !.pc = "one"]
  <2>1. ~Idle /\ Goto(f) /\ Top.pc = "servers" /\ Top \in Frame
    BY <1>5, StackFacts DEF ServersDone
  <2>2. Top.ptr \in Client /\ fd[Top.ptr] # "open"
    BY <2>1, TopFacts DEF Exiting
  <2>3. f \in Frame /\ f.pc \in Exiting /\ f.ptr = Top.ptr
    BY <2>1 DEF Frame, Exiting
  <2> HIDE DEF f
  <2>4. UNCHANGED <<status, fd>>
    BY <1>5 DEF ServersDone
  <2> QED
    BY <2>1, <2>2, <2>3, <2>4, FramesGoto
<1>6. CASE ExitOne
  <2>1. ~Idle /\ Top.ptr \in Client /\ RemoveOne(Top.ptr) /\ stack' = Below
    BY <1>6, TopFacts DEF ExitOne
  <2> QED
    BY <2>1, RemoveFrame, FramesPop
<1>7. CASE CloseLoop
  <2>1. ~Idle /\ Top.pc = "close" /\ UNCHANGED <<status, fd>>
    BY <1>7 DEF CloseLoop
  <2>2. CASE \E c \in CloseTargets : stack' = Append(stack, Call(c))
    <3>1. PICK c \in Client : /\ stack' = Append(stack, Call(c))
                              /\ fd[c] = "open"
      BY <2>2 DEF CloseTargets
    <3>2. /\ Depth \in Nat \ {0} /\ Depth = Len(stack) /\ stack \in Seq(Frame)
          /\ Top = stack[Depth] /\ Top \in Frame /\ Below \in Seq(Frame)
          /\ DOMAIN stack = 1..Depth /\ Len(Below) = Depth - 1
          /\ \A i \in 1..(Depth - 1) : Below[i] = stack[i]
      BY <2>1, StackFacts DEF TypeOK, Depth, Top
    <3>3. stack = Append(Below, Top)
      <4>1. /\ Append(Below, Top) \in Seq(Frame) /\ Len(Append(Below, Top)) = Depth
            /\ \A i \in 1..(Depth - 1) : Append(Below, Top)[i] = stack[i]
            /\ Append(Below, Top)[Depth] = stack[Depth]
        BY <3>2, AppendProperties
      <4>2. \A i \in 1..Len(stack) : stack[i] = Append(Below, Top)[i]
        BY <3>2, <4>1
      <4> QED
        BY <3>2, <4>1, <4>2, SeqEqual
    <3>4. status[c] # "free" /\ fd[c] # "closed"
      BY <3>1 DEF StructOK
    <3>5. stack' = Append(Append(Below, Top), Call(c))
      BY <3>1, <3>3
    <3> QED
      BY <2>1, <3>2, <3>4, <3>5, FramesPush
  <2>3. CASE stack' = Below
    BY <2>1, <2>3, FramesPop DEF Exiting
  <2> QED
    BY <1>7, <2>2, <2>3 DEF CloseLoop
<1> QED
  BY <1>1, <1>2, <1>3, <1>4, <1>5, <1>6, <1>7 DEF ExitStep

(* The part of the inductive invariant that the counters rest on.          *)
Base == TypeOK /\ StructOK /\ FramesOK

LEMMA BaseInit == ASSUME ClientTableAssumption, Init PROVE Base
  BY TypeInit DEF Base, Init, StructOK, FramesOK, Pending, Handshaking

LEMMA BaseStep ==
  ASSUME ClientTableAssumption, Base, [NextStep]_vars PROVE Base'
<1>1. FramesOK'
  <2>1. CASE UNCHANGED vars
    BY <2>1 DEF Base, vars, FramesOK
  <2> QED
    BY <2>1, FramesOpenStep, FramesExitStep DEF Base, NextStep
<1> QED
  BY <1>1, TypeStep, StructStep DEF Base

(* Every variable keeps its type.                                          *)
THEOREM TypeCorrect == Spec => []TypeOK
<1>1. Init => Base
  BY ClientTableAssumption, BaseInit
<1>2. Base /\ [NextStep]_vars => Base'
  BY ClientTableAssumption, BaseStep
<1>3. Base => TypeOK
  BY DEF Base
<1> QED
  BY <1>1, <1>2, <1>3, PTL DEF Spec

(***************************************************************************)
(* Counting.                                                               *)
(***************************************************************************)
Delta(after, before) == IF after /\ ~before THEN 1
                        ELSE IF ~after /\ before THEN -1 ELSE 0

LEMMA CountType ==
  ASSUME ClientTableAssumption, NEW S \in SUBSET Client
  PROVE  IsFiniteSet(S) /\ Cardinality(S) \in Nat
  BY FS_Subset, FS_CardinalityType DEF ClientTableAssumption

LEMMA CountChange ==
  ASSUME ClientTableAssumption, NEW S \in SUBSET Client,
         NEW T \in SUBSET Client, NEW c \in Client,
         \A x \in Client : x # c => (x \in T <=> x \in S)
  PROVE  Cardinality(T) = Cardinality(S) + Delta(c \in T, c \in S)
<1>1. IsFiniteSet(S) /\ Cardinality(S) \in Nat
  BY CountType
<1>2. CASE c \in T /\ c \notin S
  <2>1. T = S \cup {c}
    BY <1>2
  <2> QED
    BY <1>1, <1>2, <2>1, FS_AddElement DEF Delta
<1>3. CASE c \notin T /\ c \in S
  <2>1. T = S \ {c}
    BY <1>3
  <2> QED
    BY <1>1, <1>3, <2>1, FS_RemoveElement DEF Delta
<1>4. CASE c \in T <=> c \in S
  <2>1. T = S
    BY <1>4
  <2> QED
    BY <1>1, <1>4, <2>1 DEF Delta
<1> QED
  BY <1>2, <1>3, <1>4

(* What one struct adds to a counter or takes from it.                     *)
LEMMA OneStruct ==
  ASSUME ClientTableAssumption, NEW c \in Client,
         \A x \in Client : x # c => /\ status'[x] = status[x]
                                   /\ fd'[x] = fd[x]
                                   /\ listener'[x] = listener[x]
  PROVE  /\ Cardinality(Persons') = Cardinality(Persons)
               + Delta(status'[c] = "client", status[c] = "client")
         /\ Cardinality(Servers') = Cardinality(Servers)
               + Delta(status'[c] = "server", status[c] = "server")
         /\ Cardinality(Persons' \cap Local') = Cardinality(Persons \cap Local)
               + Delta(status'[c] = "client" /\ fd'[c] = "open",
                       status[c] = "client" /\ fd[c] = "open")
         /\ Cardinality(Servers' \cap Local') = Cardinality(Servers \cap Local)
               + Delta(status'[c] = "server" /\ fd'[c] = "open",
                       status[c] = "server" /\ fd[c] = "open")
         /\ Cardinality(PendingClients') = Cardinality(PendingClients)
               + Delta(status'[c] \in Pending, status[c] \in Pending)
         /\ \A l \in Listener :
               Cardinality(ClientsOf(l)') = Cardinality(ClientsOf(l))
               + Delta(fd'[c] = "open" /\ listener'[c] = l,
                       fd[c] = "open" /\ listener[c] = l)
<1>1. /\ Persons \in SUBSET Client /\ Persons' \in SUBSET Client
      /\ \A x \in Client : /\ x \in Persons <=> status[x] = "client"
                           /\ x \in Persons' <=> status'[x] = "client"
  BY DEF Persons
<1>2. /\ Servers \in SUBSET Client /\ Servers' \in SUBSET Client
      /\ \A x \in Client : /\ x \in Servers <=> status[x] = "server"
                           /\ x \in Servers' <=> status'[x] = "server"
  BY DEF Servers
<1>3. \A x \in Client : /\ x \in Local <=> fd[x] = "open"
                        /\ x \in Local' <=> fd'[x] = "open"
  BY DEF Local
<1>4. /\ PendingClients \in SUBSET Client /\ PendingClients' \in SUBSET Client
      /\ \A x \in Client : /\ x \in PendingClients <=> status[x] \in Pending
                           /\ x \in PendingClients' <=> status'[x] \in Pending
  BY DEF PendingClients
<1>5. Cardinality(Persons') = Cardinality(Persons)
         + Delta(c \in Persons', c \in Persons)
  BY <1>1, CountChange
<1>6. Cardinality(Servers') = Cardinality(Servers)
         + Delta(c \in Servers', c \in Servers)
  BY <1>2, CountChange
<1>7. Cardinality(Persons' \cap Local') = Cardinality(Persons \cap Local)
         + Delta(c \in Persons' \cap Local', c \in Persons \cap Local)
  BY <1>1, <1>3, CountChange
<1>8. Cardinality(Servers' \cap Local') = Cardinality(Servers \cap Local)
         + Delta(c \in Servers' \cap Local', c \in Servers \cap Local)
  BY <1>2, <1>3, CountChange
<1>9. Cardinality(PendingClients') = Cardinality(PendingClients)
         + Delta(c \in PendingClients', c \in PendingClients)
  BY <1>4, CountChange
<1>10. ASSUME NEW l \in Listener
       PROVE  Cardinality(ClientsOf(l)') = Cardinality(ClientsOf(l))
               + Delta(fd'[c] = "open" /\ listener'[c] = l,
                       fd[c] = "open" /\ listener[c] = l)
  <2>1. /\ ClientsOf(l) \in SUBSET Client /\ ClientsOf(l)' \in SUBSET Client
        /\ \A x \in Client :
              /\ x \in ClientsOf(l) <=> fd[x] = "open" /\ listener[x] = l
              /\ x \in ClientsOf(l)' <=> fd'[x] = "open" /\ listener'[x] = l
    BY DEF ClientsOf, Local
  <2>2. Cardinality(ClientsOf(l)') = Cardinality(ClientsOf(l))
           + Delta(c \in ClientsOf(l)', c \in ClientsOf(l))
    BY <2>1, CountChange
  <2> QED
    BY <2>1, <2>2
<1> QED
  BY <1>1, <1>2, <1>3, <1>4, <1>5, <1>6, <1>7, <1>8, <1>9, <1>10

LEMMA CountsNat ==
  ASSUME ClientTableAssumption
  PROVE  /\ Cardinality(Persons) \in Nat /\ Cardinality(Servers) \in Nat
         /\ Cardinality(Persons \cap Local) \in Nat
         /\ Cardinality(Servers \cap Local) \in Nat
         /\ Cardinality(PendingClients) \in Nat
         /\ \A l \in Listener : Cardinality(ClientsOf(l)) \in Nat
<1>1. /\ Persons \in SUBSET Client /\ Servers \in SUBSET Client
      /\ Persons \cap Local \in SUBSET Client
      /\ Servers \cap Local \in SUBSET Client
      /\ PendingClients \in SUBSET Client
      /\ \A l \in Listener : ClientsOf(l) \in SUBSET Client
  BY DEF Persons, Servers, Local, PendingClients, ClientsOf
<1> QED
  BY <1>1, CountType

Counting == CountsExact /\ ListenerExact

LEMMA CountsByOne ==
  ASSUME ClientTableAssumption, CountsExact, NEW c \in Client,
         \A x \in Client : x # c => /\ status'[x] = status[x]
                                   /\ fd'[x] = fd[x]
                                   /\ listener'[x] = listener[x],
         IRCstats'["clients"] = IRCstats["clients"]
            + Delta(status'[c] = "client", status[c] = "client"),
         IRCstats'["servers"] = IRCstats["servers"]
            + Delta(status'[c] = "server", status[c] = "server"),
         IRCstats'["me_clients"] = IRCstats["me_clients"]
            + Delta(status'[c] = "client" /\ fd'[c] = "open",
                    status[c] = "client" /\ fd[c] = "open"),
         IRCstats'["me_servers"] = IRCstats["me_servers"]
            + Delta(status'[c] = "server" /\ fd'[c] = "open",
                    status[c] = "server" /\ fd[c] = "open")
  PROVE  CountsExact'
<1>1. /\ Cardinality(Persons) \in Nat /\ Cardinality(Servers) \in Nat
      /\ Cardinality(Persons \cap Local) \in Nat
      /\ Cardinality(Servers \cap Local) \in Nat
  BY CountsNat
<1>2. /\ Cardinality(Persons') = Cardinality(Persons)
            + Delta(status'[c] = "client", status[c] = "client")
      /\ Cardinality(Servers') = Cardinality(Servers)
            + Delta(status'[c] = "server", status[c] = "server")
      /\ Cardinality(Persons' \cap Local') = Cardinality(Persons \cap Local)
            + Delta(status'[c] = "client" /\ fd'[c] = "open",
                    status[c] = "client" /\ fd[c] = "open")
      /\ Cardinality(Servers' \cap Local') = Cardinality(Servers \cap Local)
            + Delta(status'[c] = "server" /\ fd'[c] = "open",
                    status[c] = "server" /\ fd[c] = "open")
  BY OneStruct
<1>3. \A p, q : Delta(p, q) \in Int
  BY DEF Delta
<1> HIDE DEF Delta
<1>4. IRCstats'["servers"] = 1 + Cardinality(Servers')
  <2>1. Delta(status'[c] = "server", status[c] = "server") \in Int
    BY <1>3
  <2>2. IRCstats["servers"] = 1 + Cardinality(Servers)
    BY DEF CountsExact
  <2> QED
    BY <1>1, <1>2, <2>1, <2>2
<1> QED
  BY <1>2, <1>4 DEF CountsExact

LEMMA CountsArrive ==
  ASSUME ClientTableAssumption, Base, Counting, Arrive PROVE Counting'
<1>1. PICK c \in Client :
        \/ \E l \in Listener : AddConnection(c, l)
        \/ ConnectServer(c)
        \/ \E via, p \in Client : ServerRemote(c, via, p)
        \/ \E via \in Client, p \in Client \cup {Nil} : NickRemote(c, via, p)
  BY DEF Arrive
<1>2. PICK st \in Status, f \in {"open", "remote"},
           src \in Client \cup {Nil}, srv \in Client \cup {Me, Nil},
           l \in Listener \cup {Me, Nil} :
        /\ MakeClient(c, st, f, src, srv, l)
        /\ \/ /\ st \in {"unknown", "ssl_accept"} /\ f = "open" /\ l \in Listener
              /\ lclients' = [lclients EXCEPT ![l] = @ + 1]
              /\ IRCstats' = [IRCstats EXCEPT !["unknown"] = @ + 1]
           \/ /\ st = "connecting" /\ f = "open" /\ l = Me
              /\ lclients' = lclients
              /\ IRCstats' = [IRCstats EXCEPT !["unknown"] = @ + 1]
           \/ /\ st = "server" /\ f = "remote" /\ lclients' = lclients
              /\ IRCstats' = [IRCstats EXCEPT !["servers"] = @ + 1]
           \/ /\ st = "client" /\ f = "remote" /\ lclients' = lclients
              /\ IRCstats' = [IRCstats EXCEPT !["clients"] = @ + 1]
  <2>1. {"unknown", "ssl_accept", "connecting", "server", "client"} \subseteq Status
    BY DEF Status, Pending, Handshaking
  <2> QED
    BY <1>1, <2>1 DEF AddConnection, ConnectServer, ServerRemote, NickRemote
<1>3. /\ status[c] = "free" /\ fd[c] = "closed"
      /\ status'[c] = st /\ fd'[c] = f /\ listener'[c] = l
      /\ \A x \in Client : x # c => /\ status'[x] = status[x] /\ fd'[x] = fd[x]
                                   /\ listener'[x] = listener[x]
  BY <1>2 DEF MakeClient, Base, TypeOK, StructOK
<1>4. /\ IRCstats \in [Counter -> Int] /\ lclients \in [Listener -> Int]
      /\ Me \notin Listener
  BY DEF Base, TypeOK, ClientTableAssumption
<1>5. CountsExact'
  <2>1. /\ IRCstats'["clients"] = IRCstats["clients"]
            + Delta(status'[c] = "client", status[c] = "client")
        /\ IRCstats'["servers"] = IRCstats["servers"]
            + Delta(status'[c] = "server", status[c] = "server")
        /\ IRCstats'["me_clients"] = IRCstats["me_clients"]
            + Delta(status'[c] = "client" /\ fd'[c] = "open",
                    status[c] = "client" /\ fd[c] = "open")
        /\ IRCstats'["me_servers"] = IRCstats["me_servers"]
            + Delta(status'[c] = "server" /\ fd'[c] = "open",
                    status[c] = "server" /\ fd[c] = "open")
    BY <1>2, <1>3, <1>4 DEF Counter, Delta
  <2> QED
    BY <1>3, <2>1, CountsByOne DEF Counting
<1>6. ListenerExact'
  <2>1. ASSUME NEW k \in Listener
        PROVE  lclients'[k] = Cardinality(ClientsOf(k)')
    <3>1. Cardinality(ClientsOf(k)') = Cardinality(ClientsOf(k))
               + Delta(fd'[c] = "open" /\ listener'[c] = k,
                       fd[c] = "open" /\ listener[c] = k)
      BY <1>3, OneStruct
    <3>2. lclients[k] = Cardinality(ClientsOf(k)) /\ lclients[k] \in Int
      BY <1>4 DEF Counting, ListenerExact
    <3>3. lclients'[k] = lclients[k] + Delta(f = "open" /\ l = k, FALSE)
      BY <1>2, <1>4, <3>2 DEF Delta
    <3> QED
      BY <1>3, <3>1, <3>2, <3>3 DEF Delta
  <2> QED
    BY <2>1 DEF ListenerExact
<1> QED
  BY <1>5, <1>6 DEF Counting

LEMMA CountsPromote ==
  ASSUME ClientTableAssumption, Base, Counting, Promote PROVE Counting'
<1>1. PICK c \in Client, st \in Status \ {"free"} :
        /\ status[c] \in Pending /\ SetStatus(c, st) /\ UNCHANGED <<fd, listener, lclients>>
        /\ \/ st \in Pending /\ UNCHANGED IRCstats
           \/ /\ st = "client" /\ fd[c] = "open"
              /\ IRCstats' = [IRCstats EXCEPT !["clients"] = @ + 1,
                                 !["unknown"] = @ - 1, !["me_clients"] = @ + 1]
           \/ /\ st = "server" /\ fd[c] = "open"
              /\ IRCstats' = [IRCstats EXCEPT !["me_servers"] = @ + 1,
                                 !["servers"] = @ + 1, !["unknown"] = @ - 1]
  <2>1. PICK c \in Client :
          \/ CompletedConnection(c) \/ StartTLS(c) \/ SSLInitFinished(c)
          \/ RegisterUser(c) \/ ServerSynch(c)
    BY DEF Promote
  <2>2. CASE CompletedConnection(c) \/ StartTLS(c) \/ SSLInitFinished(c)
    <3>1. \E st \in {"handshake", "ssl_connect", "ssl_starttls", "unknown"} :
             SetStatus(c, st)
      BY <2>2 DEF CompletedConnection, StartTLS, SSLInitFinished
    <3>2. /\ status[c] \in Pending /\ UNCHANGED <<fd, listener, lclients, IRCstats>>
          /\ {"handshake", "ssl_connect", "ssl_starttls", "unknown"}
                 \subseteq (Status \ {"free"}) \cap Pending
      BY <2>2 DEF CompletedConnection, StartTLS, SSLInitFinished, Status, Pending,
                  Handshaking
    <3> QED
      BY <3>1, <3>2
  <2>3. CASE RegisterUser(c)
    BY <2>3 DEF RegisterUser, Status, Pending
  <2>4. CASE ServerSynch(c)
    BY <2>4 DEF ServerSynch, Status, Pending
  <2> QED
    BY <2>1, <2>2, <2>3, <2>4
<1>2. /\ status'[c] = st /\ fd'[c] = fd[c] /\ listener'[c] = listener[c]
      /\ status[c] # "client" /\ status[c] # "server"
      /\ st \in Pending => st # "client" /\ st # "server"
      /\ \A x \in Client : x # c => /\ status'[x] = status[x] /\ fd'[x] = fd[x]
                                   /\ listener'[x] = listener[x]
  BY <1>1 DEF SetStatus, Base, TypeOK, Pending, Handshaking
<1>3. IRCstats \in [Counter -> Int]
  BY DEF Base, TypeOK
<1>4. CountsExact'
  <2>1. /\ IRCstats'["clients"] = IRCstats["clients"]
            + Delta(status'[c] = "client", status[c] = "client")
        /\ IRCstats'["servers"] = IRCstats["servers"]
            + Delta(status'[c] = "server", status[c] = "server")
        /\ IRCstats'["me_clients"] = IRCstats["me_clients"]
            + Delta(status'[c] = "client" /\ fd'[c] = "open",
                    status[c] = "client" /\ fd[c] = "open")
        /\ IRCstats'["me_servers"] = IRCstats["me_servers"]
            + Delta(status'[c] = "server" /\ fd'[c] = "open",
                    status[c] = "server" /\ fd[c] = "open")
    BY <1>1, <1>2, <1>3 DEF Counter, Delta
  <2> QED
    BY <1>2, <2>1, CountsByOne DEF Counting
<1>5. ListenerExact'
  BY <1>1 DEF Counting, ListenerExact, ClientsOf, Local
<1> QED
  BY <1>4, <1>5 DEF Counting

(* Freeing a struct whose connection is closed already.                    *)
LEMMA CountsRemove ==
  ASSUME ClientTableAssumption, Base, Counting, NEW c \in Client,
         fd[c] # "open", RemoveOne(c)
  PROVE  Counting'
<1>1. /\ status'[c] = "free" /\ fd'[c] = "closed" /\ lclients' = lclients
      /\ \A x \in Client : x # c => /\ status'[x] = status[x] /\ fd'[x] = fd[x]
                                   /\ listener'[x] = listener[x]
  BY DEF RemoveOne, RemoveClient, Base, TypeOK
<1>2. /\ IRCstats \in [Counter -> Int]
      /\ IRCstats' = [IRCstats EXCEPT
            !["servers"] = IF status[c] = "server" THEN @ - 1 ELSE @,
            !["clients"] = IF status[c] = "client" THEN @ - 1 ELSE @,
            !["unknown"] = IF status[c] \in Pending THEN @ - 1 ELSE @]
  BY DEF RemoveOne, RemoveClient, Base, TypeOK
<1>3. CountsExact'
  <2>1. /\ IRCstats'["clients"] = IRCstats["clients"]
            + Delta(status'[c] = "client", status[c] = "client")
        /\ IRCstats'["servers"] = IRCstats["servers"]
            + Delta(status'[c] = "server", status[c] = "server")
        /\ IRCstats'["me_clients"] = IRCstats["me_clients"]
            + Delta(status'[c] = "client" /\ fd'[c] = "open",
                    status[c] = "client" /\ fd[c] = "open")
        /\ IRCstats'["me_servers"] = IRCstats["me_servers"]
            + Delta(status'[c] = "server" /\ fd'[c] = "open",
                    status[c] = "server" /\ fd[c] = "open")
    BY <1>1, <1>2 DEF Counter, Delta
  <2> QED
    BY <1>1, <2>1, CountsByOne DEF Counting
<1>4. ListenerExact'
  BY <1>1, OneStruct, CountsNat DEF Counting, ListenerExact, Delta
<1> QED
  BY <1>3, <1>4 DEF Counting

LEMMA CountsSame ==
  ASSUME Counting, UNCHANGED <<status, fd, listener, lclients>>,
         \A k \in Counter \ {"unknown"} : IRCstats'[k] = IRCstats[k]
  PROVE  Counting'
<1>1. UNCHANGED <<Persons, Servers, Local>> /\ \A l : ClientsOf(l)' = ClientsOf(l)
  BY DEF Persons, Servers, Local, ClientsOf
<1> QED
  BY <1>1 DEF Counting, CountsExact, ListenerExact, Counter

LEMMA CountsCloseLocal ==
  ASSUME ClientTableAssumption, Base, Counting, CloseLocal PROVE Counting'
<1> DEFINE c == Top.ptr
<1>1. c \in Client /\ fd[c] # "closed" /\ UNCHANGED <<status, listener>>
  BY TopFacts DEF CloseLocal, Base
<1>2. CASE MyConnect(c)
  <2>1. /\ IRCstats' = [IRCstats EXCEPT
              !["me_clients"] = IF status[c] = "client" THEN @ - 1 ELSE @,
              !["me_servers"] = IF status[c] = "server" THEN @ - 1 ELSE @]
        /\ lclients' = IF listener[c] \in Listener
                       THEN [lclients EXCEPT ![listener[c]] = @ - 1]
                       ELSE lclients
        /\ fd' = [fd EXCEPT ![c] = "closed"]
    BY <1>2 DEF CloseLocal
  <2> HIDE DEF c
  <2>2. fd[c] = "open"
    BY <1>1, <1>2 DEF MyConnect, Base, TypeOK
  <2>3. /\ status'[c] = status[c] /\ fd'[c] = "closed" /\ listener'[c] = listener[c]
        /\ \A x \in Client : x # c => /\ status'[x] = status[x] /\ fd'[x] = fd[x]
                                     /\ listener'[x] = listener[x]
    BY <1>1, <2>1 DEF Base, TypeOK
  <2>4. IRCstats \in [Counter -> Int] /\ lclients \in [Listener -> Int]
    BY DEF Base, TypeOK
  <2>5. CountsExact'
    <3>1. /\ IRCstats'["clients"] = IRCstats["clients"]
              + Delta(status'[c] = "client", status[c] = "client")
          /\ IRCstats'["servers"] = IRCstats["servers"]
              + Delta(status'[c] = "server", status[c] = "server")
          /\ IRCstats'["me_clients"] = IRCstats["me_clients"]
              + Delta(status'[c] = "client" /\ fd'[c] = "open",
                      status[c] = "client" /\ fd[c] = "open")
          /\ IRCstats'["me_servers"] = IRCstats["me_servers"]
              + Delta(status'[c] = "server" /\ fd'[c] = "open",
                      status[c] = "server" /\ fd[c] = "open")
      BY <2>1, <2>2, <2>3, <2>4 DEF Counter, Delta
    <3> QED
      BY <1>1, <2>3, <3>1, CountsByOne DEF Counting
  <2>6. ListenerExact'
    <3>1. ASSUME NEW k \in Listener
          PROVE  lclients'[k] = Cardinality(ClientsOf(k)')
      <4>1. Cardinality(ClientsOf(k)') = Cardinality(ClientsOf(k))
               + Delta(fd'[c] = "open" /\ listener'[c] = k,
                       fd[c] = "open" /\ listener[c] = k)
        BY <1>1, <2>3, OneStruct
      <4>2. lclients[k] = Cardinality(ClientsOf(k)) /\ lclients[k] \in Int
        BY <2>4 DEF Counting, ListenerExact
      <4>3. lclients'[k] = lclients[k] + Delta(FALSE, listener[c] = k)
        BY <2>1, <2>4, <4>2 DEF Delta
      <4> QED
        BY <2>2, <2>3, <4>1, <4>2, <4>3 DEF Delta
    <3> QED
      BY <3>1 DEF ListenerExact
  <2> QED
    BY <2>5, <2>6 DEF Counting
<1>3. CASE ~MyConnect(c)
  <2>1. UNCHANGED <<status, fd, listener, lclients, IRCstats>>
    BY <1>3 DEF CloseLocal
  <2> QED
    BY <2>1, CountsSame
<1> QED
  BY <1>2, <1>3

LEMMA CountsStep ==
  ASSUME ClientTableAssumption, Base, Counting, [NextStep]_vars PROVE Counting'
<1>1. CASE WalkUsers
  <2> DEFINE a == Top.cursor
  <2>1. ~Idle /\ Top.pc = "users" /\ a # Nil /\ Top \in Frame
    BY <1>1, StackFacts DEF WalkUsers, Base
  <2>2. a \in Client /\ Top.ptr \in Client
    BY <2>1, TopFacts DEF Frame, Base
  <2>3. CASE RemoveOne(a) /\ status[a] = "client" /\ srvptr[a] = Top.ptr
    <3>1. srvptr[a] # Me
      BY <2>2, <2>3 DEF ClientTableAssumption
    <3>2. fd[a] # "open"
      BY <2>2, <2>3, <3>1 DEF Base, StructOK
    <3> QED
      BY <2>2, <2>3, <3>2, CountsRemove
  <2>4. CASE UNCHANGED <<status, fd, from, srvptr, listener, secure, list, users,
                         lclients, IRCstats>>
    BY <2>4, CountsSame
  <2> QED
    BY <1>1, <2>3, <2>4 DEF WalkUsers
<1>2. CASE ExitOne
  <2>1. Top.ptr \in Client /\ fd[Top.ptr] # "open" /\ RemoveOne(Top.ptr)
    BY <1>2, TopFacts DEF ExitOne, Base, Exiting
  <2> QED
    BY <2>1, CountsRemove
<1>3. CASE UsersDone \/ WalkServers \/ ServersDone \/ CloseLoop \/ Leave
  <2>1. UNCHANGED <<status, fd, listener, lclients>>
    BY <1>3 DEF UsersDone, WalkServers, ServersDone, CloseLoop, Leave, Exit, Close
  <2>2. IRCstats' = IRCstats \/ IRCstats' = [IRCstats EXCEPT !["unknown"] = 0]
    BY <1>3 DEF UsersDone, WalkServers, ServersDone, CloseLoop, Leave, Exit, Close
  <2>3. \A k \in Counter \ {"unknown"} : IRCstats'[k] = IRCstats[k]
    BY <2>2 DEF Base, TypeOK
  <2> QED
    BY <2>1, <2>3, CountsSame
<1>4. CASE UNCHANGED vars
  BY <1>4, CountsSame DEF vars
<1> QED
  BY <1>1, <1>2, <1>3, <1>4, CountsArrive, CountsPromote, CountsCloseLocal
     DEF NextStep, ExitStep

LEMMA CountsInit == ASSUME ClientTableAssumption, Init PROVE Counting
<1>1. Persons = {} /\ Servers = {} /\ Local = {} /\ \A l : ClientsOf(l) = {}
  BY DEF Init, Persons, Servers, Local, ClientsOf
<1>2. Persons \cap Local = {} /\ Servers \cap Local = {}
  BY <1>1
<1>3. CountsExact
  <2>1. /\ IRCstats["clients"] = 0 /\ IRCstats["servers"] = 1
        /\ IRCstats["me_clients"] = 0 /\ IRCstats["me_servers"] = 0
    BY DEF Init, Counter
  <2> QED
    BY <1>1, <1>2, <2>1, FS_EmptySet DEF CountsExact
<1>4. ListenerExact
  BY <1>1, FS_EmptySet DEF Init, ListenerExact
<1> QED
  BY <1>3, <1>4 DEF Counting

(* The counters of users and servers are exact at every step, also inside  *)
(* the exit of a whole branch.                                             *)
THEOREM CountersCorrect == Spec => []CountsExact
<1>1. Init => Base /\ Counting
  BY ClientTableAssumption, BaseInit, CountsInit
<1>2. Base /\ Counting /\ [NextStep]_vars => (Base /\ Counting)'
  BY ClientTableAssumption, BaseStep, CountsStep
<1>3. Base /\ Counting => CountsExact
  BY DEF Counting
<1> QED
  BY <1>1, <1>2, <1>3, PTL DEF Spec

(* A listen block counts the open connections it accepted, whatever state  *)
(* of a handshake they are in, until close_connection is done with each.   *)
THEOREM ListenersCorrect == Spec => []ListenerExact
<1>1. Init => Base /\ Counting
  BY ClientTableAssumption, BaseInit, CountsInit
<1>2. Base /\ Counting /\ [NextStep]_vars => (Base /\ Counting)'
  BY ClientTableAssumption, BaseStep, CountsStep
<1>3. Base /\ Counting => ListenerExact
  BY DEF Counting
<1> QED
  BY <1>1, <1>2, <1>3, PTL DEF Spec

(***************************************************************************)
(* The counter of unknown connections, in a build without SSL.             *)
(***************************************************************************)
NoHandshaking == \A c \in Client : status[c] \notin Handshaking

LEMMA NoHandshakingStep ==
  ASSUME ClientTableAssumption, ~UseSSL, Base, NoHandshaking, [NextStep]_vars
  PROVE  NoHandshaking'
<1>1. CASE Arrive
  <2>1. PICK c \in Client, st \in {"unknown", "connecting", "server", "client"} :
          \E f, src, srv, l : MakeClient(c, st, f, src, srv, l)
    <3>1. SSLListener = {}
      BY DEF ClientTableAssumption
    <3> QED
      BY <1>1, <3>1 DEF Arrive, AddConnection, ConnectServer, ServerRemote, NickRemote
  <2> QED
    BY <2>1 DEF MakeClient, NoHandshaking, Base, TypeOK, Handshaking
<1>2. CASE Promote
  BY <1>2 DEF Promote, CompletedConnection, StartTLS, SSLInitFinished, RegisterUser,
              ServerSynch, SetStatus, NoHandshaking, Base, TypeOK, Handshaking
<1>3. CASE \E c \in Client : RemoveOne(c)
  BY <1>3 DEF RemoveOne, RemoveClient, NoHandshaking, Base, TypeOK, Handshaking
<1>4. CASE UNCHANGED status
  BY <1>4 DEF NoHandshaking
<1>5. CASE WalkUsers
  <2>1. Top.cursor \in Client
    BY <1>5, StackFacts DEF WalkUsers, Frame, Base
  <2> QED
    BY <1>5, <2>1, <1>3, <1>4 DEF WalkUsers
<1>6. CASE ExitOne
  <2>1. Top.ptr \in Client
    BY <1>6, TopFacts DEF ExitOne, Base
  <2> QED
    BY <1>6, <2>1, <1>3 DEF ExitOne
<1>7. CASE CloseLocal \/ UsersDone \/ WalkServers \/ ServersDone \/ CloseLoop \/ Leave
  BY <1>7, <1>4 DEF CloseLocal, UsersDone, WalkServers, ServersDone, CloseLoop,
                    Leave, Exit, Close
<1>8. CASE UNCHANGED vars
  BY <1>8, <1>4 DEF vars
<1> QED
  BY <1>1, <1>2, <1>5, <1>6, <1>7, <1>8 DEF NextStep, ExitStep

(* A step that moves one struct in or out of the pending ones.             *)
LEMMA UnknownByOne ==
  ASSUME ClientTableAssumption, UnknownExact, NEW c \in Client,
         \A x \in Client : x # c => status'[x] = status[x],
         IRCstats'["unknown"] = IRCstats["unknown"]
            + Delta(status'[c] \in Pending, status[c] \in Pending)
  PROVE  UnknownExact'
<1>1. /\ PendingClients \in SUBSET Client /\ PendingClients' \in SUBSET Client
      /\ \A x \in Client : /\ x \in PendingClients <=> status[x] \in Pending
                           /\ x \in PendingClients' <=> status'[x] \in Pending
  BY DEF PendingClients
<1>2. Cardinality(PendingClients') = Cardinality(PendingClients)
         + Delta(c \in PendingClients', c \in PendingClients)
  BY <1>1, CountChange
<1> QED
  BY <1>1, <1>2 DEF UnknownExact

LEMMA UnknownSame ==
  ASSUME UnknownExact, UNCHANGED status, IRCstats'["unknown"] = IRCstats["unknown"]
  PROVE  UnknownExact'
<1>1. PendingClients' = PendingClients
  BY DEF PendingClients
<1> QED
  BY <1>1 DEF UnknownExact

(* m_close may reset the counter: every pending connection is gone by then.*)
LEMMA CloseLeavesNone ==
  ASSUME TypeOK, StructOK, FramesOK, NoHandshaking, ~Idle, Top.pc = "close",
         CloseTargets = {}
  PROVE  PendingClients = {}
<1>1. /\ Depth \in DOMAIN stack /\ Depth = Len(stack) /\ DOMAIN stack = 1..Depth
      /\ Top = stack[Depth]
  BY StackFacts DEF Depth, Top
<1>2. Depth = 1
  BY <1>1 DEF FramesOK
<1>3. SUFFICES ASSUME NEW x \in Client, status[x] \in Pending PROVE FALSE
  BY DEF PendingClients
<1>4. status[x] \in {"unknown", "connecting", "handshake"}
  BY <1>3 DEF NoHandshaking, Pending
<1>5. fd[x] = "closed" /\ status[x] # "free"
  BY <1>3, <1>4 DEF CloseTargets, StructOK, TypeOK
<1>6. PICK i \in DOMAIN stack : stack[i].ptr = x /\ stack[i].pc \in Exiting
  BY <1>5 DEF FramesOK
<1>7. i = Depth
  BY <1>1, <1>2, <1>6
<1> QED
  BY <1>1, <1>6, <1>7 DEF Exiting

LEMMA UnknownStep ==
  ASSUME ClientTableAssumption, ~UseSSL, Base, NoHandshaking, UnknownExact,
         [NextStep]_vars
  PROVE  UnknownExact'
<1>1. IRCstats \in [Counter -> Int]
  BY DEF Base, TypeOK
<1>2. CASE Arrive
  <2>1. PICK c \in Client, st \in {"unknown", "connecting", "server", "client"} :
          /\ \E f, src, srv, l : MakeClient(c, st, f, src, srv, l)
          /\ IF st \in {"unknown", "connecting"}
             THEN IRCstats' = [IRCstats EXCEPT !["unknown"] = @ + 1]
             ELSE \E k \in {"servers", "clients"} :
                     IRCstats' = [IRCstats EXCEPT ![k] = @ + 1]
    <3>1. SSLListener = {}
      BY DEF ClientTableAssumption
    <3> QED
      BY <1>2, <3>1 DEF Arrive, AddConnection, ConnectServer, ServerRemote, NickRemote
  <2>2. /\ status[c] = "free" /\ status'[c] = st
        /\ \A x \in Client : x # c => status'[x] = status[x]
    BY <2>1 DEF MakeClient, Base, TypeOK
  <2>3. IRCstats'["unknown"] = IRCstats["unknown"]
            + Delta(status'[c] \in Pending, status[c] \in Pending)
    BY <1>1, <2>1, <2>2 DEF Delta, Pending, Handshaking, Counter
  <2> QED
    BY <2>2, <2>3, UnknownByOne
<1>3. CASE Promote
  <2>1. PICK c \in Client, st \in {"handshake", "client", "server"} :
          /\ SetStatus(c, st) /\ status[c] \in Pending
          /\ IF st = "handshake" THEN UNCHANGED IRCstats
             ELSE IRCstats'["unknown"] = IRCstats["unknown"] - 1
    BY <1>1, <1>3 DEF Promote, CompletedConnection, StartTLS, SSLInitFinished,
         RegisterUser, ServerSynch, NoHandshaking, Pending, Counter
  <2>2. /\ status'[c] = st
        /\ \A x \in Client : x # c => status'[x] = status[x]
    BY <2>1 DEF SetStatus, Base, TypeOK
  <2>3. IRCstats'["unknown"] = IRCstats["unknown"]
            + Delta(status'[c] \in Pending, status[c] \in Pending)
    BY <1>1, <2>1, <2>2 DEF Delta, Pending, Handshaking, Counter
  <2> QED
    BY <2>2, <2>3, UnknownByOne
<1>4. ASSUME NEW c \in Client, RemoveOne(c) PROVE UnknownExact'
  <2>1. /\ status'[c] = "free"
        /\ \A x \in Client : x # c => status'[x] = status[x]
    BY <1>4 DEF RemoveOne, RemoveClient, Base, TypeOK
  <2>2. IRCstats'["unknown"] = IRCstats["unknown"]
            + Delta(status'[c] \in Pending, status[c] \in Pending)
    BY <1>1, <1>4, <2>1 DEF RemoveOne, RemoveClient, Delta, Pending, Handshaking, Counter
  <2> QED
    BY <2>1, <2>2, UnknownByOne
<1>5. CASE CloseLocal
  BY <1>1, <1>5, UnknownSame DEF CloseLocal, Counter
<1>6. CASE WalkUsers
  <2>1. Top.cursor \in Client
    BY <1>6, StackFacts DEF WalkUsers, Frame, Base
  <2> QED
    BY <1>6, <2>1, <1>4, UnknownSame DEF WalkUsers
<1>7. CASE ExitOne
  <2>1. Top.ptr \in Client
    BY <1>7, TopFacts DEF ExitOne, Base
  <2> QED
    BY <1>7, <2>1, <1>4 DEF ExitOne
<1>8. CASE UsersDone \/ WalkServers \/ ServersDone \/ Leave
  BY <1>8, UnknownSame DEF UsersDone, WalkServers, ServersDone, Leave, Exit, Close
<1>9. CASE CloseLoop
  <2>1. CASE UNCHANGED <<status, IRCstats>>
    BY <2>1, UnknownSame
  <2>2. CASE CloseTargets = {} /\ IRCstats' = [IRCstats EXCEPT !["unknown"] = 0]
    <3>1. PendingClients = {}
      BY <1>9, <2>2, CloseLeavesNone DEF CloseLoop, Base
    <3>2. PendingClients' = {}
      BY <1>9, <3>1 DEF CloseLoop, PendingClients
    <3> QED
      BY <1>1, <2>2, <3>2, FS_EmptySet DEF UnknownExact, Counter
  <2> QED
    BY <1>9, <2>1, <2>2 DEF CloseLoop
<1>10. CASE UNCHANGED vars
  BY <1>10, UnknownSame DEF vars
<1> QED
  BY <1>2, <1>3, <1>5, <1>6, <1>7, <1>8, <1>9, <1>10 DEF NextStep, ExitStep

(* Without SSL the number LUSERS gives for unknown connections is exact,   *)
(* although m_close does not count it down but sets it to 0.               *)
THEOREM UnknownCorrect == ASSUME ~UseSSL PROVE Spec => []UnknownExact
<1>1. Init => Base /\ NoHandshaking /\ UnknownExact
  <2>1. ASSUME Init PROVE PendingClients = {} /\ NoHandshaking
    BY <2>1 DEF Init, PendingClients, NoHandshaking, Pending, Handshaking
  <2> QED
    BY ClientTableAssumption, <2>1, BaseInit, FS_EmptySet
       DEF Init, UnknownExact, Counter
<1>2. /\ Base /\ NoHandshaking /\ UnknownExact
      /\ [NextStep]_vars
      => (Base /\ NoHandshaking /\ UnknownExact)'
  BY ClientTableAssumption, BaseStep, NoHandshakingStep, UnknownStep
<1> QED
  BY <1>1, <1>2, PTL DEF Spec

(***************************************************************************)
(* The list and all that points into it.                                   *)
(*                                                                         *)
(* The argument: a struct is always newer than the server it is on, so the *)
(* exit of a server only ever frees structs that stand before it on the    *)
(* list, and every pointer that a walk has saved leads behind it.          *)
(***************************************************************************)
(***************************************************************************)
(* The order of the list.                                                  *)
(***************************************************************************)
NoDup == \A i, j \in DOMAIN list : list[i] = list[j] => i = j

LEMMA ListFacts ==
  ASSUME TypeOK
  PROVE  /\ list \in Seq(Client) /\ Len(list) \in Nat /\ DOMAIN list = 1..Len(list)
         /\ \A i \in 1..Len(list) : list[i] \in Client
  BY LenProperties, ElementOfSeq DEF TypeOK

LEMMA BeforeFacts ==
  ASSUME TypeOK, NoDup
  PROVE  /\ \A x, y \in Client : Before(x, y) =>
               x # y /\ OnList(x) /\ OnList(y) /\ ~Before(y, x)
         /\ \A x, y, z \in Client : Before(x, y) /\ Before(y, z) => Before(x, z)
         /\ \A x, y \in Client : OnList(x) /\ OnList(y) =>
               x = y \/ Before(x, y) \/ Before(y, x)
<1>1. Len(list) \in Nat /\ DOMAIN list = 1..Len(list)
  BY ListFacts
<1>2. ASSUME NEW x \in Client, NEW y \in Client, Before(x, y)
      PROVE  x # y /\ OnList(x) /\ OnList(y) /\ ~Before(y, x)
  BY <1>1, <1>2 DEF Before, OnList, NoDup
<1>3. ASSUME NEW x \in Client, NEW y \in Client, NEW z \in Client,
             Before(x, y), Before(y, z)
      PROVE  Before(x, z)
  BY <1>1, <1>3 DEF Before, NoDup
<1>4. ASSUME NEW x \in Client, NEW y \in Client, OnList(x), OnList(y)
      PROVE  x = y \/ Before(x, y) \/ Before(y, x)
  BY <1>1, <1>4 DEF Before, OnList
<1> QED
  BY <1>2, <1>3, <1>4

(* What stands behind a struct, and what behind the head of the list.      *)
LEMMA NextFacts ==
  ASSUME ClientTableAssumption, TypeOK, NoDup, NEW a \in Client, OnList(a)
  PROVE  /\ Next(a) # Nil => /\ Next(a) \in Client /\ Next(a) # a
                             /\ OnList(Next(a)) /\ Before(a, Next(a))
         /\ \A c \in Client : Before(a, c) =>
               Next(a) # Nil /\ (c = Next(a) \/ Before(Next(a), c))
<1>1. /\ Len(list) \in Nat /\ DOMAIN list = 1..Len(list)
      /\ \A i \in 1..Len(list) : list[i] \in Client
  BY ListFacts
<1>2. Pos(a) \in 1..Len(list) /\ list[Pos(a)] = a
  BY PosFacts
<1>3. CASE Pos(a) < Len(list)
  <2> DEFINE p == Pos(a) + 1
  <2>1. Next(a) = list[p] /\ p \in 1..Len(list) /\ Pos(a) < p
    BY <1>1, <1>2, <1>3 DEF Next
  <2> HIDE DEF p
  <2>2. /\ Next(a) \in Client /\ OnList(Next(a)) /\ Before(a, Next(a))
        /\ Next(a) # Nil
    BY <1>1, <1>2, <2>1 DEF OnList, Before, ClientTableAssumption
  <2>3. ASSUME NEW c \in Client, Before(a, c)
        PROVE  c = Next(a) \/ Before(Next(a), c)
    <3>1. PICK i, j \in 1..Len(list) : i < j /\ list[i] = a /\ list[j] = c
      BY <1>1, <2>3 DEF Before
    <3>2. i = Pos(a)
      BY <1>1, <1>2, <3>1 DEF NoDup
    <3>3. CASE j = p
      BY <2>1, <3>1, <3>3
    <3>4. CASE p < j
      BY <1>1, <2>1, <3>1, <3>4 DEF Before
    <3> QED
      BY <2>1, <3>1, <3>2, <3>3, <3>4 DEF p
  <2> QED
    BY <2>2, <2>3, BeforeFacts
<1>4. CASE Pos(a) = Len(list)
  <2>1. Next(a) = Nil
    BY <1>2, <1>4 DEF Next
  <2> QED
    BY <1>1, <1>2, <1>4, <2>1 DEF Before, NoDup
<1> QED
  BY <1>1, <1>2, <1>3, <1>4

LEMMA FirstFacts ==
  ASSUME ClientTableAssumption, TypeOK
  PROVE  /\ First(list) # Nil => First(list) \in Client /\ OnList(First(list))
         /\ \A c \in Client : OnList(c) =>
               First(list) # Nil /\ (c = First(list) \/ Before(First(list), c))
<1>1. /\ list \in Seq(Client) /\ Len(list) \in Nat /\ DOMAIN list = 1..Len(list)
      /\ \A i \in 1..Len(list) : list[i] \in Client
  BY ListFacts
<1>2. CASE list = << >>
  <2>1. Len(list) = 0
    BY <1>2, EmptySeq
  <2> QED
    BY <1>1, <1>2, <2>1 DEF First, OnList
<1>3. CASE list # << >>
  <2>1. First(list) = list[1] /\ 1 \in 1..Len(list)
    BY <1>1, <1>3, EmptySeq DEF First
  <2>2. First(list) \in Client /\ OnList(First(list)) /\ First(list) # Nil
    BY <1>1, <2>1 DEF OnList, ClientTableAssumption
  <2>3. ASSUME NEW c \in Client, OnList(c)
        PROVE  c = First(list) \/ Before(First(list), c)
    <3>1. PICK i \in 1..Len(list) : list[i] = c
      BY <1>1, <2>3 DEF OnList
    <3>2. CASE i = 1
      BY <2>1, <3>1, <3>2
    <3>3. CASE 1 < i
      BY <1>1, <2>1, <3>1, <3>3 DEF Before
    <3> QED
      BY <1>1, <3>2, <3>3
  <2> QED
    BY <2>2, <2>3
<1> QED
  BY <1>2, <1>3

(* add_client_to_list and remove_client_from_list.                         *)
LEMMA ConsFacts ==
  ASSUME TypeOK, NoDup, NEW c \in Client, ~OnList(c), list' = <<c>> \o list
  PROVE  /\ NoDup'
         /\ \A x \in Client : OnList(x)' <=> x = c \/ OnList(x)
         /\ \A x, y \in Client : Before(x, y) => Before(x, y)'
         /\ \A x \in Client : OnList(x) => Before(c, x)'
<1>1. /\ list \in Seq(Client) /\ Len(list) \in Nat /\ DOMAIN list = 1..Len(list)
      /\ \A i \in 1..Len(list) : list[i] \in Client
  BY ListFacts
<1> DEFINE n == Len(list)
<1>2. /\ <<c>> \in Seq(Client) /\ Len(<<c>>) = 1 /\ <<c>>[1] = c
  OBVIOUS
<1>3. /\ list' \in Seq(Client) /\ Len(list') = n + 1
      /\ \A i \in 1..(n + 1) : list'[i] = IF i = 1 THEN c ELSE list[i - 1]
  BY <1>1, <1>2, ConcatProperties
<1>4. DOMAIN list' = 1..(n + 1)
  BY <1>3, LenProperties
<1> HIDE DEF n
<1>5. n \in Nat /\ DOMAIN list = 1..n /\ \A i \in 1..n : list[i] # c
  BY <1>1 DEF OnList, n
<1>6. list'[1] = c /\ \A i \in 1..n : i + 1 \in 1..(n + 1) /\ list'[i + 1] = list[i]
  BY <1>3, <1>5
<1>7. \A i \in 1..(n + 1) : i # 1 => i - 1 \in 1..n /\ list'[i] = list[i - 1]
  BY <1>3, <1>5
<1>8. NoDup'
  BY <1>4, <1>5, <1>6, <1>7 DEF NoDup
<1>9. ASSUME NEW x \in Client PROVE OnList(x)' <=> x = c \/ OnList(x)
  <2>1. CASE OnList(x)
    BY <1>4, <1>5, <1>6, <2>1 DEF OnList
  <2>2. CASE x = c
    BY <1>3, <1>4, <1>5, <2>2 DEF OnList
  <2>3. ASSUME OnList(x)', x # c PROVE OnList(x)
    BY <1>4, <1>5, <1>6, <1>7, <2>3 DEF OnList
  <2> QED
    BY <2>1, <2>2, <2>3
<1>10. ASSUME NEW x \in Client, NEW y \in Client, Before(x, y)
       PROVE  Before(x, y)'
  <2>1. PICK i, j \in 1..n : i < j /\ list[i] = x /\ list[j] = y
    BY <1>5, <1>10 DEF Before
  <2>2. i + 1 < j + 1 /\ list'[i + 1] = x /\ list'[j + 1] = y
    BY <1>5, <1>6, <2>1
  <2> QED
    BY <1>4, <1>6, <2>2 DEF Before
<1>11. ASSUME NEW x \in Client, OnList(x)
       PROVE  Before(c, x)'
  <2>1. PICK i \in 1..n : list[i] = x
    BY <1>5, <1>11 DEF OnList
  <2>2. 1 < i + 1 /\ list'[i + 1] = x /\ 1 \in 1..(n + 1) /\ i + 1 \in 1..(n + 1)
    BY <1>5, <1>6, <2>1
  <2> QED
    BY <1>4, <1>6, <2>2 DEF Before
<1> QED
  BY <1>8, <1>9, <1>10, <1>11

LEMMA UnlinkFacts ==
  ASSUME TypeOK, NoDup, NEW a \in Client, OnList(a), list' = Without(a)
  PROVE  /\ NoDup'
         /\ \A x \in Client : OnList(x)' <=> x # a /\ OnList(x)
         /\ \A x, y \in Client :
               Before(x, y) /\ x # a /\ y # a => Before(x, y)'
<1>1. /\ list \in Seq(Client) /\ Len(list) \in Nat /\ DOMAIN list = 1..Len(list)
      /\ \A i \in 1..Len(list) : list[i] \in Client
  BY ListFacts
<1>2. Pos(a) \in 1..Len(list) /\ list[Pos(a)] = a
  BY PosFacts
<1> DEFINE n == Len(list)
           p == Pos(a)
           s == SubSeq(list, 1, p - 1)
           t == SubSeq(list, p + 1, n)
<1>3. /\ s \in Seq(Client) /\ Len(s) = p - 1
      /\ \A i \in 1..(p - 1) : s[i] = list[i]
  <2>1. 1 \in Int /\ p - 1 \in Int /\ \A i \in 1..(p - 1) : list[i] \in Client
    BY <1>1, <1>2
  <2>2. /\ s \in Seq(Client) /\ Len(s) = IF 1 <= p - 1 THEN p - 1 - 1 + 1 ELSE 0
        /\ \A i \in 1..(p - 1 - 1 + 1) : s[i] = list[1 + i - 1]
    BY <2>1, SubSeqProperties
  <2> HIDE DEF s
  <2> QED
    BY <1>1, <1>2, <2>2
<1>4. /\ t \in Seq(Client) /\ Len(t) = n - p
      /\ \A i \in 1..(n - p) : t[i] = list[p + i]
  <2>1. p + 1 \in Int /\ n \in Int /\ \A i \in (p + 1)..n : list[i] \in Client
    BY <1>1, <1>2
  <2>2. /\ t \in Seq(Client) /\ Len(t) = IF p + 1 <= n THEN n - (p + 1) + 1 ELSE 0
        /\ \A i \in 1..(n - (p + 1) + 1) : t[i] = list[p + 1 + i - 1]
    BY <2>1, SubSeqProperties
  <2>3. n - (p + 1) + 1 = n - p /\ \A i \in 1..(n - p) : p + 1 + i - 1 = p + i
    BY <1>1, <1>2
  <2>4. n \in Nat /\ p \in 1..n
    BY <1>1, <1>2
  <2> HIDE DEF t, n, p
  <2> QED
    BY <2>2, <2>3, <2>4
<1>5. list' = s \o t
  BY DEF Without
<1> HIDE DEF s, t
<1>6. n \in Nat /\ p \in 1..n /\ list[p] = a /\ DOMAIN list = 1..n
  BY <1>1, <1>2
<1> HIDE DEF n, p
<1>7. /\ list' \in Seq(Client) /\ Len(list') = n - 1
      /\ \A i \in 1..(n - 1) : list'[i] = IF i < p THEN list[i] ELSE list[i + 1]
  <2>1. /\ list' \in Seq(Client) /\ Len(list') = Len(s) + Len(t)
        /\ \A i \in 1..(Len(s) + Len(t)) :
              list'[i] = IF i <= Len(s) THEN s[i] ELSE t[i - Len(s)]
    BY <1>3, <1>4, <1>5, ConcatProperties
  <2>2. Len(s) + Len(t) = n - 1
    BY <1>3, <1>4, <1>6
  <2>3. ASSUME NEW i \in 1..(n - 1)
        PROVE  list'[i] = IF i < p THEN list[i] ELSE list[i + 1]
    <3>1. CASE i < p
      BY <1>3, <1>6, <2>1, <2>2, <3>1
    <3>2. CASE ~(i < p)
      <4>1. i - (p - 1) \in 1..(n - p) /\ p + (i - (p - 1)) = i + 1
        BY <1>6, <3>2
      <4> QED
        BY <1>3, <1>4, <1>6, <2>1, <2>2, <3>2, <4>1
    <3> QED
      BY <3>1, <3>2
  <2> QED
    BY <2>1, <2>2, <2>3
<1>8. DOMAIN list' = 1..(n - 1)
  BY <1>7, LenProperties
(* Where the element at i of the old list is on the new one, and back.     *)
<1> DEFINE to(i) == IF i < p THEN i ELSE i - 1
           of(i) == IF i < p THEN i ELSE i + 1
<1>9. \A i \in 1..n : i # p => to(i) \in 1..(n - 1) /\ list'[to(i)] = list[i]
  BY <1>6, <1>7
<1>10. \A i \in 1..(n - 1) : /\ of(i) \in 1..n /\ of(i) # p
                             /\ list'[i] = list[of(i)]
  BY <1>6, <1>7
<1>11. \A i, j \in 1..n : i # p /\ j # p /\ i < j => to(i) < to(j)
  BY <1>6
<1>12. \A i, j \in 1..(n - 1) : of(i) = of(j) => i = j
  BY <1>6
<1> HIDE DEF to, of
<1>13. \A i \in 1..n : list[i] = a <=> i = p
  BY <1>6 DEF NoDup
<1>14. NoDup'
  BY <1>6, <1>8, <1>10, <1>12 DEF NoDup
<1>15. \A x \in Client : OnList(x)' <=> x # a /\ OnList(x)
  BY <1>6, <1>8, <1>9, <1>10, <1>13 DEF OnList
<1>16. ASSUME NEW x \in Client, NEW y \in Client, Before(x, y), x # a, y # a
       PROVE  Before(x, y)'
  <2>1. PICK i, j \in 1..n : i < j /\ list[i] = x /\ list[j] = y
    BY <1>6, <1>16 DEF Before
  <2>2. i # p /\ j # p
    BY <1>6, <1>16, <2>1
  <2> QED
    BY <1>8, <1>9, <1>11, <2>1, <2>2 DEF Before
<1> QED
  BY <1>14, <1>15, <1>16

(***************************************************************************)
(* The inductive invariant.                                                *)
(***************************************************************************)
Inv == Base /\ ListExact /\ PointersOK /\ StackOK /\ UsersExact

LEMMA InvInit == ASSUME ClientTableAssumption, Init PROVE Inv
<1>1. list = << >> /\ stack = << >> /\ DOMAIN list = {} /\ DOMAIN stack = {}
  BY DEF Init
<1>2. ListExact /\ PointersOK /\ StackOK
  BY <1>1 DEF Init, ListExact, OnList, PointersOK, StackOK, Allocated
<1>3. UsersExact
  <2>1. \A s \in Client \cup {Me} : UsersOf(s) = {} /\ users[s] = 0
    BY DEF Init, UsersOf, Persons
  <2>2. Servers \subseteq Client
    BY DEF Servers
  <2> QED
    BY <2>1, <2>2, FS_EmptySet DEF UsersExact
<1> QED
  BY <1>2, <1>3, BaseInit DEF Inv

(* What the steps of an exit have in common: they free at most x.          *)
Shrinks(x) ==
  /\ \A y \in Client : y # x =>
        /\ status'[y] = status[y] /\ srvptr'[y] = srvptr[y]
        /\ OnList(y) => OnList(y)'
        /\ \A z \in Client : z # x /\ Before(y, z) => Before(y, z)'
  /\ x \in Client => status'[x] = "free"

LEMMA ShrinksNone ==
  ASSUME ClientTableAssumption, UNCHANGED <<status, srvptr, list>>
  PROVE  Shrinks(Nil)
  BY DEF Shrinks, OnList, Before, ClientTableAssumption

LEMMA ShrinksOne ==
  ASSUME TypeOK, ListExact, NEW x \in Client, OnList(x), RemoveOne(x)
  PROVE  Shrinks(x) /\ ListExact'
<1>1. NoDup
  BY DEF ListExact, NoDup
<1>2. /\ list' = Without(x) /\ status' = [status EXCEPT ![x] = "free"]
      /\ srvptr' = [srvptr EXCEPT ![x] = Nil]
  BY DEF RemoveOne, RemoveClient
<1>3. /\ NoDup'
      /\ \A y \in Client : OnList(y)' <=> y # x /\ OnList(y)
      /\ \A y, z \in Client : Before(y, z) /\ y # x /\ z # x => Before(y, z)'
  BY <1>1, <1>2, UnlinkFacts
<1>4. Shrinks(x)
  BY <1>2, <1>3 DEF Shrinks, TypeOK
<1>5. ListExact'
  BY <1>2, <1>3 DEF ListExact, NoDup, TypeOK
<1> QED
  BY <1>4, <1>5

(* make_client and add_client_to_list.                                     *)
LEMMA Grows ==
  ASSUME ClientTableAssumption, TypeOK, ListExact, NEW c \in Client,
         NEW st \in Status \ {"free"}, NEW f, NEW src, NEW srv, NEW l,
         MakeClient(c, st, f, src, srv, l)
  PROVE  /\ ListExact'
         /\ \A x, y \in Client : Before(x, y) => Before(x, y)'
         /\ \A x \in Client : OnList(x) => Before(c, x)'
         /\ OnList(c)'
<1>1. NoDup
  BY DEF ListExact, NoDup
<1>2. /\ ~OnList(c) /\ list' = <<c>> \o list
      /\ status' = [status EXCEPT ![c] = st]
  BY DEF MakeClient, ListExact
<1>3. /\ NoDup'
      /\ \A x \in Client : OnList(x)' <=> x = c \/ OnList(x)
      /\ \A x, y \in Client : Before(x, y) => Before(x, y)'
      /\ \A x \in Client : OnList(x) => Before(c, x)'
  BY <1>1, <1>2, ConsFacts
<1>4. ListExact'
  BY <1>2, <1>3 DEF ListExact, NoDup, TypeOK
<1> QED
  BY <1>3, <1>4

(***************************************************************************)
(* The pointers.                                                           *)
(***************************************************************************)
LEMMA IdleFacts ==
  ASSUME Idle, TypeOK, FramesOK, PointersOK
  PROVE  \A d \in Allocated :
           /\ ~Stray(d) /\ fd[d] \in {"open", "remote"}
           /\ fd[d] = "open" => from[d] = d
<1>1. Len(stack) = 0
  BY EmptySeq DEF Idle
<1>2. \A d \in Allocated : fd[d] # "closed"
  BY FramesIdle DEF Allocated
<1> QED
  BY <1>1, <1>2 DEF Stray, PointersOK, TypeOK, Allocated

LEMMA PointersArrive ==
  ASSUME ClientTableAssumption, Inv, Arrive PROVE PointersOK'
<1>1. PICK c \in Client :
        \/ \E l \in Listener : AddConnection(c, l)
        \/ ConnectServer(c)
        \/ \E via, p \in Client : ServerRemote(c, via, p)
        \/ \E via \in Client, p \in Client \cup {Nil} : NickRemote(c, via, p)
  BY DEF Arrive
<1>2. TypeOK /\ FramesOK /\ ListExact /\ PointersOK /\ StructOK
  BY DEF Inv, Base
<1>3. Idle
  BY <1>1 DEF AddConnection, ConnectServer, ServerRemote, NickRemote
<1>4. \A d \in Allocated : /\ ~Stray(d) /\ fd[d] \in {"open", "remote"}
                           /\ fd[d] = "open" => from[d] = d
  BY <1>2, <1>3, IdleFacts
(* The structs that were there.                                            *)
<1>5. ASSUME NEW st \in Status \ {"free"}, NEW f, NEW src, NEW srv, NEW l,
             MakeClient(c, st, f, src, srv, l), NEW d \in Client, d # c,
             status[d] # "free"
      PROVE  /\ \A s \in Client : srvptr'[d] = s =>
                   fd'[d] = "remote" /\ status'[s] = "server" /\ Before(d, s)'
             /\ fd'[d] = "open" => from'[d] = d
             /\ fd'[d] = "closed" => from'[d] = Nil
             /\ fd'[d] = "remote" =>
                   /\ from'[d] \in Client /\ status'[from'[d]] = "server"
                   /\ fd'[from'[d]] # "remote"
                   /\ srvptr'[d] \in Client
                   /\ from'[d] = IF fd'[srvptr'[d]] = "remote"
                                 THEN from'[srvptr'[d]] ELSE srvptr'[d]
  <2>1. \A x, y \in Client : Before(x, y) => Before(x, y)'
    BY <1>2, <1>5, Grows
  <2>2. /\ status[c] = "free" /\ status' = [status EXCEPT ![c] = st]
        /\ fd' = [fd EXCEPT ![c] = f] /\ from' = [from EXCEPT ![c] = src]
        /\ srvptr' = [srvptr EXCEPT ![c] = srv]
    BY <1>5 DEF MakeClient
  <2>3. d \in Allocated /\ ~Stray(d)
    BY <1>4, <1>5 DEF Allocated
  <2>4. /\ status'[d] = status[d] /\ fd'[d] = fd[d] /\ from'[d] = from[d]
        /\ srvptr'[d] = srvptr[d]
    BY <1>2, <1>5, <2>2 DEF TypeOK
  <2>5. \A x \in Client : status[x] = "server" =>
          /\ x # c /\ status'[x] = status[x] /\ fd'[x] = fd[x]
          /\ from'[x] = from[x]
    BY <1>2, <2>2 DEF TypeOK
  <2>6. srvptr[d] \in Client =>
          /\ fd[d] = "remote" /\ status[srvptr[d]] = "server"
          /\ Before(d, srvptr[d])
    BY <1>2, <2>3 DEF PointersOK
  <2>7. ASSUME NEW s \in Client, srvptr'[d] = s
        PROVE  fd'[d] = "remote" /\ status'[s] = "server" /\ Before(d, s)'
    BY <2>1, <2>4, <2>5, <2>6, <2>7
  <2>8. /\ fd[d] = "open" => from[d] = d
        /\ fd[d] = "closed" => from[d] = Nil
        /\ fd[d] = "remote" =>
              /\ from[d] \in Client /\ status[from[d]] = "server"
              /\ fd[from[d]] # "remote"
              /\ srvptr[d] \in Client
              /\ from[d] = IF fd[srvptr[d]] = "remote" THEN from[srvptr[d]]
                                                       ELSE srvptr[d]
    BY <1>2, <2>3 DEF PointersOK
  <2> QED
    BY <2>4, <2>5, <2>6, <2>7, <2>8
(* The struct that is new.                                                 *)
<1>6. ASSUME NEW st \in Status \ {"free"}, NEW f, NEW src, NEW srv, NEW l,
             MakeClient(c, st, f, src, srv, l),
             \/ f = "open" /\ src = c /\ srv \in {Me, Nil}
             \/ /\ f = "remote" /\ src \in Client /\ Link(src)
                /\ \/ srv \in Client /\ Behind(srv, src)
                   \/ /\ srv \in Client => status[srv] = "server"
                      /\ Stray(c)'
      PROVE  PointersOK'
  <2>1. /\ \A x \in Client : OnList(x) => Before(c, x)'
        /\ ListExact'
    BY <1>2, <1>6, Grows
  <2>2. /\ status[c] = "free" /\ status' = [status EXCEPT ![c] = st]
        /\ fd' = [fd EXCEPT ![c] = f] /\ from' = [from EXCEPT ![c] = src]
        /\ srvptr' = [srvptr EXCEPT ![c] = srv]
    BY <1>6 DEF MakeClient
  <2>3. /\ status'[c] = st /\ fd'[c] = f /\ from'[c] = src /\ srvptr'[c] = srv
        /\ \A x \in Client : status[x] = "server" =>
             /\ x # c /\ status'[x] = status[x] /\ fd'[x] = fd[x]
             /\ from'[x] = from[x] /\ Before(c, x)'
    BY <1>2, <2>1, <2>2 DEF TypeOK, ListExact
  <2>4. ASSUME NEW s \in Client, srvptr'[c] = s
        PROVE  fd'[c] = "remote" /\ status'[s] = "server" /\ Before(c, s)'
    BY <1>6, <2>3, <2>4 DEF Behind, ClientTableAssumption
  <2>5. f = "remote" =>
          /\ from'[c] \in Client /\ status'[from'[c]] = "server"
          /\ fd'[from'[c]] # "remote"
    BY <1>6, <2>3 DEF Link
  <2>6. f = "remote" /\ ~Stray(c)' =>
          /\ srvptr'[c] \in Client
          /\ from'[c] = IF fd'[srvptr'[c]] = "remote" THEN from'[srvptr'[c]]
                                                      ELSE srvptr'[c]
    <3>1. SUFFICES ASSUME f = "remote", ~Stray(c)', src \in Client, srv \in Client,
                          status[srv] = "server", from[srv] = src
                   PROVE  src = IF fd[srv] = "remote" THEN from[srv] ELSE srv
      BY <1>6, <2>3 DEF Behind
    <3>2. srv \in Allocated
      BY <3>1 DEF Allocated
    <3> QED
      BY <1>4, <3>1, <3>2
  <2>7. /\ f = "open" => from'[c] = c /\ fd'[c] # "closed"
        /\ f = "remote" => fd'[c] \notin {"open", "closed"}
    BY <1>6, <2>3
  <2> QED
    BY <1>5, <1>6, <2>2, <2>3, <2>4, <2>5, <2>6, <2>7
    DEF PointersOK, Allocated, Before, TypeOK
<1>7. CASE \E l \in Listener : AddConnection(c, l)
  <2>1. PICK l \in Listener : AddConnection(c, l)
    BY <1>7
  <2> DEFINE st == IF l \in SSLListener THEN "ssl_accept" ELSE "unknown"
  <2>2. st \in Status \ {"free"} /\ MakeClient(c, st, "open", c, Me, l)
    BY <2>1 DEF AddConnection, Status, Pending, Handshaking
  <2> HIDE DEF st
  <2> QED
    BY <1>6, <2>2
<1>8. CASE ConnectServer(c)
  <2>1. "connecting" \in Status \ {"free"}
        /\ MakeClient(c, "connecting", "open", c, Nil, Me)
    BY <1>8 DEF ConnectServer, Status, Pending
  <2> QED
    BY <1>6, <2>1
<1>9. CASE \E via, p \in Client : ServerRemote(c, via, p)
  <2>1. PICK via \in Client, p \in Client : ServerRemote(c, via, p)
    BY <1>9
  <2>2. /\ "server" \in Status \ {"free"} /\ Link(via) /\ Behind(p, via)
        /\ MakeClient(c, "server", "remote", via, p, Nil)
    BY <2>1 DEF ServerRemote, Status
  <2> QED
    BY <1>6, <2>2
<1>10. CASE \E via \in Client, p \in Client \cup {Nil} : NickRemote(c, via, p)
  <2>1. PICK via \in Client, p \in Client \cup {Nil} : NickRemote(c, via, p)
    BY <1>10
  <2>2. /\ "client" \in Status \ {"free"} /\ Link(via)
        /\ MakeClient(c, "client", "remote", via, p, Nil)
        /\ p \in Client => status[p] = "server"
    BY <2>1 DEF NickRemote, Status, ClientTableAssumption
  <2>3. CASE p \in Client /\ from[p] = via
    BY <1>6, <2>2, <2>3 DEF Behind
  <2>4. CASE ~(p \in Client /\ from[p] = via)
    <3>1. stack' = <<Call(c)>>
      BY <2>1, <2>4 DEF NickRemote
    <3>2. status'[c] = "client"
      BY <1>2, <2>2 DEF MakeClient, TypeOK
    <3>3. Stray(c)'
      BY <3>1, <3>2 DEF Stray, Call
    <3> QED
      BY <1>6, <2>2, <3>3
  <2> QED
    BY <2>3, <2>4
<1> QED
  BY <1>1, <1>7, <1>8, <1>9, <1>10

LEMMA PointersPromote ==
  ASSUME ClientTableAssumption, Inv, Promote PROVE PointersOK'
<1>1. PICK c \in Client :
        \/ CompletedConnection(c) \/ StartTLS(c) \/ SSLInitFinished(c)
        \/ RegisterUser(c) \/ ServerSynch(c)
  BY DEF Promote
<1>2. TypeOK /\ FramesOK /\ PointersOK /\ StructOK
  BY DEF Inv, Base
<1>3. Idle /\ UNCHANGED <<fd, from, list, stack>>
  BY <1>1 DEF CompletedConnection, StartTLS, SSLInitFinished, RegisterUser,
              ServerSynch, SetStatus
<1>4. \A d \in Allocated : ~Stray(d)
  BY <1>2, <1>3, IdleFacts
<1>5. PICK st \in Status \ {"free"} : status' = [status EXCEPT ![c] = st]
  BY <1>1 DEF CompletedConnection, StartTLS, SSLInitFinished, RegisterUser,
              ServerSynch, SetStatus, Status, Pending, Handshaking
<1>6. status[c] \in Pending /\ fd[c] # "remote"
  BY <1>1, <1>2 DEF CompletedConnection, StartTLS, SSLInitFinished, RegisterUser,
                    ServerSynch, Pending, Handshaking, StructOK
<1>7. srvptr' = srvptr \/ srvptr' = [srvptr EXCEPT ![c] = Me]
  BY <1>1 DEF CompletedConnection, StartTLS, SSLInitFinished, RegisterUser,
              ServerSynch, SetStatus
<1>8. \A d \in Client : status[d] = "server" => status'[d] = "server"
  BY <1>2, <1>5, <1>6 DEF TypeOK, Pending, Handshaking
<1>9. \A d \in Client : status'[d] # "free" <=> status[d] # "free"
  BY <1>2, <1>5, <1>6 DEF TypeOK, Pending, Handshaking
<1>10. \A d \in Client : srvptr'[d] \in Client => srvptr'[d] = srvptr[d]
  BY <1>2, <1>7 DEF TypeOK, ClientTableAssumption
<1>11. \A d \in Client : fd[d] = "remote" => srvptr'[d] = srvptr[d]
  BY <1>2, <1>6, <1>7 DEF TypeOK
<1>12. \A x, y : Before(x, y)' <=> Before(x, y)
  BY <1>3 DEF Before
<1> QED
  BY <1>2, <1>3, <1>4, <1>8, <1>9, <1>10, <1>11 DEF PointersOK, Allocated, Before

(* A step that leaves the structs alone and the frame of a stray user.     *)
LEMMA PointersSame ==
  ASSUME PointersOK, UNCHANGED <<status, fd, from, srvptr, list>>,
         \A d \in Client : Stray(d) => Stray(d)'
  PROVE  PointersOK'
  BY DEF PointersOK, Allocated, Before

LEMMA PointersLeave ==
  ASSUME Inv, Leave PROVE PointersOK'
<1>1. Idle /\ UNCHANGED <<status, fd, from, srvptr, list>>
  BY DEF Leave, Exit, Close
<1>2. Len(stack) = 0
  BY <1>1, EmptySeq DEF Idle
<1>3. \A d \in Client : ~Stray(d)
  BY <1>2 DEF Stray
<1> QED
  BY <1>1, <1>3, PointersSame DEF Inv

(* A struct that nothing points to is freed.                               *)
LEMMA PointersRemove ==
  ASSUME TypeOK, ListExact, PointersOK, NEW x \in Client, OnList(x), RemoveOne(x),
         \A d \in Allocated : d # x => srvptr[d] # x /\ from[d] # x,
         \A d \in Client : d # x /\ Stray(d) => Stray(d)'
  PROVE  PointersOK'
<1>1. /\ Shrinks(x)
      /\ fd' = [fd EXCEPT ![x] = "closed"] /\ from' = [from EXCEPT ![x] = Nil]
  BY ShrinksOne DEF RemoveOne, RemoveClient
<1>2. SUFFICES ASSUME NEW d \in Allocated'
               PROVE  /\ srvptr'[d] \in Client =>
                            /\ fd'[d] = "remote" /\ status'[srvptr'[d]] = "server"
                            /\ \E i, j \in DOMAIN list' :
                                  i < j /\ list'[i] = d /\ list'[j] = srvptr'[d]
                      /\ fd'[d] = "open" => from'[d] = d
                      /\ fd'[d] = "closed" => from'[d] = Nil
                      /\ fd'[d] = "remote" =>
                            /\ from'[d] \in Client /\ status'[from'[d]] = "server"
                            /\ fd'[from'[d]] # "remote"
                      /\ fd'[d] = "remote" /\ ~Stray(d)' =>
                            /\ srvptr'[d] \in Client
                            /\ from'[d] = IF fd'[srvptr'[d]] = "remote"
                                          THEN from'[srvptr'[d]] ELSE srvptr'[d]
  BY DEF PointersOK, Before
<1>3. /\ d \in Allocated /\ d # x
      /\ \A y \in Client : y # x => /\ status'[y] = status[y] /\ fd'[y] = fd[y]
                                    /\ from'[y] = from[y] /\ srvptr'[y] = srvptr[y]
  BY <1>1 DEF Shrinks, Allocated, TypeOK
<1>4. d \in Client /\ srvptr[d] # x /\ from[d] # x
  BY <1>3 DEF Allocated
<1>5. ASSUME NEW s \in Client, srvptr[d] = s
      PROVE  \E i, j \in DOMAIN list' : i < j /\ list'[i] = d /\ list'[j] = s
  <2>1. Before(d, s)
    BY <1>3, <1>5 DEF PointersOK
  <2>2. Before(d, s)'
    BY <1>1, <1>3, <1>4, <1>5, <2>1 DEF Shrinks
  <2> QED
    BY <2>2 DEF Before
<1>6. Stray(d) => Stray(d)'
  BY <1>3, <1>4
<1> QED
  BY <1>3, <1>4, <1>5, <1>6 DEF PointersOK

(* The oldest of the structs that are reached by a link is on the server   *)
(* of that link: with its children gone nothing is reached by it.          *)
LEMMA NoneBehind ==
  ASSUME TypeOK, ListExact, PointersOK, NEW p \in Client, status[p] = "server",
         \A d \in Allocated : ~Stray(d) \/ from[d] # p,
         \A d \in Allocated : srvptr[d] # p
  PROVE  \A d \in Allocated : d # p => from[d] # p
<1>1. NoDup /\ \A x \in Client : OnList(x) <=> x \in Allocated
  BY DEF ListExact, NoDup, Allocated
<1>2. /\ Len(list) \in Nat /\ DOMAIN list = 1..Len(list)
      /\ \A x \in Allocated : Pos(x) \in 1..Len(list) /\ list[Pos(x)] = x
  BY <1>1, ListFacts, PosFacts DEF Allocated
<1> DEFINE Reached == {d \in Allocated : d # p /\ from[d] = p}
           Ranks == {Len(list) - Pos(d) : d \in Reached}
<1>3. SUFFICES ASSUME Reached # {} PROVE FALSE
  OBVIOUS
<1>4. \A d \in Reached : /\ d \in Client /\ srvptr[d] \in Client
                         /\ Before(d, srvptr[d]) /\ srvptr[d] # p
                         /\ fd[srvptr[d]] = "remote" /\ from[srvptr[d]] = p
                         /\ status[srvptr[d]] = "server"
  <2> SUFFICES ASSUME NEW d \in Reached
               PROVE  /\ d \in Client /\ srvptr[d] \in Client
                      /\ Before(d, srvptr[d]) /\ srvptr[d] # p
                      /\ fd[srvptr[d]] = "remote" /\ from[srvptr[d]] = p
                      /\ status[srvptr[d]] = "server"
    OBVIOUS
  <2>1. d \in Allocated /\ d \in Client /\ d # p /\ from[d] = p /\ ~Stray(d)
    BY DEF Allocated
  <2>2. fd[d] = "remote"
    BY <2>1, ClientTableAssumption DEF PointersOK, TypeOK
  <2> QED
    BY <2>1, <2>2 DEF PointersOK
<1>5. \A d \in Reached : srvptr[d] \in Reached
  BY <1>4 DEF Allocated
<1>6. Ranks \in SUBSET Nat /\ Ranks # {}
  BY <1>2, <1>3
<1> HIDE DEF Ranks
<1>8. PICK m \in Ranks : \A k \in Ranks : m <= k
  BY <1>6, LeastOfNaturals
<1>9. PICK d \in Reached : m = Len(list) - Pos(d)
  BY <1>8 DEF Ranks
<1>10. PICK s \in Reached : s = srvptr[d]
  BY <1>5
<1>11. Pos(d) < Pos(s)
  <2>1. PICK i, j \in 1..Len(list) : i < j /\ list[i] = d /\ list[j] = s
    BY <1>2, <1>4, <1>10 DEF Before
  <2>2. i = Pos(d) /\ j = Pos(s)
    BY <1>1, <1>2, <2>1 DEF NoDup
  <2> QED
    BY <2>1, <2>2
<1>12. Len(list) - Pos(s) \in Ranks /\ Len(list) - Pos(s) < Len(list) - Pos(d)
  BY <1>2, <1>11 DEF Ranks
<1> QED
  BY <1>2, <1>8, <1>9, <1>10, <1>12

(***************************************************************************)
(* The frames.                                                             *)
(***************************************************************************)
LEMMA StackSmall ==
  ASSUME \/ stack' = << >>
         \/ \E c \in Client : stack' = <<Call(c)>> /\ OnList(c)'
         \/ stack' = <<[pc |-> "close", ptr |-> Nil, cursor |-> Nil]>>
  PROVE  StackOK'
<1>1. CASE stack' = << >>
  BY <1>1 DEF StackOK
<1>2. ASSUME NEW f, stack' = <<f>>, f.pc \in {"start", "close"}, f.cursor = Nil,
             f.pc = "close" => f.ptr = Nil, f.pc # "close" => OnList(f.ptr)'
      PROVE  StackOK'
  <2>1. DOMAIN stack' = {1} /\ Len(stack') = 1 /\ stack'[1] = f
    BY <1>2
  <2>2. FrameOK(1)'
    BY <1>2, <2>1 DEF FrameOK, OnList
  <2> QED
    BY <2>1, <2>2 DEF StackOK
<1>3. ASSUME NEW c \in Client, stack' = <<Call(c)>>, OnList(c)' PROVE StackOK'
  <2> DEFINE f == Call(c)
  <2>1. /\ stack' = <<f>> /\ f.pc = "start" /\ f.cursor = Nil /\ f.ptr = c
    BY <1>3 DEF Call
  <2> HIDE DEF f
  <2> QED
    BY <1>2, <1>3, <2>1
<1>4. CASE stack' = <<[pc |-> "close", ptr |-> Nil, cursor |-> Nil]>>
  BY <1>2, <1>4
<1> QED
  BY <1>1, <1>3, <1>4

LEMMA StackArrive ==
  ASSUME ClientTableAssumption, Inv, Arrive PROVE StackOK'
<1>1. PICK c \in Client :
        \/ \E l \in Listener : AddConnection(c, l)
        \/ ConnectServer(c)
        \/ \E via, p \in Client : ServerRemote(c, via, p)
        \/ \E via \in Client, p \in Client \cup {Nil} : NickRemote(c, via, p)
  BY DEF Arrive
<1>2. TypeOK /\ ListExact
  BY DEF Inv, Base
<1>3. CASE stack' = << >>
  BY <1>3, StackSmall
<1>4. CASE \E via \in Client, p \in Client \cup {Nil} : NickRemote(c, via, p)
  <2>1. PICK via \in Client, p \in Client \cup {Nil} : NickRemote(c, via, p)
    BY <1>4
  <2>2. /\ "client" \in Status \ {"free"}
        /\ MakeClient(c, "client", "remote", via, p, Nil)
        /\ stack' = << >> \/ stack' = <<Call(c)>>
    BY <2>1 DEF NickRemote, Status
  <2>3. OnList(c)'
    BY <1>2, <2>2, Grows
  <2> QED
    BY <2>2, <2>3, StackSmall
<1> QED
  BY <1>1, <1>3, <1>4 DEF AddConnection, ConnectServer, ServerRemote, Idle

LEMMA StackPromote ==
  ASSUME Promote PROVE StackOK'
<1>1. stack' = << >>
  BY DEF Promote, CompletedConnection, StartTLS, SSLInitFinished, RegisterUser,
         ServerSynch, Idle
<1> QED
  BY <1>1, StackSmall

LEMMA StackLeave ==
  ASSUME Inv, Leave PROVE StackOK'
<1>1. ASSUME NEW c \in Client, Exit(c) PROVE StackOK'
  <2>1. stack' = <<Call(c)>> /\ OnList(c) /\ list' = list
    BY <1>1 DEF Exit, Inv, ListExact, Allocated
  <2>2. OnList(c)'
    BY <2>1 DEF OnList
  <2> QED
    BY <2>1, <2>2, StackSmall
<1>2. ASSUME NEW c \in Client, Close(c) PROVE StackOK'
  BY <1>2, StackSmall DEF Close
<1> QED
  BY <1>1, <1>2 DEF Leave

(* What the frames say, one at a time.                                     *)
LEMMA FrameFacts ==
  ASSUME TypeOK, FramesOK, StackOK, NEW i \in DOMAIN stack
  PROVE  /\ stack[i] \in Frame /\ i \in 1..Depth /\ Depth = Len(stack)
         /\ Depth \in Nat
         /\ stack[i].pc = "close" => i = 1
         /\ stack[i].pc # "close" => stack[i].ptr \in Client
<1>1. stack \in Seq(Frame) /\ DOMAIN stack = 1..Len(stack) /\ Len(stack) \in Nat
  BY LenProperties DEF TypeOK
<1>2. stack[i] \in Frame
  BY <1>1, ElementOfSeq
<1>3. stack[i].pc # "close" => stack[i].ptr \in Client
  BY <1>2 DEF FramesOK, Frame, Exiting
<1> QED
  BY <1>1, <1>2, <1>3 DEF FramesOK, Depth

(* A frame below the top keeps what it says while the frame above it       *)
(* works: that one is about a struct that stands before what this one has  *)
(* saved, and frees only such.                                             *)
LEMMA FrameKept ==
  ASSUME ClientTableAssumption, Inv, NEW x \in Client \cup {Nil}, Shrinks(x),
         NEW i \in DOMAIN stack, i \in DOMAIN stack', stack'[i] = stack[i],
         i < Len(stack) \/ stack[i].pc = "close",
         stack[i].pc = "servers" =>
            /\ x # stack[i].ptr /\ (stack[i].cursor # Nil => x # stack[i].cursor)
            /\ \A j \in DOMAIN stack' : i < j =>
                  /\ x # stack'[j].ptr /\ stack'[j].ptr \in Client
                  /\ Before(stack'[j].ptr, stack[i].ptr)
                  /\ stack[i].cursor # Nil => Before(stack'[j].ptr, stack[i].cursor)
            /\ \/ x = stack[i + 1].ptr
               \/ i < Len(stack') /\ stack'[i + 1].ptr = stack[i + 1].ptr
  PROVE  FrameOK(i)'
<1>1. FrameOK(i) /\ TypeOK /\ FramesOK /\ StackOK
  BY DEF Inv, Base, StackOK
<1>4. PICK f \in Frame : f = stack[i] /\ f = stack'[i]
  BY <1>1, FrameFacts
<1>5. f.pc \in {"close", "servers"} /\ (f.pc # "close" => f.ptr \in Client)
  BY <1>1, <1>4, FrameFacts DEF FrameOK
<1>2. CASE f.pc = "close"
  <2>1. f.ptr = Nil /\ f.cursor = Nil
    BY <1>1, <1>2, <1>4 DEF FrameOK
  <2> QED
    BY <1>2, <1>4, <2>1 DEF FrameOK
<1>3. CASE f.pc = "servers"
  <2>1. /\ f.ptr \in Client /\ f.cursor \in Client \cup {Nil} /\ OnList(f.ptr)
        /\ f.cursor # Nil => OnList(f.cursor)
        /\ status[f.ptr] = "server"
        /\ \A c \in Client : status[c] = "client" => srvptr[c] # f.ptr
        /\ \A c \in Client : status[c] = "server" /\ srvptr[c] = f.ptr =>
              Ahead(f, c) \/ (i < Len(stack) /\ c = stack[i + 1].ptr)
    BY <1>1, <1>3, <1>4, <1>5 DEF FrameOK, Frame
  <2>2. x # f.ptr /\ (f.cursor # Nil => x # f.cursor)
    BY <1>3, <1>4
  <2>3. /\ OnList(f.ptr)' /\ status'[f.ptr] = "server"
        /\ f.cursor # Nil => OnList(f.cursor)'
    BY <2>1, <2>2 DEF Shrinks
  <2>4. \A c \in Client : status'[c] \in {"client", "server"} =>
          c # x /\ status[c] = status'[c] /\ srvptr'[c] = srvptr[c]
    BY DEF Shrinks
  <2>5. ASSUME NEW j \in DOMAIN stack', i < j
        PROVE  \A q : q = stack'[j].ptr =>
                  Before(q, f.ptr)' /\ (f.cursor # Nil => Before(q, f.cursor)')
    <3>1. PICK q \in Client : q = stack'[j].ptr
      BY <1>3, <1>4, <2>5
    <3>2. q # x /\ Before(q, f.ptr) /\ (f.cursor # Nil => Before(q, f.cursor))
      BY <1>3, <1>4, <2>5, <3>1
    <3>3. Before(q, f.ptr)' /\ (f.cursor # Nil => Before(q, f.cursor)')
      BY <2>1, <2>2, <3>2 DEF Shrinks
    <3> QED
      BY <3>1, <3>3
  <2>6. ASSUME NEW c \in Client, status'[c] = "server", srvptr'[c] = f.ptr
        PROVE  Ahead(f, c)' \/ (i < Len(stack') /\ c = stack'[i + 1].ptr)
    <3>1. c # x /\ (Ahead(f, c) \/ (i < Len(stack) /\ c = stack[i + 1].ptr))
      BY <2>1, <2>4, <2>6
    <3>2. CASE Ahead(f, c)
      <4>1. f.cursor # Nil /\ (c = f.cursor \/ Before(f.cursor, c))
        BY <3>2 DEF Ahead
      <4>2. c = f.cursor \/ Before(f.cursor, c)'
        BY <2>1, <2>2, <3>1, <4>1 DEF Shrinks
      <4> QED
        BY <4>1, <4>2 DEF Ahead
    <3>3. CASE c = stack[i + 1].ptr
      BY <1>3, <1>4, <3>1, <3>3
    <3> QED
      BY <3>1, <3>2, <3>3
  <2>7. /\ i < Len(stack') => f.pc \in {"close", "servers"}
        /\ f.pc = "close" => f.ptr = Nil /\ f.cursor = Nil
        /\ f.pc # "close" => OnList(f.ptr)'
        /\ f.cursor # Nil => OnList(f.cursor)'
        /\ f.pc \in {"users", "servers"} => status'[f.ptr] = "server"
    BY <1>3, <2>3
  <2>8. \A c \in Client : status'[c] # "client" \/ srvptr'[c] # f.ptr
    BY <2>1, <2>4
  <2> QED
    BY <1>3, <1>4, <2>5, <2>6, <2>7, <2>8 DEF FrameOK, Before, Ahead, OnList
<1> QED
  BY <1>2, <1>3, <1>5

LEMMA InvFacts ==
  ASSUME Inv
  PROVE  /\ TypeOK /\ StructOK /\ FramesOK /\ ListExact /\ NoDup /\ PointersOK
         /\ StackOK
         /\ \A c \in Client : status[c] # "free" => OnList(c)
         /\ \A c, p \in Client : status[c] # "free" /\ srvptr[c] = p =>
               status[p] = "server" /\ Before(c, p) /\ c # p
<1>1. /\ TypeOK /\ StructOK /\ FramesOK /\ ListExact /\ NoDup /\ PointersOK /\ StackOK
      /\ \A c \in Client : status[c] # "free" => OnList(c)
  BY DEF Inv, Base, ListExact, NoDup
<1> QED
  BY <1>1, BeforeFacts DEF PointersOK, Allocated

LEMMA TopOK ==
  ASSUME Inv, ~Idle
  PROVE  /\ Depth \in Nat \ {0} /\ Depth = Len(stack) /\ DOMAIN stack = 1..Depth
         /\ Top = stack[Depth] /\ Top \in Frame /\ FrameOK(Depth)
         /\ Top.pc # "close" => Top.ptr \in Client /\ OnList(Top.ptr)
         /\ Top.cursor # Nil => Top.cursor \in Client /\ OnList(Top.cursor)
         /\ \A i \in 1..(Depth - 1) :
              /\ stack[i] \in Frame /\ FrameOK(i)
              /\ stack[i].pc # "servers" => i = 1 /\ stack[i].pc = "close"
              /\ stack[i].pc = "servers" => Top.pc # "close"
              /\ \A j \in (i + 1)..(Depth - 1) : stack[j].pc = "servers"
<1>1. TypeOK /\ FramesOK /\ StackOK
  BY InvFacts
<1>2. /\ Depth \in Nat \ {0} /\ Depth = Len(stack) /\ DOMAIN stack = 1..Depth
      /\ Top = stack[Depth] /\ Top \in Frame
  BY <1>1, StackFacts DEF Depth, Top
<1>3. \A i \in 1..Depth : FrameOK(i)
  BY <1>1, <1>2 DEF StackOK
<1>4. /\ Top.pc # "close" => Top.ptr \in Client /\ OnList(Top.ptr)
      /\ Top.cursor # Nil => Top.cursor \in Client /\ OnList(Top.cursor)
  BY <1>1, <1>2, <1>3, FrameFacts DEF FrameOK, Frame
<1>5. \A i \in 1..Depth : /\ stack[i] \in Frame
                          /\ stack[i].pc = "close" => i = 1
  BY <1>1, <1>2, FrameFacts
<1>6. \A i \in 1..(Depth - 1) : stack[i].pc \in {"close", "servers"}
  BY <1>2, <1>3 DEF FrameOK
<1> QED
  BY <1>2, <1>3, <1>4, <1>5, <1>6

(* FrameKept, for a step of the top frame.                                 *)
LEMMA LowerKept ==
  ASSUME ClientTableAssumption, Inv, ~Idle, NEW x \in Client \cup {Nil}, Shrinks(x),
         NEW i \in 1..(Depth - 1), i \in DOMAIN stack', stack'[i] = stack[i],
         Top.pc # "close" => x = Nil \/ x = Top.ptr \/ Before(x, Top.ptr),
         \A j \in DOMAIN stack' : i < j /\ stack[i].pc = "servers" =>
            \/ j \in 1..(Depth - 1) /\ stack'[j] = stack[j]
            \/ /\ stack'[j].ptr \in Client /\ x # stack'[j].ptr
               /\ stack'[j].ptr = Top.ptr \/ Before(stack'[j].ptr, Top.ptr),
         \/ i + 1 \in 1..(Depth - 1) /\ i < Len(stack') /\ stack'[i + 1] = stack[i + 1]
         \/ i + 1 = Depth /\ x = Top.ptr
         \/ i + 1 = Depth /\ i < Len(stack') /\ stack'[Depth].ptr = Top.ptr
  PROVE  FrameOK(i)'
<1>1. /\ Depth \in Nat \ {0} /\ Depth = Len(stack) /\ DOMAIN stack = 1..Depth
      /\ Top = stack[Depth] /\ FrameOK(i) /\ stack[i] \in Frame
      /\ Top.pc # "close" => Top.ptr \in Client
      /\ stack[i].pc # "servers" => stack[i].pc = "close"
      /\ stack[i].pc = "servers" => Top.pc # "close"
  BY TopOK
<1>2. CASE stack[i].pc = "close"
  <2>1. i < Len(stack) /\ i \in DOMAIN stack
    BY <1>1
  <2> QED
    BY <1>2, <2>1, FrameKept
<1>3. CASE stack[i].pc = "servers"
  <2>1. TypeOK /\ NoDup
    BY InvFacts
  <2>2. \A y, z, w \in Client : Before(y, z) /\ Before(z, w) => Before(y, w)
    BY <2>1, BeforeFacts
  <2>3. \A y, z \in Client : Before(y, z) => y # z
    BY <2>1, BeforeFacts
  <2> DEFINE p == stack[i].ptr
             k == stack[i].cursor
  <2>4. /\ p \in Client /\ k \in Client \cup {Nil}
        /\ \A j \in 1..Depth : i < j =>
              Before(stack[j].ptr, p) /\ (k # Nil => Before(stack[j].ptr, k))
    <3>1. p \in Client
      BY <1>1, <1>3, <2>1, FrameFacts DEF Inv, Base
    <3> QED
      BY <1>1, <1>3, <3>1 DEF FrameOK, Frame
  <2>5. /\ Top.ptr \in Client /\ Before(Top.ptr, p) /\ (k # Nil => Before(Top.ptr, k))
    BY <1>1, <1>3, <2>4
  <2>6. x # p /\ (k # Nil => x # k)
    BY <1>1, <1>3, <2>2, <2>3, <2>4, <2>5 DEF ClientTableAssumption
  <2>7. ASSUME NEW j \in DOMAIN stack', i < j
        PROVE  /\ x # stack'[j].ptr /\ stack'[j].ptr \in Client
               /\ Before(stack'[j].ptr, p) /\ (k # Nil => Before(stack'[j].ptr, k))
    <3>1. CASE j \in 1..(Depth - 1) /\ stack'[j] = stack[j]
      <4>1. stack[j].pc = "servers" /\ j \in 1..Depth /\ j < Depth /\ j \in DOMAIN stack
        BY <1>1, <2>7, <3>1, TopOK
      <4>2. stack[j].ptr \in Client /\ Before(Top.ptr, stack[j].ptr)
        BY <1>1, <2>1, <4>1, FrameFacts, TopOK, SMTT(20) DEF FrameOK, Inv, Base
      <4>3. x # stack[j].ptr
        BY <1>1, <1>3, <2>2, <2>3, <2>5, <4>2 DEF ClientTableAssumption
      <4> QED
        BY <2>4, <2>7, <3>1, <4>1, <4>2, <4>3
    <3>2. CASE /\ stack'[j].ptr \in Client /\ x # stack'[j].ptr
               /\ stack'[j].ptr = Top.ptr \/ Before(stack'[j].ptr, Top.ptr)
      <4>1. PICK q \in Client : q = stack'[j].ptr
        BY <3>2
      <4>2. Before(q, p) /\ (k # Nil => Before(q, k))
        BY <2>2, <2>4, <2>5, <3>2, <4>1
      <4> QED
        BY <3>2, <4>1, <4>2
    <3> QED
      BY <1>3, <2>7, <3>1, <3>2
  <2>8. i < Len(stack) /\ i \in DOMAIN stack
    BY <1>1
  <2>9. \/ x = stack[i + 1].ptr
        \/ i < Len(stack') /\ stack'[i + 1].ptr = stack[i + 1].ptr
    BY <1>1
  <2> QED
    BY <1>3, <2>6, <2>7, <2>8, <2>9, FrameKept
<1> QED
  BY <1>1, <1>2, <1>3

(* The top frame goes on with the same struct, and frees x at most.        *)
LEMMA StackGoto ==
  ASSUME ClientTableAssumption, Inv, ~Idle, NEW x \in Client \cup {Nil}, Shrinks(x),
         Top.pc # "close", x = Nil \/ Before(x, Top.ptr),
         NEW f \in Frame, Goto(f), f.ptr = Top.ptr, f.pc \in Exiting,
         f.cursor # Nil => OnList(f.cursor)',
         f.pc \in {"users", "servers"} => status[f.ptr] = "server",
         \A c \in Client : status'[c] = "client" /\ srvptr'[c] = f.ptr =>
            (f.pc = "users" => Ahead(f, c)') /\ f.pc \notin {"servers", "one"},
         \A c \in Client : status'[c] = "server" /\ srvptr'[c] = f.ptr =>
            (f.pc = "servers" => Ahead(f, c)') /\ f.pc # "one"
  PROVE  StackOK'
<1>1. /\ Depth \in Nat \ {0} /\ DOMAIN stack' = 1..Depth /\ Len(stack') = Depth
      /\ stack'[Depth] = f /\ \A i \in 1..(Depth - 1) : stack'[i] = stack[i]
  BY InvFacts, GotoFacts, StackFacts
<1>2. Top.ptr \in Client /\ OnList(Top.ptr) /\ x # Top.ptr
  BY TopOK, InvFacts, BeforeFacts DEF ClientTableAssumption
<1>3. ASSUME NEW i \in 1..(Depth - 1) PROVE FrameOK(i)'
  <2>1. /\ i \in DOMAIN stack' /\ stack'[i] = stack[i] /\ i < Len(stack')
        /\ i + 1 \in 1..(Depth - 1) \/ i + 1 = Depth
        /\ \A j \in DOMAIN stack' : j \in 1..(Depth - 1) \/ j = Depth
    BY <1>1
  <2> QED
    BY <1>1, <1>2, <2>1, LowerKept
<1>4. ASSUME NEW n, n = Depth PROVE FrameOK(n)'
  <2>1. OnList(f.ptr)' /\ status'[f.ptr] = status[f.ptr]
    BY <1>2 DEF Shrinks
  <2>2. stack'[n] = f /\ Len(stack') = n /\ \A j \in DOMAIN stack' : ~(n < j)
    BY <1>1, <1>4
  <2> QED
    BY <2>1, <2>2 DEF FrameOK, Ahead, Before, Exiting, OnList
<1> QED
  BY <1>1, <1>3, <1>4 DEF StackOK

(* The call returns.                                                       *)
LEMMA StackPop ==
  ASSUME ClientTableAssumption, Inv, ~Idle, NEW x \in Client \cup {Nil}, Shrinks(x),
         stack' = Below, IF Top.pc = "close" THEN x = Nil ELSE x = Top.ptr
  PROVE  StackOK'
<1>1. /\ Depth \in Nat \ {0} /\ Below \in Seq(Frame) /\ Len(Below) = Depth - 1
      /\ \A i \in 1..(Depth - 1) : Below[i] = stack[i]
  BY InvFacts, StackFacts
<1>2. DOMAIN stack' = 1..(Depth - 1) /\ Len(stack') = Depth - 1
  BY <1>1, LenProperties
<1>3. ASSUME NEW i \in 1..(Depth - 1) PROVE FrameOK(i)'
  <2>1. /\ i \in DOMAIN stack' /\ stack'[i] = stack[i]
        /\ \/ i + 1 \in 1..(Depth - 1) /\ i < Len(stack') /\ stack'[i + 1] = stack[i + 1]
           \/ i + 1 = Depth
        /\ \A j \in DOMAIN stack' : j \in 1..(Depth - 1) /\ stack'[j] = stack[j]
    BY <1>1, <1>2
  <2>2. CASE Top.pc # "close"
    BY <2>1, <2>2, LowerKept
  <2>3. CASE Top.pc = "close"
    <3>1. Depth = 1
      BY <2>3, InvFacts, TopOK DEF FramesOK
    <3> QED
      BY <3>1
  <2> QED
    BY <2>2, <2>3
<1> QED
  BY <1>2, <1>3 DEF StackOK

(* A server on the walk is exited by a call of its own.                    *)
LEMMA StackPush ==
  ASSUME ClientTableAssumption, Inv, ~Idle, UNCHANGED <<status, srvptr, list>>,
         Top.pc = "servers", NEW a \in Client, a = Top.cursor,
         status[a] = "server", srvptr[a] = Top.ptr,
         NEW f \in Frame, f = [Top EXCEPT !.cursor = Next(a)],
         stack' = Append(Append(Below, f), Call(a))
  PROVE  StackOK'
<1>1. /\ Depth \in Nat \ {0} /\ Below \in Seq(Frame) /\ Len(Below) = Depth - 1
      /\ \A i \in 1..(Depth - 1) : Below[i] = stack[i]
  BY InvFacts, StackFacts
<1>2. /\ Append(Below, f) \in Seq(Frame) /\ Len(Append(Below, f)) = Depth
      /\ \A i \in 1..(Depth - 1) : Append(Below, f)[i] = stack[i]
      /\ Append(Below, f)[Depth] = f
  BY <1>1, AppendProperties
<1>3. /\ DOMAIN stack' = 1..(Depth + 1) /\ Len(stack') = Depth + 1
      /\ \A i \in 1..(Depth - 1) : stack'[i] = stack[i]
      /\ stack'[Depth] = f /\ stack'[Depth + 1] = Call(a)
  BY <1>1, <1>2, PushFacts
<1>4. Shrinks(Nil)
  BY ShrinksNone
<1>5. /\ Top.ptr \in Client /\ Before(a, Top.ptr) /\ OnList(a) /\ OnList(Top.ptr)
      /\ Top \in Frame /\ f.pc = "servers" /\ f.ptr = Top.ptr /\ f.cursor = Next(a)
  BY TopOK, InvFacts DEF Frame
<1>6. /\ Next(a) # Nil => /\ Next(a) \in Client /\ OnList(Next(a))
                          /\ Before(a, Next(a))
      /\ \A c \in Client : Before(a, c) =>
            Next(a) # Nil /\ (c = Next(a) \/ Before(Next(a), c))
  BY <1>5, InvFacts, NextFacts
<1>7. ASSUME NEW i \in 1..(Depth - 1) PROVE FrameOK(i)'
  <2>1. /\ i \in DOMAIN stack' /\ stack'[i] = stack[i] /\ i < Len(stack')
        /\ i + 1 \in 1..(Depth - 1) \/ i + 1 = Depth
        /\ \A j \in DOMAIN stack' : j \in 1..(Depth - 1) \/ j = Depth \/ j = Depth + 1
    BY <1>1, <1>3
  <2>2. Call(a).ptr = a /\ Nil # a /\ Nil # Top.ptr
    BY <1>5 DEF Call, ClientTableAssumption
  <2>3. /\ stack'[Depth].ptr = Top.ptr /\ Nil # stack'[Depth].ptr
        /\ stack'[Depth].ptr \in Client
    BY <1>3, <1>5, <2>2
  <2>4. /\ stack'[Depth + 1].ptr \in Client /\ Nil # stack'[Depth + 1].ptr
        /\ Before(stack'[Depth + 1].ptr, Top.ptr)
    <3>1. stack'[Depth + 1].ptr = a
      BY <1>3, <2>2
    <3> QED
      BY <1>5, <2>2, <3>1
  <2>5. \A j \in DOMAIN stack' :
          \/ j \in 1..(Depth - 1) /\ stack'[j] = stack[j]
          \/ /\ stack'[j].ptr \in Client /\ Nil # stack'[j].ptr
             /\ stack'[j].ptr = Top.ptr \/ Before(stack'[j].ptr, Top.ptr)
    BY <1>3, <2>1, <2>3, <2>4
  <2>6. \/ i + 1 \in 1..(Depth - 1) /\ i < Len(stack') /\ stack'[i + 1] = stack[i + 1]
        \/ i + 1 = Depth /\ i < Len(stack') /\ stack'[Depth].ptr = Top.ptr
    BY <1>3, <2>1, <2>3
  <2>7. \A j \in DOMAIN stack' : i < j /\ stack[i].pc = "servers" =>
          \/ j \in 1..(Depth - 1) /\ stack'[j] = stack[j]
          \/ /\ stack'[j].ptr \in Client /\ Nil # stack'[j].ptr
             /\ stack'[j].ptr = Top.ptr \/ Before(stack'[j].ptr, Top.ptr)
    BY <2>5
  <2>8. PICK x \in Client \cup {Nil} : x = Nil
    OBVIOUS
  <2>9. /\ Shrinks(x) /\ i \in DOMAIN stack' /\ stack'[i] = stack[i]
        /\ Top.pc # "close" => x = Nil \/ x = Top.ptr \/ Before(x, Top.ptr)
        /\ \A j \in DOMAIN stack' : i < j /\ stack[i].pc = "servers" =>
             \/ j \in 1..(Depth - 1) /\ stack'[j] = stack[j]
             \/ /\ stack'[j].ptr \in Client /\ x # stack'[j].ptr
                /\ stack'[j].ptr = Top.ptr \/ Before(stack'[j].ptr, Top.ptr)
    BY <1>4, <2>1, <2>7, <2>8
  <2> QED
    BY ONLY ClientTableAssumption, Inv, ~Idle, <2>6, <2>9, LowerKept
<1>8. ASSUME NEW n, n = Depth PROVE FrameOK(n)'
  <2>1. /\ \A c \in Client : status[c] = "client" => srvptr[c] # Top.ptr
        /\ \A c \in Client : status[c] = "server" /\ srvptr[c] = Top.ptr => Ahead(Top, c)
        /\ status[Top.ptr] = "server"
    BY TopOK DEF FrameOK
  <2>2. ASSUME NEW c \in Client, status[c] = "server", srvptr[c] = f.ptr, c # a
        PROVE  Ahead(f, c)
    BY <1>5, <1>6, <2>1, <2>2 DEF Ahead
  <2>3. /\ stack'[n] = f /\ n < Len(stack') /\ stack'[n + 1].ptr = a
        /\ \A j \in DOMAIN stack' : n < j => stack'[j].ptr = a
    BY <1>1, <1>3, <1>8 DEF Call
  <2>4. /\ status'[f.ptr] = "server" /\ OnList(f.ptr)'
        /\ f.cursor # Nil => OnList(f.cursor)'
        /\ Before(a, f.ptr)' /\ (f.cursor # Nil => Before(a, f.cursor)')
        /\ \A c \in Client : status'[c] = "client" => srvptr'[c] # f.ptr
    BY <1>5, <1>6, <2>1 DEF OnList, Before
  <2>5. \A c \in Client : status'[c] = "server" /\ srvptr'[c] = f.ptr =>
          Ahead(f, c)' \/ c = a
    BY <2>2 DEF Ahead, Before
  <2>6. /\ n < Len(stack') => f.pc \in {"close", "servers"}
        /\ f.pc # "close" /\ f.pc # "users" /\ f.pc # "one"
    BY <1>5
  <2>8. ASSUME NEW j \in DOMAIN stack', n < j
        PROVE  \A q : q = stack'[j].ptr =>
                  Before(q, f.ptr)' /\ (f.cursor # Nil => Before(q, f.cursor)')
    BY <2>3, <2>4, <2>8
  <2>7. \A c \in Client : status'[c] = "server" /\ srvptr'[c] = f.ptr =>
          Ahead(f, c)' \/ (n < Len(stack') /\ c = stack'[n + 1].ptr)
    BY <2>3, <2>5
  <2> QED
    BY ONLY <1>5, <2>3, <2>4, <2>6, <2>7, <2>8 DEF FrameOK, Ahead, Before, OnList
<1>9. ASSUME NEW n, n = Depth + 1 PROVE FrameOK(n)'
  <2>1. /\ stack'[n].pc = "start" /\ stack'[n].ptr = a /\ stack'[n].cursor = Nil
        /\ Len(stack') = n /\ \A j \in DOMAIN stack' : ~(n < j)
    BY <1>1, <1>3, <1>9 DEF Call
  <2> QED
    BY <1>5, <2>1 DEF FrameOK, OnList
<1> QED
  BY <1>1, <1>3, <1>7, <1>8, <1>9 DEF StackOK

LEMMA StackExitStep ==
  ASSUME ClientTableAssumption, Inv, ExitStep PROVE StackOK'
<1>1. /\ TypeOK /\ FramesOK /\ ListExact /\ NoDup
      /\ \A c \in Client : status[c] # "free" => OnList(c)
      /\ \A c, p \in Client : status[c] # "free" /\ srvptr[c] = p =>
            status[p] = "server" /\ Before(c, p) /\ c # p
  BY InvFacts
<1>2. ~Idle
  BY DEF ExitStep, CloseLocal, WalkUsers, UsersDone, WalkServers, ServersDone,
         ExitOne, CloseLoop
<1>3. /\ Top \in Frame /\ FrameOK(Depth) /\ Depth = Len(stack)
      /\ Top = stack[Depth]
      /\ Top.pc # "close" => Top.ptr \in Client /\ OnList(Top.ptr)
      /\ Top.cursor # Nil => Top.cursor \in Client /\ OnList(Top.cursor)
  BY <1>2, TopOK
<1>4. /\ First(list) # Nil => OnList(First(list))
      /\ \A c \in Client : OnList(c) =>
            First(list) # Nil /\ (c = First(list) \/ Before(First(list), c))
      /\ First(list) \in Client \cup {Nil}
  BY <1>1, FirstFacts, FirstType
<1>5. CASE CloseLocal
  <2> DEFINE f == [Top EXCEPT
                     !.pc = IF status[Top.ptr] = "server" THEN "users" ELSE "one",
                     !.cursor = First(list)]
  <2>1. Top.pc = "start" /\ Goto(f) /\ UNCHANGED <<status, srvptr, list>>
    BY <1>5 DEF CloseLocal
  <2>2. /\ f \in Frame /\ f.ptr = Top.ptr /\ f.cursor = First(list)
        /\ f.pc = IF status[Top.ptr] = "server" THEN "users" ELSE "one"
    BY <1>3, <1>4 DEF Frame
  <2> HIDE DEF f
  <2>3. \A c \in Client : status[c] \in {"client", "server"} /\ srvptr[c] = Top.ptr =>
          /\ status[Top.ptr] = "server"
          /\ Ahead(f, c)
    BY <1>1, <1>3, <1>4, <2>1, <2>2 DEF Ahead
  <2>4. PICK g \in Frame : g = f
    BY <2>2
  <2>5. /\ g.cursor # Nil => OnList(g.cursor)'
        /\ \A c \in Client : Ahead(g, c) => Ahead(g, c)'
    BY <1>4, <2>1, <2>2, <2>4 DEF OnList, Ahead, Before
  <2> QED
    BY <1>2, <2>1, <2>2, <2>3, <2>4, <2>5, ShrinksNone, StackGoto DEF Exiting
<1>6. CASE WalkUsers
  <2> DEFINE a == Top.cursor
             f == [Top EXCEPT !.cursor = Next(a)]
  <2>1. /\ Top.pc = "users" /\ a \in Client /\ OnList(a) /\ Goto(f)
        /\ IF status[a] = "client" /\ srvptr[a] = Top.ptr THEN RemoveOne(a)
           ELSE UNCHANGED <<status, srvptr, list>>
    BY <1>3, <1>6 DEF WalkUsers
  <2>2. /\ Next(a) # Nil => /\ Next(a) \in Client /\ Next(a) # a
                            /\ OnList(Next(a)) /\ Before(a, Next(a))
        /\ \A c \in Client : Before(a, c) =>
              Next(a) # Nil /\ (c = Next(a) \/ Before(Next(a), c))
    BY <1>1, <2>1, NextFacts
  <2>3. /\ f \in Frame /\ f.ptr = Top.ptr /\ f.cursor = Next(a) /\ f.pc = "users"
    BY <1>3, <2>1, <2>2 DEF Frame
  <2> HIDE DEF f
  <2>4. PICK g \in Frame : g = f
    BY <2>3
  <2>5. /\ status[Top.ptr] = "server"
        /\ \A c \in Client : status[c] = "client" /\ srvptr[c] = Top.ptr =>
              c = a \/ Before(a, c)
    BY <1>3, <2>1 DEF FrameOK, Ahead
  <2>6. CASE status[a] = "client" /\ srvptr[a] = Top.ptr
    <3>1. Shrinks(a)
      BY <1>1, <2>1, <2>6, ShrinksOne
    <3>2. g.cursor # Nil => OnList(g.cursor)'
      BY <2>2, <2>3, <2>4, <3>1 DEF Shrinks
    <3>3. ASSUME NEW c \in Client, status'[c] = "client", srvptr'[c] = g.ptr
          PROVE  Ahead(g, c)'
      <4>1. c # a /\ Before(a, c)
        BY <2>3, <2>4, <2>5, <3>1, <3>3 DEF Shrinks
      <4>2. Next(a) \in Client /\ Next(a) # a /\ (c = Next(a) \/ Before(Next(a), c))
        BY <2>2, <4>1
      <4>3. c = g.cursor \/ Before(g.cursor, c)'
        BY <2>3, <2>4, <3>1, <4>1, <4>2 DEF Shrinks
      <4> QED
        BY <2>2, <2>3, <2>4, <4>1, <4>3 DEF Ahead
    <3>4. Before(a, Top.ptr)
      BY <1>1, <1>3, <2>1, <2>6
    <3> QED
      BY <1>2, <2>1, <2>3, <2>4, <2>5, <3>1, <3>2, <3>3, <3>4, StackGoto DEF Exiting
  <2>7. CASE UNCHANGED <<status, srvptr, list>> /\ ~(status[a] = "client" /\ srvptr[a] = Top.ptr)
    <3>1. g.cursor # Nil => OnList(g.cursor)'
      BY <2>2, <2>3, <2>4, <2>7 DEF OnList
    <3>2. ASSUME NEW c \in Client, status[c] = "client", srvptr[c] = g.ptr
          PROVE  Ahead(g, c)'
      <4>1. c # a /\ Before(a, c)
        BY <2>3, <2>4, <2>5, <2>7, <3>2
      <4>2. Ahead(g, c)
        BY <2>2, <2>3, <2>4, <4>1 DEF Ahead
      <4> QED
        BY <2>7, <4>2 DEF Ahead, Before
    <3> QED
      BY <1>2, <2>1, <2>3, <2>4, <2>5, <2>7, <3>1, <3>2, ShrinksNone, StackGoto DEF Exiting
  <2> QED
    BY <2>1, <2>6, <2>7
<1>7. CASE UsersDone
  <2> DEFINE f == [Top EXCEPT !.pc = "servers", !.cursor = First(list)]
  <2>1. /\ Top.pc = "users" /\ Top.cursor = Nil /\ Goto(f)
        /\ UNCHANGED <<status, srvptr, list>>
    BY <1>7 DEF UsersDone
  <2>2. f \in Frame /\ f.ptr = Top.ptr /\ f.cursor = First(list) /\ f.pc = "servers"
    BY <1>3, <1>4 DEF Frame
  <2> HIDE DEF f
  <2>3. PICK g \in Frame : g = f
    BY <2>2
  <2>4. /\ status[Top.ptr] = "server"
        /\ \A c \in Client : status[c] = "client" => srvptr[c] # Top.ptr
    BY <1>3, <2>1 DEF FrameOK, Ahead
  <2>5. \A c \in Client : status[c] = "server" => Ahead(g, c)
    BY <1>1, <1>4, <2>2, <2>3 DEF Ahead
  <2>6. /\ g.cursor # Nil => OnList(g.cursor)'
        /\ \A c \in Client : Ahead(g, c) => Ahead(g, c)'
    BY <1>4, <2>1, <2>2, <2>3 DEF OnList, Ahead, Before
  <2> QED
    BY <1>2, <2>1, <2>2, <2>3, <2>4, <2>5, <2>6, ShrinksNone, StackGoto DEF Exiting
<1>8. CASE WalkServers
  <2> DEFINE a == Top.cursor
             f == [Top EXCEPT !.cursor = Next(a)]
  <2>1. /\ Top.pc = "servers" /\ a \in Client /\ OnList(a)
        /\ UNCHANGED <<status, srvptr, list>>
        /\ IF status[a] = "server" /\ srvptr[a] = Top.ptr
           THEN stack' = Append(Append(Below, f), Call(a)) ELSE Goto(f)
    BY <1>3, <1>8 DEF WalkServers
  <2>2. /\ Next(a) # Nil => Next(a) \in Client /\ OnList(Next(a))
        /\ \A c \in Client : Before(a, c) =>
              Next(a) # Nil /\ (c = Next(a) \/ Before(Next(a), c))
    BY <1>1, <2>1, NextFacts
  <2>3. f \in Frame /\ f.ptr = Top.ptr /\ f.cursor = Next(a) /\ f.pc = "servers"
    BY <1>3, <2>1, <2>2 DEF Frame
  <2>4. CASE status[a] = "server" /\ srvptr[a] = Top.ptr
    BY <1>2, <2>1, <2>3, <2>4, StackPush
  <2>5. CASE ~(status[a] = "server" /\ srvptr[a] = Top.ptr)
    <3> HIDE DEF f
    <3>1. PICK g \in Frame : g = f
      BY <2>3
    <3>2. /\ status[Top.ptr] = "server"
          /\ \A c \in Client : status[c] = "client" => srvptr[c] # Top.ptr
          /\ \A c \in Client : status[c] = "server" /\ srvptr[c] = Top.ptr =>
                c = a \/ Before(a, c)
      BY <1>3, <2>1 DEF FrameOK, Ahead
    <3>3. ASSUME NEW c \in Client, status[c] = "server", srvptr[c] = g.ptr
          PROVE  Ahead(g, c)
      BY <2>2, <2>3, <2>5, <3>1, <3>2, <3>3 DEF Ahead
    <3>4. /\ g.cursor # Nil => OnList(g.cursor)'
          /\ \A c \in Client : Ahead(g, c) => Ahead(g, c)'
      BY <2>1, <2>2, <2>3, <3>1 DEF OnList, Ahead, Before
    <3> QED
      BY <1>2, <2>1, <2>3, <2>5, <3>1, <3>2, <3>3, <3>4, ShrinksNone, StackGoto
      DEF Exiting
  <2> QED
    BY <2>4, <2>5
<1>9. CASE ServersDone
  <2> DEFINE f == [Top EXCEPT !.pc = "one"]
  <2>1. /\ Top.pc = "servers" /\ Top.cursor = Nil /\ Goto(f)
        /\ UNCHANGED <<status, srvptr, list>>
    BY <1>9 DEF ServersDone
  <2>2. f \in Frame /\ f.ptr = Top.ptr /\ f.cursor = Nil /\ f.pc = "one"
    BY <1>3, <2>1 DEF Frame
  <2> HIDE DEF f
  <2>3. PICK g \in Frame : g = f
    BY <2>2
  <2>4. \A c \in Client : status[c] \in {"client", "server"} => srvptr[c] # Top.ptr
    BY <1>3, <2>1 DEF FrameOK, Ahead
  <2> QED
    BY <1>2, <2>1, <2>2, <2>3, <2>4, ShrinksNone, StackGoto DEF Exiting
<1>10. CASE ExitOne
  <2>1. Top.pc = "one" /\ RemoveOne(Top.ptr) /\ stack' = Below
    BY <1>10 DEF ExitOne
  <2>2. Shrinks(Top.ptr)
    BY <1>1, <1>3, <2>1, ShrinksOne
  <2> QED
    BY <1>2, <1>3, <2>1, <2>2, StackPop
<1>11. CASE CloseLoop
  <2>1. Top.pc = "close" /\ UNCHANGED <<status, srvptr, list>>
    BY <1>11 DEF CloseLoop
  <2>2. Shrinks(Nil)
    BY <2>1, ShrinksNone
  <2>3. CASE stack' = Below
    BY <1>2, <2>1, <2>2, <2>3, StackPop
  <2>4. CASE \E c \in CloseTargets : stack' = Append(stack, Call(c))
    <3>1. PICK c \in Client : /\ stack' = Append(stack, Call(c))
                              /\ status[c] \in {"unknown", "connecting", "handshake"}
      BY <2>4 DEF CloseTargets
    <3>2. /\ Depth = 1 /\ stack \in Seq(Frame) /\ Len(stack) = 1 /\ stack[1] = Top
      BY <1>1, <1>2, <1>3, <2>1, TopOK DEF FramesOK, TypeOK
    <3>3. /\ DOMAIN stack' = 1..2 /\ Len(stack') = 2 /\ stack'[1] = Top
          /\ stack'[2] = Call(c)
      <4> DEFINE s == Append(stack, Call(c))
      <4>1. /\ Len(s) = Len(stack) + 1 /\ DOMAIN s = 1..(Len(stack) + 1)
            /\ \A i \in 1..Len(stack) : s[i] = stack[i]
            /\ s[Len(stack) + 1] = Call(c)
        BY <3>2, PushFacts
      <4>2. s = stack'
        BY <3>1
      <4> HIDE DEF s
      <4> QED
        BY <3>2, <4>1, <4>2
    <3>4. Top.ptr = Nil /\ Top.cursor = Nil
      BY <1>3, <2>1 DEF FrameOK
    <3>5. FrameOK(1)'
      BY <2>1, <3>3, <3>4 DEF FrameOK
    <3>6. OnList(c)'
      <4>1. OnList(c)
        BY <1>1, <3>1
      <4> QED
        BY <2>1, <4>1 DEF OnList
    <3>7. FrameOK(2)'
      BY <3>3, <3>6 DEF FrameOK, Call, OnList
    <3> QED
      BY <3>3, <3>5, <3>7 DEF StackOK
  <2> QED
    BY <1>11, <2>3, <2>4 DEF CloseLoop
<1> QED
  BY <1>5, <1>6, <1>7, <1>8, <1>9, <1>10, <1>11 DEF ExitStep

(***************************************************************************)
(* The pointers, while structs are freed.                                  *)
(***************************************************************************)
LEMMA StrayGoto ==
  ASSUME TypeOK, ~Idle, NEW f \in Frame, Goto(f), f.ptr = Top.ptr,
         NEW d \in Client, status'[d] = status[d], Stray(d)
  PROVE  Stray(d)'
<1>1. Len(stack) = 1 /\ stack[1].ptr = d /\ Depth = Len(stack) /\ Top = stack[Depth]
  BY DEF Stray, Depth, Top
<1>2. Len(stack') = 1 /\ stack'[1] = f
  BY <1>1, GotoFacts
<1> QED
  BY <1>1, <1>2 DEF Stray

LEMMA NotServer ==
  ASSUME ClientTableAssumption, Inv, NEW x \in Client, status[x] # "server"
  PROVE  \A d \in Allocated : d # x => srvptr[d] # x /\ from[d] # x
  BY DEF Inv, Base, PointersOK, TypeOK, Allocated, ClientTableAssumption

LEMMA PointersExitStep ==
  ASSUME ClientTableAssumption, Inv, ExitStep PROVE PointersOK'
<1>1. /\ TypeOK /\ StructOK /\ FramesOK /\ ListExact /\ PointersOK
      /\ \A c \in Client : status[c] # "free" => OnList(c)
  BY InvFacts
<1>2. ~Idle
  BY DEF ExitStep, CloseLocal, WalkUsers, UsersDone, WalkServers, ServersDone,
         ExitOne, CloseLoop
<1>3. /\ Top \in Frame /\ FrameOK(Depth) /\ Depth = Len(stack) /\ Depth \in Nat \ {0}
      /\ Top = stack[Depth]
      /\ Top.pc # "close" => Top.ptr \in Client /\ OnList(Top.ptr)
      /\ Top.cursor # Nil => Top.cursor \in Client /\ OnList(Top.cursor)
  BY <1>2, TopOK
<1>4. \A d : Stray(d) => Depth = 1 /\ Top.ptr = d /\ status[d] = "client"
  BY <1>3 DEF Stray
<1>5. CASE CloseLocal
  <2> DEFINE c == Top.ptr
             f == [Top EXCEPT
                     !.pc = IF status[Top.ptr] = "server" THEN "users" ELSE "one",
                     !.cursor = First(list)]
  <2>1. Top.pc = "start" /\ Goto(f) /\ UNCHANGED <<status, srvptr, list>>
    BY <1>5 DEF CloseLocal
  <2>2. f \in Frame /\ f.ptr = Top.ptr
    BY <1>1, <1>3, FirstType DEF Frame
  <2> HIDE DEF f
  <2>3. \A d \in Client : Stray(d) => Stray(d)'
    BY <1>1, <1>2, <2>1, <2>2, StrayGoto
  <2>4. c \in Client /\ status[c] # "free" /\ fd[c] # "closed"
    BY <1>1, <1>2, <2>1, TopFacts
  <2>5. CASE MyConnect(c)
    <3>1. /\ fd' = [fd EXCEPT ![c] = "closed"] /\ from' = [from EXCEPT ![c] = Nil]
          /\ fd[c] = "open"
      BY <1>1, <1>5, <2>4, <2>5 DEF CloseLocal, MyConnect, TypeOK
    <3>2. /\ fd'[c] = "closed" /\ from'[c] = Nil
          /\ \A d \in Client : d # c => fd'[d] = fd[d] /\ from'[d] = from[d]
      BY <1>1, <2>4, <3>1 DEF TypeOK
    <3> HIDE DEF c
    <3> QED
      BY <1>1, <2>1, <2>3, <2>4, <3>1, <3>2 DEF PointersOK, Allocated, Before
  <2>6. CASE ~MyConnect(c)
    <3>1. UNCHANGED <<fd, from>>
      BY <1>5, <2>6 DEF CloseLocal
    <3> QED
      BY <1>1, <2>1, <2>3, <3>1, PointersSame
  <2> QED
    BY <2>5, <2>6
<1>6. CASE WalkUsers
  <2> DEFINE a == Top.cursor
             f == [Top EXCEPT !.cursor = Next(a)]
  <2>1. /\ Top.pc = "users" /\ a \in Client /\ OnList(a) /\ Goto(f)
        /\ IF status[a] = "client" /\ srvptr[a] = Top.ptr THEN RemoveOne(a)
           ELSE UNCHANGED <<status, fd, from, srvptr, list>>
    BY <1>3, <1>6 DEF WalkUsers
  <2>2. f \in Frame /\ f.ptr = Top.ptr
    BY <1>1, <1>3, <2>1, NextType DEF Frame
  <2> HIDE DEF f
  <2>3. CASE RemoveOne(a) /\ status[a] = "client"
    <3>1. \A d \in Client : d # a => status'[d] = status[d]
      BY <1>1, <2>1, <2>3, ShrinksOne DEF Shrinks
    <3>2. \A d \in Client : d # a /\ Stray(d) => Stray(d)'
      BY <1>1, <1>2, <2>1, <2>2, <3>1, StrayGoto
    <3> QED
      BY <1>1, <2>1, <2>3, <3>2, NotServer, PointersRemove
  <2>4. CASE UNCHANGED <<status, fd, from, srvptr, list>>
    <3>1. \A d \in Client : Stray(d) => Stray(d)'
      BY <1>1, <1>2, <2>1, <2>2, <2>4, StrayGoto
    <3> QED
      BY <1>1, <2>4, <3>1, PointersSame
  <2> QED
    BY <2>1, <2>3, <2>4
<1>7. CASE UsersDone \/ ServersDone
  <2> DEFINE f == IF Top.pc = "users"
                  THEN [Top EXCEPT !.pc = "servers", !.cursor = First(list)]
                  ELSE [Top EXCEPT !.pc = "one"]
  <2>1. Goto(f) /\ UNCHANGED <<status, fd, from, srvptr, list>>
    BY <1>7 DEF UsersDone, ServersDone
  <2>2. f \in Frame /\ f.ptr = Top.ptr
    BY <1>1, <1>3, FirstType DEF Frame
  <2> HIDE DEF f
  <2>3. \A d \in Client : Stray(d) => Stray(d)'
    BY <1>1, <1>2, <2>1, <2>2, StrayGoto
  <2> QED
    BY <1>1, <2>1, <2>3, PointersSame
<1>8. CASE WalkServers \/ CloseLoop
  <2>1. /\ UNCHANGED <<status, fd, from, srvptr, list>>
        /\ Top.pc \in {"servers", "close"}
    BY <1>8 DEF WalkServers, CloseLoop
  <2>2. \A d \in Client : ~Stray(d)
    BY <1>3, <1>4, <2>1 DEF FrameOK, ClientTableAssumption
  <2> QED
    BY <1>1, <2>1, <2>2, PointersSame
<1>9. CASE ExitOne
  <2> DEFINE p == Top.ptr
  <2>1. Top.pc = "one" /\ RemoveOne(p) /\ p \in Client /\ OnList(p)
    BY <1>3, <1>9 DEF ExitOne
  <2>2. \A d \in Client : d # p => ~Stray(d)
    BY <1>4
  <2>3. CASE status[p] # "server"
    BY <1>1, <2>1, <2>2, <2>3, NotServer, PointersRemove
  <2>4. CASE status[p] = "server"
    <3>1. \A d \in Allocated : srvptr[d] # p
      <4>1. SUFFICES ASSUME NEW d \in Client, status[d] # "free", srvptr[d] = p
                     PROVE  FALSE
        BY DEF Allocated
      <4>2. fd[d] = "remote"
        BY <1>1, <2>1, <4>1 DEF PointersOK, Allocated
      <4>3. status[d] \in {"client", "server"}
        BY <1>1, <4>1, <4>2 DEF StructOK, TypeOK, Status
      <4> QED
        BY <1>3, <2>1, <4>1, <4>3 DEF FrameOK
    <3>2. \A d \in Allocated : ~Stray(d)
      BY <1>4, <2>4 DEF Allocated
    <3>3. \A d \in Allocated : d # p => from[d] # p
      BY <1>1, <2>1, <2>4, <3>1, <3>2, NoneBehind
    <3> QED
      BY <1>1, <2>1, <2>2, <3>1, <3>3, PointersRemove
  <2> QED
    BY <2>3, <2>4
<1> QED
  BY <1>5, <1>6, <1>7, <1>8, <1>9 DEF ExitStep

(***************************************************************************)
(* serv->users.                                                            *)
(***************************************************************************)
LEMMA UsersByOne ==
  ASSUME ClientTableAssumption, TypeOK, UsersExact, NEW c \in Client,
         \A x \in Client : x # c => status'[x] = status[x] /\ srvptr'[x] = srvptr[x],
         \A s \in Client \cup {Me} :
            s = Me \/ status[s] = "server" =>
               users'[s] = users[s] + Delta(status'[c] = "client" /\ srvptr'[c] = s,
                                            status[c] = "client" /\ srvptr[c] = s),
         status'[c] = "server" /\ status[c] # "server" =>
            /\ users'[c] = 0
            /\ \A x \in Client : status'[x] = "client" => srvptr'[x] # c
  PROVE  UsersExact'
<1>1. ASSUME NEW s \in Client \cup {Me}, s = Me \/ status[s] = "server"
      PROVE  users'[s] = Cardinality(UsersOf(s)')
  <2>1. /\ UsersOf(s) \in SUBSET Client /\ UsersOf(s)' \in SUBSET Client
        /\ \A x \in Client :
             /\ x \in UsersOf(s) <=> status[x] = "client" /\ srvptr[x] = s
             /\ x \in UsersOf(s)' <=> status'[x] = "client" /\ srvptr'[x] = s
    BY DEF UsersOf, Persons
  <2>2. Cardinality(UsersOf(s)') = Cardinality(UsersOf(s))
           + Delta(c \in UsersOf(s)', c \in UsersOf(s))
    BY <2>1, CountChange
  <2>3. users[s] = Cardinality(UsersOf(s))
    BY <1>1 DEF UsersExact, Servers
  <2> QED
    BY <1>1, <2>1, <2>2, <2>3
<1>2. ASSUME NEW s \in Client, status'[s] = "server", status[s] # "server"
      PROVE  users'[s] = Cardinality(UsersOf(s)')
  <2>1. s = c
    BY <1>2
  <2>2. UsersOf(s)' = {}
    BY <1>2, <2>1 DEF UsersOf, Persons
  <2> QED
    BY <1>2, <2>1, <2>2, FS_EmptySet
<1> QED
  BY <1>1, <1>2 DEF UsersExact, Servers
LEMMA DeltaFacts ==
  /\ Delta(TRUE, FALSE) = 1 /\ Delta(FALSE, TRUE) = -1
  /\ Delta(TRUE, TRUE) = 0 /\ Delta(FALSE, FALSE) = 0
  BY DEF Delta

LEMMA UsersArrive ==
  ASSUME ClientTableAssumption, Inv, Arrive PROVE UsersExact'
<1>1. PICK c \in Client :
        \/ \E l \in Listener : AddConnection(c, l)
        \/ ConnectServer(c)
        \/ \E via, p \in Client : ServerRemote(c, via, p)
        \/ \E via \in Client, p \in Client \cup {Nil} : NickRemote(c, via, p)
  BY DEF Arrive
<1>2. /\ TypeOK /\ UsersExact
      /\ \A x, p \in Client : status[x] # "free" /\ srvptr[x] = p =>
            status[p] = "server"
  BY InvFacts DEF Inv
<1>3. ASSUME NEW st \in Status \ {"free"}, NEW f, NEW src, NEW srv, NEW l,
             MakeClient(c, st, f, src, srv, l)
      PROVE  /\ status[c] = "free" /\ status'[c] = st /\ srvptr'[c] = srv
             /\ \A x \in Client : x # c =>
                   status'[x] = status[x] /\ srvptr'[x] = srvptr[x]
             /\ \A x \in Client : status'[x] = "client" /\ x # c => srvptr'[x] # c
  BY <1>2, <1>3, ZenonT(30) DEF MakeClient, TypeOK
<1>4. CASE (\E l \in Listener : AddConnection(c, l)) \/ ConnectServer(c)
  <2>1. PICK st \in Status \ {"free"} : \E srv, l :
          /\ MakeClient(c, st, "open", c, srv, l)
          /\ st \notin {"client", "server"} /\ users' = users
    <3>1. ASSUME NEW l \in Listener, AddConnection(c, l)
          PROVE  \E st \in Status \ {"free"} :
                    /\ MakeClient(c, st, "open", c, Me, l)
                    /\ st \notin {"client", "server"} /\ users' = users
      <4> DEFINE st == IF l \in SSLListener THEN "ssl_accept" ELSE "unknown"
      <4>1. st \in (Status \ {"free"}) \ {"client", "server"}
        BY DEF Status, Pending, Handshaking
      <4>2. MakeClient(c, st, "open", c, Me, l) /\ users' = users
        BY <3>1 DEF AddConnection
      <4> HIDE DEF st
      <4> QED
        BY <4>1, <4>2
    <3>2. ConnectServer(c) =>
            /\ "connecting" \in (Status \ {"free"}) \ {"client", "server"}
            /\ MakeClient(c, "connecting", "open", c, Nil, Me) /\ users' = users
      BY DEF ConnectServer, Status, Pending
    <3> QED
      BY <1>4, <3>1, <3>2
  <2>2. /\ status[c] = "free" /\ status'[c] \notin {"client", "server"}
        /\ \A x \in Client : x # c => status'[x] = status[x] /\ srvptr'[x] = srvptr[x]
    BY <1>3, <2>1
  <2>3. \A s \in Client \cup {Me} :
          users'[s] = users[s] + Delta(status'[c] = "client" /\ srvptr'[c] = s,
                                       status[c] = "client" /\ srvptr[c] = s)
    BY <1>2, <2>1, <2>2, DeltaFacts DEF TypeOK, Delta
  <2> QED
    BY <1>2, <2>2, <2>3, UsersByOne
<1>5. CASE \E via, p \in Client : ServerRemote(c, via, p)
  <2>1. PICK via \in Client, p \in Client :
          /\ "server" \in Status \ {"free"}
          /\ MakeClient(c, "server", "remote", via, p, Nil)
          /\ users' = [users EXCEPT ![c] = 0]
    BY <1>5 DEF ServerRemote, Status
  <2>2. /\ status[c] = "free" /\ status'[c] = "server"
        /\ \A x \in Client : x # c => status'[x] = status[x] /\ srvptr'[x] = srvptr[x]
        /\ \A x \in Client : status'[x] = "client" => srvptr'[x] # c
    BY <1>3, <2>1
  <2>3. /\ users'[c] = 0
        /\ \A s \in Client \cup {Me} : s # c => users'[s] = users[s] /\ users[s] \in Int
    BY <1>2, <2>1 DEF TypeOK
  <2>4. \A s \in Client \cup {Me} : s = Me \/ status[s] = "server" =>
          users'[s] = users[s] + Delta(status'[c] = "client" /\ srvptr'[c] = s,
                                       status[c] = "client" /\ srvptr[c] = s)
    BY <2>2, <2>3 DEF ClientTableAssumption, Delta
  <2> QED
    BY <1>2, <2>2, <2>3, <2>4, UsersByOne
<1>6. CASE \E via \in Client, p \in Client \cup {Nil} : NickRemote(c, via, p)
  <2>1. PICK via \in Client, p \in Client \cup {Nil} :
          /\ "client" \in Status \ {"free"}
          /\ MakeClient(c, "client", "remote", via, p, Nil)
          /\ users' = IF p = Nil THEN users ELSE [users EXCEPT ![p] = @ + 1]
    BY <1>6 DEF NickRemote, Status
  <2>2. /\ status[c] = "free" /\ status'[c] = "client" /\ srvptr'[c] = p
        /\ \A x \in Client : x # c => status'[x] = status[x] /\ srvptr'[x] = srvptr[x]
    BY <1>3, <2>1
  <2>3. \A s \in Client \cup {Me} :
          users[s] \in Int /\ users'[s] = IF s = p THEN users[s] + 1 ELSE users[s]
    BY <1>2, <2>1 DEF TypeOK, ClientTableAssumption
  <2>4. \A s \in Client \cup {Me} :
          users'[s] = users[s] + Delta(status'[c] = "client" /\ srvptr'[c] = s,
                                       status[c] = "client" /\ srvptr[c] = s)
    BY <2>2, <2>3 DEF Delta
  <2> QED
    BY <1>2, <2>2, <2>4, UsersByOne
<1> QED
  BY <1>1, <1>4, <1>5, <1>6

LEMMA UsersPromote ==
  ASSUME ClientTableAssumption, Inv, Promote PROVE UsersExact'
<1>1. PICK c \in Client :
        \/ CompletedConnection(c) \/ StartTLS(c) \/ SSLInitFinished(c)
        \/ RegisterUser(c) \/ ServerSynch(c)
  BY DEF Promote
<1>2. /\ TypeOK /\ StructOK /\ UsersExact
      /\ \A x, p \in Client : status[x] # "free" /\ srvptr[x] = p =>
            status[p] = "server"
  BY InvFacts DEF Inv
<1>3. CASE CompletedConnection(c) \/ StartTLS(c) \/ SSLInitFinished(c)
  <2>1. PICK st \in Pending : status' = [status EXCEPT ![c] = st]
    BY <1>3 DEF CompletedConnection, StartTLS, SSLInitFinished, SetStatus, Pending,
                Handshaking
  <2>2. status[c] \in Pending /\ UNCHANGED <<srvptr, users>>
    BY <1>3 DEF CompletedConnection, StartTLS, SSLInitFinished, Pending, Handshaking
  <2>3. /\ status'[c] = st
        /\ \A x \in Client : x # c => status'[x] = status[x] /\ srvptr'[x] = srvptr[x]
        /\ "client" \notin Pending /\ "server" \notin Pending
    BY <1>2, <2>1, <2>2 DEF TypeOK, Pending, Handshaking
  <2>4. \A s \in Client \cup {Me} :
          users'[s] = users[s] + Delta(status'[c] = "client" /\ srvptr'[c] = s,
                                       status[c] = "client" /\ srvptr[c] = s)
    BY <1>2, <2>2, <2>3 DEF TypeOK, Delta
  <2>5. status'[c] # "server"
    BY <2>3
  <2> QED
    BY <1>2, <2>3, <2>4, <2>5, UsersByOne
<1>4. CASE RegisterUser(c)
  <2>1. /\ status[c] = "unknown" /\ status' = [status EXCEPT ![c] = "client"]
        /\ users' = [users EXCEPT ![srvptr[c]] = @ + 1] /\ srvptr' = srvptr
        /\ srvptr[c] = Me
    BY <1>2, <1>4 DEF RegisterUser, SetStatus, StructOK
  <2>2. /\ status'[c] = "client" /\ srvptr'[c] = Me
        /\ \A x \in Client : x # c => status'[x] = status[x] /\ srvptr'[x] = srvptr[x]
        /\ \A s \in Client \cup {Me} :
              users[s] \in Int /\ users'[s] = IF s = Me THEN users[s] + 1 ELSE users[s]
    BY <1>2, <2>1 DEF TypeOK
  <2>3. \A s \in Client \cup {Me} :
          users'[s] = users[s] + Delta(status'[c] = "client" /\ srvptr'[c] = s,
                                       status[c] = "client" /\ srvptr[c] = s)
    BY <2>1, <2>2 DEF Delta
  <2> QED
    BY <1>2, <2>2, <2>3, UsersByOne
<1>5. CASE ServerSynch(c)
  <2>1. /\ status[c] \in {"unknown", "handshake"}
        /\ status' = [status EXCEPT ![c] = "server"]
        /\ users' = [users EXCEPT ![c] = 0] /\ srvptr' = [srvptr EXCEPT ![c] = Me]
    BY <1>5 DEF ServerSynch, SetStatus
  <2>2. /\ status'[c] = "server" /\ users'[c] = 0
        /\ \A x \in Client : x # c => status'[x] = status[x] /\ srvptr'[x] = srvptr[x]
        /\ \A s \in Client \cup {Me} : s # c => users'[s] = users[s] /\ users[s] \in Int
    BY <1>2, <2>1 DEF TypeOK
  <2>3. \A x \in Client : status'[x] = "client" => srvptr'[x] # c
    BY <1>2, <2>1, <2>2
  <2>4. \A s \in Client \cup {Me} : s = Me \/ status[s] = "server" =>
          users'[s] = users[s] + Delta(status'[c] = "client" /\ srvptr'[c] = s,
                                       status[c] = "client" /\ srvptr[c] = s)
    BY <2>1, <2>2 DEF ClientTableAssumption, Delta
  <2> QED
    BY <1>2, <2>2, <2>3, <2>4, UsersByOne
<1> QED
  BY <1>1, <1>3, <1>4, <1>5

LEMMA UsersExitStep ==
  ASSUME ClientTableAssumption, Inv, ExitStep PROVE UsersExact'
<1>1. /\ TypeOK /\ ListExact /\ UsersExact
  BY InvFacts DEF Inv
<1>2. ~Idle
  BY DEF ExitStep, CloseLocal, WalkUsers, UsersDone, WalkServers, ServersDone,
         ExitOne, CloseLoop
<1>3. CASE UNCHANGED <<status, srvptr, users>>
  BY <1>1, <1>3 DEF UsersExact, UsersOf, Persons, Servers
<1>4. ASSUME NEW x \in Client, OnList(x), RemoveOne(x) PROVE UsersExact'
  <2>1. /\ status' = [status EXCEPT ![x] = "free"]
        /\ srvptr' = [srvptr EXCEPT ![x] = Nil]
        /\ users' = IF status[x] = "client" /\ srvptr[x] # Nil
                    THEN [users EXCEPT ![srvptr[x]] = @ - 1] ELSE users
    BY <1>4 DEF RemoveOne, RemoveClient
  <2>2. /\ status'[x] = "free"
        /\ \A y \in Client : y # x => status'[y] = status[y] /\ srvptr'[y] = srvptr[y]
        /\ \A s \in Client \cup {Me} :
              /\ users[s] \in Int
              /\ users'[s] = IF status[x] = "client" /\ srvptr[x] = s
                             THEN users[s] - 1 ELSE users[s]
    BY <1>1, <2>1 DEF TypeOK, ClientTableAssumption
  <2>3. \A s \in Client \cup {Me} :
          users'[s] = users[s] + Delta(status'[x] = "client" /\ srvptr'[x] = s,
                                       status[x] = "client" /\ srvptr[x] = s)
    BY <2>2 DEF Delta
  <2>4. status'[x] # "server"
    BY <2>2
  <2> QED
    BY <1>1, <2>2, <2>3, <2>4, UsersByOne
<1>5. CASE WalkUsers
  <2>1. Top.cursor \in Client /\ OnList(Top.cursor)
    BY <1>2, <1>5, TopOK DEF WalkUsers
  <2> QED
    BY <1>3, <1>4, <1>5, <2>1 DEF WalkUsers
<1>6. CASE ExitOne
  <2>1. Top.ptr \in Client /\ OnList(Top.ptr)
    BY <1>2, <1>6, TopOK DEF ExitOne
  <2> QED
    BY <1>4, <1>6, <2>1 DEF ExitOne
<1> QED
  BY <1>3, <1>5, <1>6
  DEF ExitStep, CloseLocal, UsersDone, WalkServers, ServersDone, CloseLoop

(***************************************************************************)
(* The list itself.                                                        *)
(***************************************************************************)
LEMMA ListStep ==
  ASSUME ClientTableAssumption, Inv, NextStep PROVE ListExact'
<1>1. TypeOK /\ ListExact
  BY InvFacts
<1>2. CASE Arrive
  <2>1. PICK c \in Client, st \in Status \ {"free"} :
          \E f, src, srv, l : MakeClient(c, st, f, src, srv, l)
    <3>1. PICK c \in Client :
            \/ \E l \in Listener : AddConnection(c, l)
            \/ ConnectServer(c)
            \/ \E via, p \in Client : ServerRemote(c, via, p)
            \/ \E via \in Client, p \in Client \cup {Nil} : NickRemote(c, via, p)
      BY <1>2 DEF Arrive
    <3>2. ASSUME NEW l \in Listener, AddConnection(c, l)
          PROVE  \E st \in Status \ {"free"} : MakeClient(c, st, "open", c, Me, l)
      <4> DEFINE st == IF l \in SSLListener THEN "ssl_accept" ELSE "unknown"
      <4>1. st \in Status \ {"free"} /\ MakeClient(c, st, "open", c, Me, l)
        BY <3>2 DEF AddConnection, Status, Pending, Handshaking
      <4> HIDE DEF st
      <4> QED
        BY <4>1
    <3>3. {"connecting", "server", "client"} \subseteq Status \ {"free"}
      BY DEF Status, Pending
    <3> QED
      BY <3>1, <3>2, <3>3 DEF ConnectServer, ServerRemote, NickRemote
  <2> QED
    BY <1>1, <2>1, Grows
<1>3. CASE list' = list /\ \A c \in Client : status'[c] # "free" <=> status[c] # "free"
  BY <1>1, <1>3 DEF ListExact, OnList
<1>4. CASE Promote
  <2>1. PICK c \in Client, st \in Status \ {"free"} :
          status' = [status EXCEPT ![c] = st] /\ status[c] # "free" /\ list' = list
    BY <1>4 DEF Promote, CompletedConnection, StartTLS, SSLInitFinished, RegisterUser,
                ServerSynch, SetStatus, Status, Pending, Handshaking
  <2> QED
    BY <1>1, <1>3, <2>1 DEF TypeOK
<1>5. CASE Leave
  BY <1>3, <1>5 DEF Leave, Exit, Close
<1>6. CASE ExitStep
  <2>1. ~Idle
    BY <1>6 DEF ExitStep, CloseLocal, WalkUsers, UsersDone, WalkServers, ServersDone,
                ExitOne, CloseLoop
  <2>2. ASSUME NEW x \in Client, OnList(x), RemoveOne(x) PROVE ListExact'
    BY <1>1, <2>2, ShrinksOne
  <2>3. CASE WalkUsers
    <3>1. Top.cursor \in Client /\ OnList(Top.cursor)
      BY <2>1, <2>3, TopOK DEF WalkUsers
    <3> QED
      BY <1>3, <2>2, <2>3, <3>1 DEF WalkUsers
  <2>4. CASE ExitOne
    <3>1. Top.ptr \in Client /\ OnList(Top.ptr)
      BY <2>1, <2>4, TopOK DEF ExitOne
    <3> QED
      BY <2>2, <2>4, <3>1 DEF ExitOne
  <2> QED
    BY <1>3, <1>6, <2>3, <2>4
    DEF ExitStep, CloseLocal, UsersDone, WalkServers, ServersDone, CloseLoop
<1> QED
  BY <1>2, <1>4, <1>5, <1>6 DEF NextStep

LEMMA InvStep ==
  ASSUME ClientTableAssumption, Inv, [NextStep]_vars PROVE Inv'
<1>1. CASE UNCHANGED vars
  <2>1. Base'
    BY <1>1, BaseStep DEF Inv
  <2>2. ListExact' /\ UsersExact'
    BY <1>1 DEF vars, Inv, ListExact, OnList, UsersExact, UsersOf, Persons, Servers
  <2>3. PointersOK'
    BY <1>1, PointersSame DEF vars, Inv, Stray
  <2>4. StackOK'
    BY <1>1 DEF vars, Inv, StackOK, FrameOK, OnList, Ahead, Before
  <2> QED
    BY <2>1, <2>2, <2>3, <2>4 DEF Inv
<1>2. CASE NextStep
  <2>1. Base'
    BY <1>2, BaseStep DEF Inv
  <2>2. ListExact'
    BY <1>2, ListStep
  <2>3. PointersOK'
    BY <1>2, PointersArrive, PointersPromote, PointersLeave, PointersExitStep
    DEF NextStep
  <2>4. StackOK'
    BY <1>2, StackArrive, StackPromote, StackLeave, StackExitStep DEF NextStep
  <2>5. UsersExact'
    <3>1. CASE Leave
      BY <3>1 DEF Leave, Exit, Close, Inv, UsersExact, UsersOf, Persons, Servers
    <3> QED
      BY <1>2, <3>1, UsersArrive, UsersPromote, UsersExitStep DEF NextStep
  <2> QED
    BY <2>1, <2>2, <2>3, <2>4, <2>5 DEF Inv
<1> QED
  BY <1>1, <1>2

LEMMA InvSound == ASSUME ClientTableAssumption, Inv PROVE ClientsSound
<1>1. /\ TypeOK /\ StructOK /\ FramesOK /\ ListExact /\ PointersOK /\ StackOK
      /\ UsersExact
  BY DEF Inv, Base
<1>2. FramesListed
  <2> SUFFICES ASSUME NEW i \in DOMAIN stack
               PROVE  /\ stack[i].ptr # Nil => OnList(stack[i].ptr)
                      /\ stack[i].cursor # Nil => OnList(stack[i].cursor)
    BY DEF FramesListed
  <2> QED
    BY <1>1 DEF StackOK, FrameOK
<1>3. NoDangling
  <2> SUFFICES ASSUME NEW c \in Allocated
               PROVE  /\ srvptr[c] \in Client => status[srvptr[c]] = "server"
                      /\ from[c] \in Client => from[c] \in Allocated
    BY DEF NoDangling
  <2>1. c \in Client /\ fd[c] \in {"open", "closed", "remote"}
    BY <1>1 DEF Allocated, TypeOK
  <2> QED
    BY <1>1, <2>1 DEF PointersOK, Allocated, ClientTableAssumption
<1>4. RouteExact
  <2> SUFFICES ASSUME Idle, NEW c \in Allocated \ Local
               PROVE  /\ srvptr[c] \in Servers /\ from[c] = from[srvptr[c]]
                      /\ Link(from[c])
    BY DEF RouteExact
  <2>1. \A d \in Allocated : /\ ~Stray(d) /\ fd[d] \in {"open", "remote"}
                             /\ fd[d] = "open" => from[d] = d
    BY <1>1, IdleFacts
  <2>2. fd[c] = "remote" /\ c \in Client
    BY <2>1 DEF Allocated, Local
  <2>3. /\ srvptr[c] \in Client /\ status[srvptr[c]] = "server"
        /\ from[c] = IF fd[srvptr[c]] = "remote" THEN from[srvptr[c]] ELSE srvptr[c]
        /\ from[c] \in Client /\ status[from[c]] = "server"
        /\ fd[from[c]] # "remote"
    BY <1>1, <2>1, <2>2 DEF PointersOK
  <2>4. srvptr[c] \in Allocated /\ from[c] \in Allocated
    BY <2>3 DEF Allocated
  <2> QED
    BY <2>1, <2>3, <2>4 DEF Servers, Link
<1> QED
  BY <1>1, <1>2, <1>3, <1>4 DEF ClientsSound, ListSound, UsersRouted

(***************************************************************************)
(* The results.                                                            *)
(***************************************************************************)

(* No handler and no exit, however deep its calls are nested, leaves the   *)
(* list, srvptr, from, serv->users or a saved pointer wrong.               *)
THEOREM ClientsAreSound == Spec => []ClientsSound
<1>1. Init => Inv
  BY ClientTableAssumption, InvInit
<1>2. Inv /\ [NextStep]_vars => Inv'
  BY ClientTableAssumption, InvStep
<1>3. Inv => ClientsSound
  BY ClientTableAssumption, InvSound
<1> QED
  BY <1>1, <1>2, <1>3, PTL DEF Spec
(* What a step of an exit frees is the struct its top frame is about, or   *)
(* stands directly on the server that frame is about.                      *)
LEMMA FreedInBranch ==
  ASSUME ClientTableAssumption, Inv, NextStep, NEW c \in Client, Freed(c)
  PROVE  \E i \in DOMAIN stack : stack[i].ptr # Nil /\ c \in Branch(stack[i].ptr)
<1>1. TypeOK
  BY InvFacts
<1>2. ~(Arrive \/ Promote \/ Leave)
  <2>1. ASSUME NEW x \in Client, NEW st, st # "free", status' = [status EXCEPT ![x] = st]
        PROVE  FALSE
    BY <1>1, <2>1 DEF Freed, TypeOK
  <2>2. CASE Arrive
    BY <2>1, <2>2, ZenonT(30) DEF Arrive, AddConnection, ConnectServer, ServerRemote, NickRemote,
                      MakeClient
  <2>3. CASE Promote
    BY <2>1, <2>3 DEF Promote, CompletedConnection, StartTLS, SSLInitFinished,
                      RegisterUser, ServerSynch, SetStatus
  <2>4. CASE Leave
    BY <2>4 DEF Leave, Exit, Close, Freed
  <2> QED
    BY <2>2, <2>3, <2>4
<1>3. ExitStep /\ ~Idle
  BY <1>2 DEF NextStep, ExitStep, CloseLocal, WalkUsers, UsersDone, WalkServers,
              ServersDone, ExitOne, CloseLoop
<1>4. /\ Depth \in DOMAIN stack /\ Top = stack[Depth]
      /\ Top.pc # "close" => Top.ptr \in Client
      /\ Top.cursor # Nil => Top.cursor \in Client
  BY <1>3, TopOK
<1>5. Top.pc # "close" /\ (c = Top.ptr \/ srvptr[c] = Top.ptr)
  <2>1. ASSUME NEW x \in Client, RemoveOne(x) PROVE c = x
    BY <1>1, <2>1 DEF RemoveOne, RemoveClient, Freed, TypeOK
  <2>2. CASE WalkUsers
    BY <1>4, <2>1, <2>2 DEF WalkUsers, Freed
  <2>3. CASE ExitOne
    BY <1>4, <2>1, <2>3 DEF ExitOne
  <2> QED
    BY <1>3, <2>2, <2>3 DEF ExitStep, CloseLocal, UsersDone, WalkServers, ServersDone,
                            CloseLoop, Freed
<1>6. c \in Branch(Top.ptr)
  BY <1>5 DEF Branch
<1> QED
  BY <1>4, <1>5, <1>6 DEF ClientTableAssumption

(* An exit, the splits it causes included, never frees a struct that does  *)
(* not hang below the one it was asked to exit.                            *)
THEOREM OnlyTheBranch == Spec => OnlyBranchFreed
<1>1. Init => Inv
  BY ClientTableAssumption, InvInit
<1>2. Inv /\ [NextStep]_vars => Inv'
  BY ClientTableAssumption, InvStep
<1>3. ASSUME Inv, [NextStep]_vars
      PROVE  [\A c \in Client : Freed(c) =>
                \E i \in DOMAIN stack :
                   stack[i].ptr # Nil /\ c \in Branch(stack[i].ptr)]_vars
  BY <1>3, ClientTableAssumption, FreedInBranch
<1> QED
  BY <1>1, <1>2, <1>3, PTL DEF Spec, OnlyBranchFreed

(***************************************************************************)
(* The refinement.                                                         *)
(***************************************************************************)
Up == [c \in Client |->
         IF status[c] # "free" /\ srvptr[c] = Nil THEN Me ELSE srvptr[c]]

(* A free address has no srvptr.                                           *)
FreeIsBlank == \A c \in Client : status[c] = "free" => srvptr[c] = Nil

LEMMA BlankStep ==
  ASSUME TypeOK, FreeIsBlank, [NextStep]_vars PROVE FreeIsBlank'
<1>1. CASE UNCHANGED <<status, srvptr>>
  BY <1>1 DEF FreeIsBlank
<1>2. ASSUME NEW c \in Client, NEW st \in Status, NEW srv,
             status' = [status EXCEPT ![c] = st], st # "free",
             srvptr' = srvptr \/ srvptr' = [srvptr EXCEPT ![c] = srv]
      PROVE  FreeIsBlank'
  BY <1>2 DEF FreeIsBlank, TypeOK
<1>3. CASE Arrive
  BY <1>2, <1>3 DEF Arrive, AddConnection, ConnectServer, ServerRemote, NickRemote,
                    MakeClient, Status, Pending, Handshaking
<1>4. CASE Promote
  BY <1>2, <1>4 DEF Promote, CompletedConnection, StartTLS, SSLInitFinished,
                    RegisterUser, ServerSynch, SetStatus, Status, Pending, Handshaking
<1>5. ASSUME NEW x, RemoveOne(x) PROVE FreeIsBlank'
  BY <1>5 DEF RemoveOne, RemoveClient, FreeIsBlank, TypeOK
<1> QED
  BY <1>1, <1>3, <1>4, <1>5
  DEF vars, NextStep, Leave, Exit, Close, ExitStep, CloseLocal, WalkUsers, UsersDone,
      WalkServers, ServersDone, ExitOne, CloseLoop

(* A struct joins the tree below a server that is there.                   *)
LEMMA JoinStep ==
  ASSUME ClientTableAssumption, TypeOK, FreeIsBlank, NEW c \in Client,
         NEW st \in Status \ {"free"}, NEW f, NEW src,
         NEW srv \in Client \cup {Me, Nil}, NEW l, MakeClient(c, st, f, src, srv, l),
         srv \in Client => status[srv] = "server"
  PROVE  \E s \in Client \cup {Me} : Tree!Join(c, s)
<1> DEFINE s == IF srv = Nil THEN Me ELSE srv
<1>1. /\ status[c] = "free" /\ status' = [status EXCEPT ![c] = st]
      /\ srvptr' = [srvptr EXCEPT ![c] = srv]
  BY DEF MakeClient
<1>2. s \in Client \cup {Me} /\ s \in Allocated \cup {Me}
  BY DEF Allocated
<1>3. c \notin Allocated /\ Allocated' = Allocated \cup {c}
  BY <1>1 DEF Allocated, TypeOK
<1>4. Up' = [Up EXCEPT ![c] = s]
  <2>1. \A x \in Client : Up'[x] = IF x = c THEN s ELSE Up[x]
    BY <1>1 DEF Up, TypeOK
  <2> HIDE DEF s
  <2> QED
    BY <2>1 DEF Up
<1> HIDE DEF s
<1> QED
  BY <1>2, <1>3, <1>4 DEF Tree!Join, Up

(* A struct leaves the tree when nothing is left below it.                 *)
LEMMA FreeStep ==
  ASSUME ClientTableAssumption, TypeOK, ListExact, FreeIsBlank, NEW x \in Client,
         OnList(x), RemoveOne(x), \A d \in Allocated : srvptr[d] # x
  PROVE  Tree!Free(x)
<1>1. /\ status' = [status EXCEPT ![x] = "free"]
      /\ srvptr' = [srvptr EXCEPT ![x] = Nil]
  BY DEF RemoveOne, RemoveClient
<1>2. x \in Allocated /\ Allocated' = Allocated \ {x}
  BY <1>1 DEF Allocated, TypeOK, ListExact
<1>3. Up' = [Up EXCEPT ![x] = Nil]
  <2>1. \A y \in Client : Up'[y] = IF y = x THEN Nil ELSE Up[y]
    BY <1>1 DEF Up, TypeOK
  <2> QED
    BY <2>1 DEF Up
<1>4. \A d \in Allocated : Up[d] # x
  BY DEF Up, Allocated, ClientTableAssumption
<1> QED
  BY <1>2, <1>3, <1>4 DEF Tree!Free, Up

LEMMA TreeStep ==
  ASSUME ClientTableAssumption, Inv, FreeIsBlank, [NextStep]_vars
  PROVE  [Tree!Next]_<<Allocated, Up>>
<1>1. /\ TypeOK /\ StructOK /\ FramesOK /\ ListExact /\ PointersOK
  BY InvFacts
<1>2. CASE UNCHANGED <<status, srvptr>>
  BY <1>2 DEF Allocated, Up
<1>3. CASE Arrive
  <2>1. PICK c \in Client :
          \/ \E l \in Listener : AddConnection(c, l)
          \/ ConnectServer(c)
          \/ \E via, p \in Client : ServerRemote(c, via, p)
          \/ \E via \in Client, p \in Client \cup {Nil} : NickRemote(c, via, p)
    BY <1>3 DEF Arrive
  <2>2. PICK st \in Status \ {"free"}, srv \in Client \cup {Me, Nil} :
          /\ \E f, src, l : MakeClient(c, st, f, src, srv, l)
          /\ srv \in Client => status[srv] = "server"
    <3> DEFINE Made(st, srv) == \E f, src, l : MakeClient(c, st, f, src, srv, l)
    <3>1. ASSUME NEW l \in Listener, AddConnection(c, l)
          PROVE  \E st \in Status \ {"free"} : Made(st, Me)
      <4> DEFINE st == IF l \in SSLListener THEN "ssl_accept" ELSE "unknown"
      <4>1. st \in Status \ {"free"} /\ MakeClient(c, st, "open", c, Me, l)
        BY <3>1 DEF AddConnection, Status, Pending, Handshaking
      <4> HIDE DEF st
      <4> QED
        BY <4>1
    <3>2. {"connecting", "server", "client"} \subseteq Status \ {"free"}
      BY DEF Status, Pending
    <3>3. CASE \E l \in Listener : AddConnection(c, l)
      <4> HIDE DEF Made
      <4>1. \E st \in Status \ {"free"} : Made(st, Me)
        BY <3>1, <3>3
      <4> QED
        BY <4>1 DEF ClientTableAssumption, Made
    <3>4. CASE ConnectServer(c)
      <4>1. Made("connecting", Nil)
        BY <3>4 DEF ConnectServer
      <4> HIDE DEF Made
      <4> QED
        BY <3>2, <4>1 DEF ClientTableAssumption, Made
    <3>5. CASE \E via, p \in Client : ServerRemote(c, via, p)
      <4>1. PICK p \in Client : Made("server", p) /\ status[p] = "server"
        BY <3>5 DEF ServerRemote, Behind
      <4> HIDE DEF Made
      <4> QED
        BY <3>2, <4>1 DEF Made
    <3>6. CASE \E via \in Client, p \in Client \cup {Nil} : NickRemote(c, via, p)
      <4>1. PICK p \in Client \cup {Nil} :
              Made("client", p) /\ (p \in Client => status[p] = "server")
        BY <3>6 DEF NickRemote, ClientTableAssumption
      <4> HIDE DEF Made
      <4> QED
        BY <3>2, <4>1 DEF Made
    <3> QED
      BY <2>1, <3>3, <3>4, <3>5, <3>6
  <2>3. \E s \in Client \cup {Me} : Tree!Join(c, s)
    BY <1>1, <2>2, JoinStep
  <2> QED
    BY <2>3 DEF Tree!Next
<1>4. CASE Promote
  <2>1. PICK c \in Client, st \in Status \ {"free"} :
          /\ status' = [status EXCEPT ![c] = st] /\ status[c] # "free"
          /\ srvptr' = srvptr \/ srvptr' = [srvptr EXCEPT ![c] = Me]
          /\ fd[c] # "remote"
    BY <1>1, <1>4 DEF Promote, CompletedConnection, StartTLS, SSLInitFinished,
                RegisterUser, ServerSynch, SetStatus, Status, Pending, Handshaking,
                StructOK
  <2>2. Allocated' = Allocated
    BY <1>1, <2>1 DEF Allocated, TypeOK
  <2>3. srvptr[c] \in {Me, Nil}
    BY <1>1, <2>1 DEF PointersOK, Allocated, TypeOK
  <2>4. Up' = Up
    BY <1>1, <2>1, <2>3 DEF Up, TypeOK
  <2> QED
    BY <2>2, <2>4
<1>5. CASE ExitStep
  <2>1. /\ ~Idle
        /\ Top.pc # "close" => Top.ptr \in Client /\ OnList(Top.ptr)
        /\ Top.cursor # Nil => Top.cursor \in Client /\ OnList(Top.cursor)
        /\ FrameOK(Depth) /\ Top = stack[Depth]
    <3>1. ~Idle
      BY <1>5 DEF ExitStep, CloseLocal, WalkUsers, UsersDone, WalkServers, ServersDone,
                  ExitOne, CloseLoop
    <3> QED
      BY <3>1, TopOK
  <2>2. CASE WalkUsers
    <3>1. /\ Top.cursor \in Client /\ OnList(Top.cursor)
          /\ (RemoveOne(Top.cursor) /\ status[Top.cursor] = "client")
             \/ UNCHANGED <<status, srvptr>>
      BY <2>1, <2>2 DEF WalkUsers
    <3>2. status[Top.cursor] = "client" => \A d \in Allocated : srvptr[d] # Top.cursor
      BY <1>1, <3>1 DEF PointersOK
    <3> QED
      BY <1>1, <1>2, <3>1, <3>2, FreeStep DEF Tree!Next
  <2>3. CASE ExitOne
    <3>1. Top.pc = "one" /\ Top.ptr \in Client /\ OnList(Top.ptr) /\ RemoveOne(Top.ptr)
      BY <2>1, <2>3 DEF ExitOne
    <3>2. \A d \in Allocated : srvptr[d] # Top.ptr
      <4>1. SUFFICES ASSUME NEW d \in Client, status[d] # "free", srvptr[d] = Top.ptr
                     PROVE  FALSE
        BY DEF Allocated
      <4>2. fd[d] = "remote"
        BY <1>1, <3>1, <4>1 DEF PointersOK, Allocated
      <4>3. status[d] \in {"client", "server"}
        BY <1>1, <4>1, <4>2 DEF StructOK, TypeOK, Status
      <4> QED
        BY <2>1, <3>1, <4>1, <4>3 DEF FrameOK
    <3> QED
      BY <1>1, <3>1, <3>2, FreeStep DEF Tree!Next
  <2> QED
    BY <1>2, <1>5, <2>2, <2>3
    DEF ExitStep, CloseLocal, UsersDone, WalkServers, ServersDone, CloseLoop
<1> QED
  BY <1>2, <1>3, <1>4, <1>5 DEF NextStep, vars, Leave, Exit, Close

(* The table implements the tree of ClientTree: structs join below a       *)
(* server that is there, never move, and go when nothing is left below.    *)
THEOREM TableIsTree == Spec => TreeSpec
<1>1. Init => Tree!Init /\ Inv /\ FreeIsBlank
  <2>1. Init => Tree!Init
    BY DEF Init, Tree!Init, Allocated
  <2> QED
    BY <2>1, ClientTableAssumption, InvInit DEF Init, FreeIsBlank
<1>2. Inv /\ FreeIsBlank /\ [NextStep]_vars => Inv' /\ FreeIsBlank'
  BY ClientTableAssumption, InvStep, BlankStep DEF Inv, Base
<1>3. Inv /\ FreeIsBlank /\ [NextStep]_vars => [Tree!Next]_<<Allocated, Up>>
  BY ClientTableAssumption, TreeStep
<1> QED
  BY <1>1, <1>2, <1>3, PTL DEF Spec, TreeSpec, Tree!Spec, Up
=============================================================================
