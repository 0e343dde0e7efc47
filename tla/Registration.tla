----------------------------- MODULE Registration -----------------------------
(***************************************************************************)
(* How a connection becomes a user: NICK, USER, the ping cookie, the       *)
(* capability negotiation and SASL, in any order (m_nick.c, m_user.c,      *)
(* m_pingpong.c, m_cap.c, m_sasl.c).                                       *)
(*                                                                         *)
(* One slot of local[] is used by one connection after another, while the  *)
(* services answer SASL sessions late.  A session is named by the slot and *)
(* a random cookie, which the model takes to be the connection's number.   *)
(***************************************************************************)
EXTENDS Integers, Sequences, SequencesExt

CONSTANTS Agent,        \* the services' clients that answer SASL
          PingCookie,   \* what set::ping-cookie is between one REHASH and the next
          MaxConns, MaxSessions

RegistrationAssumption ==
  PingCookie \subseteq BOOLEAN /\ MaxConns \in Nat /\ MaxSessions \in Nat

VARIABLES conn,      \* how many connections there have been
          local,     \* the client in the slot, or Nobody
          asked,     \* what the server has sent to the services
          answers,   \* what they have sent, and the server not read
          session,   \* the sessions open at the services
          sessions   \* how many there have been
vars == <<conn, local, asked, answers, session, sessions>>

None == "none"
Nobody == [status |-> None]
Client == [status : {"unknown", "client"}, name : BOOLEAN,
           user : {None, "made", "given"},      \* struct User, and its username
           nospoof : BOOLEAN,                   \* a cookie is still to be sent back
           proto : SUBSET {"clicap", "sasl"},
           sasl_cookie : BOOLEAN, sasl_agent : Agent \cup {None},
           sasl_out : 0..MaxSessions, sasl_complete : Nat,
           svid : 0..MaxConns,                  \* 0, or whose account it is
           used : BOOLEAN,                      \* history: USER was accepted
           again : BOOLEAN]                     \* history: CAP CLEAR, or a spamfilter's block
Message == [puid : 1..MaxConns, mode : {"S", "C", "A"}]
Answer == [puid : 1..MaxConns, mode : {"C", "login", "success", "failure"}, from : Agent]

TypeOK ==
  /\ conn \in 0..MaxConns /\ local \in Client \cup {Nobody}
  /\ asked \in Seq(Message) /\ answers \in Seq(Answer)
  /\ session \subseteq (1..MaxConns) \X Agent /\ sessions \in 0..MaxSessions

Init ==
  /\ conn = 0 /\ local = Nobody
  /\ asked = <<>> /\ answers = <<>> /\ session = {} /\ sessions = 0

Fresh == [status |-> "unknown", name |-> FALSE, user |-> None, nospoof |-> FALSE,
          proto |-> {}, sasl_cookie |-> FALSE, sasl_agent |-> None,
          sasl_out |-> 0, sasl_complete |-> 0, svid |-> 0, used |-> FALSE,
          again |-> FALSE]

Here == local # Nobody
Unregistered == Here /\ local.status = "unknown"

----------------------------------------------------------------------------
(* abort_sasl, at HOOKTYPE_LOCAL_CONNECT (LOCAL_QUIT is for users, whose   *)
(* sasl_out is 0 by then).  The agent is named if it is still there.       *)
Aborting(c) == c.sasl_out # 0 /\ c.sasl_complete = 0
Aborted(c) == IF Aborting(c) THEN [c EXCEPT !.sasl_out = 0] ELSE c

(* register_user for client c, which may also be turned away, or left as   *)
(* it is by a spamfilter whose action is to block.                         *)
RegisterUser(c) ==
  \/ /\ local' = [Aborted(c) EXCEPT !.status = "client", !.user = "given"]
     /\ asked' = IF Aborting(c)
                 THEN Append(asked, [puid |-> conn, mode |-> "A"])
                 ELSE asked
  \/ local' = Nobody /\ UNCHANGED asked
  \/ local' = [c EXCEPT !.again = TRUE, !.user = "given"] /\ UNCHANGED asked

(* The test before register_user in m_nick, m_user and m_nospoof.          *)
Ready(c) ==
  /\ c.name /\ c.user = "given" /\ ~c.nospoof /\ "clicap" \notin c.proto
RegisterIfReady(c) ==
  IF Ready(c) THEN RegisterUser(c) ELSE local' = c /\ UNCHANGED asked

Connect ==
  /\ ~Here /\ conn < MaxConns
  /\ conn' = conn + 1 /\ local' = Fresh
  /\ UNCHANGED <<asked, answers, session, sessions>>

(* The first NICK; a later one of an unregistered client only renames it.  *)
Nick ==
  /\ Unregistered /\ ~local.name
  /\ \E ping_cookie \in PingCookie :
       RegisterIfReady([local EXCEPT !.name = TRUE, !.nospoof = ping_cookie])
  /\ UNCHANGED <<conn, answers, session, sessions>>

UserCmd ==
  /\ Unregistered
  /\ RegisterIfReady([local EXCEPT !.user = "given", !.used = TRUE])
  /\ UNCHANGED <<conn, answers, session, sessions>>

(* PONG with the cookie; a wrong one changes nothing.                      *)
Pong ==
  /\ Unregistered /\ local.name /\ local.nospoof
  /\ RegisterIfReady([local EXCEPT !.nospoof = FALSE])
  /\ UNCHANGED <<conn, answers, session, sessions>>

----------------------------------------------------------------------------
(* CAP LS and CAP REQ hold the registration up; REQ turns SASL on or off.  *)
CapReq ==
  /\ Here
  /\ \E keep \in SUBSET {"sasl"} :
       local' = [local EXCEPT !.proto = keep \cup (IF local.status = "unknown"
                                                   THEN {"clicap"} ELSE {})]
  /\ UNCHANGED <<conn, asked, answers, session, sessions>>

CapClear ==
  /\ Here /\ local.proto # {}
  /\ local' = [local EXCEPT !.proto = {}, !.again = TRUE]
  /\ UNCHANGED <<conn, asked, answers, session, sessions>>

(* CAP ACK of "-sasl".                                                     *)
CapAck ==
  /\ Here /\ "sasl" \in local.proto
  /\ local' = [local EXCEPT !.proto = @ \ {"sasl"}]
  /\ UNCHANGED <<conn, asked, answers, session, sessions>>

(* cap_end tests neither the cookie nor the username.                      *)
CapEnd ==
  /\ Unregistered
  /\ LET c == [local EXCEPT !.proto = @ \ {"clicap"}]
     IN IF c.name /\ c.user # None
        THEN RegisterUser(c)
        ELSE local' = c /\ UNCHANGED asked
  /\ UNCHANGED <<conn, answers, session, sessions>>

----------------------------------------------------------------------------
(* AUTHENTICATE: to the agent that answers, if it is there, or to all.     *)
Authenticate ==
  /\ Unregistered /\ "sasl" \in local.proto /\ local.sasl_complete = 0
  /\ local.sasl_out < MaxSessions /\ Len(asked) < 2
  /\ \E mode \in {"S", "C"} :
       /\ mode = "C" => local.sasl_agent # None
       /\ asked' = Append(asked, [puid |-> conn, mode |-> mode])
  /\ local' = [local EXCEPT !.sasl_cookie = TRUE, !.sasl_out = @ + 1]
  /\ UNCHANGED <<conn, answers, session, sessions>>

(* decode_puid: the client in the slot, unless its cookie is another.  A   *)
(* client that has sent no AUTHENTICATE has cookie 0, which is another.    *)
Decoded_BySlot(puid) == Here
Decoded(puid) == Here /\ conn = puid /\ local.sasl_cookie

MadeUser(c) == [c EXCEPT !.user = IF @ = None THEN "made" ELSE @]

SvsLogin(m) ==
  local' = IF Decoded(m.puid) THEN [MadeUser(local) EXCEPT !.svid = m.puid] ELSE local

Sasl(m) ==
  LET c == MadeUser(local)
  IN local' =
       IF ~Decoded(m.puid) THEN local
       ELSE IF c.sasl_agent \notin {None, m.from} THEN c
       ELSE IF m.mode = "C" THEN [c EXCEPT !.sasl_agent = m.from]
       ELSE [c EXCEPT !.sasl_agent = None,
                      !.sasl_complete = IF m.mode = "success" THEN @ + 1 ELSE @]

Receive ==
  /\ answers # <<>>
  /\ answers' = Tail(answers)
  /\ IF Head(answers).mode = "login" THEN SvsLogin(Head(answers)) ELSE Sasl(Head(answers))
  /\ UNCHANGED <<conn, asked, session, sessions>>

(* exit_client, for whatever reason, a time-out included.                  *)
Exit ==
  /\ Here /\ local' = Nobody
  /\ UNCHANGED <<conn, asked, answers, session, sessions>>

----------------------------------------------------------------------------
(* The services: a session is opened by one agent, that asks for more      *)
(* until it has made up its mind.  An agent that restarts forgets.         *)
Say(p, a, modes) == answers' = answers \o [i \in DOMAIN modes |->
                                 [puid |-> p, mode |-> modes[i], from |-> a]]

Serve ==
  /\ asked # <<>> /\ asked' = Tail(asked)
  /\ LET m == Head(asked)
     IN \/ /\ m.mode = "A"
           /\ session' = {s \in session : s[1] # m.puid}
           /\ UNCHANGED <<answers, sessions>>
        \/ /\ m.mode = "S" /\ sessions < MaxSessions
           /\ ~\E s \in session : s[1] = m.puid
           /\ sessions' = sessions + 1
           /\ \E a \in Agent : session' = session \cup {<<m.puid, a>>} /\ Say(m.puid, a, <<"C">>)
        \/ /\ m.mode \in {"S", "C"}
           /\ \E s \in session :
                /\ s[1] = m.puid
                /\ session' = session \ {s}
                /\ \/ Say(m.puid, s[2], <<"login", "success">>)
                   \/ Say(m.puid, s[2], <<"failure">>)
           /\ UNCHANGED sessions
        \/ /\ m.mode # "A" /\ ~\E s \in session : s[1] = m.puid
           /\ UNCHANGED <<answers, session, sessions>>
  /\ UNCHANGED <<conn, local>>

AgentRestarts ==
  /\ \E a \in Agent : session' = {s \in session : s[2] # a} /\ session' # session
  /\ UNCHANGED <<conn, local, asked, answers, sessions>>

Next ==
  \/ Connect \/ Nick \/ UserCmd \/ Pong \/ CapReq \/ CapClear \/ CapAck \/ CapEnd
  \/ Authenticate \/ Receive \/ Exit \/ Serve \/ AgentRestarts

Spec == Init /\ [][Next]_vars

----------------------------------------------------------------------------
(* A client has the account that its own SASL session gave it, and is told *)
(* of a success only with that account set, however late the answer is and *)
(* whoever had the slot before (decode_puid).                              *)
LoginIsOwn ==
  Here => /\ local.svid \in {0, conn}
          /\ local.sasl_complete > 0 => local.svid = conn

(* Whichever command comes last, a client that has done all that is asked  *)
(* for is a user, or gone: nobody waits for a command that is not coming.  *)
(* After CAP CLEAR, or a spamfilter's block, the client has to try again.  *)
ReadyIsRegistered == Unregistered /\ Ready(local) => local.again

(* Neither SASL nor CAP decides wrongly who comes in, and as whom.         *)
RegistrationSound == LoginIsOwn /\ ReadyIsRegistered

(* m_nick.c says of register_user: "This function is called when both NICK *)
(* and USER messages have been accepted for the client, in whatever        *)
(* order."  CAP END calls it without USER once SASL has made a struct User.*)
BothAccepted == Here /\ local.status = "client" => local.name /\ local.used
=============================================================================
