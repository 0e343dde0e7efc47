------------------------------- MODULE Orders -------------------------------
(***************************************************************************)
(* Commands that servers pass on to each other: those of services (SVS...),*)
(* changes of a user's host, ident, name, away and swhois, announcements   *)
(* to operators, and queries about a server that is named.  Each handler   *)
(* is a definition of its own: whom it obeys, what it changes on the       *)
(* server that runs it, and where the command goes from there.             *)
(*                                                                         *)
(* The servers are a line; services are behind the first one, the user at  *)
(* the second and the operator at the last one.  Left out: notices to      *)
(* operators and logs, the parts and joins that only the members of a      *)
(* channel see when a host changes, limits of length and characters,       *)
(* realname bans and spamfilters.                                          *)
(***************************************************************************)
EXTENDS Naturals, Sequences, SequencesExt

CONSTANTS West, Mid, East,      \* the servers
          MaxOrders,                \* how many commands are given, for each family
          MaxSplits                 \* bound on links that break

Line == <<West, Mid, East>>
Node == {West, Mid, East}
Asker == {"services", "oper", "user"}
Where == [services |-> West, oper |-> East, user |-> Mid]
Home == East          \* of the oper, whom the commands change
Text == {"x", "y"}

VARIABLES
  family,     \* the commands of this behaviour
  linked,     \* the links that are up, as sets of servers
  sent,       \* sent[s][t]: what s sent to t and t has not read
  field,      \* field[s]: what s has of the field that the commands change,
              \* "gone" when s does not know whose it is
  orders,     \* the commands given so far, in order
  done,       \* done[s][i]: how often s did command i
  replies,    \* replies[i]: how often who gave command i had an answer
  splits, left, \* ghosts: how often a link broke; whether the oper was killed
  mixed     \* ghost: commands of two sources were under way at once
vars == <<family, linked, sent, field, orders, done, replies, splits, left, mixed>>

At(s) == CHOOSE i \in 1..3 : Line[i] = s
Near(s) == {t \in Node : {s, t} \in linked}
(* The link towards t, when there is a way.                                *)
Way(s, t) == {n \in Near(s) : IF At(t) > At(s) THEN At(n) > At(s) ELSE At(n) < At(s)}
Reaches(s, t) ==
  \A i \in 1..2 : (i >= At(s) /\ i < At(t)) \/ (i >= At(t) /\ i < At(s)) => {Line[i], Line[i + 1]} \in linked
Resting == \A s, t \in Node : sent[s][t] = <<>>

IsULine(m) == m.by = "services"
IsAnOper(m) == m.by = "oper"        \* with every privilege
MyClient(s, m) == m.by # "services" /\ Where[m.by] = s
find_person(s) == field[s] # "gone"

(***************************************************************************)
(* What a server makes of a command: the new value of the field, whether   *)
(* it did the command, the message it passes on and to whom ("all" links   *)
(* but the one it came from, "home" of the oper, "target"), and whether it *)
(* answers.                                                                *)
(***************************************************************************)
Ignored(s, m) == [new |-> field[s], did |-> FALSE, as |-> m, to |-> "none", answer |-> FALSE]
Passed(s, m, to) == [Ignored(s, m) EXCEPT !.to = to]
Done(s, m, to) == [Passed(s, m, to) EXCEPT !.did = TRUE]
Sets(s, m, new) == [Done(s, m, "all") EXCEPT !.new = new]
Only(allowed, s, m, verdict) == IF allowed THEN verdict ELSE Ignored(s, m)

(***************************************************************************)
(* Commands to the server of a user.                                       *)
(***************************************************************************)
AtHome(s, m) == IF s = Home THEN Done(s, m, "none") ELSE Passed(s, m, "home")
ForUser(s, m) == Only(IsULine(m) /\ find_person(s), s, m, AtHome(s, m))
m_svsjoin(s, m) == ForUser(s, m)
m_svspart(s, m) == ForUser(s, m)
m_svswatch(s, m) == ForUser(s, m)
do_svsnolag(s, m) == ForUser(s, m)
m_svso(s, m) == ForUser(s, m)
do_svssno(s, m) == ForUser(s, m)
SAdmin(s, m) == Only((IsAnOper(m) \/ IsULine(m)) /\ find_person(s), s, m, AtHome(s, m))
m_sajoin(s, m) == SAdmin(s, m)
m_sapart(s, m) == SAdmin(s, m)

(***************************************************************************)
(* What every server keeps about a user.                                   *)
(***************************************************************************)
m_svskill(s, m) == Only(IsULine(m) /\ find_person(s), s, m, Sets(s, m, "gone"))
m_chghost(s, m) ==
  Only(~(MyClient(s, m) /\ ~IsAnOper(m)) /\ find_person(s) /\ field[s] # m.text, s, m, Sets(s, m, m.text))
m_chgident(s, m) == Only(~(MyClient(s, m) /\ ~IsAnOper(m)) /\ find_person(s), s, m, Sets(s, m, m.text))
m_chgname(s, m) == Only(~(MyClient(s, m) /\ ~IsAnOper(m)) /\ find_person(s), s, m, Sets(s, m, m.text))
m_swhois(s, m) == Only(IsULine(m) /\ find_person(s), s, m, Sets(s, m, m.text))

(* Those the user gives for himself.                                       *)
Own(s, m) == m.by = "oper" /\ find_person(s)
m_sethost(s, m) ==
  Only(Own(s, m) /\ ~(MyClient(s, m) /\ field[s] = m.text), s, m, Sets(s, m, m.text))
m_setident(s, m) == Only(Own(s, m), s, m, Sets(s, m, m.text))
m_setname(s, m) == Only(Own(s, m), s, m, Sets(s, m, m.text))
(* The password of the vhost block was right: others see it as SETHOST.    *)
m_vhost_Unchanged(s, m) == Only(Own(s, m) /\ MyClient(s, m), s, m, Sets(s, m, m.text))
m_vhost(s, m) ==
  Only(Own(s, m) /\ MyClient(s, m), s, m, [Sets(s, m, m.text) EXCEPT !.as.kind = "sethost"])
(* The description of the server of the admin.                             *)
m_sdesc(s, m) == Only(Own(s, m), s, m, Sets(s, m, m.text))
m_away(s, m) ==
  Only(Own(s, m) /\ (m.text = "none" \/ field[s] # m.text), s, m, Sets(s, m, m.text))

(***************************************************************************)
(* What services keep on every server.  The field is a mask that is banned *)
(* ("x") or not ("none"), the lines of the services MOTD, or the clock.    *)
(***************************************************************************)
Flat == "bare"                       \* a command whose sign was left out
m_svsfline(s, m) ==
  IF m.text = "-" THEN
    Only(IsULine(m) /\ field[s] # "none", s, m, [Sets(s, m, "none") EXCEPT !.as.text = Flat])
  ELSE Only(IsULine(m) /\ m.text \in {"+", "*"}, s, m, Sets(s, m, IF m.text = "+" THEN "x" ELSE "none"))
m_svsnline(s, m) ==
  Only(IsULine(m), s, m, Sets(s, m, IF m.text = "+" THEN "x" ELSE "none"))
m_svsmotd(s, m) ==
  Only(IsULine(m), s, m, Sets(s, m, IF m.text = "!" THEN <<>> ELSE Append(field[s], m.text)))
m_tsctl(s, m) ==
  IF m.text = "alltime" THEN Only(~MyClient(s, m) \/ IsAnOper(m), s, m, Done(s, m, "all"))
  ELSE Only(IsULine(m), s, m, Sets(s, m, m.text))

(* AKILL, RAKILL, SQLINE and UNSQLINE are old names: every link gets a TKL *)
(* from the server that runs one.                                          *)
m_tkl(s, m) ==
  LET new == IF m.text = "+" THEN "x" ELSE "none"
  IN Only(field[s] # new, s, m, Sets(s, m, new))
AsTkl(s, m) == [m_tkl(s, [m EXCEPT !.kind = "tkl"]) EXCEPT !.to = IF @ = "all" THEN "links" ELSE @]
m_akill(s, m) == Only(m.from # s, s, m, AsTkl(s, [m EXCEPT !.text = "+"]))
m_rakill(s, m) == Only(m.from # s, s, m, AsTkl(s, [m EXCEPT !.text = "-"]))
m_sqline(s, m) == Only(m.from # s, s, m, AsTkl(s, [m EXCEPT !.text = "+"]))
m_unsqline(s, m) == Only(m.from # s, s, m, AsTkl(s, [m EXCEPT !.text = "-"]))

(***************************************************************************)
(* SILENCE lists.  The user's server has it, and a server that has to know *)
(* is told when a message comes through.                                   *)
(***************************************************************************)
m_svssilence(s, m) ==
  Only(IsULine(m) /\ find_person(s), s, m, Sets(s, m, IF m.text = "-" THEN "none" ELSE "x"))
m_silence(s, m) ==
  CASE ~Own(s, m) -> Ignored(s, m)
    [] m.text = "-" -> Only(field[s] # "none", s, m, Sets(s, m, "none"))
    [] m.text = "+" /\ MyClient(s, m) -> [Sets(s, m, "x") EXCEPT !.to = "none"]
    [] OTHER -> [Sets(s, m, "x") EXCEPT !.to = "target"]
(* A message to the oper.                                                  *)
is_silenced(s, m) ==
  IF MyClient(s, m) THEN Ignored(s, m)
  ELSE [Passed(s, m, "back") EXCEPT !.as.kind = "silence", !.as.by = "oper", !.as.text = "told",
       !.as.to = Where[m.by]]
m_message(s, m) ==
  CASE ~find_person(s) -> Ignored(s, m)
    [] field[s] = "x" -> is_silenced(s, m)
    [] OTHER -> AtHome(s, m)

(***************************************************************************)
(* Announcements.                                                          *)
(***************************************************************************)
Announced(s, m, allowed) == Only(~MyClient(s, m) \/ allowed, s, m, Done(s, m, "all"))
m_globops(s, m) == Announced(s, m, IsAnOper(m))
m_chatops(s, m) == Announced(s, m, IsAnOper(m))
m_nachat(s, m) == Announced(s, m, IsAnOper(m))
m_admins(s, m) == Announced(s, m, IsAnOper(m))
m_wallops(s, m) == Announced(s, m, IsAnOper(m))
m_locops(s, m) == Only(~MyClient(s, m) \/ IsAnOper(m), s, m, Done(s, m, "none"))
(* For servers only (M_SERVER).                                            *)
m_sendsno(s, m) == Only(IsULine(m), s, m, Done(s, m, "all"))
m_sendumode(s, m) == Only(IsULine(m), s, m, Done(s, m, "all"))

(***************************************************************************)
(* Commands to a server that is named, and questions to it.                *)
(***************************************************************************)
Answered(s, m) == [Done(s, m, "none") EXCEPT !.answer = TRUE]
NoSuchServer(s, m) == [Ignored(s, m) EXCEPT !.answer = TRUE]
hunt_server_token(s, m) ==
  CASE m.to = s -> Answered(s, m)
    [] Reaches(s, m.to) /\ m.from \notin Way(s, m.to) -> Passed(s, m, "target")
    [] OTHER -> NoSuchServer(s, m)
m_svsnoop(s, m) == Only(IsULine(m), s, m, hunt_server_token(s, m))
m_svslusers(s, m) == Only(IsULine(m), s, m, hunt_server_token(s, m))
m_version(s, m) == hunt_server_token(s, m)
m_admin(s, m) == hunt_server_token(s, m)
m_botmotd(s, m) == hunt_server_token(s, m)
m_motd(s, m) == hunt_server_token(s, m)
m_rules(s, m) == hunt_server_token(s, m)
m_time(s, m) == hunt_server_token(s, m)
m_lusers(s, m) == hunt_server_token(s, m)
m_stats(s, m) == hunt_server_token(s, m)
m_module(s, m) == hunt_server_token(s, m)
m_whois(s, m) == hunt_server_token(s, m)
m_whowas(s, m) == hunt_server_token(s, m)

(* The name of the server is left out for users, and users of others get   *)
(* nothing.                                                                *)
remotecmdfilter(s, m) ==
  CASE IsAnOper(m) -> hunt_server_token(s, m)
    [] MyClient(s, m) -> Answered(s, m)
    [] OTHER -> Ignored(s, m)
m_info(s, m) == remotecmdfilter(s, m)
m_dalinfo(s, m) == remotecmdfilter(s, m)
m_license(s, m) == remotecmdfilter(s, m)
m_credits(s, m) == remotecmdfilter(s, m)

(* Only the server of the user passes it on.                               *)
m_names(s, m) == IF MyClient(s, m) THEN hunt_server_token(s, m) ELSE NoSuchServer(s, m)

(* For operators.                                                          *)
m_getinfo(s, m) == Only(IsAnOper(m), s, m, hunt_server_token(s, m))
m_connect(s, m) == Only(IsAnOper(m), s, m, hunt_server_token(s, m))
m_rehash(s, m) == Only(IsAnOper(m), s, m, hunt_server_token(s, m))
m_htm(s, m) == Only(IsAnOper(m), s, m, hunt_server_token(s, m))
(* Every server on the way answers too.                                    *)
OnTheWay(v) == [v EXCEPT !.answer = TRUE]
m_lag(s, m) == Only(~MyClient(s, m) \/ IsAnOper(m), s, m, OnTheWay(hunt_server_token(s, m)))
m_trace(s, m) == Only(IsAnOper(m), s, m, OnTheWay(hunt_server_token(s, m)))

(***************************************************************************)
(* The line: what is given, read, split and linked again.                  *)
(***************************************************************************)
(* The answer on its way to who asked.                                     *)
do_numeric(s, m) == Passed(s, m, "asker")
(* The oper becomes unknown, and known with what his side has of him.      *)
m_quit(s, m) == Only(find_person(s), s, m, [Sets(s, m, "gone") EXCEPT !.did = FALSE])
m_nick(s, m) == [Sets(s, m, m.text) EXCEPT !.did = FALSE]

Handler(s, m) ==
  CASE m.kind = "svsjoin" -> m_svsjoin(s, m) [] m.kind = "svspart" -> m_svspart(s, m)
    [] m.kind = "svswatch" -> m_svswatch(s, m) [] m.kind = "svsnolag" -> do_svsnolag(s, m)
    [] m.kind = "svso" -> m_svso(s, m) [] m.kind = "svssno" -> do_svssno(s, m)
    [] m.kind = "sajoin" -> m_sajoin(s, m) [] m.kind = "sapart" -> m_sapart(s, m)
    [] m.kind = "svskill" -> m_svskill(s, m) [] m.kind = "swhois" -> m_swhois(s, m)
    [] m.kind = "chghost" -> m_chghost(s, m) [] m.kind = "sethost" -> m_sethost(s, m)
    [] m.kind = "chgident" -> m_chgident(s, m) [] m.kind = "setident" -> m_setident(s, m)
    [] m.kind = "chgname" -> m_chgname(s, m) [] m.kind = "setname" -> m_setname(s, m)
    [] m.kind = "vhost" -> m_vhost(s, m) [] m.kind = "sdesc" -> m_sdesc(s, m)
    [] m.kind = "away" -> m_away(s, m) [] m.kind = "svsfline" -> m_svsfline(s, m)
    [] m.kind = "svsnline" -> m_svsnline(s, m) [] m.kind = "svsmotd" -> m_svsmotd(s, m)
    [] m.kind = "tsctl" -> m_tsctl(s, m) [] m.kind = "tkl" -> m_tkl(s, m)
    [] m.kind = "akill" -> m_akill(s, m) [] m.kind = "rakill" -> m_rakill(s, m)
    [] m.kind = "sqline" -> m_sqline(s, m) [] m.kind = "unsqline" -> m_unsqline(s, m)
    [] m.kind = "svssilence" -> m_svssilence(s, m) [] m.kind = "silence" -> m_silence(s, m)
    [] m.kind = "message" -> m_message(s, m) [] m.kind = "globops" -> m_globops(s, m)
    [] m.kind = "chatops" -> m_chatops(s, m) [] m.kind = "nachat" -> m_nachat(s, m)
    [] m.kind = "adchat" -> m_admins(s, m) [] m.kind = "wallops" -> m_wallops(s, m)
    [] m.kind = "locops" -> m_locops(s, m) [] m.kind = "sendsno" -> m_sendsno(s, m)
    [] m.kind = "sendumode" -> m_sendumode(s, m) [] m.kind = "svsnoop" -> m_svsnoop(s, m)
    [] m.kind = "svslusers" -> m_svslusers(s, m) [] m.kind = "version" -> m_version(s, m)
    [] m.kind = "admin" -> m_admin(s, m) [] m.kind = "botmotd" -> m_botmotd(s, m)
    [] m.kind = "motd" -> m_motd(s, m) [] m.kind = "rules" -> m_rules(s, m)
    [] m.kind = "time" -> m_time(s, m) [] m.kind = "lusers" -> m_lusers(s, m)
    [] m.kind = "stats" -> m_stats(s, m) [] m.kind = "module" -> m_module(s, m)
    [] m.kind = "whois" -> m_whois(s, m) [] m.kind = "whowas" -> m_whowas(s, m)
    [] m.kind = "info" -> m_info(s, m) [] m.kind = "dalinfo" -> m_dalinfo(s, m)
    [] m.kind = "license" -> m_license(s, m) [] m.kind = "credits" -> m_credits(s, m)
    [] m.kind = "names" -> m_names(s, m) [] m.kind = "getinfo" -> m_getinfo(s, m)
    [] m.kind = "connect" -> m_connect(s, m) [] m.kind = "rehash" -> m_rehash(s, m)
    [] m.kind = "htm" -> m_htm(s, m) [] m.kind = "lag" -> m_lag(s, m)
    [] m.kind = "trace" -> m_trace(s, m) [] m.kind = "numeric" -> do_numeric(s, m)
    [] m.kind = "quit" -> m_quit(s, m) [] m.kind = "nick" -> m_nick(s, m)

(* Commands by who may give them, or tries to.                             *)
Given(kinds, by, texts, to) == [kind : kinds, by : by, text : texts, to : to]
Orders(f) ==
  CASE f = "home" ->
         Given({"svsjoin", "svspart", "svswatch", "svsnolag", "svso", "svssno", "sajoin", "sapart"},
               Asker, {"x"}, {Home})
    [] f = "host" -> Given({"chghost", "svskill"}, {"services", "user"}, Text, {Home})
                       \cup Given({"sethost", "vhost"}, {"oper"}, Text, {Home})
    [] f = "ident" -> Given({"chgident"}, {"services", "user"}, Text, {Home})
                       \cup Given({"setident"}, {"oper"}, Text, {Home})
    [] f = "name" -> Given({"chgname"}, {"services", "user"}, Text, {Home})
                       \cup Given({"setname"}, {"oper"}, Text, {Home})
    [] f = "swhois" -> Given({"swhois"}, {"services", "user"}, Text, {Home})
    [] f = "sdesc" -> Given({"sdesc"}, {"oper", "user"}, Text, {Home})
    [] f = "away" -> Given({"away"}, {"oper"}, Text \cup {"none"}, {Home})
    [] f = "files" -> Given({"svsfline"}, {"services", "user"}, {"+", "-", "*"}, {Home})
    [] f = "names" -> Given({"svsnline"}, {"services", "user"}, {"+", "-", "*"}, {Home})
    [] f = "motd" -> Given({"svsmotd"}, {"services", "user"}, {"#", "!"}, {Home})
    [] f = "clock" -> Given({"tsctl"}, {"services", "user"}, Text, {Home})
    [] f = "tkl" -> Given({"akill", "rakill", "sqline", "unsqline"}, {"services", "user"}, {""}, {Home})
    [] f = "silence" -> Given({"svssilence"}, {"services"}, {"+", "-"}, {Home})
                          \cup Given({"silence"}, {"oper"}, {"+", "-"}, {Home})
                          \cup Given({"message"}, {"services", "user"}, {""}, {Home})
    [] f = "say" -> Given({"globops", "chatops", "nachat", "adchat", "wallops", "locops", "sendsno", "sendumode"},
                          Asker, {"x"}, {Home})
                      \cup Given({"tsctl"}, {"oper", "user"}, {"alltime"}, {Home})
    [] f = "servers" -> Given({"svsnoop", "svslusers"}, Asker, {"x"}, Node)
    [] f = "ask" ->
         Given({"version", "admin", "botmotd", "motd", "rules", "time", "lusers", "stats", "module",
                "whois", "whowas", "info", "dalinfo", "license", "credits", "names", "getinfo",
                "connect", "rehash", "htm", "lag", "trace"}, {"oper", "user"}, {"x"}, Node)
Everywhere == {"files", "names", "motd", "clock", "tkl"}   \* nobody's field

Init ==
  /\ family \in DOMAIN MaxOrders
  /\ linked = {{West, Mid}, {Mid, East}}
  /\ sent = [s \in Node |-> [t \in Node |-> <<>>]]
  /\ field = [s \in Node |-> IF family = "motd" THEN <<>> ELSE "none"]
  /\ orders = <<>>
  /\ done = [s \in Node |-> <<>>]
  /\ replies = <<>>
  /\ splits = 0 /\ left = FALSE /\ mixed = FALSE

(* s runs m; done and replies as they are when m is known to them.         *)
Runs(s, m, queues, did, told) ==
  LET v == Handler(s, m)
      to == CASE v.to = "all" -> Near(s) \ {m.from}
              [] v.to = "links" -> Near(s)
              [] v.to = "home" -> Way(s, Home)
              [] v.to = "target" -> IF v.as.to = s THEN {} ELSE Way(s, v.as.to)
              [] v.to = "back" -> Near(s) \cap {m.from}
              [] v.to = "asker" -> IF Where[m.by] = s THEN {} ELSE Way(s, Where[m.by])
              [] OTHER -> {}
      back == IF v.answer THEN Way(s, Where[m.by]) ELSE {}
      arrived == Where[m.by] = s /\ (v.answer \/ v.to = "asker")
  IN /\ field' = [field EXCEPT ![s] = v.new]
     /\ done' = [did EXCEPT ![s][m.id] = @ + IF v.did THEN 1 ELSE 0]
     /\ replies' = [told EXCEPT ![m.id] = @ + IF arrived THEN 1 ELSE 0]
     /\ sent' = [queues EXCEPT ![s] = [t \in Node |->
                    @[t] \o (IF t \in to THEN <<v.as>> ELSE <<>>)
                         \o (IF t \in back THEN <<[m EXCEPT !.kind = "numeric"]>> ELSE <<>>)]]
     /\ left' = (left \/ (v.new = "gone" /\ m.kind = "svskill"))

UnderWay == UNION {ToSet(sent[s][t]) : s, t \in Node}
Give(o) ==
  LET m == [kind |-> o.kind, by |-> o.by, text |-> o.text, to |-> o.to,
            from |-> IF o.by = "services" THEN "services" ELSE Where[o.by], id |-> Len(orders) + 1]
  IN /\ Len(orders) < MaxOrders[family]
     /\ o.by = "oper" => find_person(Home)
     /\ orders' = Append(orders, o)
     /\ Runs(Where[o.by], m, sent, [s \in Node |-> Append(done[s], 0)], Append(replies, 0))
     /\ mixed' = (mixed \/ (o.kind # "message" /\ \E n \in UnderWay : n.by # o.by /\ n.kind # "message"))
     /\ UNCHANGED <<family, linked, splits>>

Read(s, t) ==
  /\ sent[s][t] # <<>>
  /\ Runs(t, [Head(sent[s][t]) EXCEPT !.from = s], [sent EXCEPT ![s][t] = Tail(@)], done, replies)
  /\ mixed' = (mixed \/ (Head(sent[s][t]).kind = "message" /\ \E n \in UnderWay : n.kind = "svssilence"))
  /\ UNCHANGED <<family, linked, orders, splits>>

(* Of two neighbours, the one that is farther from the oper.               *)
Far(s, t) == IF At(s) < At(t) THEN s ELSE t
About(kind, text) == [kind |-> kind, by |-> "oper", text |-> text, to |-> Home, from |-> Home, id |-> 1]
Split(s, t) ==
  LET x == Far(s, t)
      lost == [sent EXCEPT ![s][t] = <<>>, ![t][s] = <<>>]
  IN /\ {s, t} \in linked /\ splits < MaxSplits /\ family \notin Everywhere /\ orders # <<>>
     /\ splits' = splits + 1 /\ linked' = linked \ {{s, t}}
     /\ field' = [field EXCEPT ![x] = "gone"]
     /\ sent' = IF find_person(x) THEN [lost EXCEPT ![x] = [n \in Node |->
                    IF n \in Near(x) \ {s, t} THEN Append(@[n], About("quit", "")) ELSE @[n]]] ELSE lost
     /\ UNCHANGED <<family, orders, done, replies, left, mixed>>

(* m_server_synch: the lists of SILENCE are not part of it.                *)
LinkAgain(s, t) ==
  LET x == Far(s, t)
      near == CHOOSE n \in {s, t} : n # x
      text == IF family = "silence" THEN "none" ELSE field[near]
  IN /\ \E i \in 1..2 : {s, t} = {Line[i], Line[i + 1]}
     /\ {s, t} \notin linked
     /\ linked' = linked \cup {{s, t}}
     /\ sent' = IF find_person(near) THEN [sent EXCEPT ![near][x] = Append(@, About("nick", text))] ELSE sent
     /\ mixed' = (mixed \/ ~Resting)
     /\ UNCHANGED <<family, field, orders, done, replies, splits, left>>

Next ==
  \/ \E o \in Orders(family) : Give(o)
  \/ \E s, t \in Node : Read(s, t) \/ Split(s, t) \/ LinkAgain(s, t)
Spec == Init /\ [][Next]_vars

(***************************************************************************)
(* Properties.                                                             *)
(***************************************************************************)
(* The last order of services was SVSFLINE -.                              *)
SignLost ==
  LET given == SelectSeq(orders, IsULine)
  IN  family = "files" /\ given # <<>> /\ Last(given).text = "-"

(* When everything is read and no two sources changed it at once, all      *)
(* servers have the same of a user's host, ident, name, away, swhois and   *)
(* description, and of what services keep everywhere (each handler passes  *)
(* on what it does, and nothing comes back); those that a split took from  *)
(* him do not know him.  With SILENCE it is enough that nobody has a mask  *)
(* that the user's own server has not.  SVSFLINE - is carried out by the   *)
(* first server alone, which passes it on without its sign, so that the    *)
(* others may keep the mask that it has removed until the next command.    *)
FieldsAgree ==
  Resting /\ ~mixed => \A s \in Node :
    IF family \in Everywhere THEN
      IF SignLost THEN field[West] = "none" /\ (s # West => field[s] = field[Home])
      ELSE field[s] = field[Home]
    ELSE IF ~Reaches(s, Home) THEN field[s] = "gone"
    ELSE field[s] = field[Home] \/ (family = "silence" /\ field[s] = "none")

(* A command that is carried out is carried out once on each server it is  *)
(* for, and on no other, and one who asked gets an answer.                 *)
DoneBy(i) == {s \in Node : done[s][i] > 0}
For(o) ==
  CASE o.kind = "locops" -> {{Where[o.by]}}
    [] o.kind \in {"info", "dalinfo", "license", "credits"} /\ o.by = "user" -> {{Where[o.by]}}
    [] family = "home" -> {{Home}}
    [] family \in {"ask", "servers"} -> {{o.to}}
    [] family = "say" -> {Node}
DoneWhereDue ==
  \A i \in 1..Len(orders) :
    /\ \A s \in Node : done[s][i] <= 1
    /\ Resting /\ splits = 0 /\ family \in {"home", "say", "ask", "servers"} =>
         /\ DoneBy(i) \in {{}} \cup For(orders[i])
         /\ orders[i].by = "oper" /\ family = "ask" =>
              replies[i] >= 1 /\ (orders[i].kind # "names" => DoneBy(i) # {})
         /\ orders[i].by = "services" /\ family # "say" => DoneBy(i) # {}

(* What an ordinary user may not do is done nowhere, although most servers *)
(* on the way trust the one that sends it.                                 *)
OwnAffair == {"message", "version", "admin", "botmotd", "motd", "rules", "time", "lusers", "stats",
              "module", "whois", "whowas", "info", "dalinfo", "license", "credits", "names"}
RightsHold ==
  \A i \in 1..Len(orders) :
    orders[i].by = "user" /\ orders[i].kind \notin OwnAffair => DoneBy(i) = {}

OrdersSound == FieldsAgree /\ DoneWhereDue /\ RightsHold
=============================================================================
