------------------------------ MODULE Delivery ------------------------------
(***************************************************************************)
(* Who hears what: messages and notices to a channel, to the members of a  *)
(* rank, to a user and to a mask of servers, WALLOPS, what members of      *)
(* common channels see, notices by snomask or umode, and JOIN to servers   *)
(* with different protocols.  Each server on the way works out the         *)
(* recipients again from what it knows.                                    *)
(*                                                                         *)
(* Three servers in a line with five users.  A behaviour is one message in *)
(* one situation.  Left out: words that are filtered, spamfilters, floods, *)
(* DCC rules, SILENCE (in Orders), the answers to the sender other than    *)
(* RPL_AWAY.                                                               *)
(***************************************************************************)
EXTENDS Naturals, Sequences, FiniteSets, SequencesExt

CONSTANTS West, Mid, East,            \* the servers, in a line
          Families                    \* the situations to look at

Line == <<West, Mid, East>>
Node == {West, Mid, East}
(* The order of the client list, and of the members of a channel.          *)
Users == <<"a", "b", "c", "d", "e">>
User == {"a", "b", "c", "d", "e"}
Home == [a |-> West, b |-> West, c |-> Mid, d |-> East, e |-> East]
Sender == "a"
At(s) == CHOOSE i \in 1..3 : Line[i] = s
(* The link of server s to user x, or to server t.                         *)
Toward(s, t) == IF At(t) > At(s) THEN Line[At(s) + 1] ELSE Line[At(s) - 1]
MyConnect(s, x) == Home[x] = s
Links(s) == {t \in Node : At(t) = At(s) + 1 \/ At(t) + 1 = At(s)}

VARIABLES
  scene,        \* the situation, which does not change: see Scenes
  sendanyways,  \* of each server: deaf members are to hear what is sent
  way,          \* way[s][t]: messages on the way
  said,         \* the message of this behaviour, once it has been said
  heard,        \* heard[x]: what x was sent
  carried       \* carried[s][t]: how many messages s has sent to t
speech == <<scene, sendanyways, way, said, heard, carried>>

Rank == {"out", "none", "voice", "halfop", "op", "prot", "owner"}
is(x, what) == what \in scene.has[x]
rank(x) == scene.rank[x]
IsMember(x) == rank(x) # "out"
Voiced == Rank \ {"out", "none"}
Ops == {"op", "prot", "owner"}
mode(c) == c \in scene.modes

(***************************************************************************)
(* The functions of send.c.  All of them go through a list of users, send  *)
(* to those that are local and once along each link to the others, which   *)
(* sentalong and its marker remember.                                      *)
(***************************************************************************)
Nobody == [local |-> <<>>, links |-> <<>>]
Walk_Unmarked(s, list) ==
  LET Visit(out, x) == IF MyConnect(s, x) THEN [out EXCEPT !.local = Append(@, x)]
                       ELSE [out EXCEPT !.links = Append(@, Toward(s, Home[x]))]
  IN FoldLeft(Visit, Nobody, list)
Walk(s, list) ==
  LET Visit(out, x) ==
        LET sentalong == ToSet(out.links)
            i == Toward(s, Home[x])
        IN CASE MyConnect(s, x) -> [out EXCEPT !.local = Append(@, x)]
             [] ~MyConnect(s, x) /\ i \in sentalong -> out
             [] OTHER -> [out EXCEPT !.links = Append(@, i)]
  IN FoldLeft(Visit, Nobody, list)
Members == SelectSeq(Users, IsMember)
(* Whether x is where the message came from: himself, or behind that link. *)
from(s, x, one) == IF one = s THEN x = Sender ELSE ~MyConnect(s, x) /\ Toward(s, Home[x]) = one

(* The ranks that a prefix asks for.                                       *)
PrefixRanks(aq, p) ==
  LET rest == IF aq THEN {"prot", "owner"} ELSE {}
  IN CASE p = "+" -> {"voice", "halfop", "op"} \cup rest
       [] p = "%" -> {"halfop", "op"} \cup rest
       [] p = "@" -> {"op"} \cup rest
       [] p = "&" -> IF aq THEN {"prot", "owner"} ELSE {"op"}
       [] p = "~" -> IF aq THEN {"owner"} ELSE {"op"}
       [] OTHER -> {}
PREFIX_ALL == {}
(* Without PREFIX_AQ +a and +q come with +o.                               *)
HasRank(aq, x, prefix) ==
  rank(x) \in prefix \/ (~aq /\ rank(x) \in {"prot", "owner"} /\ "op" \in prefix)

isCtcp(text) == text \in {"ctcp", "action", "dcc"}
sendto_channelprefix_butone_tok(s, m, any) ==
  LET Wants(x) == /\ ~from(s, x, m.from)
                  /\ m.prefix = PREFIX_ALL \/ HasRank(scene.aq, x, m.prefix)
                  /\ is(x, "deaf") => any
                  /\ MyConnect(s, x) /\ is(x, "noctcp") => is(Sender, "oper") \/ m.text # "ctcp"
  IN Walk(s, SelectSeq(Members, Wants))
(* +mu: operators hear what one without voice says.                        *)
sendto_chmodemucrap(s, m) ==
  LET Wants(x) == (is(x, "deaf") => sendanyways[s]) /\ rank(x) \in Ops /\ (m.from # s => ~from(s, x, m.from))
  IN Walk(s, SelectSeq(Members, Wants))
(* Of the server itself; the ones who get it are not asked whether they    *)
(* are deaf.                                                               *)
sendto_channelprefix_butone(s, m) ==
  LET Wants(x) == (m.from # s => ~from(s, x, m.from)) /\ HasRank(scene.aq, x, m.prefix)
  IN Walk(s, SelectSeq(Members, Wants))
sendto_ops_butone(s, m) ==
  LET Wants(x) == is(x, "wallops") /\ (m.from # s => ~from(s, x, m.from))
  IN Walk(s, SelectSeq(Users, Wants))
sendto_match_butone(s, m) ==
  LET cansendlocal == m.from # s \/ is(Sender, "lnotice")
      cansendglobal == m.from # s \/ is(Sender, "gnotice")
      Wants(x) == /\ Home[x] \in m.mask
                  /\ IF MyConnect(s, x) THEN cansendlocal
                     ELSE cansendglobal /\ (m.from # s => Toward(s, Home[x]) # m.from)
  IN Walk(s, SelectSeq(Users, Wants))
(* Two channels, each with its members; in an auditorium only operators    *)
(* see the others and are seen.                                            *)
sendto_common_channels(s) ==
  LET sees(ch, x) == ch \notin scene.auditorium \/ rank(Sender) \in Ops \/ rank(x) \in Ops
      both == [ch \in {"#x", "#y"} |-> SelectSeq(Users, LAMBDA x : x \in scene.on[ch])]
      Visit(out, p) ==
        LET x == p[2]
        IN IF ~MyConnect(s, x) \/ x \in ToSet(out) \cup {Sender} \/ ~sees(p[1], x) THEN out ELSE Append(out, x)
      pairs(ch) == [i \in DOMAIN both[ch] |-> <<ch, both[ch][i]>>]
      all == (IF Sender \in scene.on["#x"] THEN pairs("#x") ELSE <<>>)
               \o (IF Sender \in scene.on["#y"] THEN pairs("#y") ELSE <<>>)
  IN FoldLeft(Visit, <<>>, all) \o (IF MyConnect(s, Sender) THEN <<Sender>> ELSE <<>>)
sendto_channel_butserv(s) == SelectSeq(Members, LAMBDA x : MyConnect(s, x))
sendto_chanops_butone(s) == SelectSeq(Members, LAMBDA x : MyConnect(s, x) /\ rank(x) \in Ops)

(* Notices to local users.                                                 *)
Locals(s, Wants(_)) == SelectSeq(Users, LAMBDA x : MyConnect(s, x) /\ Wants(x))
IsAnOper(x) == is(x, "oper") \/ is(x, "locop")
oper_fdlist(x) == IsAnOper(x)                   \* see OperCount
sendto_snomask(s) == Locals(s, LAMBDA x : oper_fdlist(x) /\ is(x, "sno"))
sendto_snomask_normal(s) == Locals(s, LAMBDA x : is(x, "sno"))
sendto_failops(s) == Locals(s, LAMBDA x : is(x, "failop"))
sendto_failops_whoare_opers(s) == Locals(s, LAMBDA x : is(x, "failop") /\ IsAnOper(x))
sendto_locfailops(s) == Locals(s, LAMBDA x : is(x, "failop") /\ IsAnOper(x))
sendto_opers(s) == Locals(s, IsAnOper)
sendto_realops(s) == Locals(s, oper_fdlist)
sendto_ops(s) == Locals(s, LAMBDA x : is(x, "sno"))
sendto_umode(s) == Locals(s, LAMBDA x : is(x, "oper"))
m_sendsno(s) == Locals(s, LAMBDA x : oper_fdlist(x) /\ is(x, "sno"))
(* SENDUMODE with a umode, or with a letter that is only a snomask.        *)
m_sendumode(s, m) == Locals(s, LAMBDA x : is(x, IF m.letter = "umode" THEN "failop" ELSE "sno"))

(***************************************************************************)
(* Bans, and who may speak on a channel.                                   *)
(***************************************************************************)
extban_is_banned(kind, type) ==
  CASE kind = "~q" -> type = "msg" [] kind = "~n" -> type = "nick" [] kind = "~j" -> type = "join"
    [] OTHER -> TRUE                               \* a mask, ~c, ~r, ~R, ~a
is_banned(type) ==
  /\ \E kind \in scene.bans : extban_is_banned(kind, type)
  /\ ~\E kind \in scene.excepts : extban_is_banned(kind, type)
is_irc_banned == mode("irc")
op_can_override(s) == is(Sender, "oper") /\ (MyConnect(s, Sender) => is(Sender, "override"))

(* What is wrong, or "mucrap" for what only operators hear.                *)
can_send_local(s, m) ==
  LET unvoiced == rank(Sender) \notin Voiced
  IN CASE mode("c") /\ m.text = "color" -> "refused"
       [] mode("n") /\ ~IsMember(Sender) -> "refused"
       [] mode("M") /\ ~op_can_override(s) /\ ~is(Sender, "reg") /\ unvoiced -> "refused"
       [] mode("m") /\ ~op_can_override(s) /\ unvoiced ->
            IF mode("u") /\ ~is_irc_banned /\ ~is_banned("msg") THEN "mucrap" ELSE "refused"
       [] mode("C") /\ rank(Sender) \notin Ops /\ m.text \in {"ctcp", "dcc"} -> "refused"
       [] mode("T") /\ m.notice /\ rank(Sender) \notin Ops -> "refused"
       [] is(Sender, "oper") -> "ok"
       [] unvoiced /\ is_banned("msg") -> "refused"
       [] OTHER -> "ok"
can_send(s, m) ==
  IF MyConnect(s, Sender) THEN can_send_local(s, m)
  ELSE IF mode("m") /\ mode("u") /\ ~is(Sender, "oper") /\ rank(Sender) \notin Voiced /\ ~is_irc_banned
  THEN "mucrap" ELSE "ok"

(* The hooks of textban, at the sender's server, and nocodeschanmode.      *)
textban_chanmsg(s, m) == MyConnect(s, Sender) /\ mode("~T") /\ rank(Sender) \in {"out", "none", "voice"}
h_nocodes_chanmsg(m) == IF mode("K") /\ m.text = "color" THEN [m EXCEPT !.text = "plain"] ELSE m

(* The rights a local user needs for a prefix.                             *)
MayUsePrefix(s, m) ==
  \/ m.prefix = PREFIX_ALL \/ ~MyConnect(s, Sender) \/ op_can_override(s)
  \/ /\ rank(Sender) \in Voiced
     /\ m.prefix \subseteq {"prot", "owner"} => rank(Sender) \in Ops

(***************************************************************************)
(* The handlers: what they send to whom.  "as" is how users see it, next   *)
(* is the message along the links, any is sendanyways afterwards.          *)
(***************************************************************************)
Quiet(s) == [out |-> Nobody, as |-> "", next |-> [kind |-> ""], any |-> sendanyways[s], away |-> FALSE]
Sends(s, out, as, next) == [Quiet(s) EXCEPT !.out = out, !.as = as, !.next = next]

ToChannel(s, m) ==
  LET stripped == IF MyConnect(s, Sender) /\ mode("S") /\ m.text = "color" THEN [m EXCEPT !.text = "plain"] ELSE m
      sent == h_nocodes_chanmsg(stripped)
  IN CASE ~MayUsePrefix(s, m) -> Quiet(s)
       [] can_send(s, m) = "refused" -> Quiet(s)
       [] can_send(s, m) = "mucrap" -> Sends(s, sendto_chmodemucrap(s, m), "irc", m)
       [] textban_chanmsg(s, m) -> [Quiet(s) EXCEPT !.any = (m.text = "cmd")]
       [] OTHER -> LET out == sendto_channelprefix_butone_tok(s, sent, m.text = "cmd")
                   IN [Sends(s, out, sent.text, sent) EXCEPT !.any = FALSE]

can_privmsg(s, m) ==
  LET x == m.target
  IN /\ is(x, "regonly") => is(Sender, "reg") \/ is(Sender, "oper")
     /\ is(x, "noctcp") /\ m.text = "ctcp" => is(Sender, "oper")
     /\ ~(MyConnect(s, Sender) /\ is(Sender, "virus"))
ToUser(s, m) ==
  LET x == m.target
      cmd == IF m.notice /\ is(x, "webtv") /\ ~isCtcp(m.text) THEN [m EXCEPT !.notice = FALSE] ELSE m
      out == IF MyConnect(s, x) THEN [Nobody EXCEPT !.local = <<x>>]
             ELSE [Nobody EXCEPT !.links = <<Toward(s, Home[x])>>]
  IN IF ~can_privmsg(s, m) THEN Quiet(s)
     ELSE [Sends(s, out, IF cmd.notice THEN "notice" ELSE "private", cmd)
             EXCEPT !.away = ~m.notice /\ MyConnect(s, Sender) /\ is(x, "away")]
ToMask(s, m) ==
  IF is(Sender, "oper") THEN Sends(s, sendto_match_butone(s, m), "mask", m) ELSE Quiet(s)
m_message(s, m) ==
  CASE m.kind = "channel" -> ToChannel(s, m)
    [] m.kind = "user" -> ToUser(s, m)
    [] m.kind = "mask" -> ToMask(s, m)
(***************************************************************************)
(* An alias of the configuration: to a nick, to services, to a channel, or *)
(* by formats, of which the first one that matches counts and may be a     *)
(* real command.  It does not go through m_message, only what it sends to  *)
(* other servers does, there.                                              *)
(***************************************************************************)
Private(m) == [kind |-> "user", target |-> m.target, text |-> m.text, notice |-> FALSE, from |-> m.from]
ToChannelText(m) ==
  [kind |-> "channel", prefix |-> PREFIX_ALL, text |-> m.text, notice |-> FALSE, from |-> m.from]
AliasToUser(s, m) ==
  LET out == IF MyConnect(s, m.target) THEN [Nobody EXCEPT !.local = <<m.target>>]
             ELSE [Nobody EXCEPT !.links = <<Toward(s, Home[m.target])>>]
  IN Sends(s, out, "private", Private(m))
AliasToChannel(s, m) ==
  LET text == ToChannelText(m)
  IN IF can_send(s, text) # "ok" THEN Quiet(s)
     ELSE [Sends(s, sendto_channelprefix_butone_tok(s, text, FALSE), m.text, text) EXCEPT !.any = FALSE]
m_alias_format(s, m) ==
  CASE m.matches = "none" -> Quiet(s)
    [] m.matches = "user" -> AliasToUser(s, m)
    [] m.matches = "channel" -> AliasToChannel(s, m)
    [] m.matches = "real" -> m_message(s, ToChannelText(m))
m_alias(s, m) ==
  CASE m.type \in {"normal", "services"} -> AliasToUser(s, m)
    [] m.type = "channel" -> AliasToChannel(s, m)
    [] m.type = "command" -> m_alias_format(s, m)

m_wallops(s, m) ==
  IF MyConnect(s, Sender) /\ ~is(Sender, "oper") THEN Quiet(s)
  ELSE Sends(s, sendto_ops_butone(s, m), "wallops", m)
(* A server's own notice to the operators of a channel (INVITE, overrides).*)
OpNotice(s, m) ==
  LET out == IF m.from = s THEN sendto_channelprefix_butone(s, m) ELSE sendto_channelprefix_butone_tok(s, m, FALSE)
  IN [Sends(s, out, "opnotice", m) EXCEPT !.any = IF m.from = s THEN @ ELSE FALSE]

(* To all links but the one it came from.                                  *)
sendto_serv_butone(s, m) == SetToSeq(Links(s) \ {m.from})
m_quit(s, m) ==
  Sends(s, [local |-> sendto_common_channels(s), links |-> sendto_serv_butone(s, m)], "event", m)

LocalNotice(s, kind) ==
  CASE kind \in {"snomask", "snomask_global"} -> sendto_snomask(s)
    [] kind = "snomask_normal" -> sendto_snomask_normal(s) [] kind = "failops" -> sendto_failops(s)
    [] kind = "failops_whoare_opers" -> sendto_failops_whoare_opers(s)
    [] kind = "locfailops" -> sendto_locfailops(s) [] kind = "opers" -> sendto_opers(s)
    [] kind = "realops" -> sendto_realops(s) [] kind = "ops" -> sendto_ops(s)
    [] kind = "umode" -> sendto_umode(s)
Notice(s, m) ==
  CASE m.letter = "" -> Sends(s, [Nobody EXCEPT !.local = LocalNotice(s, m.to)], "event", m)
    [] m.letter = "sno" -> \* sendto_snomask_global, and m_sendsno where it arrives
         Sends(s, [local |-> IF m.from = s THEN sendto_snomask(s) ELSE m_sendsno(s),
                   links |-> sendto_serv_butone(s, m)], "event", m)
    [] OTHER -> \* services are behind the first server
         Sends(s, [local |-> m_sendumode(s, m), links |-> sendto_serv_butone(s, m)], "event", m)

(* A user joins.  Servers with SJ3 get SJOIN, the others JOIN; what        *)
(* arrives as SJOIN goes on to those with SJ3 only.                        *)
SJ3(s, t) == scene.proto[{s, t}] = "new"
sendto_serv_butone_token_opt(s, one, SupportSJ3) == SetToSeq({t \in Links(s) \ {one} : SJ3(s, t) = SupportSJ3})
join_channel(s, m) ==
  [local |-> IF mode("u") THEN (IF MyConnect(s, Sender) THEN <<Sender>> ELSE <<>>) \o sendto_chanops_butone(s)
             ELSE sendto_channel_butserv(s),
   join |-> sendto_serv_butone_token_opt(s, m.from, FALSE), sjoin |-> sendto_serv_butone_token_opt(s, m.from, TRUE)]
m_sjoin(s, m) ==
  [local |-> IF mode("u") THEN sendto_chanops_butone(s) ELSE sendto_channel_butserv(s),
   join |-> <<>>, sjoin |-> sendto_serv_butone_token_opt(s, m.from, TRUE)]

Handler(s, m) ==
  CASE m.kind \in {"channel", "user", "mask"} -> m_message(s, m)
    [] m.kind = "alias" -> m_alias(s, m) [] m.kind = "wallops" -> m_wallops(s, m) [] m.kind = "opnotice" -> OpNotice(s, m)
    [] m.kind = "quit" -> m_quit(s, m) [] m.kind = "notice" -> Notice(s, m)

(***************************************************************************)
(* The situations, and what is said in them.  b and d have the same        *)
(* qualities, and so have c and e.                                         *)
(***************************************************************************)
Spread(p) == [a |-> p[1], b |-> p[2], c |-> p[3], d |-> p[2], e |-> p[3]]
Alike(first, others) == {Spread(p) : p \in first \X others \X others}
Plain == [family |-> "", rank |-> [x \in User |-> "none"], has |-> [x \in User |-> {}], modes |-> {}, aq |-> FALSE,
          bans |-> {}, excepts |-> {}, auditorium |-> {}, on |-> [ch \in {"#x", "#y"} |-> {}],
          proto |-> [l \in {{West, Mid}, {Mid, East}} |-> "new"]]
Scenes(f) ==
  CASE f = "ranks" -> {[Plain EXCEPT !.rank = r, !.aq = q] : r \in Alike(Rank, Rank), q \in BOOLEAN}
    [] f = "modes" ->
         {[Plain EXCEPT !.rank = Spread(<<r, "op", "none">>), !.modes = c, !.has = [@ EXCEPT !["a"] = h],
                        !.bans = k[1], !.excepts = k[2]] :
            r \in {"out", "none", "voice", "op"},
            c \in {{}, {"n"}, {"c"}, {"S"}, {"K"}, {"M"}, {"m"}, {"m", "u"}, {"m", "u", "irc"}, {"C"}, {"T"}, {"~T"}},
            h \in {{}, {"reg"}, {"oper", "override"}, {"oper"}},
            k \in {<<{}, {}>>, <<{"mask"}, {}>>, <<{"~q"}, {}>>, <<{"~j", "~n"}, {}>>, <<{"mask"}, {"~q"}>>}}
    [] f = "ears" ->
         {[Plain EXCEPT !.rank = IF c = {} THEN @ ELSE Spread(<<"none", "op", "op">>), !.modes = c, !.has = h] :
            c \in {{}, {"m", "u"}},
            h \in Alike({{}, {"oper", "override"}}, {{}, {"deaf"}, {"noctcp"}, {"deaf", "noctcp"}})}
    [] f = "users" ->
         {[Plain EXCEPT !.has = h] :
            h \in Alike({{}, {"reg"}, {"oper"}, {"virus"}}, {{}, {"regonly"}, {"noctcp"}, {"webtv"}, {"away"}})}
    [] f = "aliases" ->
         {[Plain EXCEPT !.rank = Spread(<<r, "op", "none">>), !.modes = c, !.has = [Spread(<<{}, h, h>>) EXCEPT !["a"] = o]] :
            r \in {"out", "none", "op"}, c \in {{}, {"n"}, {"S"}, {"K"}, {"~T"}, {"m", "u"}},
            o \in {{}, {"oper", "override"}}, h \in {{}, {"deaf"}, {"regonly"}, {"noctcp"}, {"away"}}}
    [] f = "masks" ->
         {[Plain EXCEPT !.has = [@ EXCEPT !["a"] = h]] :
            h \in {{}, {"oper"}, {"oper", "lnotice"}, {"oper", "gnotice"}, {"oper", "lnotice", "gnotice"}}}
    [] f = "wallops" ->
         {[Plain EXCEPT !.has = [x \in User |-> (IF x \in w THEN {"wallops"} ELSE {})
                                                  \cup (IF x = "a" /\ o THEN {"oper"} ELSE {})]] :
            w \in SUBSET User, o \in BOOLEAN}
    [] f = "opnotice" -> {[Plain EXCEPT !.rank = r, !.aq = q] : r \in Alike({"none"}, Rank), q \in BOOLEAN}
    [] f = "common" ->
         {[Plain EXCEPT !.rank = r, !.auditorium = u, !.on = [ch \in {"#x", "#y"} |-> {"a"} \cup n[ch]]] :
            r \in Alike({"none", "halfop", "op"}, {"none", "owner"}), u \in SUBSET {"#x", "#y"},
            n \in [{"#x", "#y"} -> SUBSET {"b", "d", "e"}]}
    [] f = "notices" ->
         {[Plain EXCEPT !.has = h] :
            h \in Alike({{}, {"oper", "sno"}}, {{}, {"sno"}, {"oper"}, {"oper", "sno"}, {"locop", "failop"}, {"failop"}})}
    [] f = "joins" ->
         {[Plain EXCEPT !.rank = r, !.modes = c, !.proto = p] :
            r \in Alike({"none", "op"}, {"out", "none", "op"}), c \in {{}, {"u"}},
            p \in [{{West, Mid}, {Mid, East}} -> {"new", "old"}]}

Text == {"plain", "ctcp", "action", "dcc", "color", "cmd"}
ToChan(prefixes, texts) ==
  [kind : {"channel"}, prefix : prefixes, text : texts, notice : BOOLEAN, from : {West}]
Messages(f) ==
  CASE f = "ranks" -> ToChan({PREFIX_ALL} \cup {PrefixRanks(scene.aq, p) : p \in {"+", "%", "@", "&", "~"}}, {"plain"})
    [] f \in {"modes", "ears"} -> ToChan({PREFIX_ALL}, Text)
    [] f = "users" -> [kind : {"user"}, target : {"b", "c", "d"}, text : {"plain", "ctcp"}, notice : BOOLEAN, from : {West}]
    [] f = "aliases" ->
         [kind : {"alias"}, type : {"normal", "services", "channel"}, matches : {""}, target : {"b", "d"}, text : Text, from : {West}]
           \cup [kind : {"alias"}, type : {"command"}, matches : {"none", "user", "channel", "real"}, target : {"b", "d"},
                 text : Text, from : {West}]
    [] f = "masks" -> [kind : {"mask"}, mask : (SUBSET Node) \ {{}}, from : {West}]
    [] f = "wallops" -> [kind : {"wallops"}, from : {West}]
    [] f = "opnotice" -> [kind : {"opnotice"}, prefix : {PrefixRanks(scene.aq, "@")}, text : {"plain"}, from : {West}]
    [] f = "common" -> [kind : {"quit"}, from : {West}]
    [] f = "notices" ->
         [kind : {"notice"}, from : {West}, letter : {"sno", "umode", "snomask"}, to : {"snomask_global"}]
           \cup [kind : {"notice"}, from : {West}, letter : {""},
                 to : {"snomask", "snomask_normal", "failops", "failops_whoare_opers", "locfailops", "opers",
                       "realops", "ops", "umode"}]
    [] f = "joins" -> [kind : {"join"}, how : {"join"}, from : {West}]

(* A message to a channel that was refused by a filter may have left       *)
(* sendanyways set.                                                        *)
Init ==
  /\ \E f \in Families : \E n \in Scenes(f) : scene = [n EXCEPT !.family = f]
  /\ sendanyways \in IF scene.family = "ears" THEN {[s \in Node |-> v] : v \in BOOLEAN} ELSE {[s \in Node |-> FALSE]}
  /\ way = [s \in Node |-> [t \in Node |-> <<>>]]
  /\ said = <<>>
  /\ heard = [x \in User |-> <<>>]
  /\ carried = [s \in Node |-> [t \in Node |-> 0]]

Times(x, list) == Cardinality({i \in DOMAIN list : list[i] = x})
(* Runs the handler: out says how often each user and each link gets it.   *)
Run(s, m, queues) ==
  LET joins == CASE m.kind # "join" -> Quiet(s)
                 [] m.how = "sjoin" -> m_sjoin(s, m)
                 [] OTHER -> join_channel(s, m)
      v == IF m.kind = "join" THEN Sends(s, [local |-> joins.local, links |-> joins.join \o joins.sjoin], "event", m)
           ELSE Handler(s, m)
      Next1(t) == IF m.kind = "join" THEN [v.next EXCEPT !.how = IF t \in ToSet(joins.sjoin) THEN "sjoin" ELSE "join"]
                  ELSE v.next
  IN /\ heard' = [x \in User |-> heard[x] \o [i \in 1..Times(x, v.out.local) |-> v.as]
                                         \o (IF x = Sender /\ v.away THEN <<"away">> ELSE <<>>)]
     /\ way' = [queues EXCEPT ![s] = [t \in Node |-> @[t] \o [i \in 1..Times(t, v.out.links) |-> Next1(t)]]]
     /\ carried' = [carried EXCEPT ![s] = [t \in Node |-> @[t] + Times(t, v.out.links)]]
     /\ sendanyways' = [sendanyways EXCEPT ![s] = v.any]

Say(m) ==
  /\ said = <<>>
  /\ said' = <<m>>
  /\ Run(West, m, way)
  /\ UNCHANGED scene
Hear(s, t) ==
  /\ way[s][t] # <<>>
  /\ Run(t, [Head(way[s][t]) EXCEPT !.from = s], [way EXCEPT ![s][t] = Tail(@)])
  /\ UNCHANGED <<scene, said>>
Next ==
  \/ \E m \in Messages(scene.family) : Say(m)
  \/ \E s, t \in Node : Hear(s, t)
Spec == Init /\ [][Next]_speech

(***************************************************************************)
(* Who is to hear what, whatever way it takes.                             *)
(***************************************************************************)
Once(what, due) == [x \in User |-> IF x \in due THEN <<what>> ELSE <<>>]
Others == User \ {Sender}
(* What a mode holds against a message, and what a +mu channel makes of it.*)
Against(c, m) ==
  LET low == rank(Sender) \in {"out", "none"}
      overrides == is(Sender, "oper") /\ is(Sender, "override")
      op == rank(Sender) \in Ops
  IN CASE c = "c" -> m.text = "color" [] c = "n" -> rank(Sender) = "out"
       [] c = "M" -> low /\ ~overrides /\ ~is(Sender, "reg") [] c = "m" -> low /\ ~overrides
       [] c = "C" -> ~op /\ m.text \in {"ctcp", "dcc"} [] c = "T" -> ~op /\ m.notice
       [] c = "~T" -> rank(Sender) \in {"out", "none", "voice"}
       [] OTHER -> FALSE
Muted == /\ scene.bans \cap {"mask", "~q"} # {} /\ scene.excepts = {}
         /\ rank(Sender) \in {"out", "none"}
Refused(m) == (\E c \in scene.modes : Against(c, m)) \/ (Muted /\ ~is(Sender, "oper"))
ToOps(m) == {"m", "u"} \subseteq scene.modes /\ Against("m", m) /\ ~mode("irc") /\ ~Muted
(* The rank that a prefix asks for at least, and needs.                    *)
Height(r) == CHOOSE i \in 1..7 : <<"out", "none", "voice", "halfop", "op", "prot", "owner">>[i] = r
InReach(x, m) == m.prefix = PREFIX_ALL \/ \E r \in m.prefix : Height(rank(x)) >= Height(r)
MayAsk(m) ==
  \/ m.prefix = PREFIX_ALL
  \/ rank(Sender) \in Voiced /\ (m.prefix \cap {"voice", "halfop", "op"} = {} => rank(Sender) \in Ops)
AsHeard(m) == IF m.text = "color" /\ (mode("S") \/ mode("K")) THEN "plain" ELSE m.text
ChannelHears(m) ==
  LET deaf == {x \in User : is(x, "deaf")}
      noctcp == {x \in User : is(x, "noctcp") /\ m.text = "ctcp" /\ ~is(Sender, "oper")}
  IN CASE ToOps(m) -> Once("irc", {x \in Others : rank(x) \in Ops} \ deaf)
       [] ~ToOps(m) /\ (Refused(m) \/ ~MayAsk(m)) -> Once("", {})
       [] OTHER -> Once(AsHeard(m), {x \in Others : IsMember(x) /\ InReach(x, m)}
                                      \ (noctcp \cup IF m.text = "cmd" THEN {} ELSE deaf))
UserHears(m) ==
  LET x == m.target
      refused == \/ is(Sender, "virus") \/ (is(x, "regonly") /\ ~is(Sender, "reg") /\ ~is(Sender, "oper"))
                 \/ (is(x, "noctcp") /\ m.text = "ctcp" /\ ~is(Sender, "oper"))
      as == IF m.notice /\ (is(x, "webtv") => m.text = "ctcp") THEN "notice" ELSE "private"
  IN IF refused THEN Once("", {})
     ELSE [Once(as, {x}) EXCEPT ![Sender] = IF is(x, "away") /\ ~m.notice THEN <<"away">> ELSE <<>>]
MaskHears(m) ==
  LET near == is(Sender, "oper") /\ is(Sender, "lnotice") /\ West \in m.mask
      far == is(Sender, "oper") /\ is(Sender, "gnotice")
  IN Once("mask", {x \in User : Home[x] \in m.mask /\ (IF Home[x] = West THEN near ELSE far)})
CommonHears ==
  Once("event", {Sender} \cup {x \in User : \E ch \in {"#x", "#y"} :
    /\ {x, Sender} \subseteq scene.on[ch]
    /\ ch \in scene.auditorium => rank(Sender) \in Ops \/ rank(x) \in Ops})
NoticeHears(m) ==
  LET home == {x \in User : Home[x] = West}
      oper == {x \in User : is(x, "oper") \/ is(x, "locop")}
      With(what) == {x \in User : is(x, what)}
  IN Once("event",
       CASE m.letter = "sno" -> oper \cap With("sno") [] m.letter = "umode" -> With("failop")
         [] m.letter = "snomask" -> With("sno")
         [] m.letter = "" /\ m.to = "snomask" -> home \cap oper \cap With("sno")
         [] m.letter = "" /\ m.to \in {"snomask_normal", "ops"} -> home \cap With("sno")
         [] m.letter = "" /\ m.to = "failops" -> home \cap With("failop")
         [] m.letter = "" /\ m.to \in {"failops_whoare_opers", "locfailops"} -> home \cap oper \cap With("failop")
         [] m.letter = "" /\ m.to \in {"opers", "realops"} -> home \cap oper
         [] OTHER -> home \cap With("oper"))
JoinHears ==
  Once("event", {x \in User : IsMember(x) /\ (mode("u") => rank(x) \in Ops)} \cup {Sender})
(* What an alias sends is heard as if it were a PRIVMSG.                   *)
ByAlias(m, kind) == m.kind = "alias" /\ (m.type = kind \/ m.matches = kind)
AliasHears(m) ==
  CASE ByAlias(m, "normal") \/ ByAlias(m, "services") \/ ByAlias(m, "user") ->
         [UserHears(Private(m)) EXCEPT ![Sender] = <<>>]
    [] ByAlias(m, "channel") \/ ByAlias(m, "real") -> ChannelHears(ToChannelText(m))
    [] OTHER -> Once("", {})
Due(m) ==
  CASE m.kind = "channel" -> ChannelHears(m) [] m.kind = "user" -> UserHears(m) [] m.kind = "mask" -> MaskHears(m)
    [] m.kind = "wallops" -> Once("wallops", IF is(Sender, "oper") THEN {x \in User : is(x, "wallops")} ELSE {})
    [] m.kind = "opnotice" -> Once("opnotice", {x \in User : Height(rank(x)) >= Height("op")})
    [] m.kind = "alias" -> AliasHears(m) [] m.kind = "quit" -> CommonHears [] m.kind = "notice" -> NoticeHears(m) [] m.kind = "join" -> JoinHears

(* Those of whom it is not so, which the code gets wrong:                  *)
Behind(s) == {x \in User : Home[x] = s}
Excepted(m) ==
  LET target == IF ByAlias(m, "normal") \/ ByAlias(m, "services") \/ ByAlias(m, "user") THEN {m.target} ELSE {}
      byAlias == ByAlias(m, "channel")
      deaf == {x \in User : is(x, "deaf")}
  IN UNION {
       \* sendanyways as the message before left it: deaf operators hear on a +mu channel
       IF m.kind = "channel" /\ ToOps(m) /\ \E s \in Node : sendanyways[s] THEN deaf ELSE {},
       \* an oper without override is refused by his own server alone on +mu
       IF m.kind = "channel" /\ ToOps(m) /\ is(Sender, "oper") THEN User \ Behind(West) ELSE {},
       \* who joins an auditorium as operator hears it twice
       IF m.kind = "join" /\ mode("u") /\ rank(Sender) \in Ops THEN {Sender} ELSE {},
       \* a JOIN that came as SJOIN does not go on to a server without SJ3
       IF m.kind = "join" /\ scene.proto[{West, Mid}] = "new" /\ scene.proto[{Mid, East}] = "old"
         THEN Behind(East) ELSE {},
       \* an alias looks neither at +R and +T of a local user ...
       {x \in target \cap Behind(West) : is(x, "regonly") \/ (is(x, "noctcp") /\ m.text = "ctcp")},
       \* ... nor, of a channel, at +S, +K, ~T, deaf members who hear commands and +mu
       IF byAlias /\ m.text = "color" /\ mode("S") THEN User ELSE {},
       IF byAlias /\ m.text = "color" /\ mode("K") THEN Behind(West) ELSE {},
       IF byAlias /\ m.text = "cmd" THEN deaf ELSE {},
       IF byAlias /\ ToOps(ToChannelText(m)) THEN {x \in User : rank(x) \in Ops} ELSE {},
       IF byAlias /\ mode("~T") /\ Against("~T", ToChannelText(m)) THEN User ELSE {}}

(* Once a message has gone its way, those who are to hear it have heard    *)
(* it, once and in the right form, and nobody else; and no link has        *)
(* carried it twice (m_message, can_send, sendto_*, m_alias, m_wallops,    *)
(* m_sendsno, _join_channel).  Excepted are the users that Excepted names, *)
(* in the cases it names; the others hear right in these cases too.        *)
HeardRight ==
  (said # <<>> /\ \A s, t \in Node : way[s][t] = <<>>) =>
    /\ \A x \in User \ Excepted(said[1]) : heard[x] = Due(said[1])[x]
    /\ \A s, t \in Node : carried[s][t] =< 1
=============================================================================
