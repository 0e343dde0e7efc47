----------------------------- MODULE Visibility -----------------------------
(***************************************************************************)
(* What a user is shown of another and of channels: WHO with its options,  *)
(* WHOIS, NAMES, LIST, TOPIC, MODE, TRACE, USERHOST, USERIP, ISON, WHOWAS  *)
(* and KNOCK, each of which has its own tests for +s and +p channels,      *)
(* auditoriums, invisible users, hidden operators and hidden hosts, and    *)
(* STATS, whose lists set::oper-only-stats keeps for operators.  LIST of   *)
(* all channels is sent in parts while channels come and go.               *)
(*                                                                         *)
(* A user v asks about a user t, both local, and the channels x and y.     *)
(* Left out: other WHO filters than these, WHOLIMIT, the wording.          *)
(***************************************************************************)
EXTENDS Naturals, Sequences, FiniteSets, SequencesExt

CONSTANTS Buckets,      \* the channel hash table: a sequence of sets of channels
          Batch         \* how many channels a call of send_list may show

XY == {"x", "y"}
Room == UNION {Buckets[i] : i \in DOMAIN Buckets}

VARIABLES
  view,       \* the situation, which does not change: see Views
  asked,      \* the question, once it has been asked
  answer,     \* what it was answered: a set of pairs
  open,       \* LIST: the channels that exist
  secret,     \* those that are +s; v is on none of them
  lopt,       \* sptr->user->lopt: how far LIST is, 0 for none
  listed,     \* the channels that LIST has shown, in order
  steady,     \* those that were there and shown all the time it runs
  ended       \* RPL_LISTEND was sent
shown == <<view, asked, answer, open, secret, lopt, listed, steady, ended>>
Question == <<view, asked, answer>>
Listing == <<open, secret, lopt, listed, steady, ended>>

(***************************************************************************)
(* Users, channels and their flags.                                        *)
(***************************************************************************)
has(u, flag) == flag \in view.umodes[u]
IsOper(u) == has(u, "o")
IsAnOper(u) == has(u, "o") \/ has(u, "O")
IsNetAdmin(u) == has(u, "N")
IsInvisible(u) == has(u, "i")
IsHideOper(u) == has(u, "H")
OPCanSeeSecret(u) == IsAnOper(u)                  \* SHOW_SECRET
cmode(c, m) == m \in view.modes[c]
rank(u, c) == view.rank[c][u]
IsMember(u, c) == rank(u, c) # "out"
is_chan_op(u, c) == rank(u, c) \in {"op", "owner"}
is_halfop(u, c) == rank(u, c) = "halfop"
SecretChannel(c) == cmode(c, "s")
HiddenChannel(c) == cmode(c, "p")
PubChannel(c) == ~SecretChannel(c) /\ ~HiddenChannel(c)
ShowChannel(u, c) == PubChannel(c) \/ IsMember(u, c)
(* The channels of a user, in the order of his list.                       *)
Memberships(u) == SelectSeq(view.order, LAMBDA c : IsMember(u, c))
GetHost(u) == IF has(u, "x") THEN "vhost" ELSE "host"

(***************************************************************************)
(* WHO.  q.op is WF_OPERONLY, the others are the fields of wfl.            *)
(***************************************************************************)
(* The search ends at the first auditorium in which u may not see w.       *)
has_common_channels(u, w) ==
  LET both == SelectSeq(Memberships(u), LAMBDA c : IsMember(w, c))
  IN both # <<>> /\ (u = w \/ ~cmode(both[1], "u") \/ is_chan_op(u, both[1]) \/ is_chan_op(w, both[1]))
Wanted(u, w, q) ==
  /\ q.opt = "o" => IsAnOper(w) /\ (IsHideOper(w) => IsAnOper(u))
  /\ q.opt = "+a" => has(w, "away")
  /\ q.opt = "-a" => ~has(w, "away")
  /\ q.opt = "-c" => ~IsMember(w, "x")
  /\ q.opt = "+h" => (IF IsAnOper(u) THEN "host" ELSE GetHost(w)) = "host"
  /\ q.opt = "+m" => has(w, "o") /\ (IsHideOper(w) => IsAnOper(u))
  /\ q.opt = "-m" => ~has(w, "o") \/ (IsHideOper(w) /\ ~IsAnOper(u))
  /\ q.opt = "+M" => has_common_channels(u, w)
can_see(u, w, channel, onchannel, wildcard, q) ==
  LET inchannel == /\ SecretChannel(channel) \/ HiddenChannel(channel) => onchannel
                   /\ IsInvisible(w) => onchannel
                   /\ cmode(channel, "u") => is_chan_op(w, channel) \/ is_chan_op(u, channel)
      anywhere == IsInvisible(w) /\ ~has_common_channels(u, w) => ~wildcard \/ u = w
  IN Wanted(u, w, q) /\ ((IF channel # "" THEN inchannel ELSE anywhere) \/ IsAnOper(u) \/ u = w)
first_visible_channel(u, w) ==
  LET cansee(c) == ShowChannel(u, c) /\ (has(w, "p") => IsMember(u, c))
  IN SelectSeq(Memberships(w), LAMBDA c : cansee(c) \/ OPCanSeeSecret(u))
OperMark(u, w) == IF IsAnOper(w) /\ (~IsHideOper(w) \/ u = w \/ IsAnOper(u)) THEN {<<"oper", w>>} ELSE {}
WhoReply(u, w, on) == {<<"seen", w>>, <<GetHost(w), w>>} \cup OperMark(u, w) \cup {<<"on", w, c>> : c \in on}

do_channel_who(u, channel, q) ==
  LET onchannel == IsMember(u, channel) \/ IsNetAdmin(u)
      who == {w \in {"v", "t"} : IsMember(w, channel) /\ can_see(u, w, channel, onchannel, FALSE, q)}
  IN UNION {WhoReply(u, w, {channel}) : w \in who}
do_other_who(u, mask, q) ==
  LET wildcard == mask = "*"
      who == {w \in {"v", "t"} : (wildcard \/ w = mask) /\ can_see(u, w, "", FALSE, wildcard, q)}
      first(w) == LET l == first_visible_channel(u, w) IN IF l = <<>> THEN {} ELSE {l[1]}
  IN UNION {WhoReply(u, w, first(w)) : w \in who}
m_who(u, q) ==
  IF q.mask = "x" \/ q.opt = "+c" THEN do_channel_who(u, "x", q) ELSE do_other_who(u, q.mask, q)

(***************************************************************************)
(* The other commands.                                                     *)
(***************************************************************************)
whois_status(u, w) ==
  LET hideoper == IsHideOper(w) /\ w # u /\ ~IsAnOper(u)
  IN (IF (IsAnOper(w) \/ has(w, "S")) /\ ~hideoper THEN {<<"oper", w>>} ELSE {})
       \cup (IF has(w, "swhois") /\ ~hideoper THEN {<<"swhois", w>>} ELSE {})
m_whois(u, w) ==
  LET showchannel(c) ==
        \/ w = u
        \/ /\ ShowChannel(u, c) \/ OPCanSeeSecret(u)
           /\ has(w, "p") => IsMember(u, c) \/ IsAnOper(u)
           /\ has(w, "S") => IsNetAdmin(u)
  IN {<<"seen", w>>, <<GetHost(w), w>>}
       \cup (IF w = u \/ IsAnOper(u) THEN {<<"host", w>>} ELSE {})
       \cup {<<"on", w, c>> : c \in {d \in ToSet(Memberships(w)) : showchannel(d)}}
       \cup whois_status(u, w)
(* The same for WebTV, a function of its own that is to be kept in step    *)
(* (m_whois.c:221); it gives a hidden operator's swhois away.              *)
w_whois_channels(u, w) ==
  LET showchannel(c) ==
        \/ w = u
        \/ /\ ShowChannel(u, c) \/ OPCanSeeSecret(u)
           /\ has(w, "p") => IsMember(u, c) \/ IsAnOper(u)
           /\ has(w, "S") => IsNetAdmin(u)
  IN {<<"on", w, c>> : c \in {d \in ToSet(Memberships(w)) : showchannel(d)}}
w_whois_status(u, w) ==
  (IF IsAnOper(w) \/ has(w, "S") THEN OperMark(u, w) ELSE {})
    \cup (IF has(w, "swhois") THEN {<<"swhois", w>>} ELSE {})
w_whois(u, w) ==
  {<<"seen", w>>, <<GetHost(w), w>>}
    \cup (IF has(w, "x") /\ (w = u \/ IsAnOper(u)) THEN {<<"host", w>>} ELSE {})
    \cup w_whois_channels(u, w) \cup w_whois_status(u, w)
m_names_Whole(u, c) ==
  IF ~ShowChannel(u, c) /\ ~OPCanSeeSecret(u) THEN {}
  ELSE UNION {{<<"seen", w>>, <<"on", w, c>>} :
          w \in {w \in {"v", "t"} : IsMember(w, c) /\ (IsInvisible(w) => IsMember(u, c) \/ IsNetAdmin(u))}}
m_names(u, c) ==
  IF ~ShowChannel(u, c) /\ ~OPCanSeeSecret(u) THEN {}
  ELSE LET in(w) == /\ IsMember(w, c)
                    /\ IsInvisible(w) => IsMember(u, c) \/ IsNetAdmin(u)
                    /\ cmode(c, "u") => is_chan_op(u, c) \/ is_chan_op(w, c) \/ w = u
       IN UNION {{<<"seen", w>>, <<"on", w, c>>} : w \in {w \in {"v", "t"} : in(w)}}
m_list_one(u, c) == IF ShowChannel(u, c) \/ OPCanSeeSecret(u) THEN {<<"chan", c>>, <<"topic", c>>} ELSE {}
m_topic_show(u, c) ==
  IF \/ SecretChannel(c) /\ ~IsMember(u, c) /\ ~OPCanSeeSecret(u)
     \/ ~IsMember(u, c) /\ \/ cmode(c, "O") /\ ~IsAnOper(u)
                           \/ cmode(c, "ban") /\ ~IsAnOper(u)
  THEN {} ELSE {<<"chan", c>>, <<"topic", c>>}
(* To set it one has to be on the channel, or to see it if it is secret.   *)
m_topic_set(u, c) ==
  LET override == IsOper(u) /\ has(u, "override")
      op == is_chan_op(u, c) \/ is_halfop(u, c)
      free == CASE cmode(c, "t") -> op \/ override
                [] ~cmode(c, "t") /\ cmode(c, "ban") /\ ~op -> override
                [] ~cmode(c, "t") /\ ~(cmode(c, "ban") /\ ~op) /\ cmode(c, "m") /\ rank(u, c) \in {"out", "none"} -> override
                [] OTHER -> TRUE
  IN IF (IsMember(u, c) \/ OPCanSeeSecret(u)) /\ free THEN {<<"set", c>>} ELSE {}
(* The modes; the key and the other parameters are for members.            *)
channel_modes(u, c) == {<<"modes", c>>} \cup (IF IsMember(u, c) THEN {<<"params", c>>} ELSE {})
m_mode_show(u, c) == channel_modes(u, c)
m_trace(u, w) ==
  IF ~IsAnOper(u) \/ (~IsOper(u) /\ ~IsAnOper(w) /\ w # u) \/ ~(IsOper(u) \/ (IsAnOper(w) /\ ~IsInvisible(w))) THEN {}
  ELSE IF IsAnOper(w) THEN {<<"seen", w>>, <<"oper", w>>, <<GetHost(w), w>>}
       ELSE {<<"seen", w>>, <<"host", w>>}
m_userhost(u, w) ==
  {<<"seen", w>>, <<IF w # u /\ ~IsOper(u) THEN GetHost(w) ELSE "host", w>>} \cup OperMark(u, w)
m_userip(u, w) == m_userhost(u, w)
m_ison(w) == {<<"seen", w>>}
m_whowas(u, w) == {<<"seen", w>>, <<IF IsOper(u) THEN "host" ELSE GetHost(w), w>>}
m_knock(u, c) ==
  IF \/ IsMember(u, c) \/ cmode(c, "K") \/ ~cmode(c, "i") \/ cmode(c, "ban") \/ cmode(c, "V")
  THEN {} ELSE {<<"knocked", c>>}

(***************************************************************************)
(* STATS.  A list is asked for by its letter or by its name; a name may    *)
(* have several letters.  view.only is set::oper-only-stats: letters, or   *)
(* "*" for all, or names.                                                  *)
(***************************************************************************)
StatsTable == <<
  <<"B", "banversion">>, <<"C", "link">>, <<"D", "denylinkall">>, <<"E", "exceptban">>,
  <<"F", "denydcc">>, <<"G", "gline">>, <<"H", "link">>, <<"I", "allow">>, <<"K", "kline">>,
  <<"L", "linkinfoall">>, <<"M", "command">>, <<"O", "oper">>, <<"P", "port">>, <<"Q", "sqline">>,
  <<"R", "usage">>, <<"S", "set">>, <<"T", "traffic">>, <<"U", "uline">>, <<"V", "vhost">>,
  <<"X", "notlink">>, <<"Y", "class">>, <<"Z", "mem">>, <<"b", "badword">>, <<"c", "link">>,
  <<"d", "denylinkauto">>, <<"e", "exceptthrottle">>, <<"f", "spamfilter">>, <<"g", "gline">>,
  <<"h", "link">>, <<"j", "officialchans">>, <<"k", "kline">>, <<"l", "linkinfo">>,
  <<"m", "command">>, <<"n", "banrealname">>, <<"o", "oper">>, <<"q", "bannick">>,
  <<"r", "chanrestrict">>, <<"s", "shun">>, <<"t", "tld">>, <<"u", "uptime">>, <<"v", "denyver">>,
  <<"x", "notlink">>, <<"y", "class">>, <<"z", "zip">>>>
Letters == {e[1] : e \in ToSet(StatsTable)}
StatsNames == {e[2] : e \in ToSet(StatsTable)}
stats_binary_search(letter) == SelectInSeq(StatsTable, LAMBDA e : e[1] = letter)
stats_search(name) == SelectInSeq(StatsTable, LAMBDA e : e[2] = name)
stats_help ==
  {<<"help", l>> : l \in Letters \ {"H", "c", "h", "g", "k", "m", "o", "x", "y", "R", "z"}}

(* Letters that stand for the same list in both cases, as far as there is  *)
(* one, and the four of link {}.                                           *)
Insensitive ==
  {{"O", "o"}, {"Y", "y"}, {"K", "k"}, {"G", "g"}, {"X", "x"}, {"F", "f"}, {"I", "i"}, {"M", "m"},
   {"C", "c", "H", "h"}}
stats_operonly_short(letter) ==
  view.only.letters \cap (UNION {p \in Insensitive : letter \in p} \cup {letter, "*"}) # {}
stats_operonly_long(name) == name \in view.only.names

(* What each function lists, and those that ask again who is asking.       *)
BanLists == [banversion |-> {"ban version"}, denylinkall |-> {"deny link all"}, gline |-> {"gline", "gzline"},
  spamfilter |-> {"spamfilter"}, exceptban |-> {"except ban", "except tkl"}, allow |-> {"allow"},
  command |-> {"commands"}]
OperLists == [oper |-> {"oper"}, port |-> {"listeners"}, bannick |-> {"ban nick"}, usage |-> {}]
TrafficLists == [traffic |-> {"traffic"}, uline |-> {"ulines"}, vhost |-> {"vhost"}]
FilterLists == [badword |-> {"badword"}, denylinkauto |-> {"deny link auto"}, exceptthrottle |-> {"except throttle"},
  denydcc |-> {"deny dcc", "allow dcc"}, kline |-> {"ban user", "ban ip", "kline", "zline", "except ban"}]
ChannelLists == [banrealname |-> {"ban realname"}, sqline |-> {"sqline"},
  chanrestrict |-> {"deny channel", "allow channel"}, shun |-> {"shun"}, officialchans |-> {"offchans"}]
ServerLists == [tld |-> {"tld"}, uptime |-> {"uptime"}, denyver |-> {"deny version"}, notlink |-> {"link"},
  class |-> {"class"}, zip |-> {"zip"}]
stats_links(u) == {"link"} \cup (IF IsOper(u) THEN {"link hosts"} ELSE {})
stats_mem(u) == IF IsAnOper(u) THEN {"memory"} ELSE {}
stats_set(u) == IF IsAnOper(u) THEN {"set"} ELSE {}
Listed(u, name) ==
  CASE name = "link" -> stats_links(u) [] name = "mem" -> stats_mem(u) [] name = "set" -> stats_set(u)
    [] name = "linkinfo" -> {"connections"} [] name = "linkinfoall" -> {"connections with ports"}
    [] OTHER -> (BanLists @@ OperLists @@ TrafficLists @@ FilterLists @@ ChannelLists @@ ServerLists)[name]

(* Connections: those of users that the mask fits; without one, servers.   *)
stats_linkinfoint(u, mask) ==
  LET doall == mask \in {"me", "*"}
      in(w) == IF doall THEN IsInvisible(w) => IsOper(u) \/ IsAnOper(w) \/ w = u ELSE w = mask
      host(w) == IF IsOper(u) \/ ~has(w, "x") THEN {<<"host", w>>} ELSE {}
  IN UNION {{<<"seen", w>>} \cup host(w) : w \in {w \in {"v", "t"} : in(w)}}

m_stats(u, q) ==
  LET short == q.opt \in Letters
      stat == IF short THEN stats_binary_search(q.opt) ELSE stats_search(q.opt)
      entry == StatsTable[stat]
      refused == /\ ~IsAnOper(u)
                 /\ \/ IF short THEN stats_operonly_short(q.opt) ELSE stats_operonly_long(q.opt)
                    \/ stat # 0 /\ IF short THEN stats_operonly_long(entry[2]) ELSE stats_operonly_short(entry[1])
  IN IF refused THEN {}
     ELSE IF stat = 0 THEN stats_help
     ELSE {<<"list", l>> : l \in Listed(u, entry[2])}
            \cup (IF entry[2] \in {"linkinfo", "linkinfoall"} THEN stats_linkinfoint(u, q.mask) ELSE {})

Whos == [cmd : {"WHO"}, mask : {"x", "*", "t"}, opt : {"", "o", "+a", "-a", "+c", "-c", "+h", "+m", "-m", "+M"}]
Questions == Whos \cup [cmd : {"WHOIS", "WEBTV", "NAMES", "LIST", "TOPIC", "SET", "MODE", "TRACE", "USERHOST", "USERIP",
                               "ISON", "WHOWAS", "KNOCK"}, mask : {""}, opt : {""}]

(* STATS l asks about users; the other lists are asked for by one who is   *)
(* alone, with set::oper-only-stats as in StatsViews.                      *)
AboutUsers == [cmd : {"STATS"}, mask : {"", "me", "*", "t"}, opt : {"l"}]
AboutLists == [cmd : {"STATS"}, mask : {""}, opt : Letters \cup StatsNames \cup {"none"}]
Answer(q) ==
  CASE q.cmd = "WHO" -> m_who("v", q) [] q.cmd = "WHOIS" -> m_whois("v", "t")
    [] q.cmd = "WEBTV" -> w_whois("v", "t") [] q.cmd = "NAMES" -> m_names("v", "x")
    [] q.cmd = "LIST" -> m_list_one("v", "x") [] q.cmd = "TOPIC" -> m_topic_show("v", "x")
    [] q.cmd = "SET" -> m_topic_set("v", "x") [] q.cmd = "MODE" -> m_mode_show("v", "x")
    [] q.cmd = "TRACE" -> m_trace("v", "t") [] q.cmd = "USERHOST" -> m_userhost("v", "t")
    [] q.cmd = "USERIP" -> m_userip("v", "t") [] q.cmd = "ISON" -> m_ison("t")
    [] q.cmd = "WHOWAS" -> m_whowas("v", "t") [] q.cmd = "KNOCK" -> m_knock("v", "x")
    [] q.cmd = "STATS" -> m_stats("v", q)

AnyList == [letters |-> {}, names |-> {}]
Views ==
  LET Rank(v, t) == [v |-> v, t |-> t]
      Y == {<<Rank("out", "out"), {}, <<"x", "y">>>>, <<Rank("none", "none"), {}, <<"x", "y">>>>,
            <<Rank("none", "none"), {"u"}, <<"x", "y">>>>, <<Rank("none", "none"), {"u"}, <<"y", "x">>>>,
            <<Rank("none", "none"), {"s"}, <<"y", "x">>>>}
  IN {[umodes |-> [v |-> v, t |-> t], modes |-> [x |-> x, y |-> y[2]],
       rank |-> [x |-> Rank(r[1], r[2]), y |-> y[1]], order |-> y[3], only |-> AnyList] :
        v \in {{}, {"O"}, {"o"}, {"o", "N", "override"}},
        t \in {{}, {"i"}, {"o", "i"}, {"o", "H", "x", "swhois"}, {"p", "x", "away"}, {"S", "i"}},
        x \in {{}, {"p"}, {"s"}, {"u"}, {"s", "u", "m"}, {"t", "O", "ban", "i"}, {"i", "K"}, {"i"}},
        r \in {"out", "none", "op"} \X {"out", "none", "op", "owner"}, y \in Y}

(* LIST of all channels is looked at in the plainest of them.              *)
PlainView ==
  LET Out == [v |-> "out", t |-> "out"]
  IN [umodes |-> [v |-> {}, t |-> {}], modes |-> [x |-> {}, y |-> {}], rank |-> [x |-> Out, y |-> Out],
      order |-> <<"x", "y">>, only |-> AnyList]
StatsViews ==
  LET Only == {[AnyList EXCEPT !.letters = {l}] : l \in Letters \cup {"*"}}
                \cup {[AnyList EXCEPT !.names = {n}] : n \in StatsNames}
  IN {[PlainView EXCEPT !.umodes.v = v, !.only = only] : v \in {{}, {"O"}}, only \in Only}

InitWith(w) ==
  /\ view = w /\ asked = <<>> /\ answer = {}
  /\ open = Room /\ secret = {} /\ lopt = 0 /\ listed = <<>> /\ steady = {} /\ ended = FALSE
Init == \E w \in Views \cup StatsViews : InitWith(w)
Ask(q) ==
  /\ asked = <<>> /\ lopt = 0 /\ ~ended
  /\ asked' = <<q>> /\ answer' = Answer(q)
  /\ UNCHANGED <<view, Listing>>

(***************************************************************************)
(* LIST of all channels.  lopt is 1 more than lopt->starthash; a bucket is *)
(* sent as a whole, and numsend is tested before the next one.             *)
(***************************************************************************)
SecretHidden(c) == c \in secret
send_list(from) ==
  LET Shows(i) == {c \in Buckets[i] \cap open : ~SecretHidden(c)}
      Visit(out, i) ==
        IF i < from \/ out.stop # 0 THEN out
        ELSE IF out.numsend = 0 THEN [out EXCEPT !.stop = i]
        ELSE [out EXCEPT !.list = @ \o SetToSeq(Shows(i)),
                         !.numsend = IF @ > Cardinality(Shows(i)) THEN @ - Cardinality(Shows(i)) ELSE 0]
      end == FoldLeft(Visit, [list |-> <<>>, numsend |-> Batch, stop |-> 0], [i \in DOMAIN Buckets |-> i])
  IN /\ listed' = listed \o end.list
     /\ lopt' = end.stop
     /\ ended' = (end.stop = 0)
m_list ==
  /\ asked = <<>> /\ ~ended
  /\ IF lopt # 0 THEN lopt' = 0 /\ ended' = TRUE /\ steady' = {} /\ UNCHANGED listed
     ELSE /\ steady' = open \ secret
          /\ \/ send_list(1)
             \/ lopt' = 1 /\ UNCHANGED <<listed, ended>>   \* 2048 in the sendQ
  /\ UNCHANGED <<Question, open, secret>>
(* The connection can take more (s_bsd.c).                                 *)
DoList == lopt # 0 /\ send_list(lopt) /\ UNCHANGED <<Question, open, secret, steady>>
Change(c) ==
  /\ lopt # 0
  /\ \/ c \in open /\ open' = open \ {c} /\ secret' = secret \ {c}
     \/ c \notin open /\ open' = open \cup {c} /\ UNCHANGED secret
     \/ c \in open /\ secret' = (secret \ {c}) \cup ({c} \ secret) /\ UNCHANGED open
  /\ steady' = steady \ {c}
  /\ UNCHANGED <<Question, lopt, listed, ended>>
Next ==
  \/ \E q \in IF view.only = AnyList THEN Questions \cup AboutUsers ELSE AboutLists : Ask(q)
  \/ (view = PlainView /\ (m_list \/ DoList \/ \E c \in Room : Change(c)))
Spec == Init /\ [][Next]_shown

(***************************************************************************)
(* What each user may learn, by whatever command, and what he must.        *)
(***************************************************************************)
Kept(c) == ~PubChannel(c) /\ ~IsMember("v", c) /\ ~IsAnOper("v")
Together(c) == IsMember("v", c) /\ IsMember("t", c)
Meet(c) == Together(c) /\ (cmode(c, "u") => is_chan_op("v", c) \/ is_chan_op("t", c))
(* An auditorium of both that comes first hides the others (m_who.c:824).  *)
Overlooked == \E c \in XY : Together(c) /\ ~Meet(c)
OnX(q) == q.cmd = "NAMES" \/ (q.cmd = "WHO" /\ (q.mask = "x" \/ q.opt = "+c"))
Sees(w) == <<"seen", w>> \in answer
(* The entries that are kept for operators, and what they list.            *)
IsKept(e) == view.only.letters \cap {e[1], "*"} # {} \/ e[2] \in view.only.names
KeptNames == {e[2] : e \in {e \in ToSet(StatsTable) : IsKept(e)}}
KeptLists == UNION {Listed("v", name) : name \in KeptNames}
AskedFor(q) == {e[2] : e \in {e \in ToSet(StatsTable) : q.opt \in ToSet(e)}}

(* What the code gives away of what others keep:                           *)
(* - WHOIS, and WHO of a user, ask about +s and +p only and show who is in *)
(*   an auditorium (m_whois.c:211, m_who.c:793);                           *)
(* - WHOIS for WebTV shows the swhois of a hidden operator                 *)
(*   (webtv.c:389, against m_whois.c:221);                                 *)
(* - TOPIC asks about +s only and shows the topic of a +p channel, MODE    *)
(*   asks nobody and KNOCK not about +s or +p;                             *)
(* - STATS E and k both show the except ban {} blocks, STATS C and x the   *)
(*   link {} blocks, and each asks only whether it is kept itself.         *)
LeaksOfUsers(q) ==
  LET auditoriums == {c \in XY : cmode(c, "u") /\ ~Kept(c)}
  IN (IF q.cmd \in {"WHOIS", "WEBTV"} \/ (q.cmd = "WHO" /\ ~OnX(q))
      THEN {<<"on", "t", c>> : c \in auditoriums} ELSE {})
       \cup (IF q.cmd = "WEBTV" THEN {<<"swhois", "t">>} ELSE {})
LeaksOfChannels(q) ==
  CASE q.cmd = "TOPIC" /\ ~SecretChannel("x") -> {<<"chan", "x">>, <<"topic", "x">>}
    [] q.cmd = "MODE" -> {<<"modes", "x">>}
    [] q.cmd = "KNOCK" -> {<<"knocked", "x">>}
    [] OTHER -> {}
LeaksOfStats(q) ==
  CASE q.cmd # "STATS" \/ AskedFor(q) \cap KeptNames # {} -> {}
    [] {"exceptban", "kline"} \cap AskedFor(q) # {} -> {<<"list", "except ban">>}
    [] {"link", "notlink"} \cap AskedFor(q) # {} -> {<<"list", "link">>}
    [] OTHER -> {}
Leaks(q) == LeaksOfUsers(q) \cup LeaksOfChannels(q) \cup LeaksOfStats(q)

(* What a user may be shown: everything else.                              *)
MayBeOn(c) == ~Kept(c) /\ (cmode(c, "u") => Meet(c) \/ is_chan_op("t", c) \/ IsAnOper("v"))
MayLearnOfUsers(q, said) ==
  /\ \A c \in XY : <<"on", "t", c>> \in said => MayBeOn(c)
  /\ {<<"oper", "t">>, <<"swhois", "t">>} \cap said # {} => ~IsHideOper("t") \/ IsAnOper("v")
  /\ <<"host", "t">> \in said /\ has("t", "x") => IsAnOper("v")
  /\ OnX(q) /\ Sees("t") => MayBeOn("x")
  /\ OnX(q) /\ Sees("t") /\ IsInvisible("t") => IsMember("v", "x") \/ IsAnOper("v")
  /\ q.cmd = "WHO" /\ q.mask = "*" /\ ~OnX(q) /\ Sees("t") /\ IsInvisible("t") =>
       (\E c \in XY : Meet(c)) \/ IsAnOper("v")
  /\ q.cmd = "STATS" /\ q.mask \in {"me", "*"} /\ Sees("t") /\ IsInvisible("t") => IsAnOper("v") \/ IsAnOper("t")
MayLearnOfChannels(said) ==
  /\ \A what \in {"chan", "topic", "modes", "knocked"}, c \in XY : <<what, c>> \in said => ~Kept(c)
  /\ <<"params", "x">> \in said => IsMember("v", "x")
  /\ <<"set", "x">> \in said =>
       /\ IsMember("v", "x") \/ IsAnOper("v")
       /\ cmode("x", "t") => is_chan_op("v", "x") \/ has("v", "override")
MayLearn(q) ==
  LET said == answer \ Leaks(q) IN
  /\ MayLearnOfUsers(q, said)
  /\ MayLearnOfChannels(said)
  /\ \A l \in KeptLists : <<"list", l>> \in said => IsAnOper("v")
MustLearn(q) ==
  /\ q.cmd \in {"WHOIS", "WEBTV", "ISON", "USERHOST"} \/ (q.cmd = "WHO" /\ q.mask = "t" /\ q.opt = "") => Sees("t")
  /\ OnX(q) /\ Meet("x") /\ q.opt = "" => Sees("t") /\ Sees("v")
  /\ OnX(q) /\ IsMember("v", "x") /\ q.opt \in {"", "+c"} => Sees("v")
  /\ q.cmd = "WHO" /\ q.mask = "*" /\ q.opt = "" =>
       Sees("v") /\ (~IsInvisible("t") \/ (~Overlooked /\ \E c \in XY : Meet(c)) => Sees("t"))
  /\ q.cmd = "WHO" /\ ~OnX(q) /\ q.opt = "+M" /\ ~Overlooked => (Sees("t") <=> \E c \in XY : Meet(c))
  /\ q.cmd = "WHO" /\ IsAnOper("v") /\ q.opt = "" /\ (q.mask = "x" => IsMember("t", "x")) => Sees("t")
  /\ q.cmd = "STATS" => \A name \in AskedFor(q) :
       IsAnOper("v") \/ (name \notin KeptNames /\ view.only.letters \cap {"F", "f"} = {}) =>
         \A l \in Listed("v", name) : <<"list", l>> \in answer
  /\ q.cmd \in {"WHOIS", "WEBTV"} => \A c \in XY : Together(c) /\ ~has("t", "S") => <<"on", "t", c>> \in answer

(* But for what Leaks names, no command shows a user what others keep from *)
(* him: a +s or +p channel he is not on, a hidden host or operator, the    *)
(* members of an auditorium, an invisible user he shares no channel with,  *)
(* a list of STATS that is kept for operators.  And all show what he may   *)
(* rely on; LIST, while channels come and go between its parts, shows none *)
(* twice and leaves none out that was there all the time (m_who, m_whois,  *)
(* m_names, m_list, m_topic, m_trace, m_userhost, m_stats).                *)
ShownRight ==
  /\ asked # <<>> => MayLearn(asked[1]) /\ MustLearn(asked[1])
  /\ IsInjective(listed)
  /\ ended => steady \subseteq ToSet(listed)
=============================================================================
