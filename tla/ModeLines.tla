------------------------------ MODULE ModeLines ------------------------------
(***************************************************************************)
(* MODE lines of a channel (m_mode.c, extcmodes.c, m_svsmode.c).  A server *)
(* carries a line out letter by letter, each letter taking the parameters  *)
(* it needs from those that are left; what has changed is then written as  *)
(* a new line (make_mode_str: flags set, flags taken, the limit, the rest  *)
(* in order) for the other servers, which carry that one out as well.      *)
(* Here: the server A of who gives the line, and its neighbour B, with     *)
(* nothing else on its way.  Timestamps and bounces are in ChannelTS.      *)
(***************************************************************************)
EXTENDS Naturals, Sequences, SequencesExt

CONSTANTS Self, Other,      \* the two users of the channel; Self gives lines at A
          Families,         \* records: letters and parameters that are tried together
          Givers,           \* what Self is: a user, an IRC operator, ...
          ConfLines,        \* set::modes-on-join lines
          MAXMODEPARAMS,    \* parameters of a line
          UnsetTime,        \* default of set::modef-default-unsettime
          MaxLetters        \* bound on the letters of a line

Both == {Self, Other}
Ranks == {"q", "a", "o", "h", "v"}

(* cFlagTab, in its order; T is an extended mode without a parameter.      *)
FlagTab == <<"p", "s", "i", "r", "c", "A", "S", "K", "u">>
Flags == Range(FlagTab)
ForHalfops == {"v", "i", "k", "b"}
Parameters(x) == x \in Ranks \cup {"l", "k", "L", "b", "f"}

VARIABLES family,   \* the letters of this behaviour
          modes,    \* the channel at A and at B
          typed,    \* the line that A carries out, with the channel before it, or NoLine
          lines,    \* lines from A to B
          created   \* the creator has just joined

vars == <<family, modes, typed, lines, created>>

None == ""
NoLine == [n |-> 0]
Fresh == [flags |-> {}, ext |-> {}, j |-> None, l |-> 0, k |-> None, L |-> None,
          f |-> None, bans |-> {}, rank |-> [u \in Both |-> {}]]

(* What the code makes of a parameter's text.                              *)
Number(p) == CASE p = "5" -> 5 [] p \in {"3", "3:5"} -> 3 [] OTHER -> 0
Text(n) == IF n = 5 THEN "5" ELSE "3"
Key(p) == CASE p = "3:5" -> "3" [] p = "[5j]:3" -> "[5j]" [] OTHER -> p
IsChannelName(p) == p = "#d"
IsThrottle(p) == p = "3:5"
(* +f: "3:5" is the old form; a local user's setting gets the default time *)
(* after which its mode is taken back.                                     *)
Flood(p, local) ==
  CASE p = "3:5" -> "[3t]:5"
    [] p = "[5j]:3" /\ local /\ UnsetTime > 0 -> "[5j#i2]:3"
    [] p \in {"[5j]:3", "[3t]:5", "[5j#i2]:3"} -> p
    [] OTHER -> None

(* Who a line comes from, as the server that carries it out sees it.       *)
Typist(g) == [by |-> Self, acc |-> {}, local |-> TRUE, uline |-> FALSE, server |-> FALSE,
             over |-> g \in {"oper", "admin"}, admin |-> g \in {"admin", "samode"},
             samode |-> g = "samode"]
Remote(c) == [c EXCEPT !.local = FALSE, !.server = @ \/ c.samode, !.samode = FALSE]
Services == [Typist("user") EXCEPT !.local = FALSE, !.uline = TRUE]
Server == [Typist("user") EXCEPT !.local = FALSE, !.server = TRUE]

Trusted(c) == c.uline \/ c.server
Has(c, m, x) == c.server \/ x \in m.rank[c.by]

-----------------------------------------------------------------------------
(* One letter.  A state has the modes, the changes with parameters (pvar)  *)
(* and the parameters left.                                                *)
Eaten(s) == IF s = <<>> THEN <<>> ELSE Tail(s)
Eat(st) == [st EXCEPT !.left = Eaten(@)]
Param(st) == IF st.left = <<>> THEN None ELSE Head(st.left)
NoParam(st) == st.left = <<>> \/ Len(st.pvar) >= MAXMODEPARAMS
InLine(st, x) == \E i \in DOMAIN st.pvar : st.pvar[i].x = x
Changed(st, m, what, x, p) ==
  [Eat(st) EXCEPT !.modes = m, !.pvar = Append(@, [what |-> what, x |-> x, p |-> p])]

SetFlag(F, x) ==
  {x} \cup (F \ (CASE x = "s" -> {"p"} [] x = "p" -> {"s"}
                   [] x = "c" -> {"S"} [] x = "S" -> {"c"} [] OTHER -> {}))
ClearFlag(F, x) == F \ (IF x = "i" THEN {"i", "K"} ELSE {x})

FlagRefused(c, m, what, x) ==
  CASE x = "u" -> c.local /\ ~Has(c, m, "q") /\ ~c.over /\ ~c.samode
    [] x = "A" -> ~c.admin /\ ~Trusted(c)
    [] x = "r" -> ~Trusted(c)
    [] x = "K" -> what = "+" /\ "i" \notin m.flags
    [] OTHER -> FALSE
PlainFlag(c, st, what, x) ==
  IF FlagRefused(c, st.modes, what, x) THEN st
  ELSE [st EXCEPT !.modes.flags = IF what = "+" THEN SetFlag(@, x) ELSE ClearFlag(@, x)]

OwnerNeeded(c, st, what, x) ==
  /\ x \in {"q", "a"} /\ ~Trusted(c) /\ ~Has(c, st.modes, "q") /\ ~c.samode
  /\ ~(x = "a" /\ what = "-" /\ Param(st) = c.by)
  /\ c.local /\ ~c.over
(* An owner's ranks, and a protected user's but for q, are taken by owners *)
(* and by the user.                                                        *)
Shielded(c, m, t, what, x) ==
  /\ ~Trusted(c) /\ what = "-" /\ t # c.by /\ ~Has(c, m, "q") /\ ~c.samode
  /\ c.local /\ ~c.over
  /\ "q" \in m.rank[t] \/ ("a" \in m.rank[t] /\ x # "q")
Member(c, st, what, x) ==
  LET m == st.modes
      t == Param(st)
      new == IF what = "+" THEN m.rank[t] \cup {x} ELSE m.rank[t] \ {x}
  IN CASE NoParam(st) -> st
       [] OwnerNeeded(c, st, what, x) -> Eat(st)
       [] t \notin Both -> Eat(st)
       [] Shielded(c, m, t, what, x) -> Eat(st)
       [] new = m.rank[t] /\ ~c.uline -> Eat(st)
       [] OTHER -> Changed(st, [m EXCEPT !.rank[t] = new], what, x, t)

Limit(st, what) ==
  IF what = "-" THEN [st EXCEPT !.modes.l = 0]
  ELSE IF st.left = <<>> THEN st ELSE [Eat(st) EXCEPT !.modes.l = Number(Param(st))]

KeyLetter(st, what) ==
  LET m == st.modes
      new == IF what = "+" THEN Key(Param(st)) ELSE None
  IN CASE NoParam(st) \/ InLine(st, "k") -> st
       [] new = m.k -> Eat(st)
       [] OTHER -> Changed(st, [m EXCEPT !.k = new], what, "k", IF what = "+" THEN new ELSE m.k)

(* Exceptions and invitations (e, I) are lists like that of the bans.      *)
Ban(st, what) ==
  LET m == st.modes
      new == IF what = "+" THEN m.bans \cup {Param(st)} ELSE m.bans \ {Param(st)}
  IN CASE NoParam(st) -> st
       [] new = m.bans -> Eat(st)
       [] OTHER -> Changed(st, [m EXCEPT !.bans = new], what, "b", Param(st))

Link(c, st, what) ==
  LET m == st.modes
      new == IF what = "+" THEN Param(st) ELSE None
  IN CASE c.local /\ ~Has(c, m, "q") /\ ~c.over /\ ~c.samode -> st
       [] InLine(st, "L") -> st
       [] what = "+" /\ NoParam(st) -> st
       [] what = "+" /\ ~IsChannelName(new) -> Eat(st)
       [] new = m.L -> Eat(st)
       [] OTHER -> Changed(st, [m EXCEPT !.L = new], what, "L", IF what = "+" THEN new ELSE m.L)

FloodLetter(c, st, what) ==
  LET m == st.modes
      new == IF what = "+" THEN Flood(Param(st), c.local) ELSE None
  IN CASE InLine(st, "f") -> st
       [] what = "+" /\ NoParam(st) -> st
       [] (what = "+" /\ new = None) \/ new = m.f -> Eat(st)
       [] OTHER -> Changed(st, [m EXCEPT !.f = new], what, "f", IF what = "+" THEN new ELSE m.f)

(* Letters a halfop may not use are skipped, with their parameter.         *)
HalfopRefused(c, st, what, x) ==
  /\ c.acc \cap {"h", "o"} = {"h"} /\ ~c.uline /\ ~c.over /\ ~c.samode
  /\ c.local /\ x \notin ForHalfops
  /\ ~(x = "h" /\ what = "-" /\ Param(st) = c.by)

do_mode_char(c, st, what, x) ==
  IF HalfopRefused(c, st, what, x)
  THEN IF Parameters(x) THEN Eat(st) ELSE st
  ELSE CASE x \in Flags -> PlainFlag(c, st, what, x)
         [] x \in Ranks -> Member(c, st, what, x)
         [] x = "l" -> Limit(st, what)
         [] x = "k" -> KeyLetter(st, what)
         [] x = "b" -> Ban(st, what)
         [] x = "L" -> Link(c, st, what)
         [] x = "f" -> FloodLetter(c, st, what)

(* Extended modes: j with a parameter when it is set, T without.  Both are *)
(* for channel operators.                                                  *)
do_extmode_char(c, st, what, x) ==
  LET m == st.modes
      skipped == IF what = "+" /\ x = "j" THEN Eat(st) ELSE st
  IN CASE what = "+" /\ x = "j" /\ NoParam(st) -> st
       [] c.local /\ "o" \notin m.rank[c.by] /\ ~c.over /\ ~c.samode -> skipped
       [] InLine(st, x) -> skipped
       [] x = "T" -> [st EXCEPT !.modes.ext = IF what = "+" THEN @ \cup {x} ELSE @ \ {x}]
       [] what = "-" -> [st EXCEPT !.modes.j = None]
       [] ~IsThrottle(Param(st)) \/ Param(st) = m.j -> skipped
       [] OTHER -> Changed(st, [m EXCEPT !.j = Param(st)], what, x, Param(st))

Letter(c, st, what, x) ==
  IF x \in {"j", "T"} THEN do_extmode_char(c, st, what, x) ELSE do_mode_char(c, st, what, x)

-----------------------------------------------------------------------------
(* The line that tells of a change from old to m.                          *)
Written(what, xs) == [i \in DOMAIN xs |-> [what |-> what, x |-> xs[i], p |-> None]]
Differs(xs, a, b) == SelectSeq(xs, LAMBDA x : x \in a /\ x \notin b)
make_mode_str_Forgets(old, m, pvar) ==   \* j that is taken away is not told
  Written("+", Differs(FlagTab, m.flags, old.flags) \o Differs(<<"T">>, m.ext, old.ext))
  \o Written("-", Differs(FlagTab, old.flags, m.flags) \o Differs(<<"T">>, old.ext, m.ext))
  \o (IF m.l = old.l THEN <<>> ELSE <<[what |-> "+", x |-> "l", p |-> Text(m.l)]>>)
  \o pvar
make_mode_str(old, m, pvar) ==
  LET gone == {x \in {"j"} : old.j # None /\ m.j = None}
  IN Written("+", Differs(FlagTab, m.flags, old.flags) \o Differs(<<"T">>, m.ext, old.ext))
     \o Written("-", Differs(FlagTab, old.flags, m.flags)
                     \o Differs(<<"T", "j">>, old.ext \cup gone, m.ext))
     \o (IF m.l = old.l THEN <<>>
         ELSE IF m.l = 0 THEN Written("-", <<"l">>)
         ELSE <<[what |-> "+", x |-> "l", p |-> Text(m.l)]>>)
     \o pvar

(* The next server: letters and parameters arrive apart.                   *)
Given(line) ==
  LET with == SelectSeq(line, LAMBDA l : l.p # None)
  IN [i \in DOMAIN with |-> with[i].p]
set_mode(c, m, line) ==
  FoldLeft(LAMBDA st, l : Letter([c EXCEPT !.acc = m.rank[c.by]], st, l.what, l.x),
           [modes |-> m, pvar |-> <<>>, left |-> Given(line)], line).modes

Accepted(c, m) == Trusted(c) \/ c.over \/ m.rank[c.by] \cap {"h", "o"} # {}

By(c, m) == [c EXCEPT !.acc = m.rank[c.by]]

-----------------------------------------------------------------------------
(* set::modes-on-join: what is taken away is passed over, and so are modes *)
(* it cannot set; a wrong setting of j takes the parameters left with it.  *)
ConfLetter(st, l) ==
  LET f == Flood(Param(st), FALSE)
  IN CASE l.what = "-" -> st
       [] l.x = "f" -> [Eat(st) EXCEPT !.modes.f = IF f \in {None, "[3t]:5"} THEN @ ELSE f]
       [] l.x = "j" /\ st.left = <<>> -> st
       [] l.x = "j" /\ ~IsThrottle(Param(st)) -> [st EXCEPT !.left = <<>>]
       [] l.x = "j" -> [Eat(st) EXCEPT !.modes.j = Param(st)]
       [] l.x = "T" -> [st EXCEPT !.modes.ext = @ \cup {l.x}]
       [] OTHER -> [st EXCEPT !.modes.flags = @ \cup {l.x}]
set_channelmodes(line) ==
  FoldLeft(ConfLetter, [modes |-> Fresh, left |-> Given(line)], line).modes

NotTogether(F) == {"s", "p"} \subseteq F \/ {"c", "S"} \subseteq F \/ ("K" \in F /\ "i" \notin F)

(* The test of the configuration.                                          *)
Tested(line) ==
  /\ \A i \in DOMAIN line : line[i].x \notin {"A", "k", "l", "L", "b"} \cup Ranks
  /\ ~NotTogether(set_channelmodes(line).flags)

-----------------------------------------------------------------------------
(* Self has created the channel, which has the modes of modes-on-join.     *)
Init ==
  /\ family \in Families
  /\ \E rank \in family.ranks :
       modes = [s \in {"A", "B"} |-> [Fresh EXCEPT !.rank = rank]]
  /\ typed = NoLine /\ lines = <<>>
  /\ created = TRUE

Send(c, old, m, pvar) ==
  LET line == make_mode_str(old, m, pvar)
  IN lines' = IF line = <<>> THEN lines ELSE Append(lines, [c |-> Remote(c), line |-> line])

(* The creator's join sets modes-on-join, as set_channelmodes read them.   *)
ModesOnJoin(line) ==
  /\ created /\ Tested(line)
  /\ LET conf == set_channelmodes(line)
         m == [modes["A"] EXCEPT !.flags = conf.flags, !.ext = conf.ext,
                                 !.f = conf.f, !.j = conf.j]
         pvar == SelectSeq(<<[what |-> "+", x |-> "f", p |-> conf.f],
                             [what |-> "+", x |-> "j", p |-> conf.j]>>,
                           LAMBDA l : l.p # None)
     IN /\ modes' = [modes EXCEPT !["A"] = m]
        /\ Send(Server, modes["A"], m, pvar)
  /\ created' = FALSE
  /\ UNCHANGED <<family, typed>>

(* MODE or SAMODE of Self: the line starts ...                             *)
Start(g) ==
  /\ typed = NoLine /\ lines = <<>> /\ ~created
  /\ g = "samode" \/ Accepted(Typist(g), modes["A"])
  /\ typed' = [n |-> 1, c |-> By(Typist(g), modes["A"]), old |-> modes["A"],
               pvar |-> <<>>, left |-> <<>>, more |-> TRUE]
  /\ UNCHANGED <<family, modes, lines, created>>

(* ... has one letter after the other, each with the parameter that is     *)
(* next ...                                                                *)
Type(what, x) ==
  /\ typed # NoLine /\ typed.n <= MaxLetters
  /\ \E left \in IF typed.left # <<>> \/ ~typed.more \/ x \in Flags \cup {"T"}
                 THEN {typed.left}
                 ELSE {<<>>} \cup {<<p>> : p \in family.params} :
       LET st == Letter(typed.c, [modes |-> modes["A"], pvar |-> typed.pvar, left |-> left],
                        what, x)
       IN /\ modes' = [modes EXCEPT !["A"] = st.modes]
          /\ typed' = [typed EXCEPT !.n = @ + 1, !.pvar = st.pvar, !.left = st.left,
                         !.more = @ /\ (x \in Flags \cup {"T"} \/ left # <<>>)]
  /\ UNCHANGED <<family, lines, created>>

(* ... and ends: the others are told what has changed.                     *)
End ==
  /\ typed # NoLine
  /\ Send(typed.c, typed.old, modes["A"], typed.pvar)
  /\ typed' = NoLine
  /\ UNCHANGED <<family, modes, created>>

(* SVSMODE of services takes a rank from all, or bans off: those a user    *)
(* is banned by, or all; in lines of at most MAXMODEPARAMS parameters.     *)
unban_user(m, u) == m.bans \cap {u}
clear_bans(m) == m.bans
add_send_mode_param(all) ==
  [i \in 1..((Len(all) + MAXMODEPARAMS - 1) \div MAXMODEPARAMS) |->
     SubSeq(all, (i - 1) * MAXMODEPARAMS + 1,
            IF i * MAXMODEPARAMS < Len(all) THEN i * MAXMODEPARAMS ELSE Len(all))]
channel_svsmode(x, p) ==
  LET m == modes["A"]
      gone == SetToSeq(CASE x # "b" -> {u \in Both : x \in m.rank[u]}
                         [] p = None -> clear_bans(m)
                         [] OTHER -> unban_user(m, p))
      cut == add_send_mode_param(
               [i \in DOMAIN gone |-> [what |-> "-", x |-> x, p |-> gone[i]]])
  IN /\ typed = NoLine /\ lines = <<>> /\ ~created /\ gone # <<>>
     /\ modes' = [modes EXCEPT !["A"] =
                    IF x = "b" THEN [m EXCEPT !.bans = @ \ Range(gone)]
                    ELSE [m EXCEPT !.rank = [u \in Both |-> @[u] \ {x}]]]
     /\ lines' = [i \in DOMAIN cut |-> [c |-> Services, line |-> cut[i]]]
     /\ UNCHANGED <<family, typed, created>>

(* B carries a line out.                                                   *)
Arrives ==
  /\ lines # <<>>
  /\ LET l == Head(lines)
     IN modes' = IF Accepted(l.c, modes["B"])
                 THEN [modes EXCEPT !["B"] = set_mode(l.c, @, l.line)] ELSE modes
  /\ lines' = Tail(lines)
  /\ UNCHANGED <<family, typed, created>>

Next ==
  \/ \E line \in ConfLines : ModesOnJoin(line)
  \/ \E g \in Givers : Start(g)
  \/ \E what \in {"+", "-"} : \E x \in family.letters : Type(what, x)
  \/ End
  \/ \E x \in Ranks : channel_svsmode(x, None)
  \/ \E p \in {None} \cup Both : channel_svsmode("b", p)
  \/ Arrives

Spec == Init /\ [][Next]_vars
-----------------------------------------------------------------------------
TypeOK ==
  /\ family \in Families
  /\ \A s \in {"A", "B"} :
       /\ modes[s].flags \subseteq Flags /\ modes[s].ext \subseteq {"T"}
       /\ modes[s].l \in {0, 3, 5} /\ modes[s].rank \in [Both -> SUBSET Ranks]
  /\ typed # NoLine => typed.n \in 1..(MaxLetters + 1) /\ Len(typed.pvar) <= MAXMODEPARAMS + 2

(* What the source of a line may have changed, whatever the letters, the   *)
(* parameters they were given and the ranks they changed on the way: r is  *)
(* for servers, A for administrators, u, L, q and a for owners; owners and *)
(* protected users keep their ranks; a halfop has a few modes only.  IRC   *)
(* operators who override and SAMODE are free of the channel's own rules.  *)
Permitted(c, old, new) ==
  LET own == old.rank[c.by]
      free == Trusted(c) \/ c.over \/ c.samode
      flags == (old.flags \ new.flags) \cup (new.flags \ old.flags)
      Lost(u) == old.rank[u] \ new.rank[u]
      Won(u) == new.rank[u] \ old.rank[u]
  IN /\ "r" \in flags => Trusted(c)
     /\ "A" \in flags => Trusted(c) \/ c.admin
     /\ (~free /\ "q" \notin own) =>
          /\ "u" \notin flags /\ old.L = new.L
          /\ \A u \in Both :
               /\ Won(u) \cap {"q", "a"} = {} /\ "q" \notin Lost(u)
               /\ "a" \in Lost(u) => u = c.by
               /\ (u # c.by /\ old.rank[u] \cap {"q", "a"} # {}) => Lost(u) = {}
     /\ (~free /\ "o" \notin own) =>
          /\ flags \subseteq {"i", "K"} /\ new.flags \ old.flags \subseteq {"i"}
          /\ old.ext = new.ext /\ old.j = new.j /\ old.l = new.l /\ old.f = new.f
          /\ \A u \in Both :
               Won(u) \subseteq {"v"} /\ Lost(u) \subseteq IF u = c.by THEN {"v", "h"} ELSE {"v"}

(* When B has carried out what A told it the channel is the same at both,  *)
(* with no two modes that exclude each other, and nobody has changed what  *)
(* is not theirs: however a line was written, cut and read again.          *)
LinesSound ==
  /\ (typed = NoLine /\ lines = <<>>) => modes["A"] = modes["B"]
  /\ \A s \in {"A", "B"} : ~NotTogether(modes[s].flags)
  /\ typed # NoLine => Permitted(typed.c, typed.old, modes["A"])
=============================================================================
