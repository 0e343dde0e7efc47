----------------------------- MODULE OperCount -----------------------------
(***************************************************************************)
(* The user modes that the statistics count: +o (global operator), +O      *)
(* (local operator), +H (hidden operator) and +i (invisible), as OPER,     *)
(* MODE and the services commands SVSMODE, SVSO and SVSNOOP change them,   *)
(* with IRCstats.operators, IRCstats.invisible and oper_fdlist, the list   *)
(* of local operators that every operator notice walks.                    *)
(*                                                                         *)
(* A handler runs to its end before the next one starts, so each is one    *)
(* action; a mode string is applied character by character inside it.      *)
(***************************************************************************)
EXTENDS Integers, FiniteSets, SequencesExt

CONSTANTS User,         \* registered users come and go in these structs
          Local,        \* those connected to this server
          Quarantined,  \* remote users behind a link with FLAGS_QUARANTINE
          UmodeFlags,   \* flags that MODE strings contain
          SvsFlags,     \* flags that SVSMODE strings contain
          OperFlags,    \* flags of oper::modes and set::modes-on-oper
          MaxString     \* length of the mode strings

OperCountAssumption ==
  /\ Local \subseteq User /\ Quarantined \subseteq User \ Local
  /\ UmodeFlags \cup SvsFlags \subseteq {"o", "O", "H", "i"}
  /\ OperFlags \subseteq {"H", "i"}    \* the configuration test refuses more
  /\ MaxString \in Nat

VARIABLES
  present,    \* registered users
  modes,      \* umodes of every user
  operators,  \* IRCstats.operators
  invisible,  \* IRCstats.invisible
  operlist,   \* the users whose slot is in oper_fdlist
  noop,       \* SVSNOOP
  off         \* history: the counts that the last step took wrongly

vars == <<present, modes, operators, invisible, operlist, noop, off>>

Change(flags) == [what : {"+", "-"}, flag : flags]
Strings(flags) == UNION {[1..n -> Change(flags)] : n \in 1..MaxString}

IsAnOper(m) == m \cap {"o", "O"} # {}
Counts(m) == "o" \in m /\ "H" \notin m
Apply(m, ch) == IF ch.what = "+" THEN m \cup {ch.flag} ELSE m \ {ch.flag}

Counted == Cardinality({u \in present : Counts(modes[u])})
(* VERIFY_OPERCOUNT: a count below 0 is replaced by a fresh one, taken     *)
(* when user u has modes m.                                                *)
Verify(n, u, m) ==
  IF n >= 0 THEN n
  ELSE Cardinality({v \in present : Counts(IF v = u THEN m ELSE modes[v])})
One(b) == IF b THEN 1 ELSE 0

(* The steps that the code counts wrongly, each named where it is taken.   *)
OpersOff(wrong) == IF wrong THEN {"operators"} ELSE {}
InvisibleOff(wrong) == IF wrong THEN {"invisible"} ELSE {}

Init ==
  /\ present = {}
  /\ modes = [u \in User |-> {}]
  /\ operators = 0 /\ invisible = 0
  /\ operlist = {} /\ noop = FALSE /\ off = {}

(* _register_user: m is +i or nothing for a local user, by USER or         *)
(* set::modes-on-connect; the modes of a remote user follow by Umode.      *)
Register(u, m) ==
  /\ u \notin present
  /\ present' = present \cup {u}
  /\ modes' = [modes EXCEPT ![u] = m]
  /\ invisible' = invisible + One("i" \in m)
  /\ UNCHANGED <<operators, operlist, noop, off>>

(* exit_client and remove_client_from_list of a user whose umodes are m:   *)
(* wrong when they are not those the user is counted under.                *)
RemoveUser(u, m) ==
  /\ present' = present \ {u}
  /\ modes' = [modes EXCEPT ![u] = {}]
  /\ invisible' = invisible - One("i" \in m)
  /\ operators' = IF Counts(m) THEN Verify(operators - 1, u, m) ELSE operators
  /\ operlist' = operlist \ {u}
  /\ off' = OpersOff(Counts(m) # Counts(modes[u]))
            \cup InvisibleOff(("i" \in m) # ("i" \in modes[u]))
  /\ UNCHANGED noop

Exit(u) == u \in present /\ RemoveUser(u, modes[u])

(* m_oper by a local user who gave a correct password; glob is the         *)
(* can-be-global flag of the oper block.                                   *)
OperUp(u, glob, extra) ==
  LET m == modes[u] \cup extra \cup (IF glob THEN {"o"} ELSE {"O"}) IN
  /\ u \in present \cap Local
  /\ ~noop /\ ~IsAnOper(modes[u])
  /\ modes' = [modes EXCEPT ![u] = m]
  /\ operlist' = operlist \cup {u}
  /\ invisible' = invisible + One("i" \in m \ modes[u])
  /\ operators' = operators + One(Counts(m))
  /\ UNCHANGED <<present, noop, off>>

(* One character of the string in m_umode: a local user never gets +o or   *)
(* +O by it, and needs to be an operator for the flags that                *)
(* umode_allow_opers guards.                                               *)
UmodeChar(u, m, ch) ==
  IF u \in Local /\ ch.flag # "i"
     /\ (~IsAnOper(m) \/ (ch.what = "+" /\ ch.flag \in {"o", "O"}))
  THEN m ELSE Apply(m, ch)
UmodeString(u, s) == FoldLeft(LAMBDA m, ch : UmodeChar(u, m, ch), modes[u], s)

(* The flags after the whole string: what a local user gained is taken     *)
(* back, and nobody here stays hidden without being an operator.           *)
UmodeResult(u, s) ==
  LET set == UmodeString(u, s)
      kept == IF u \in Local THEN set \ ({"o", "O"} \ modes[u]) ELSE set
  IN  IF u \in Local /\ ~IsAnOper(kept) THEN kept \ {"H"} ELSE kept

(* The three adjustments at the end of m_umode.                            *)
UmodeOperators(u, old, new) ==
  LET up == operators + One("o" \in new \ old)
  IN  CASE "o" \in old \ new -> Verify(up - 1, u, new)
        [] "o" \notin old \ new /\ "H" \in new \ old ->
             Verify(up - One("o" \in new), u, new)
        [] OTHER -> up + One("H" \in old \ new /\ "o" \in new)

(* They are wrong for a hidden user who comes by +o or goes by -o: it is   *)
(* counted then, though nobody counts the hidden.                          *)
UmodeOff(old, new) ==
  OpersOff("H" \in old /\ ("o" \in old) # ("o" \in new))

(* Wrong: an operator who steps down stays in oper_fdlist.                 *)
Umode_StaysListed(u, s) ==
  LET old == modes[u]
      new == UmodeResult(u, s)
  IN
  /\ u \in present
  /\ operators' = UmodeOperators(u, old, new)
  /\ invisible' = invisible + One("i" \in new \ old) - One("i" \in old \ new)
  /\ modes' = [modes EXCEPT ![u] = new]
  /\ off' = UmodeOff(old, new)
  /\ UNCHANGED <<present, operlist, noop>>

(* m_umode of user u.                                                      *)
Umode(u, s) ==
  LET old == modes[u]
      new == UmodeResult(u, s)
  IN
  /\ u \in present
  /\ u \in Quarantined => \A i \in DOMAIN s : s[i].flag \notin {"o", "O"}
  /\ operators' = UmodeOperators(u, old, new)
  /\ invisible' = invisible + One("i" \in new \ old) - One("i" \in old \ new)
  /\ operlist' = IF IsAnOper(old) /\ ~IsAnOper(new) THEN operlist \ {u}
                 ELSE operlist
  /\ modes' = [modes EXCEPT ![u] = new]
  /\ off' = UmodeOff(old, new)
  /\ UNCHANGED <<present, noop>>

(* m_umode at the first o or O of a user behind a quarantined link: the    *)
(* user is exited with the flags that come before it already changed.      *)
UmodeKill(u, s) ==
  /\ u \in present \cap Quarantined
  /\ \E k \in DOMAIN s :
        /\ s[k].flag \in {"o", "O"}
        /\ \A i \in 1..k-1 : s[i].flag \notin {"o", "O"}
        /\ RemoveUser(u, UmodeString(u, SubSeq(s, 1, k - 1)))

Gains(m, ch) == ch.what = "+" /\ ch.flag \notin m
Loses(m, ch) == ch.what = "-" /\ ch.flag \in m

(* Whether u is in oper_fdlist after one character of do_svsmode.          *)
SvsListed(u, st, ch) ==
  CASE ch.flag = "O" /\ ch.what = "+" -> st.listed \/ u \in Local
    [] ch.flag = "o" /\ Gains(st.m, ch) -> st.listed \/ u \in Local
    [] ch.flag \in {"o", "O"} /\ Loses(st.m, ch) -> FALSE
    [] OTHER -> st.listed

(* What one character of do_svsmode adds to the count beyond what it       *)
(* should: +O takes the o of an operator and leaves the count, +o counts a *)
(* user who is hidden already, and H counts whoever is no local operator,  *)
(* global operator or not.  In one string `+Ho' these make up for one      *)
(* another.                                                                *)
SvsError(m, ch) ==
  CASE ch.flag = "O" /\ ch.what = "+" -> One(Counts(m))
    [] ch.flag = "o" /\ Gains(m, ch) -> One("H" \in m)
    [] ch.flag = "H" /\ Gains(m, ch) -> One("o" \in m) - One("O" \notin m)
    [] ch.flag = "H" /\ Loses(m, ch) -> One("O" \notin m) - One("o" \in m)
    [] OTHER -> 0

(* One character of do_svsmode.  H needs an operator, or an `o' anywhere   *)
(* in the string s.                                                        *)
SvsChar(u, st, ch, s) ==
  LET m == st.m
      refused == /\ ch = [what |-> "+", flag |-> "H"]
                 /\ "H" \notin m /\ ~IsAnOper(m)
                 /\ \A i \in DOMAIN s : s[i].flag # "o"
      gains == Gains(m, ch)
      loses == Loses(m, ch)
      base == CASE ch.flag = "O" /\ ch.what = "+" -> m \ {"o"}
                [] ch.flag = "o" /\ gains -> m \ {"O"}
                [] ch.flag = "o" /\ loses -> m \ {"H"}
                [] OTHER -> m
      ops == CASE ch.flag = "o" /\ gains -> 1
               [] ch.flag = "o" /\ loses /\ "H" \notin m -> -1
               [] ch.flag = "H" /\ gains /\ "O" \notin m -> -1
               [] ch.flag = "H" /\ loses /\ "O" \notin m -> 1
               [] OTHER -> 0
  IN  IF refused THEN st
      ELSE [m |-> Apply(base, ch), ops |-> st.ops + ops,
            listed |-> SvsListed(u, st, ch),
            err |-> st.err + SvsError(m, ch),
            inv |-> st.inv + IF ch.flag = "i" THEN One(gains) - One(loses)
                                              ELSE 0]

(* SVSMODE and SVS2MODE by a U-lined server.                               *)
SvsMode(u, s) ==
  LET st == FoldLeft(LAMBDA a, ch : SvsChar(u, a, ch, s),
                     [m |-> modes[u], ops |-> operators, inv |-> invisible,
                      listed |-> u \in operlist, err |-> 0], s)
  IN
  /\ u \in present
  /\ modes' = [modes EXCEPT ![u] = st.m]
  /\ operators' = Verify(st.ops, u, st.m)
  /\ invisible' = st.inv
  /\ operlist' = IF st.listed THEN operlist \cup {u} ELSE operlist \ {u}
  /\ off' = OpersOff(st.err # 0)
  /\ UNCHANGED <<present, noop>>

(* SVSO nick -: the operator loses everything.                             *)
SvsO(u) ==
  /\ u \in present \cap Local
  /\ operators' = IF Counts(modes[u]) THEN Verify(operators - 1, u, modes[u])
                  ELSE operators
  /\ modes' = [modes EXCEPT ![u] = @ \ {"o", "O", "H"}]
  /\ operlist' = operlist \ {u}
  /\ UNCHANGED <<present, invisible, noop, off>>

(* Counting off operator v in the walk of m_svsnoop, hidden or not; those  *)
(* in st.done have lost their modes already.                               *)
NoopOne(st, v) ==
  [ops |-> IF st.ops > 0 THEN st.ops - 1
           ELSE Cardinality({w \in present \ st.done : Counts(modes[w])}),
   done |-> st.done \cup {v}]

(* SVSNOOP +: every local operator loses everything.  It counts off the    *)
(* hidden ones too.                                                        *)
SvsNoopOn ==
  LET opers == {u \in present \cap Local : IsAnOper(modes[u])}
      locops == {u \in opers : "o" \notin modes[u]}
  IN
  /\ noop' = TRUE
  /\ \E walk \in SetToSeqs(opers \ locops) :
        operators' = FoldLeft(NoopOne, [ops |-> operators, done |-> {}],
                              walk).ops
  /\ operlist' = operlist \ opers
  /\ modes' = [u \in User |-> IF u \in opers THEN modes[u] \ {"o", "O", "H"}
                                             ELSE modes[u]]
  /\ off' = OpersOff(\E u \in opers \ locops : "H" \in modes[u])
  /\ UNCHANGED <<present, invisible>>

SvsNoopOff ==
  /\ noop' = FALSE
  /\ UNCHANGED <<present, modes, operators, invisible, operlist, off>>

(* A behaviour is followed to its first wrong step: that is a bound.       *)
Next ==
  /\ off = {}
  /\ \/ \E u \in User :
            \/ \E m \in {{}, {"i"}} : (m # {} => u \in Local) /\ Register(u, m)
            \/ Exit(u)
            \/ \E glob \in BOOLEAN, extra \in SUBSET OperFlags : OperUp(u, glob, extra)
            \/ \E s \in Strings(UmodeFlags) : Umode(u, s) \/ UmodeKill(u, s)
            \/ \E s \in Strings(SvsFlags) : SvsMode(u, s)
            \/ SvsO(u)
     \/ SvsNoopOn \/ SvsNoopOff

Spec == Init /\ [][Next]_vars

(***************************************************************************)
(* Properties.                                                             *)
(***************************************************************************)
TypeOK ==
  /\ present \subseteq User
  /\ modes \in [User -> SUBSET {"o", "O", "H", "i"}]
  /\ operators \in Int /\ invisible \in Int
  /\ operlist \subseteq Local /\ noop \in BOOLEAN
  /\ off \subseteq {"operators", "invisible"}

(* IRCstats.operators is the number of operators who are not hidden, what  *)
(* verify_opercount would count, unless the last step was one of those     *)
(* that the code counts wrongly (off): -o of a hidden operator by MODE or  *)
(* +o of a hidden user by a server's MODE (m_mode.c:2462-2476, whose       *)
(* adjustments do not ask whether the user was hidden), SVSMODE +O of a    *)
(* global operator, +o of a hidden user and +H or -H of a user who is not  *)
(* +o but has no +O either, or has both (m_svsmode.c:455-518), SVSNOOP of  *)
(* a hidden operator (m_svsnoop.c:103-107), and the KILL of a quarantined  *)
(* user in mid string, after that string's H (m_mode.c:2239-2243).         *)
OpersExact == "operators" \notin off => operators = Counted

(* IRCstats.invisible, which LUSERS subtracts from the users to show the   *)
(* visible ones, is the number of users with +i, unless the last step was  *)
(* that KILL in mid string, after the string's +i or -i.                   *)
InvisibleExact ==
  "invisible" \notin off =>
    invisible = Cardinality({u \in present : "i" \in modes[u]})

(* oper_fdlist holds exactly the local operators, after the wrong steps    *)
(* too: nobody else is sent an operator notice and no operator misses one; *)
(* exit_client reports a [BUG] otherwise.                                  *)
OperListExact ==
  operlist = {u \in present \cap Local : IsAnOper(modes[u])}

(* The books are right together, after any sequence of OPER, MODE, SVSMODE *)
(* and SVSNOOP, and of users that come with modes and go with them.        *)
OpersCounted == OpersExact /\ OperListExact /\ InvisibleExact
=============================================================================
