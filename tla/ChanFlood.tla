----------------------------- MODULE ChanFlood -----------------------------
(***************************************************************************)
(* Channel mode +f on one server: channel.c, m_mode.c, m_join.c, m_knock.c,*)
(* m_message.c, m_nick.c and m_sjoin.c.                                    *)
(*                                                                         *)
(* A channel with +f counts joins, messages, knocks, ...  A counter that   *)
(* passes its limit within the period sets a mode (+i, +m, +K, ...), and a *)
(* timer in removefld_list takes the mode back after a while.  MODE, SJOIN *)
(* and the end of the channel change the modes, the settings and the       *)
(* timers meanwhile.                                                       *)
(***************************************************************************)
EXTENDS Lists, SequencesExt, FiniteSets

CONSTANTS Channel,
          Kind,     \* kinds of floods: "join", "knock", "msg", "ctcp", "nick"
          Setting,  \* the values of +f that are set: [per, l, a, r]
          OnJoin,   \* set::modes-on-join: [mode, f], with f a setting or NoFlood
          MaxUsers, \* bound: users of a channel
          MaxTimers, \* bound: timers that run at once
          NoFlood   \* chptr->mode.floodprot == NULL

VARIABLES chan,            \* chan[c]: chptr->users, mode.mode and mode.floodprot
          removefld_list,  \* the timers [chptr, m, left]
          auto,            \* history: <<c, m>> whose mode a flood set, to be taken back
          stray            \* history: <<c, m>> with a timer that outlived its mode or +f
floodVars == <<chan, removefld_list, auto, stray>>

(* The modes a kind of flood can set, the mode's character code, and the   *)
(* modes that matter here.                                                 *)
ModesOf == [join |-> {"i", "R"}, knock |-> {"K"}, msg |-> {"m", "M"},
            ctcp |-> {"C", "m", "M"}, nick |-> {"N"}]
Code == [C |-> 67, K |-> 75, M |-> 77, N |-> 78, R |-> 82, i |-> 105, m |-> 109]
Needs(m) == IF m = "K" THEN {"K", "i"} ELSE {m}
Mode == UNION {UNION {Needs(s.a[k]) : k \in {k \in Kind : s.l[k] > 0}} : s \in Setting}

(* The counters that MODE -m sets to 0.                                    *)
Resets == [C |-> {"ctcp"}, N |-> {"nick"}, m |-> {"msg", "ctcp"}, M |-> {"msg", "ctcp"},
           K |-> {"knock"}, i |-> {"join"}, R |-> {"join"}]

(* What is stored for +f.                                                  *)
FloodProt == [per : Nat, l : [Kind -> Nat], a : [Kind -> DOMAIN Code], r : [Kind -> Nat],
              c : [Kind -> Nat], age : [Kind -> Nat], timer_flags : SUBSET DOMAIN Code]

ChanFloodAssumption ==
  /\ Kind \subseteq DOMAIN ModesOf
  /\ MaxUsers \in Nat /\ MaxTimers \in Nat
  /\ Setting # {}
  /\ \A s \in Setting : /\ s \in [per : Nat \ {0}, l : [Kind -> Nat], r : [Kind -> Nat],
                                 a : [Kind -> DOMAIN Code]]
                        /\ \A k \in Kind : s.a[k] \in ModesOf[k]
  /\ OnJoin.mode \subseteq Mode /\ OnJoin.f \in Setting \cup {NoFlood}
  /\ NoFlood \notin FloodProt

(* A setting as it is stored: counters 0, starts long ago, no timer_flags. *)
NewProt(s) == [per |-> s.per, l |-> s.l, a |-> s.a, r |-> s.r,
               c |-> [k \in Kind |-> 0], age |-> [k \in Kind |-> s.per],
               timer_flags |-> {}]
FreshOr(s) == IF s = NoFlood THEN NoFlood ELSE NewProt(s)

NoChannel == [users |-> 0, mode |-> {}, f |-> NoFlood]

Timers == {removefld_list[i] : i \in 1..Len(removefld_list)}

FloodTypeOK ==
  /\ \A c \in Channel :
       /\ chan[c].users \in 0..MaxUsers /\ chan[c].mode \subseteq Mode
       /\ chan[c].f # NoFlood =>
            /\ chan[c].f.timer_flags \subseteq Mode
            /\ \A k \in Kind : /\ chan[c].f.c[k] \in 0..chan[c].f.l[k] + 1
                               /\ chan[c].f.age[k] \in 0..chan[c].f.per
  /\ \A t \in Timers : t.chptr \in Channel /\ t.m \in Mode /\ t.left \in Nat
  /\ auto \cup stray \subseteq Channel \X Mode

FloodInit ==
  /\ chan = [c \in Channel |-> NoChannel]
  /\ removefld_list = <<>>
  /\ auto = {} /\ stray = {}

----------------------------------------------------------------------------
(* The timers.                                                             *)

IsFor(t, c, m) == t.chptr = c /\ t.m = m

(* chanfloodtimer_find: the first one.                                     *)
TimerOf(list, c, m) == SelectInSeq(list, LAMBDA t : IsFor(t, c, m))

(* chanfloodtimer_add: the flag says whether to look for an old timer.     *)
TimerAdd(list, c, m, flagged, when) ==
  LET old == IF flagged THEN TimerOf(list, c, m) ELSE 0
      new == [chptr |-> c, m |-> m, left |-> when]
  IN IF old # 0 THEN [list EXCEPT ![old] = new] ELSE <<new>> \o list

(* chanfloodtimer_del, of a channel with +f.                               *)
TimerDel(list, c, m, flagged) ==
  LET old == TimerOf(list, c, m)
  IN IF flagged /\ old # 0 THEN RemoveAt(list, old) ELSE list
FlagsAfterDel(list, c, m, flags) ==
  IF TimerOf(list, c, m) # 0 THEN flags \ {m} ELSE flags

(* chanfloodtimer_stopchantimers.                                          *)
StopChanTimers(list, c) == Keep(list, {t \in Range(list) : t.chptr # c})

----------------------------------------------------------------------------
(* The counters.                                                           *)

(* do_chanflood: count one event; the counter stands still above the       *)
(* limit, where every further event is a flood as well.                    *)
Restricted(f, k) == f # NoFlood /\ f.l[k] > 0
Counted(f, k) ==
  IF ~Restricted(f, k) THEN f
  ELSE IF f.age[k] >= f.per
       THEN [f EXCEPT !.age[k] = 0, !.c[k] = 1]
       ELSE [f EXCEPT !.c[k] = IF @ <= f.l[k] THEN @ + 1 ELSE @]
IsFlood(f, k) == /\ Restricted(f, k) /\ f.age[k] < f.per
                 /\ f.c[k] >= f.l[k]

Action_NoTimerIfFlagged(s, c, k) ==   \* "already exists", without a look
  LET m == s.x.f.a[k]
      timed == s.x.f.r[k] > 0 /\ m \notin s.x.f.timer_flags
  IN IF m \in s.x.mode THEN s
     ELSE [x |-> [s.x EXCEPT !.mode = @ \cup {m},
                             !.f.timer_flags = IF timed THEN @ \cup {m} ELSE @],
           list |-> IF timed THEN TimerAdd(s.list, c, m, FALSE, s.x.f.r[k]) ELSE s.list,
           auto |-> IF s.x.f.r[k] > 0 THEN s.auto \cup {<<c, m>>} ELSE s.auto]

(* do_chanflood_action: an event of kind k on channel c made the counter   *)
(* pass the limit; what s holds of the channel, the timers and auto.       *)
Action(s, c, k) ==
  LET m == s.x.f.a[k]
      flagged == m \in s.x.f.timer_flags
      timed == s.x.f.r[k] > 0
  IN IF m \in s.x.mode THEN s
     ELSE [x |-> [s.x EXCEPT !.mode = @ \cup {m},
                             !.f.timer_flags = IF timed THEN @ \cup {m} ELSE @],
           list |-> IF timed THEN TimerAdd(s.list, c, m, flagged, s.x.f.r[k]) ELSE s.list,
           auto |-> IF timed THEN s.auto \cup {<<c, m>>} ELSE s.auto]

(* Count an event; only the server of its user (mine) acts on a flood.     *)
Event(s, c, k, mine) ==
  LET t == [s EXCEPT !.x.f = Counted(@, k)]
  IN IF IsFlood(s.x.f, k) /\ mine THEN Action(t, c, k) ELSE t

(* Channel c as it is, with struct x.                                      *)
AsIs(x) == [x |-> x, list |-> removefld_list, auto |-> auto]

SetTo(c, s) ==
  /\ Len(s.list) <= MaxTimers
  /\ chan' = [chan EXCEPT ![c] = s.x]
  /\ removefld_list' = s.list
  /\ auto' = s.auto

----------------------------------------------------------------------------
(* What users do.                                                          *)

(* join_channel: the first local user of a channel brings modes-on-join.   *)
(* Joins by a server that is not synced and by services are not counted.   *)
Join(c, mine, counted) ==
  LET x == IF chan[c].users = 0 /\ mine
           THEN [users |-> 1, mode |-> OnJoin.mode, f |-> FreshOr(OnJoin.f)]
           ELSE [chan[c] EXCEPT !.users = @ + 1]
  IN /\ chan[c].users < MaxUsers
     /\ SetTo(c, IF counted THEN Event(AsIs(x), c, "join", mine) ELSE AsIs(x))
     /\ UNCHANGED stray

(* m_knock: from outside, of a channel with +i and without +K.             *)
Knock(c, mine) ==
  /\ chan[c].users > 0 /\ "i" \in chan[c].mode /\ "K" \notin chan[c].mode
  /\ SetTo(c, Event(AsIs(chan[c]), c, "knock", mine))
  /\ UNCHANGED stray

(* m_message: a line counts as a message, a CTCP as both.                  *)
ChannelMessage(c, mine, ctcp) ==
  LET s == Event(AsIs(chan[c]), c, "msg", mine)
  IN /\ chan[c].users > 0
     /\ SetTo(c, IF ctcp THEN Event(s, c, "ctcp", mine) ELSE s)
     /\ UNCHANGED stray

(* m_nick: a member without status changes the nick.                       *)
NickChange(c, mine) ==
  /\ chan[c].users > 0
  /\ SetTo(c, Event(AsIs(chan[c]), c, "nick", mine))
  /\ UNCHANGED stray

(* sub1_from_channel: the last member takes the channel along.             *)
LeaveChannel(c) ==
  LET last == chan[c].users = 1
  IN /\ chan[c].users > 0
     /\ chan' = [chan EXCEPT ![c] = IF last THEN NoChannel ELSE [chan[c] EXCEPT !.users = @ - 1]]
     /\ removefld_list' = IF last THEN StopChanTimers(removefld_list, c) ELSE removefld_list
     /\ auto' = IF last THEN {p \in auto : p[1] # c} ELSE auto
     /\ stray' = IF last THEN {p \in stray : p[1] # c} ELSE stray

----------------------------------------------------------------------------
(* What MODE and SJOIN do.                                                 *)

(* do_mode_char: +m.  K needs +i.                                          *)
ModeAdd(c, m) ==
  /\ chan[c].users > 0
  /\ m = "K" => "i" \in chan[c].mode
  /\ chan' = [chan EXCEPT ![c].mode = @ \cup {m}]
  /\ UNCHANGED <<removefld_list, auto, stray>>

(* -m resets its counters and deletes its timer, whether or not m is set;  *)
(* -i takes +K along, but not the timer of +K.                             *)
Along(x, m) == IF m = "i" THEN {"K"} \cap x.mode ELSE {}
ResetBy(f, m, list, c) ==
  [f EXCEPT !.c = [k \in Kind |-> IF k \in Resets[m] THEN 0 ELSE @[k]],
            !.timer_flags = FlagsAfterDel(list, c, m, @)]
ModeDel(c, m) ==
  LET x == chan[c]
      flagged == x.f # NoFlood /\ m \in x.f.timer_flags
      taken == {c} \X ({m} \cup Along(x, m))
      list == TimerDel(removefld_list, c, m, flagged)
  IN /\ x.users > 0
     /\ chan' = [chan EXCEPT ![c] =
                   [x EXCEPT !.mode = @ \ ({m} \cup Along(x, m)),
                             !.f = IF @ = NoFlood THEN @ ELSE ResetBy(@, m, removefld_list, c)]]
     /\ removefld_list' = list
     /\ auto' = auto \ taken
     /\ stray' = stray \cup {p \in {c} \X Along(x, m) : TimerOf(list, c, p[2]) # 0}

(* +f: the new setting replaces the counters and timer_flags as well, and  *)
(* leaves the timers that run without their flags.                         *)
Running(c) == {<<t.chptr, t.m>> : t \in {t \in Timers : t.chptr = c}}
SetF(c, s) ==
  /\ chan[c].users > 0 /\ chan[c].f # NewProt(s)
  /\ chan' = [chan EXCEPT ![c].f = NewProt(s)]
  /\ stray' = stray \cup Running(c)
  /\ UNCHANGED <<removefld_list, auto>>

(* -f stops the timers; the modes that floods have set stay.               *)
DelF(c) ==
  /\ chan[c].users > 0 /\ chan[c].f # NoFlood
  /\ chan' = [chan EXCEPT ![c].f = NoFlood]
  /\ removefld_list' = StopChanTimers(removefld_list, c)
  /\ auto' = {p \in auto : p[1] # c}
  /\ stray' = {p \in stray : p[1] # c}

(* m_sjoin brings a user.  An older channel takes our modes off, as -modes *)
(* and -f do; one as old merges +modes and the larger of both settings,    *)
(* if anything but the periods differs.                                    *)
Larger(a, b) == IF a >= b THEN a ELSE b
LaterMode(l, x, y) ==   \* MAX of the action characters, 0 where there is no limit
  IF l[1] = 0 THEN y ELSE IF l[2] = 0 THEN x ELSE IF Code[x] >= Code[y] THEN x ELSE y
Merged(f, s) ==
  IF s = NoFlood \/ f = FreshOr(s) THEN f
  ELSE IF f = NoFlood \/ (f.l = s.l /\ f.a = s.a /\ f.r = s.r) THEN NewProt(s)
  ELSE NewProt([per |-> Larger(s.per, f.per),
                l |-> [k \in Kind |-> Larger(s.l[k], f.l[k])],
                r |-> [k \in Kind |-> Larger(s.r[k], f.r[k])],
                a |-> [k \in Kind |-> LaterMode(<<s.l[k], f.l[k]>>, s.a[k], f.a[k])]])
SJoin(c, removeours, theirs, counted) ==
  LET x == [chan[c] EXCEPT !.users = @ + 1,
                           !.mode = IF removeours THEN {} ELSE @,
                           !.f = IF removeours THEN NoFlood ELSE @]
      y == IF counted THEN [x EXCEPT !.f = Counted(@, "join")] ELSE x
      new == {m \in theirs.mode : m = "K" => "i" \in x.mode \cup theirs.mode}
      merged == Merged(y.f, theirs.f)
      kept == IF removeours THEN {p \in stray : p[1] # c} ELSE stray
      list == IF removeours THEN StopChanTimers(removefld_list, c) ELSE removefld_list
  IN /\ chan[c].users < MaxUsers
     /\ chan' = [chan EXCEPT ![c] = [y EXCEPT !.mode = @ \cup new, !.f = merged]]
     /\ removefld_list' = list
     /\ auto' = IF removeours THEN {p \in auto : p[1] # c} ELSE auto
     /\ stray' = IF merged = y.f \/ removeours THEN kept ELSE kept \cup Running(c)

----------------------------------------------------------------------------
(* Time.                                                                   *)

(* TStime() goes on: starts of periods get older, timers come closer.      *)
Older(f) == [f EXCEPT !.age = [k \in Kind |-> IF @[k] < f.per THEN @[k] + 1 ELSE @[k]]]
FloodTick ==
  /\ chan' = [c \in Channel |->
               IF chan[c].f = NoFlood THEN chan[c] ELSE [chan[c] EXCEPT !.f = Older(@)]]
  /\ removefld_list' = [i \in DOMAIN removefld_list |->
                         [removefld_list[i] EXCEPT !.left = IF @ = 0 THEN 0 ELSE @ - 1]]
  /\ UNCHANGED <<auto, stray>>

(* modef_event, every 10 seconds: takes the modes back whose time has come.*)
Due == {<<t.chptr, t.m>> : t \in {t \in Timers : t.left = 0}}
ModefEvent ==
  LET rest == Keep(removefld_list, {t \in Timers : t.left > 0})
  IN /\ Due # {}
     /\ chan' = [c \in Channel |-> [chan[c] EXCEPT !.mode = {m \in @ : <<c, m>> \notin Due}]]
     /\ removefld_list' = rest
     /\ auto' = auto \ Due
     /\ stray' = stray \cap {<<rest[i].chptr, rest[i].m>> : i \in DOMAIN rest}

----------------------------------------------------------------------------
Users == \E c \in Channel, mine \in BOOLEAN, b \in BOOLEAN :
  \/ "join" \in Kind /\ Join(c, mine, b)
  \/ "knock" \in Kind /\ Knock(c, mine)
  \/ {"msg", "ctcp"} \subseteq Kind /\ ChannelMessage(c, mine, b)
  \/ "nick" \in Kind /\ NickChange(c, mine)
  \/ LeaveChannel(c)
Modes == \E c \in Channel :
  \/ \E m \in Mode : ModeAdd(c, m) \/ ModeDel(c, m)
  \/ \E s \in Setting : SetF(c, s)
  \/ DelF(c)
  \/ \E removeours \in BOOLEAN, counted \in {FALSE, "join" \in Kind},
        m \in SUBSET Mode, s \in Setting \cup {NoFlood} :
       SJoin(c, removeours, [mode |-> m, f |-> s], counted)

FloodNext == Users \/ Modes \/ FloodTick \/ ModefEvent

(* The clock goes on, and the event list is run on every pass of the loop. *)
FloodSpec ==
  FloodInit /\ [][FloodNext]_floodVars /\ WF_floodVars(FloodTick) /\ WF_floodVars(ModefEvent)

----------------------------------------------------------------------------
(* A timer belongs to a channel that exists and has +f: modef_event writes *)
(* to the channel and chanfloodtimer_del reads its settings unasked.       *)
TimersLive == \A t \in Timers : chan[t.chptr].users > 0 /\ chan[t.chptr].f # NoFlood

(* A mode that a flood set and nobody touched still has its timer, also    *)
(* when +f was changed or merged meanwhile.                                *)
AutoHasTimer == \A p \in auto : p[2] \in chan[p[1]].mode /\ TimerOf(removefld_list, p[1], p[2]) # 0

(* modef_event takes back only what a flood set: a mode that somebody set  *)
(* by hand stays, unless a timer was left behind by a new +f or by +K that *)
(* went with -i.                                                           *)
OnlyFloodModesExpire ==
  [][\A c \in Channel : \A m \in chan[c].mode \ chan'[c].mode :
       removefld_list' # removefld_list /\ <<c, m>> \in Due /\ ModefEvent
         => <<c, m>> \in auto \cup stray]_floodVars

(* What a flood sets goes away again.                                      *)
FloodModeEnds == \A c \in Channel, m \in Mode : <<c, m>> \in auto ~> <<c, m>> \notin auto

(* A timer does what it is for, all of it and no more.                     *)
FloodModesSound ==
  [](TimersLive /\ AutoHasTimer) /\ OnlyFloodModesExpire /\ FloodModeEnds

(* chanfloodtimer_add: "This function takes care of overwriting of any     *)
(* previous timer for the same modechar."                                  *)
OneTimer == \A i, j \in DOMAIN removefld_list :
  IsFor(removefld_list[i], removefld_list[j].chptr, removefld_list[j].m) => i = j
============================================================================
