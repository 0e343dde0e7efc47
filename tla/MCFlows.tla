------------------------------- MODULE MCFlows -------------------------------
(***************************************************************************)
(* What a server does for one connection or channel at a time, checked by  *)
(* TLC: registration (Registration), look-ups and ident (ClientDns), byte  *)
(* queues (DBuf) and flood modes (ChanFlood), and a REHASH: its modules    *)
(* (Modules) and its remote includes (Includes).  The components have no   *)
(* variable in common: a behaviour is one of any of them, the others       *)
(* staying as they are at the start, and what is said of one is looked at  *)
(* in its own behaviours.                                                  *)
(***************************************************************************)
EXTENDS Registration, ClientDns, DBuf, ChanFlood, Includes

CONSTANTS home, away,             \* addresses, both in one bucket
          client1, client2, client3,  \* clients, the first two from home
          chan1,
          url1, url2, file1         \* includes, two of them remote

From == [c \in {client1, client2, client3} |-> IF c = client3 THEN away ELSE home]
OneBucket == [a \in {home, away} |-> 0]

VARIABLES part,
          srv, phase, conf, fault, faults, was, meant, cmeant

(* +f with the limit 1 on some kinds, and 1 tick to keep the mode.         *)
Kinds == {"join", "knock", "msg", "ctcp", "nick"}
Default == [join |-> "i", knock |-> "K", msg |-> "m", ctcp |-> "m", nick |-> "N"]
F(limited, per) ==
  [per |-> per, a |-> Default, l |-> [k \in Kinds |-> IF k \in limited THEN 1 ELSE 0],
   r |-> [k \in Kinds |-> IF k \in limited THEN 1 ELSE 0]]
Settings == {F({"join", "knock"}, 2), F({"join"}, 1)}
JoinPlain == [mode |-> {}, f |-> NoFlood]

M == INSTANCE Modules WITH
  Base <- {<<"m_tkl", "cloak">>, <<"commands", "mycloak">>, <<"m_tkl", "commands", "cloak">>},
  Optional <- <<"nocolorumode", "m_privdeaf", "m_issecure">>, Slots <- 3, MaxFaults <- 1

Directives == {<<file1>>, <<url1, file1>>, <<url1, url2>>, <<url1, file1, url1>>}

ASSUME FlowsAssumption ==
  /\ RegistrationAssumption /\ ClientDnsAssumption
  /\ DBufAssumption /\ ChanFloodAssumption /\ IncludesAssumption
  /\ M!ModulesAssumption

waits == dnsVars
buffers == bufVars
floods == floodVars
modules == <<srv, phase, conf, fault, faults, was, meant, cmeant>>
includes == includesVars

FlowsInit ==
  /\ part \in {"registration", "waits", "buffers", "floods", "modules", "includes"}
  /\ Init /\ DnsInit /\ BufInit /\ FloodInit
  /\ IF part = "modules" THEN M!Init ELSE M!InitWith(<<"m_tkl", "cloak">>)
  /\ IF part = "includes" THEN IncludesInit ELSE IncludesInitWith(<<file1>>)

Flood(A) == part = "floods" /\ A /\ UNCHANGED <<part, vars, waits, buffers, modules, includes>>

FlowsNext ==
  \/ part = "registration" /\ Next /\ UNCHANGED <<part, waits, buffers, floods, modules, includes>>
  \/ part = "waits" /\ DnsNext /\ UNCHANGED <<part, vars, buffers, floods, modules, includes>>
  \/ part = "buffers" /\ BufNext /\ UNCHANGED <<part, vars, waits, floods, modules, includes>>
  \/ Flood(FloodNext)
  \/ part = "modules" /\ M!Next /\ UNCHANGED <<part, vars, waits, buffers, floods, includes>>
  \/ part = "includes" /\ IncludesNext /\ UNCHANGED <<part, vars, waits, buffers, floods, modules>>

(* Fairness as in ChanFlood.                                               *)
FlowsSpec ==
  /\ FlowsInit
  /\ [][FlowsNext]_<<part, vars, waits, buffers, floods, modules, includes>>
  /\ WF_floods(Flood(FloodTick)) /\ WF_floods(Flood(ModefEvent))

(* Modules: a REHASH gives the modules of its configuration, or changes    *)
(* nothing, whatever fails on the way.                                     *)
ModulesSound == part = "modules" => M!ModulesSound
=============================================================================
