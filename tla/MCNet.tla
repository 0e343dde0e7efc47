-------------------------------- MODULE MCNet --------------------------------
(***************************************************************************)
(* What servers tell each other, checked by TLC: how three that connect in *)
(* a circle link (ServerLink), the bans of two (Tkl), and commands and     *)
(* messages passed on along three in a line (Orders, Delivery).  The       *)
(* components have no variable in common: a behaviour is one of any of     *)
(* them, the others staying as they are at the start, and what is said of  *)
(* one is looked at in its own behaviours.                                 *)
(***************************************************************************)
EXTENDS ServerLink, Tkl

CONSTANTS a, b, c, gline, shun, wide, u, west, mid, east
Circle == {<<a, b>>, <<b, c>>, <<c, a>>}

(* A G-line and two shuns that match one client.                           *)
OnePair == {{a, b}}
SetBy == [s \in {a, b} |-> IF s = a THEN 2 ELSE 1]
AtA == [v \in {u} |-> a]
AllHit == [v \in {u} |-> {gline, shun, wide}]

VARIABLES part,
          scene, sendanyways, way, said, heard, carried,
          family, linked, sent, field, orders, done, replies, splits, left, mixed

(* Three SILENCE commands: one that adds, a message, one that removes.     *)
O == INSTANCE Orders WITH
  West <- west, Mid <- mid, East <- east, MaxSplits <- 1,
  MaxOrders <- [home |-> 1, host |-> 2, ident |-> 2, name |-> 2, swhois |-> 2, sdesc |-> 2, away |-> 2,
                files |-> 3, names |-> 2, motd |-> 2, clock |-> 2, tkl |-> 2, silence |-> 3,
                say |-> 1, servers |-> 1, ask |-> 1]

D == INSTANCE Delivery WITH
  West <- west, Mid <- mid, East <- east,
  Families <- {"ranks", "modes", "ears", "users", "aliases", "masks", "wallops", "opnotice", "common", "notices", "joins"}

ASSUME NetAssumption == TklAssumption

links == vars
bans == tklVars

commands == <<family, linked, sent, field, orders, done, replies, splits, left, mixed>>

messages == <<scene, sendanyways, way, said, heard, carried>>

NetInit ==
  /\ part \in {"links", "bans", "orders", "messages"}
  /\ Init /\ TklInit
  /\ O!Init /\ (part = "orders" \/ family = "home")
  /\ D!Init /\ (part = "messages" \/ (scene.family = "masks" /\ scene.has["a"] = {}))
(* The circle looks the same from each of the three: a connects first.     *)
AFirst == connects = 0 => connects' = 0 \/ node'[a].end[<<a, b>>].st = "connecting"

(* The two shuns are alike: wide is not the first ban.                     *)
ShunFirst == work.adds = 0 => \A s \in Ircd : tklines'[s][wide] = None

NetNext ==
  \/ part = "links" /\ Next /\ AFirst /\ UNCHANGED <<part, bans, commands, messages>>
  \/ part = "bans" /\ TklNext /\ ShunFirst /\ UNCHANGED <<part, links, commands, messages>>
  \/ part = "orders" /\ O!Next /\ UNCHANGED <<part, links, bans, messages>>
  \/ part = "messages" /\ D!Next /\ UNCHANGED <<part, links, bans, commands>>

(* The ircds go on working while nothing else breaks.                      *)
WorksAlone == part = "links" /\ troubles = 0 /\ Works /\ UNCHANGED <<part, bans, commands, messages>>
NetSpec == NetInit /\ [][NetNext]_<<part, links, bans, commands, messages>> /\ WF_links(WorksAlone)

(* ServerLink: connections that cancel each other, and their SQUITs, come  *)
(* to an end (m_server, m_squit).                                          *)
CircleSettles == [](part = "links" /\ troubles = 0) => LinksSettle

(* Tkl, Orders: at rest all servers have the same bans, and commands have  *)
(* arrived where they are due, once.                                       *)
AgreedAtRest ==
  /\ part = "bans" => TklAgreeAtRest
  /\ part = "orders" => O!OrdersSound

(* Delivery: who is to hear a message hears it, once (m_message, send.c).  *)
HeardRight == part = "messages" => D!HeardRight
=============================================================================
