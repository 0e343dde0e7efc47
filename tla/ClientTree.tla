---------------------------- MODULE ClientTree ----------------------------
(***************************************************************************)
(* What the client list of a server promises to the rest of the program:   *)
(* a tree below this server.  A struct joins below one that is present and *)
(* never moves; it is freed only when nothing is left below it, so that no *)
(* handler ever follows srvptr to a struct that is gone.                   *)
(***************************************************************************)
CONSTANTS Client, Me, Nil

VARIABLES nodes,   \* the structs that exist
          up       \* the server each of them is on

Init == nodes = {} /\ up = [c \in Client |-> Nil]

Join(c, s) ==
  /\ c \notin nodes /\ s \in nodes \cup {Me}
  /\ nodes' = nodes \cup {c}
  /\ up' = [up EXCEPT ![c] = s]

Free(c) ==
  /\ c \in nodes /\ \A d \in nodes : up[d] # c
  /\ nodes' = nodes \ {c}
  /\ up' = [up EXCEPT ![c] = Nil]

Next == \E c \in Client : Free(c) \/ \E s \in Client \cup {Me} : Join(c, s)

Spec == Init /\ [][Next]_<<nodes, up>>
===========================================================================
