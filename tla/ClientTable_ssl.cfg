CONSTANTS
  Client = {c1, c2, c3}
  Listener = {l1, l2}
  SSLListener = {l2}
  Me = Me
  Nil = Nil
  UseSSL = TRUE
SPECIFICATION Spec
INVARIANT ListenerExact
PROPERTY ExitEnds
