CONSTANTS
  s1 = s1
  s2 = s2
  s3 = s3
  u1 = u1
  u2 = u2
  Server = {s1, s2, s3}
  Edge <- LineEdge
  User = {u1, u2}
  Home <- LineHome
  Host <- Differ
  Nick = {"a", "b"}
  Time = {1, 2}
  Does = {"register", "change", "quit", "kill", "svsnick"}
  MaxOps = 1
  MaxSplits = 1
  Nil = Nil
SPECIFICATION Spec
CHECK_DEADLOCK FALSE
INVARIANTS NicksSound
PROPERTY Settles
