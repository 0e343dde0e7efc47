CONSTANTS
  s1 = s1
  s2 = s2
  s3 = s3
  u1 = u1
  u2 = u2
  Server = {s1, s2, s3}
  Edge <- LineEdge
  User = {u1, u2}
  Home <- LineHome
  Time = {1, 2}
  Sets <- Some
  Takes <- Held
  Kicks = TRUE
  ModesOnJoin <- Topic
  MaxOps = 1
  MaxSplits = 1
SPECIFICATION NetSpec
CHECK_DEADLOCK FALSE
INVARIANTS MergesSound
PROPERTY MergesEnd
