CONSTANTS
  User = {u1, u2, r}
  Local = {u1, u2}
  Oper = {u1}
  ULine = {r}
  Insecure = {u1, u2}
  Channel = {c1, c2}
  Flag = {"o"}
  OpFlag = {"o"}
  JoinLevel = {"o"}
  MaxChannels = 1
  Nil = Nil
  self = "u1"
  peer = "u2"
  letterbound = 3
  parambound = 2
SPECIFICATION RoomsSpec
INVARIANTS MembersAgree CountersExact InviteUsedUp NoDangling LinesSound
PROPERTY QuitEnds
