CONSTANTS
  conn1 = conn1
  conn2 = conn2
  dns1 = dns1
  dns2 = dns2
  default = default
  other = other
  spare = spare
  ann = ann
  bob = bob
  cal = cal
  local1 = local1
  far1 = far1
  far2 = far2
  User = {ann, bob}
  Local = {ann, bob}
  Oper = {ann}
  ULine = {ann}
  Insecure = {}
  Channel = {"#a", "#b", "#c"}
  Flag = {}
  OpFlag = {}
  JoinLevel = {}
  MaxChannels = 2
  Nil = Nil
  Name = {"hub"}
  Mem = {1, 2}
  Class = {default, other, spare}
  DefaultClass = default
  MaxClients = 2
  Conn = {conn1, conn2}
  Req = {dns1, dns2}
  NULL = NULL
  Client = {ann, bob}
  Nick = {"a", "b"}
  MaxWatch = 2
  NoNick = NoNick
  MaxEntries = 2
  Owner = {ann, bob, cal}
  WasNick = {"a", "b"}
  HistoryLength = 3
  TimeLimit = 1
  DccUser = {ann, bob, cal}
  MaxDccAllow = 2
  None = None
SPECIFICATION ListsSpec
INVARIANTS BlocksHold WatchersKnow UsersTraced ServerSound ShownRight InvitesAgree
CHECK_DEADLOCK FALSE
