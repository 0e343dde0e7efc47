CONSTANTS
  home = home
  away = away
  client1 = client1
  client2 = client2
  client3 = client3
  chan1 = chan1
  url1 = url1
  url2 = url2
  file1 = file1
  Agent = {"agent1", "agent2"}
  PingCookie = {TRUE, FALSE}
  MaxConns = 2
  MaxSessions = 2
  Conn = {client1, client2, client3}
  Addr = {home, away}
  Ip <- From
  Hash <- OneBucket
  IdentCheck = {TRUE, FALSE}
  DNS_MAX_ENTRIES = 1
  TTL = 0
  MaxTime = 1
  MaxRequests = 2
  MAXCONNECTIONS = 8
  Queue = {"sendQ", "recvQ"}
  Byte = {"a", "lf"}
  EndOfLine = "lf"
  DBUFSIZ = 2
  Pool = 2
  MaxPut = 3
  MaxGet = 3
  Url = {url1, url2}
  Local = {file1}
  Wanted <- Directives
  MaxVersion = 2
  Long = {1}
  Channel = {chan1}
  Kind <- Kinds
  Setting <- Settings
  OnJoin <- JoinPlain
  MaxUsers = 2
  MaxTimers = 2
  NoFlood = NoFlood
SPECIFICATION FlowsSpec
INVARIANTS WaitsSound RegistrationSound ModulesSound IncludesSound
PROPERTIES BytesSpec FloodModesSound
CHECK_DEADLOCK FALSE
