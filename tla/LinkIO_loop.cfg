CONSTANTS
  Conn = {c1}
  Builds = {"poll", "select"}
  Limit <- MCLimit
  Step = 2
  PollLimit = 2
  FloodLimit = 3
  MaxRead = 3
  MaxLag = 2
  Penalty = {0, 1, 2}
  Ping = 2
  Connect = 2
  MaxUnknown = 3
  Gap = 1
  MaxDelay = 1
SPECIFICATION FairSpec
INVARIANTS BlockedTried NoLineStuck GoneInTime SelectServes
PROPERTIES TimeoutIsSilence BlockedEnds
