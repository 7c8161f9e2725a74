SPECIFICATION FairSpec
CONSTANTS
  w1 = w1
  w2 = w2
  c1 = c1
  c2 = c2
  Writes = {w1, w2}
  Kind <- InOrderKinds
  Part <- PairParts
  Scheduler = Scheduler
  Requests = {c1}
  KillSwitch = FALSE
PROPERTIES
  InOrderWritesReachClients
  PollsEnd
