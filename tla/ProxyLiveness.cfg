SPECIFICATION FairSpec
CONSTANTS
  w1 = w1
  w2 = w2
  Writes = {w1, w2}
  Kind <- MissedKinds
  Part <- PairParts
  Scheduler = Scheduler
  Requests = {}
  KillSwitch = FALSE
  Loads = {l0, l1, l2}
  FirstLoad = l0
PROPERTIES
  Heals
  StoppedRests
