SPECIFICATION Spec
CONSTANTS
  w1 = w1
  w2 = w2
  Writes = {w1, w2}
  Kind <- OrderedKinds
  Part <- PairParts
  Scheduler = Scheduler
  Requests = {c1}
  KillSwitch = FALSE
  Loads = {l1, l2}
INVARIANTS
  LagsOnlyIfDisturbed
