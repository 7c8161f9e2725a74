SPECIFICATION FairSpec
CONSTANTS
  j = j
  b = b
  Lookups = {l1, l2}
  Jobs = {j, b}
  Jittered = {j}
  Awaited = {j}
  Passages <- JobPassages
  FirstSlot = 1
INVARIANTS
  TypeOK
  NoOverlap
  OwnToggleSeen
PROPERTIES
  JobsHeld
  JobsRun
  StopRests
