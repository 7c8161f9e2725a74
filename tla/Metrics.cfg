SPECIFICATION FairSpec
CONSTANTS
  Nodes = {n1, n2}
  Slots = {s1, s2}
  NumFeatures = 2
  Hours = {h1}
  Reports = {r1, r2}
INVARIANTS
  CountedOnce
  NoDeadlock
PROPERTIES
  ReportsSettle
  UseIsSeen
