SPECIFICATION Spec
CONSTANTS
  Nodes = {n1, n2}
  Slots = {s1}
  NumFeatures = 1
  Hours = {h1, h2}
  Reports = {r1, r2, r3, r4}
INVARIANTS
  NoDeadlock
