SPECIFICATION FairSpec
CONSTANTS
  Tokens = {k1}
  Job = Job
  Early = Early
  Requests = {r1, r2}
  Deleters = {d1, d2}
  QueryMissing = TRUE
INVARIANTS
  TypeOK
  OneClient
  Orphans
PROPERTIES
  LiveKnown
  DeletedForgotten
  CallsReturn
