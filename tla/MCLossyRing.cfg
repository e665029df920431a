\* Both memory models, crashes of both sides.
SPECIFICATION FairSpec
CONSTANTS
  Capacity = 2
  GenModulus = 16
  MaxPushes = 5
  MaxCrashes = 1
INVARIANTS
  NoTornRead
  Inv
PROPERTIES
  NeverBack
  CatchesUp
