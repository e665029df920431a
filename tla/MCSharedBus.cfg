\* Three create() calls, on free names and over existing ones, with failures.
SPECIFICATION FairSpec
CONSTANTS
  MaxCreates = 3
  MaxOpens = 2
  MaxUnlinks = 2
  MaxFailures = 2
  Modes = {"none", "forever", "limit"}
INVARIANTS
  NeverPartial
  Inv
PROPERTY OpenEnds
CHECK_DEADLOCK FALSE
