\* The creator dies before it has written the magic word.
SPECIFICATION FairSpec
CONSTANTS
  MaxCreates = 1
  MaxOpens = 2
  MaxUnlinks = 0
  MaxFailures = 1
  Modes = {"none", "forever", "limit"}
PROPERTY OpenIsBounded
CHECK_DEADLOCK FALSE
