\* Two slots and three messages that are empty, longer than the consumer's
\* buffer and longer than a slot; two crashes.
SPECIFICATION FairSpec
CONSTANTS
  Capacity = 2
  MaxMsgSize = 2
  Sizes = {0, 2, 3}
  Bodies = {b1}
  NoBody = NoBody
  BufSize = 1
  CheckEvery = 2
  MaxPushes = 3
  MaxCrashes = 2
INVARIANTS
  TypeOK
  NoSlotRace
  Inv
PROPERTIES
  ImplementsFifo
  EveryMessageConsumed
  PushReturns
  CheckedCallsNoticeDeath
