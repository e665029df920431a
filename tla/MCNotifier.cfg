\* The consumer drains the ring after every wake-up; some messages are empty.
SPECIFICATION NotifierFairSpec
CONSTANTS
  Message = {m1, m0}
  ZeroSized = {m0}
  NoMessage = NoMessage
  Capacity = 3
  Pattern = "drain"
  MaxPushes = 6
INVARIANTS
  NotifierTypeOK
  NoLostWakeup
PROPERTY EveryMessageTaken
CHECK_DEADLOCK FALSE
