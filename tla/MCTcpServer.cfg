SPECIFICATION MCSpec
CONSTANTS
  c1 = c1
  c2 = c2
  Conns = {c1, c2}
  Tasks = {c1, c2}
  NumWorkers = 1
  MaxPayload = 1
  SockBuf = 1
  Requests <- MCRequests
  RecvTimeout = TRUE
CHECK_DEADLOCK FALSE
INVARIANTS
  Inv
  FramesIntact
PROPERTIES
  StopIsForGood
  EveryConnectionEnds
  DestructorReturns
