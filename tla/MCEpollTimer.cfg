\* Two timers of three delays, stop() once, run() and run_once() again and again.
SPECIFICATION FairSpec
CONSTANTS
  Delays = {0, 1, 3}
  MaxTimers = 2
  MaxTime = 5
  MaxStops = 1
INVARIANTS
  Inv
  FiresWhenDue
PROPERTIES
  NoBurst
  EveryTimerServed
  StopEndsRun
