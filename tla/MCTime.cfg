\* Two timers, every level boundary of a wheel of 4, 2, 2 and 2 slots.
\* A spin of two units over seconds of three; the constructor's correlation and one more.
SPECIFICATION MCSpec
CONSTANTS
  kL0Slots = 4
  kL1Slots = 2
  kL2Slots = 2
  kL3Slots = 2
  Delays = {0, 3, 4, 8, 15, 33}
  MaxTimers = 2
  MaxTick = 35
  PerSecond = 3
  SpinTime = 2
  Modulus = 64
  MaxTime = 8
  MaxAdjust = 1
  MaxSnaps = 2
INVARIANTS
  FiresOnTime
  Inv
  CancelIsFinal
  CalibrationSpans
  ConversionBounded
CHECK_DEADLOCK FALSE
