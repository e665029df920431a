\* The same clock without NTP: what a reader between the two stores converts to.
SPECIFICATION ClockSpec
CONSTANTS
  PerSecond = 3
  SpinTime = 2
  Modulus = 64
  MaxTime = 8
  MaxAdjust = 0
  MaxSnaps = 2
INVARIANT MixingIsHarmless
CHECK_DEADLOCK FALSE
