\* A lapped consumer that trusts its cached write position, stores in order.
SPECIFICATION MCSpec
CONSTANTS
  Capacity = 2
  GenModulus = 16
  MaxPushes = 4
  MaxCrashes = 0
PROPERTY LossIsDetected
