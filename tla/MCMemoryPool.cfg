\* Four blocks in a pipeline; eight under a cache that moves them in pairs.
SPECIFICATION Spec
CONSTANTS
  PipelineBlocks = 4
  CacheBlocks = 8
  LocalCapacity = 4
  BatchSize = 2
  MaxAllocs = 6
  MaxCacheAllocs = 10
INVARIANTS
  Inv
  FreeNeverFails
  CountersExact
  SizesRight
CHECK_DEADLOCK FALSE
