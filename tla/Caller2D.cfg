SPECIFICATION Spec
CONSTANTS
  k1 = k1
  k2 = k2
  w1 = w1
  w2 = w2
  Calls <- MCCalls
  Workers <- MCWorkers
  Idle = Idle
  MaxSize = 3
  MaxConcurrency = 3
INVARIANTS
  ChunksPartition
  EachCallableOnce
  FrameOutlivesChunks
PROPERTY
  CallsReturn
CHECK_DEADLOCK FALSE
