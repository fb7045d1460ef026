SPECIFICATION Spec
CONSTANTS
  MaxFaults = 2
  Duration = 2
  Box <- MCBox
  b1 = b1
  b2 = b2
  NodeEvents <- MCNodeEvents
  Interval = 1
  FlushTime = {0, 1}
  Retries = 2
  MaxSeedRuns = 2
  MaxProduced <- MCMaxProduced
  Offset = {1, 2, 3, 4}
  TableRetries = 2
  MaxStarts = 2
INVARIANTS
  TypeOK
  DuplicateBound
  ExactlyOnce
  TornNotPassed
  LoopsRepeat
PROPERTIES
  MetricsFlow
