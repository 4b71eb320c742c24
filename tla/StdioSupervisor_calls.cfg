SPECIFICATION HostFairSpec
CONSTANTS
  MaxCalls = 4
  PipeSize = 2
INVARIANTS OwnAnswer
PROPERTIES CallsEnd ShutdownEnds
CHECK_DEADLOCK FALSE
