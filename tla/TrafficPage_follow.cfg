SPECIFICATION Spec
CONSTANTS
  Request = {r1, r2}
  Status = {completed, error}
  AnyStatus = AnyStatus
  Client = {c1}
  MaxRecords = 2
  QueueSize = 1
  Limit = {1}
  ListLimit = 1
PROPERTIES PageFollows
CHECK_DEADLOCK FALSE
