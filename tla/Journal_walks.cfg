SPECIFICATION JSpec
CONSTANTS
  Request = {r1, r2, r3}
  Status = {completed, error}
  AnyStatus = AnyStatus
  Client = {c1}
  MaxRecords = 2
  QueueSize = 1
  Limit = {1, 2}
SYMMETRY Symmetric
INVARIANTS WalkIsComplete
CHECK_DEADLOCK FALSE
