SPECIFICATION FairSpec
CONSTANTS
  t1 = t1
  t2 = t2
  a = a
  b = b
  a1 = a1
  a2 = a2
  b1 = b1
  Thread = {t1, t2}
  Key = {a, b}
  Runtime = {a1, a2, b1}
  KeyOf <- MCKeyOf
  PoolSize <- MCPoolSize
  InProcess = {b}
  Orders <- MCOrders
INVARIANTS ExclusiveLeases PoolBound RetiredOnce NoLostWakeup LiveProcessOwned
PROPERTIES ImplementsLeaseTable EveryRequestEnds ShutdownReachesAll
