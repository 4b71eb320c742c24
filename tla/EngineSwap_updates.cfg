SPECIFICATION FairSpec
CONSTANTS
  Thread = {t1, t2, t3}
  Loop = Loop
  MaxGeneration = 4
INVARIANTS EnginesAccounted
PROPERTIES ImplementsLeaseTable OldEnginesClose
CHECK_DEADLOCK FALSE
