SPECIFICATION FairSpec
CONSTANTS
  N = 2
  MaxEvents = 3
  Hooks <- MCHooks
INVARIANTS UpstreamGetsVetted RecordTellsAnswer CleanedUp BlockedStaysBlocked FailuresFollowPolicy
PROPERTIES RequestEnds
CHECK_DEADLOCK FALSE
