SPECIFICATION FairSpec
CONSTANTS
  UnitPrice <- Prices
  PlatformRate = 5
  Topic <- Topics
  BatchSize = 2
  Plans <- SomePlans
INVARIANTS Inv CaughtUpIsComplete FollowUpsStart
PROPERTIES IsLedger EventuallyCaughtUp
CHECK_DEADLOCK FALSE
