SPECIFICATION FairSpec
CONSTANTS
  UnitPrice <- Prices
  PlatformRate = 2
  ActivityRate = 1
  Plans <- SomePlans
  Required = {"stt_audio_seconds"}
  WaitTimeout = 3
  Settle = 2
INVARIANTS Inv ReadyIsComplete AdjustmentsAreCurrent
PROPERTY FinalizationEnds
CHECK_DEADLOCK FALSE
