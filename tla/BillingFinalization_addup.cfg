SPECIFICATION Spec
CONSTANTS
  UnitPrice <- Prices
  PlatformRate = 2
  ActivityRate = 1
  Plans <- Later
  Required = {"stt_audio_seconds"}
  WaitTimeout = 3
  Settle = 2
INVARIANT AdjustmentsAddUp
CHECK_DEADLOCK FALSE
