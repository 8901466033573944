SPECIFICATION FairSpec
CONSTANTS
  Low = 0
  High = 3
  Hard = 5
  MaxItems = 2
  Producers = {p1, p2}
  Weights = {0, 1, 3}
  MaxWeight = 3
  MaxPuts = 3
INVARIANTS Inv Hysteresis Overshoot
PROPERTIES ChannelSpec PutsReturn
CHECK_DEADLOCK FALSE
