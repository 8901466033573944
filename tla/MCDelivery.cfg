SPECIFICATION DeliverySpec
CONSTANTS
  Rows = {1, 2, 3}
  Publishers = {p1, p2}
  Limit = 2
  MaxFaults = 1
  Events = 5
  Rejected = {2}
  Undecodable = {5}
  BatchSize = 2
  MaxRows = 2
  MaxRetrySeconds = 2
  MaxOutages = 2
  MaxAnalyticsFaults = 2
INVARIANTS AtLeastOnce OnlyFaultsDisturb
PROPERTY EverythingArrives
CHECK_DEADLOCK FALSE
