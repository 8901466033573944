SPECIFICATION SessionSpec
CONSTANTS
  MaxResponses = 2
  MaxCandidates = 2
  MaxQueue = 2
  ClientEndsTurns = TRUE
INVARIANTS SessionInv ResponseAgreed FenceHolds
CHECK_DEADLOCK FALSE
