SPECIFICATION SessionSpec
CONSTANTS
  MaxResponses = 2
  MaxCandidates = 1
  MaxQueue = 2
  ClientEndsTurns = FALSE
INVARIANTS SustainedSpeechCancels
CHECK_DEADLOCK FALSE
