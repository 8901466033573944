SPECIFICATION FairSpec
CONSTANTS
  TextLow = 0
  TextHigh = 2
  TextHard = 3
  AudioLow = 0
  AudioHigh = 2
  AudioHard = 3
  MaxItems = 2
  TextWeights = {1, 2}
  AudioWeights = {1, 2}
  MaxTokens = 3
  MaxChunks = 3
INVARIANTS Inv SentInOrder CompleteDelivery OneCancellation
PROPERTIES SilentAfterCancel ResponseEnds
CHECK_DEADLOCK FALSE
