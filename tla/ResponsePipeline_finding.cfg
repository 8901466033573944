SPECIFICATION Spec
CONSTANTS
  TextLow = 0
  TextHigh = 2
  TextHard = 2
  AudioLow = 0
  AudioHigh = 2
  AudioHard = 2
  MaxItems = 2
  TextWeights = {1, 2}
  AudioWeights = {1, 2}
  MaxTokens = 2
  MaxChunks = 2
INVARIANT OnlySpokenPrefix
