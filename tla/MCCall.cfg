SPECIFICATION CallSpec
CONSTANTS
  MaxTurns = 2
  MaxPhrases = 2
  MaxFaults = 2
  Frames <- SomeFrames
  MinSpeech = 2
  EndSilence = 3
  MinTurnAudio = 2
  MinTranscribed = 3
  MinPercent = 60
  MinGreeting = 2
  Transcripts = {"words", "backchannel"}
  MaxTurnAudio = 5
  MaxFrames = 6
  MaxSttTurns = 2
  MaxChunks = 2
INVARIANTS Inv ManifestIsExact DetectsTurns AudioIsWhole TranscriptIsOwn
PROPERTY CommitEnds
CHECK_DEADLOCK FALSE
