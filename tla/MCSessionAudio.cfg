SPECIFICATION AudioSpec
CONSTANTS
  Params <- PatchSet
  RunCap = 3
  MaxTurns = 2
  MaxRevisions = 2
  MaxWindows = 11
INVARIANTS
  AudioContinuous
  HeardByWait
PROPERTIES
  CommitHandsAllSpeech
  RevisionsExtend
CHECK_DEADLOCK FALSE
