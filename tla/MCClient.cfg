SPECIFICATION LiveSpec
CONSTANTS
  MaxStarts = 3
  MaxUnits = 2
  MaxAudio = 1
  RingSize = 1
  Period = 1
  MaxWire = 2
INVARIANTS
  FiledAsHeard
  RequestSaysTurns
PROPERTIES
  AnswersClose
  QuitEnds
CHECK_DEADLOCK FALSE
