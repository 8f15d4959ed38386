SPECIFICATION MCSpec
CONSTANTS
  MaxWritten = 5
  MaxDelta = 2
  Orig = 3
  Newf = 2
  Width = 1
  Hop = 3
  MaxFrame = 4
  MaxInstants = 11
  MaxRestarts = 2
  Frames = 3
  Durations = {0, 1, 2}
  MaxSymbols = 2
  Pieces <- MCPieces
  Names = 2
  Languages = {"french"}
  MaxUnits = 2
  MaxEvents = 3
  MaxRecognitions = 2
INVARIANTS
  UnitsOfWritten
  HopsInStep
  DecodeIsBounded
  TranscriptIsWhole
  UnitIsHeard
  NothingLeft
CHECK_DEADLOCK FALSE
