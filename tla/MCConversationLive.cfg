SPECIFICATION FairSpec
CONSTANTS
  Params <- ShortSet
  RunCap = 1
  MaxTurns = 1
  MaxRevisions = 1
  MaxUnits = 1
PROPERTIES
  ResponseCloses
  TurnSettles
  CloseEnds
