SPECIFICATION FairSpec
CONSTANTS
  Params <- UsualParams
  RunCap = 3
  MaxTurns = 2
  MaxRevisions = 2
PROPERTIES
  NoTurnAbandoned
  LifeSpec
  ReleasedTurnStands
