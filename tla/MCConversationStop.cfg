SPECIFICATION Spec
CONSTANTS
  Params <- OneSet
  RunCap = 2
  MaxTurns = 1
  MaxRevisions = 1
  MaxUnits = 1
INVARIANT
  AnswerStopsWithConnection
