SPECIFICATION Spec
CONSTANTS
  Params <- OneSet
  RunCap = 2
  MaxTurns = 2
  MaxRevisions = 1
  MaxUnits = 2
INVARIANTS
  HeardTurnStands
  VoidAnswerStops
PROPERTY
  ResponseSpec
