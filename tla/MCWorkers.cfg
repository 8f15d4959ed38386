SPECIFICATION MCSpec
CONSTANTS
  Streams = {a, b}
  MaxLives = 2
  MaxHops = 2
  MaxCalls = 3
INVARIANTS
  EchoApart
  ScoresAreOwn
PROPERTY EveryCallAnswered
CHECK_DEADLOCK FALSE
