SPECIFICATION MCSpec
CONSTANTS
  MaxRounds = 3
  MaxCalls = 2
  MaxDeltas = 2
  Tools = {"builtin", "server", "unknown"}
  MaxRequests = 2
  MaxFrames = 4
  MaxChunk = 3
  MaxServerCalls = 3
  MaxSessions = 4
INVARIANTS
  RequestsAnswered
  RoundsSpoken
  AnswerIsWhole
  ConnectionKept
  RepeatsSafely
PROPERTIES
  CancelEnds
  RunsOnReadyOnce
CHECK_DEADLOCK FALSE
