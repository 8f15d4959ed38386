SPECIFICATION MCSpec
CONSTANTS
  Urls <- MCUrls
  Keys = {"k"}
  Host <- MCHost
  Hosts <- MCHosts
  Own <- MCOwn
  Voices = {"v"}
  MaxSent = 2
  MaxSwitches = 1
  MaxAnswers = 2
  MaxTurns = 3
  MaxQueue = 2
INVARIANTS
  UpdateIsWhole
  KeyTravels
  VoiceAgrees
  GateHolds
CHECK_DEADLOCK FALSE
