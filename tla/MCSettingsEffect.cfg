SPECIFICATION Spec
CONSTANTS
  Urls <- MCUrls
  Keys = {"k"}
  Host <- MCHost
  Hosts = {}
  Own <- MCOwn
  Voices = {"v"}
  MaxSent = 1
  MaxSwitches = 1
  MaxAnswers = 1
PROPERTIES
  EffectLeftAlone
CHECK_DEADLOCK FALSE
