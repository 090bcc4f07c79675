SPECIFICATION FairSpec
CONSTANTS
  MaxUtt = 2
  MaxTyped = 0
  MaxInterrupts = 0
  VoiceKinds = {"full", "short"}
  Outcomes = {"reply", "wait"}
  MaxWait = 2
  AudioCap = 1
  SttMayFail = FALSE
  ClientLeaves = FALSE
PROPERTIES ForcedToRespond
CHECK_DEADLOCK FALSE
