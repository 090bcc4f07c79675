SPECIFICATION FairSpec
CONSTANTS
  MaxUtt = 3
  MaxTyped = 0
  MaxInterrupts = 0
  VoiceKinds = {"full", "short"}
  Outcomes = {"reply", "wait"}
  MaxWait = 2
  AudioCap = 1
  SttMayFail = FALSE
  ClientLeaves = FALSE
INVARIANTS WaitBounded
PROPERTIES LockLive 
CHECK_DEADLOCK FALSE
