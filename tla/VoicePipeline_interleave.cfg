SPECIFICATION Spec
CONSTANTS
  MaxUtt = 2
  MaxTyped = 1
  MaxInterrupts = 0
  VoiceKinds = {"full", "short"}
  Outcomes = {"reply", "empty"}
  MaxWait = 2
  AudioCap = 1
  SttMayFail = FALSE
  ClientLeaves = FALSE
INVARIANTS NoUtteranceLost
CHECK_DEADLOCK FALSE
