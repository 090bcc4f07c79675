SPECIFICATION Spec
CONSTANTS
  MaxUtt = 2
  MaxTyped = 1
  MaxInterrupts = 1
  VoiceKinds = {"full", "low"}
  Outcomes = {"reply", "error"}
  MaxWait = 2
  AudioCap = 1
  SttMayFail = TRUE
  ClientLeaves = TRUE
INVARIANTS LockInv
PROPERTIES TranscriptKeepsAnswers
CHECK_DEADLOCK FALSE
