SPECIFICATION Spec
CONSTANTS
  Connections = {c1, c2, c3}
  MaxPendingFrames = 1
  MaxMessages = 2
\* The recording may have ended.
CHECK_DEADLOCK FALSE
INVARIANTS
  FramesFollowConsent
  ReadyIsComplete
PROPERTIES
  EndedStaysEnded
  FinalizationEnds
