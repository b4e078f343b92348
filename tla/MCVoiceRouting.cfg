SPECIFICATION Spec
CONSTANTS
  c1 = c1
  c2 = c2
  Unknown = Unknown
  s1 = s1
  Connections = {c1, c2}
  Sessions = {s1}
  Publishers = {c1}
  Mutes <- OneMute
  Requesting = {c1}
  Capacity = 1
  MaxFanOut = 1
  MaxChain = 1
  MaxPackets = 2
  MaxFrames = 2
  Max16 = 12
  Max32 = 20
  Max64 = 21
  MaxText = 2
  MaxEntries = 2
  Texts <- SampleTexts
  Ids = {0, 1}
  Numbers = {0, 20, 21}
  Cells = {0, 1, 2, 4, 12}
\* Publishers may fall silent.
CHECK_DEADLOCK FALSE
INVARIANTS
  FramesInOrder
  ClientsKnowTheirSessions
  CodecsAgree
PROPERTIES
  QueuesDrain
