SPECIFICATION Spec
CONSTANTS
  c1 = c1
  c2 = c2
  c3 = c3
  c4 = c4
  u1 = u1
  u2 = u2
  u3 = u3
  Connections = {c1, c2, c3, c4}
  SessionIds = {s1, s2, s3}
  Epochs = {e1, e2}
  UserOf <- TwoOfOneUser
  Batches = {b1, b2}
  MaxSequence = 3
  NoSession = NoSession
  NoEpoch = NoEpoch
  NoBatch = NoBatch
SYMMETRY Symmetry
\* The service may have stopped.
CHECK_DEADLOCK FALSE
INVARIANTS
  OneSessionPerPair
  SessionsOfCurrentEpoch
PROPERTIES
  AcceptedInOrder
