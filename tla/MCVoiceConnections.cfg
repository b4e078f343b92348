SPECIFICATION Spec
CONSTANTS
  c1 = c1
  c2 = c2
  u1 = u1
  Users = {u1}
  Clients = {i1, i2}
  MaxTransports = 3
  Connections = {c1, c2}
  UserOf <- Owners
  NoConnection = NoConnection
  NoClient = NoClient
\* Every transport may be closed.
CHECK_DEADLOCK FALSE
INVARIANTS
  IndexesAgree
  HeldOrRetained
  EligibilityFollowsControls
PROPERTIES
  RetentionEnds
