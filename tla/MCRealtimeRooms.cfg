\* Two connections, of two users or of one.  No symmetry, as it checks liveness.
SPECIFICATION Spec
CONSTANTS
  Users = {u1, u2}
  Connections = {c1, c2}
  Rooms = {r1}
  Permanent = {}
  SwitchUsers = FALSE
  MaxPending = 2
  NoUser = NoUser
  NoRoom = NoRoom
  Absent = Absent
\* The clients may all have closed their connections.
CHECK_DEADLOCK FALSE
INVARIANTS
  ClosedLeaveNothing
  OneMembershipPerUser
PROPERTIES
  MembersStay
  ClosingConnectionsGo
