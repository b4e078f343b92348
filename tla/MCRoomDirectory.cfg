CONSTANTS
  room = room
  u1 = u1
  u2 = u2
  c1 = c1
  c2 = c2
  Users <- People
  Rooms <- Places
  WebSocketUsers <- Browsers
  Calls <- Handlers
  MaxPlayers = 2
  PongTimeout = 2
SPECIFICATION Spec
PROPERTIES
  LoneCallsSettle
  VanishedMembersLeave
