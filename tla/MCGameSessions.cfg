SPECIFICATION Spec
CONSTANTS
  u1 = u1
  u2 = u2
  room = room
  lobby = lobby
  s1 = s1
  s2 = s2
  c1 = c1
  c2 = c2
  id1 = id1
  id2 = id2
  id3 = id3
  t1 = t1
  t2 = t2
  t3 = t3
  Users = {u1, u2}
  Rooms = {room, lobby}
  Servers = {s1}
  Connections = {c1, c2}
  SessionIds = {id1, id2}
  TicketIds = {t1, t2}
  Lobby = lobby
  Capacities = {1}
  FallbackCapacity = 1
  LobbyCapacity = 2
  ServerCapacity = 2
  MaxTickets = 2
  NoRoom = NoRoom
  NoSession = NoSession
  NoServer = NoServer
  NoConnection = NoConnection
  NoUser = NoUser
  Absent = Absent
  Unregistered = Unregistered
SYMMETRY Symmetry
INVARIANTS
  OneOpenSessionPerRoom
  TicketAdmitsOnce
  OpenSessionHasServer
PROPERTIES
  AdmissionIsForTicket
  ReplacedLoginKeepsPlayer
