SPECIFICATION Spec
CONSTANTS
  lobby = lobby
  Servers = {s1}
  Rooms = {lobby, room}
  Lobby = lobby
  RoomSizes = {1, 2}
  LobbySize = 1
  ServerMax = 2
  ReportedStatuses = {"online", "warm"}
  LaunchRooms <- WarmOrLaunched
  LaunchSize <- SizeOne
  RegistersAgain = FALSE
  Preferred = {s1}
  MaxWaiting = 1
  MaxIssued = 2
  NoRoom = NoRoom
  NoServer = NoServer
INVARIANTS
  ReservationsFit
  HostHasReservation
PROPERTIES
  NewRoomsGoToOpenServers
