SPECIFICATION Spec
CONSTANTS
  Servers = {s1}
  Rooms = {r1, r2}
  NoRoom = NoRoom
  MaxActive = 1
  MaxPending = 1
  MaxHits = 1
  MinReady = 1
  MaxRestarts = 2
  IdleShutdownEnabled = TRUE
  RestartOrphanCleanupEnabled = TRUE
INVARIANTS
  ManifestIsTrue
PROPERTIES
  OrphansEnd
  UnusedServersGo
