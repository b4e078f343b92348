-------------------------- MODULE ServerAllocation --------------------------
(***************************************************************************)
(* Which dedicated server a room's players are sent to: the server         *)
(* registry (gameServerRegistry.js), the health store                      *)
(* (gameServerHealthStore.js), the allocator (gameServerAllocator.js), and *)
(* the handlers that read and write them: register and heartbeat, the      *)
(* ticket request with its warm claim and its awaited auto launch, the     *)
(* lobby reconciler, the status endpoint that releases empty reservations, *)
(* the session that verify-ticket opens by itself when the ticket's is     *)
(* gone, the periodic cleanup, and a restart of the Node process.          *)
(*                                                                         *)
(* A ticket request runs to completion unless it waits for an auto launch: *)
(* then it allocates again after the await, in a registry that other       *)
(* requests have changed meanwhile.                                        *)
(*                                                                         *)
(* Abstracted: sessions, to the server of a room's open session, and       *)
(* tickets, to the rooms and servers that one is valid for (module         *)
(* GameSessions); regions and zones (all servers are in the requested      *)
(* one); the last tie-break of the allocator, by server id, to any of the  *)
(* tied servers; heartbeat ages, to the health they compute to; the limits *)
(* on auto launches (module AutoLaunch).  All servers have one capacity.   *)
(***************************************************************************)
EXTENDS Naturals, FiniteSets, FiniteSetsExt

CONSTANTS
  Servers, Rooms,
  Lobby,              \* the room of the public lobby
  RoomSizes,          \* the roomMaxPlayers of ticket requests
  LobbySize,          \* the capacity the lobby reserves
  ServerMax,          \* maxPlayers of a dedicated server
  ReportedStatuses,   \* the statuses that processes report
  LaunchRooms,        \* the rooms each process may be launched for; none is warm
  LaunchSize,         \* the capacity of the room that it is launched for
  RegistersAgain,     \* may a known process register a second time?
  Preferred,          \* the servers that a client may ask for
  MaxWaiting,         \* bound: requests that await a launch
  MaxIssued,          \* bound: rooms and servers that tickets are valid for
  NoRoom, NoServer

ASSUME SizeAssumption ==
  /\ ServerMax \in Nat \ {0}
  /\ RoomSizes \subseteq Nat \ {0}
  /\ LobbySize \in Nat \ {0}
  /\ LaunchSize \in [Servers -> 1 .. ServerMax]
  /\ RegistersAgain \in BOOLEAN
  /\ MaxWaiting \in Nat
  /\ MaxIssued \in Nat

ASSUME NameAssumption ==
  /\ IsFiniteSet(Servers)
  /\ IsFiniteSet(Rooms)
  /\ Lobby \in Rooms
  /\ NoRoom \notin Rooms
  /\ NoServer \notin Servers
  /\ Preferred \subseteq Servers
  /\ LaunchRooms \in [Servers -> SUBSET (Rooms \cup {NoRoom})]
  /\ RegistersAgain => \A s \in Servers : Cardinality(LaunchRooms[s]) = 1
  /\ ReportedStatuses \subseteq {"starting", "online", "busy", "full", "draining", "offline",
                                "unhealthy", "warm"}

VARIABLES
  servers,   \* serversById
  health,    \* the status getHealth computes for each server
  host,      \* the server of each room's open session
  waiting,   \* the ticket requests that await an auto launch
  issued,    \* the rooms and servers that a ticket is valid for
  unreserved \* history: the rooms whose open session was opened by verify-ticket
             \* on a server without a reservation for them

vars == <<servers, health, host, waiting, issued, unreserved>>

-----------------------------------------------------------------------------
(* Data *)

ServerStatuses == {"starting", "online", "busy", "full", "draining", "offline", "unhealthy",
                   "warm", "reserved", "claimed"}
HealthStatuses == {"unknown", "healthy", "warning", "timeout", "offline", "unhealthy"}

Requests == [room : Rooms, size : RoomSizes]

ServerRecord ==
  [status    : ServerStatuses \cup {"gone"},
   room      : Rooms \cup {NoRoom},
   players   : 0 .. ServerMax,
   assigned  : [Rooms -> Nat],       \* roomMaxPlayers of assignedRooms, 0 if none
   populated : SUBSET Rooms]         \* the rooms with players in the last heartbeat

Gone == [status |-> "gone", room |-> NoRoom, players |-> 0,
         assigned |-> [r \in Rooms |-> 0], populated |-> {}]

Registered(s) == servers[s].status # "gone"
AssignedRooms(record) == {r \in Rooms : record.assigned[r] > 0}
Reserved(record) == MapThenSumSet(LAMBDA r : record.assigned[r], Rooms)

Minus(a, b) == IF a > b THEN a - b ELSE 0

\* resolveServerStatus
ResolveServerStatus(status, players) ==
  CASE status \in {"offline", "unhealthy", "draining"} -> status
    [] status = "warm" /\ players = 0 -> "warm"
    [] status \in {"reserved", "claimed"} -> status
    [] status \in {"online", "warm", "busy", "starting", "full"} /\ players >= ServerMax -> "full"
    [] status \in {"full", "starting", "busy"} /\ players < ServerMax -> status
    [] OTHER -> "online"

\* recordHeartbeat: the first record of a server is healthy whatever it reports.
RecordedHealth(s, status) ==
  IF health[s] # "unknown" /\ status \in {"offline", "unhealthy"} THEN status ELSE "healthy"

\* A mutant: slots are counted by the players that are in.
FreeSlots_ByPlayers(record, room) == Minus(ServerMax, record.players)

\* getAvailableReservedSlotsForRoom
FreeSlots(record, room) == Minus(ServerMax, Reserved(record)) + record.assigned[room]

\* The rooms of a process, as far as Node records them.  It names no other, and
\* reports players only of these and of the rooms whose session it hosts.
KnownRooms(record) == (AssignedRooms(record) \cup record.populated \cup {record.room}) \ {NoRoom}

\* The room lists of a heartbeat that has players in populated: the rooms
\* without players that it lists are not kept, each reader chooses them again.
RoomLists(record, populated) == {populated \cup empty : empty \in SUBSET KnownRooms(record)}

\* The primary rooms that normalizePrimaryRoomList may select: the current one
\* if it is listed, otherwise one that the list marks or offers first.
PrimaryRooms(current, rooms) ==
  IF rooms = {} \/ current \in rooms THEN {current} ELSE rooms

-----------------------------------------------------------------------------
(* The allocator *)

TicketStatuses == {"online", "busy", "reserved", "claimed"}
WarmClaimStatuses == {"online", "busy", "warm"}
LobbyStatuses == {"online", "busy", "warm", "reserved", "claimed"}

\* A mutant: a server with any health record is healthy.
IsServerHealthy_Known(s) == health[s] # "unknown"

IsServerHealthy(s) == health[s] \in {"healthy", "warning"}

\* validateServerCandidate
Candidates(room, size, statuses) ==
  {s \in Servers :
     LET record == servers[s]
     IN  /\ record.status \in statuses
         /\ FreeSlots(record, room) >= size
         /\ record.status \in {"reserved", "claimed"} => record.room \in {NoRoom, room}
         /\ IsServerHealthy(s)}

Waste(s, room, size) == Minus(FreeSlots(servers[s], room), size)

\* scoreServer: a health weight of 100, and a capacity weight of 10 times the
\* fit, rounded; the weight of the room, 50, is never added.
Score(s, room, size) ==
  LET waste == Waste(s, room, size)
      fit == Minus(ServerMax, waste)
  IN  (IF health[s] = "healthy" THEN 100 ELSE 50) + (20 * fit + ServerMax) \div (2 * ServerMax)

Outranks(s, t, room, size) ==
  LET ss == Score(s, room, size)  st == Score(t, room, size)
      ws == Waste(s, room, size)  wt == Waste(t, room, size)
  IN  \/ ss > st
      \/ ss = st /\ ws < wt
      \/ ss = st /\ ws = wt /\ Reserved(servers[s]) > Reserved(servers[t])

\* The servers that allocateServer may answer with.
Allocated(room, size, statuses) ==
  LET candidates == Candidates(room, size, statuses)
  IN  {s \in candidates : ~\E t \in candidates : Outranks(t, s, room, size)}

AllocatedForTicket(room, size, preferred) ==
  LET candidates == Candidates(room, size, TicketStatuses)
  IN  IF preferred \in candidates THEN {preferred} ELSE Allocated(room, size, TicketStatuses)

-----------------------------------------------------------------------------
(* Assignments and claims *)

AssignedTo(record, room, size) ==
  [record EXCEPT !.assigned[room] = size, !.room = IF @ = NoRoom THEN room ELSE @]

\* A server that listWarmServers offers.
Claimable(s) ==
  /\ servers[s].status = "warm"
  /\ servers[s].players = 0
  /\ servers[s].room = NoRoom
  /\ AssignedRooms(servers[s]) = {}

\* claimWarmServerForRoom
Claimed(record, room, size) ==
  [record EXCEPT !.room = room, !.assigned[room] = size, !.status = "reserved"]

\* getOrCreateSession: an open session keeps its server.
HostedBy(room, s) == [host EXCEPT ![room] = IF @ = NoServer THEN s ELSE @]

\* assignRoomToServer, then the room's session, then the ticket: what a request
\* does with the server that was allocated or claimed for it.
AssignAndHost(s, record, room, size) ==
  /\ servers' = [servers EXCEPT ![s] = AssignedTo(record, room, size)]
  /\ host' = HostedBy(room, s)
  /\ issued' = IF Cardinality(issued) < MaxIssued THEN issued \cup {<<room, s>>} ELSE issued
  /\ UNCHANGED unreserved

-----------------------------------------------------------------------------
(* The handlers *)

Init ==
  /\ servers = [s \in Servers |-> Gone]
  /\ health = [s \in Servers |-> "unknown"]
  /\ host = [r \in Rooms |-> NoServer]
  /\ waiting = {}
  /\ issued = {}
  /\ unreserved = {}

\* registerServer, of a process that was launched for a room or for none.  One
\* that registers again keeps its assignments.
RegisterServer(s, room, status, players) ==
  /\ room \in LaunchRooms[s]
  /\ Registered(s) => RegistersAgain
  /\ servers' = [servers EXCEPT ![s] =
                   [status |-> ResolveServerStatus(status, players),
                    room |-> room, players |-> players,
                    assigned |-> [r \in Rooms |-> IF r = room THEN LaunchSize[s]
                                                 ELSE servers[s].assigned[r]],
                    populated |-> {}]]
  /\ health' = [health EXCEPT ![s] = RecordedHealth(s, ResolveServerStatus(status, players))]
  /\ UNCHANGED <<host, waiting, issued, unreserved>>

\* The claim status outlives heartbeats that still say warm, until a player is in.
PreservesClaim(record, room, status, players) ==
  /\ record.status \in {"reserved", "claimed"}
  /\ room # NoRoom
  /\ players = 0
  /\ status = "warm"

\* updateHeartbeat, then recordHeartbeat; a report above maxPlayers is cut.
HeartbeatServer(s, status, room, players, populated) ==
  LET record == servers[s]
      named == IF room # NoRoom THEN room ELSE record.room
  IN  /\ Registered(s)
      /\ {room} \ {NoRoom} \subseteq KnownRooms(record)
      /\ populated \subseteq KnownRooms(record) \cup {r \in Rooms : host[r] = s}
      /\ Cardinality(populated) <= players
      /\ populated = {} => players = 0
      /\ \E primary \in UNION {PrimaryRooms(named, listed) : listed \in RoomLists(record, populated)} :
           servers' = [servers EXCEPT ![s] =
             [status |-> IF PreservesClaim(record, named, status, players)
                         THEN record.status ELSE ResolveServerStatus(status, players),
              room |-> primary, players |-> players, assigned |-> record.assigned,
              populated |-> populated]]
      /\ health' = [health EXCEPT ![s] = RecordedHealth(s, status)]
      /\ UNCHANGED <<host, waiting, issued, unreserved>>

\* updatePlayerCount
WithPlayers(s, players) ==
  [servers[s] EXCEPT !.players = players, !.status = ResolveServerStatus(@, players)]

\* The handlers of verified tickets and left players record a count.
UpdatePlayerCount(s, players) ==
  /\ Registered(s)
  /\ servers' = [servers EXCEPT ![s] = WithPlayers(s, players)]
  /\ UNCHANGED <<health, host, waiting, issued, unreserved>>

\* requestGameServerTicket with an available server.
RequestTicket(room, size, preferred, s) ==
  /\ s \in AllocatedForTicket(room, size, preferred)
  /\ AssignAndHost(s, servers[s], room, size)
  /\ UNCHANGED <<health, waiting>>

\* requestGameServerTicket with none: it claims the warm server that the
\* allocator prefers, if the registry agrees that this one is unused.
RequestTicketWithWarmClaim(room, size, s) ==
  /\ Candidates(room, size, TicketStatuses) = {}
  /\ s \in Allocated(room, size, WarmClaimStatuses)
  /\ Claimable(s)
  /\ size <= ServerMax
  /\ AssignAndHost(s, Claimed(servers[s], room, size), room, size)
  /\ UNCHANGED <<health, waiting>>

\* requestGameServerTicket with no server and no claim: it joins the launch that
\* is pending for the room, or starts one if no server is registered for it.
RequestTicketWithLaunch(room, size) ==
  LET warm == Allocated(room, size, WarmClaimStatuses)
  IN  /\ Candidates(room, size, TicketStatuses) = {}
      /\ warm = {} \/ \E s \in warm : ~Claimable(s)
      /\ \/ \E request \in waiting : request.room = room
         \/ \A s \in Servers : Registered(s) => servers[s].room # room
      /\ waiting' = waiting \cup {[room |-> room, size |-> size]}
      /\ Cardinality(waiting') <= MaxWaiting
      /\ UNCHANGED <<servers, health, host, issued, unreserved>>

\* The launch ends, well or badly: the request allocates once more, or fails.
ResumeAfterLaunch(request) ==
  /\ request \in waiting
  /\ waiting' = waiting \ {request}
  /\ \/ \E p \in Preferred \cup {NoServer} :
          \E s \in AllocatedForTicket(request.room, request.size, p) :
            AssignAndHost(s, servers[s], request.room, request.size)
     \/ UNCHANGED <<servers, host, issued, unreserved>>
  /\ UNCHANGED health

\* verifyGameTicket with a ticket whose session was deleted, as the room's was:
\* it opens one on the ticket's server, registered or not, and reserves nothing.
\* The room may have another valid ticket for this server.
VerifyTicketOpensSession(room, s) ==
  /\ <<room, s>> \in issued
  /\ host[room] = NoServer
  /\ host' = [host EXCEPT ![room] = s]
  /\ servers' = IF Registered(s) THEN [servers EXCEPT ![s] = WithPlayers(s, 1)] ELSE servers
  /\ issued' \in {issued, issued \ {<<room, s>>}}
  /\ unreserved' = IF servers[s].assigned[room] > 0 THEN unreserved ELSE unreserved \cup {room}
  /\ UNCHANGED <<health, waiting>>

\* The last ticket of a room for a server is consumed or expires.
LastTicketEnds(room, s) ==
  /\ <<room, s>> \in issued
  /\ issued' = issued \ {<<room, s>>}
  /\ UNCHANGED <<servers, health, host, waiting, unreserved>>

\* The open session of a room is closed, or fails.
EndSession(room) ==
  /\ host[room] # NoServer
  /\ host' = [host EXCEPT ![room] = NoServer]
  /\ unreserved' = unreserved \ {room}
  /\ UNCHANGED <<servers, health, waiting, issued>>

\* ensureRoomAssignment: a server with the assignment confirms its size, a warm
\* one is claimed, another one gets the assignment if it has the slots.
LobbyAssigned(s) ==
  LET record == servers[s]
  IN  CASE record.assigned[Lobby] = 0 /\ record.status = "warm" ->
             /\ Claimable(s)
             /\ LobbySize <= ServerMax
             /\ servers' = [servers EXCEPT ![s] = Claimed(@, Lobby, LobbySize)]
        [] OTHER ->
             /\ LobbySize <= FreeSlots(record, Lobby)
             /\ servers' = [servers EXCEPT ![s] = AssignedTo(@, Lobby, LobbySize)]

\* reconcileNow with an open lobby session on a registered, healthy server.
ReconcileHostedLobby ==
  LET s == host[Lobby]
  IN  /\ s # NoServer
      /\ Registered(s)
      /\ IsServerHealthy(s)
      /\ LobbyAssigned(s)
      /\ UNCHANGED <<health, host, waiting, issued, unreserved>>

\* The servers among which reconcileNow looks for a new host of the lobby.
LobbyChoices ==
  LET assigned == {s \in Servers : Registered(s) /\ servers[s].assigned[Lobby] > 0}
  IN  CASE Cardinality(assigned) > 1 -> {}
        [] Cardinality(assigned) = 1 -> {s \in assigned : IsServerHealthy(s)}
        [] OTHER -> Allocated(Lobby, LobbySize, LobbyStatuses)

\* reconcileNow without an open lobby session, or with one on a server that is
\* gone, which it closes first (and does no more, as EndSession, when it finds no
\* server).
ReconcileUnhostedLobby(s) ==
  /\ host[Lobby] # NoServer => ~Registered(host[Lobby])
  /\ s \in LobbyChoices
  /\ LobbyAssigned(s)
  /\ host' = [host EXCEPT ![Lobby] = s]
  /\ unreserved' = unreserved \ {Lobby}
  /\ UNCHANGED <<health, waiting, issued>>

\* A mutant: rooms are released as soon as no player is in.
Released_Unpopulated(record, rooms) == {r \in rooms : r \notin record.populated}

\* cleanupEmptyRoomReservations: the rooms that no open session needs and no
\* heartbeat populates lose their reservation.
Released(record, rooms) == {r \in rooms : host[r] = NoServer /\ r \notin record.populated}

\* A server after the cleanup, with its primary room chosen again.
WithoutReleased(record, primary) ==
  [record EXCEPT !.room = primary,
                 !.assigned = [r \in Rooms |-> IF r \in Released(record, Rooms) THEN 0 ELSE @[r]]]

\* getStatus: a read that writes.
GetStatus ==
  \E primary \in [Servers -> Rooms \cup {NoRoom}] :
    /\ \A s \in Servers : \E listed \in RoomLists(servers[s], servers[s].populated) :
         LET rooms == listed \cup AssignedRooms(servers[s])
             released == Released(servers[s], rooms)
         IN  primary[s] \in IF released = {} THEN {servers[s].room}
                            ELSE PrimaryRooms(servers[s].room, rooms \ released)
    /\ servers' = [s \in Servers |-> WithoutReleased(servers[s], primary[s])]
    /\ UNCHANGED <<health, host, waiting, issued, unreserved>>

\* cleanup: health records too old go, timed-out servers become unhealthy, and
\* servers whose process died or was shut down are removed with their sessions.
Cleanup(stale, retired) ==
  /\ stale \subseteq {s \in Servers : health[s] \in {"timeout", "offline", "unhealthy"}}
  /\ retired \subseteq {s \in Servers : Registered(s)}
  /\ servers' = [s \in Servers |->
                   CASE s \in retired -> Gone
                     [] s \notin retired \cup stale /\ health[s] = "timeout" /\ Registered(s) ->
                          [servers[s] EXCEPT !.status = "unhealthy"]
                     [] OTHER -> servers[s]]
  /\ health' = [s \in Servers |-> IF s \in stale \cup retired THEN "unknown" ELSE health[s]]
  /\ host' = [r \in Rooms |-> IF host[r] \in retired THEN NoServer ELSE host[r]]
  /\ unreserved' = {r \in unreserved : host[r] \notin retired}
  /\ UNCHANGED <<waiting, issued>>

\* Time passes without a heartbeat of the server.
HeartbeatAges(s) ==
  /\ \/ health[s] = "healthy" /\ health' = [health EXCEPT ![s] = "warning"]
     \/ health[s] = "warning" /\ health' = [health EXCEPT ![s] = "timeout"]
  /\ UNCHANGED <<servers, host, waiting, issued, unreserved>>

\* The Node process restarts: all of this state is in memory.
Restart ==
  /\ servers' = [s \in Servers |-> Gone]
  /\ health' = [s \in Servers |-> "unknown"]
  /\ host' = [r \in Rooms |-> NoServer]
  /\ waiting' = {}
  /\ issued' = {}
  /\ unreserved' = {}

Next ==
  \/ \E s \in Servers, room \in Rooms \cup {NoRoom}, status \in ReportedStatuses,
        n \in 0 .. ServerMax : RegisterServer(s, room, status, n)
  \/ \E s \in Servers, status \in ReportedStatuses, r \in Rooms \cup {NoRoom},
        n \in 0 .. ServerMax, populated \in SUBSET Rooms :
       HeartbeatServer(s, status, r, n, populated)
  \/ \E s \in Servers, n \in 0 .. ServerMax : UpdatePlayerCount(s, n)
  \/ \E r \in Rooms, size \in RoomSizes, p \in Preferred \cup {NoServer}, s \in Servers :
       RequestTicket(r, size, p, s)
  \/ \E r \in Rooms, size \in RoomSizes, s \in Servers : RequestTicketWithWarmClaim(r, size, s)
  \/ \E r \in Rooms, size \in RoomSizes : RequestTicketWithLaunch(r, size)
  \/ \E request \in Requests : ResumeAfterLaunch(request)
  \/ \E r \in Rooms, s \in Servers : VerifyTicketOpensSession(r, s)
  \/ \E r \in Rooms, s \in Servers : LastTicketEnds(r, s)
  \/ \E r \in Rooms : EndSession(r)
  \/ ReconcileHostedLobby
  \/ \E s \in Servers : ReconcileUnhostedLobby(s)
  \/ GetStatus
  \/ \E stale \in SUBSET Servers, retired \in SUBSET Servers : Cleanup(stale, retired)
  \/ \E s \in Servers : HeartbeatAges(s)
  \/ Restart

Spec == Init /\ [][Next]_vars
-----------------------------------------------------------------------------
(* Properties *)

\* Every variable has its type.
TypeOK ==
  /\ servers \in [Servers -> ServerRecord]
  /\ health \in [Servers -> HealthStatuses]
  /\ host \in [Rooms -> Servers \cup {NoServer}]
  /\ waiting \subseteq Requests
  /\ issued \subseteq Rooms \X Servers
  /\ unreserved \subseteq Rooms

\* The capacity reserved for the rooms of a server never exceeds the server's,
\* while tickets, claims, the lobby, releases and launches change it.
ReservationsFit ==
  RegistersAgain \/ \A s \in Servers : Reserved(servers[s]) <= ServerMax

\* A room with an open session keeps its reservation on the server that hosts
\* it: the status endpoint releases none that players still need.  Only a
\* session that verify-ticket opened on a server that had no reservation for the
\* room by then goes without; one that it opened where the reservation was still
\* held keeps it as well.
HostHasReservation ==
  \A r \in Rooms : host[r] # NoServer => servers[host[r]].assigned[r] > 0 \/ r \in unreserved

\* A server claimed from the warm pool serves the room it was claimed for and
\* no other, until it reports that it is online.  Only the lobby may come beside
\* that room, where the reconciler finds the session that verify-ticket opened.
ClaimedServerIsExclusive ==
  \A s \in Servers :
    servers[s].status \in {"reserved", "claimed"} =>
      \/ AssignedRooms(servers[s]) \subseteq {servers[s].room}
      \/ /\ Lobby \in AssignedRooms(servers[s])
         /\ \E r \in Rooms : AssignedRooms(servers[s]) \subseteq {r, Lobby}

\* The health store knows only servers of the registry: a server that was
\* removed leaves no health record that would admit its successor.
HealthIsOfRegistered ==
  \A s \in Servers : health[s] # "unknown" => Registered(s)

\* A room is assigned only to a server that is reporting and open to players,
\* also after an auto launch was awaited.  (A process that registers again
\* brings the room it was launched for.)  The reconciler asks only for the
\* reports where it finds the lobby session that verify-ticket opened.
NewRoomsGoToOpenServers ==
  [][\A s \in Servers, r \in Rooms :
       /\ Registered(s)
       /\ servers[s].assigned[r] = 0
       /\ servers'[s].assigned[r] > 0
       /\ RegistersAgain => r \notin LaunchRooms[s]
       => /\ health[s] \in {"healthy", "warning"}
          /\ \/ servers[s].status \in {"online", "busy", "warm", "reserved", "claimed"}
             \/ r = Lobby /\ host[Lobby] = s /\ Lobby \in unreserved]_vars

\* An open session stays on its server while the registry knows it: a ticket for
\* another one, a verification and a lobby that is reconciled do not move it.
SessionKeepsServer ==
  [][\A r \in Rooms :
       host[r] # NoServer /\ Registered(host[r]) => host'[r] \in {host[r], NoServer}]_vars
=============================================================================
