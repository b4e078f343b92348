------------------------ MODULE GameSessions_proofs ------------------------
(***************************************************************************)
(* Theorems about GameSessions, for every value of its constants.          *)
(***************************************************************************)
EXTENDS GameSessions, FiniteSetTheorems, TLAPS

-----------------------------------------------------------------------------
(* What the operators on sessions, tickets and counts return. *)

LEMMA PopulationFinite ==
  ASSUME NEW s
  PROVE  /\ IsFiniteSet(Population(s))
         /\ Cardinality(Population(s)) \in Nat
<1>1. IsFiniteSet(Population(s))
  BY ValueAssumption, FS_Subset DEF Population
<1> QED
  BY <1>1, FS_CardinalityType

LEMMA PlayersInNat ==
  ASSUME NEW ss, NEW ids \in SUBSET SessionIds
  PROVE  PlayersIn(ss, ids) \in Nat
<1>1. IsFiniteSet(ids)
  BY ValueAssumption, FS_Subset
<1>2. IsFiniteSet(ids \X Users)
  BY <1>1, ValueAssumption, FS_Product
<1>3. IsFiniteSet({p \in ids \X Users : IsOpen(ss[p[1]]) /\ p[2] \in Population(ss[p[1]])})
  BY <1>2, FS_Subset
<1> QED
  BY <1>3, FS_CardinalityType DEF PlayersIn

LEMMA BlankSessionType ==
  ASSUME NEW status \in {"unused", "deleted"}
  PROVE  BlankSession(status) \in Session
BY DEF BlankSession, Session, OpenStatuses, EndedStatuses

LEMMA NewSessionType ==
  ASSUME NEW room \in Rooms, NEW server \in Servers, NEW max \in Nat,
         NEW status \in OpenStatuses, NEW permanent \in BOOLEAN
  PROVE  NewSession(room, server, max, status, permanent) \in Session
BY DEF NewSession, Session

LEMMA FallbackSessionType ==
  ASSUME NEW room \in Rooms, NEW server \in Servers
  PROVE  FallbackSession(room, server) \in Session
<1>1. NewSession(room, server, FallbackCapacity, "creating", FALSE) \in Session
  BY CapacityAssumption, NewSessionType DEF OpenStatuses
<1> QED
  BY <1>1 DEF FallbackSession, Session, Registered

LEMMA ChangedSessionType ==
  ASSUME NEW s \in Session, NEW user \in Users, NEW conn \in ConnectionIds
  PROVE  /\ Joined(s, user, conn) \in Session
         /\ Without(s, user) \in Session
         /\ Closed(s) \in Session
BY DEF Joined, Without, Closed, Session, OpenStatuses, EndedStatuses

LEMMA BlankTicketType ==
  ASSUME NEW status \in {"unissued", "removed"}
  PROVE  BlankTicket(status) \in Ticket
BY DEF BlankTicket, Ticket

LEMMA WithoutLapsedType ==
  ASSUME NEW ts \in [TicketIds -> Ticket]
  PROVE  WithoutLapsed(ts) \in [TicketIds -> Ticket]
BY BlankTicketType DEF WithoutLapsed

LEMMA SetPlayerCountType ==
  ASSUME TypeOK, NEW server \in Servers, NEW n \in Nat, SetPlayerCount(server, n)
  PROVE  playerCount' \in [Servers -> PlayerCounts \cup {Unregistered}]
<1>1. Least(n, ServerCapacity) \in PlayerCounts
  BY CapacityAssumption DEF Least, PlayerCounts
<1> QED
  BY <1>1 DEF SetPlayerCount, TypeOK

\* A report changes the count of a server, never whether it is registered.
LEMMA SetPlayerCountRegisters ==
  ASSUME TypeOK, NEW server, NEW n \in Nat, SetPlayerCount(server, n),
         NEW s \in Servers, Registered(s)
  PROVE  Registered(s)'
<1>1. Least(n, ServerCapacity) # Unregistered
  BY CapacityAssumption, ValueAssumption DEF Least
<1> QED
  BY <1>1 DEF SetPlayerCount, TypeOK, Registered

-----------------------------------------------------------------------------
(* The session directory: types, live mappings, one open session per room *)

\* The records in use name real users, rooms, servers and sessions.
RecordsAreReal ==
  /\ \A id \in SessionIds :
       Exists(sessions[id]) => sessions[id].room \in Rooms /\ sessions[id].server \in Servers
  /\ \A t \in TicketIds :
       IsStored(tickets[t]) => /\ tickets[t].user \in Users
                               /\ tickets[t].room \in Rooms
                               /\ tickets[t].server \in Servers
                               /\ tickets[t].session \in SessionIds

\* A stored ticket names a session that was once created, for the ticket's room
\* unless it is deleted by now.
TicketsKnowTheirSession ==
  \A t \in TicketIds : IsStored(tickets[t]) =>
    /\ sessions[tickets[t].session].status # "unused"
    /\ Exists(sessions[tickets[t].session])
         => sessions[tickets[t].session].room = tickets[t].room

DirectoryInv ==
  /\ TypeOK
  /\ RecordsAreReal
  /\ MappingIsLive
  /\ OneOpenSessionPerRoom
  /\ TicketsKnowTheirSession
  /\ OpenSessionHasServer

\* A step that creates and deletes no session, moves none to another room and
\* opens none, stores no new ticket and retires no server, keeps the directory.
StableStep ==
  /\ sessionIdByRoomId' = sessionIdByRoomId
  /\ \A id \in SessionIds :
       /\ Exists(sessions'[id]) <=> Exists(sessions[id])
       /\ sessions'[id].room = sessions[id].room
       /\ sessions'[id].server = sessions[id].server
       /\ sessions'[id].stray = sessions[id].stray
       /\ IsOpen(sessions'[id]) => IsOpen(sessions[id])
       /\ sessions'[id].status = "unused" => sessions[id].status = "unused"
  /\ \A t \in TicketIds :
       IsStored(tickets'[t]) => /\ IsStored(tickets[t])
                                /\ tickets'[t].user = tickets[t].user
                                /\ tickets'[t].room = tickets[t].room
                                /\ tickets'[t].server = tickets[t].server
                                /\ tickets'[t].session = tickets[t].session
  /\ \A s \in Servers : Registered(s) => Registered(s)'

LEMMA StableStepKeepsDirectory ==
  ASSUME DirectoryInv, TypeOK', StableStep
  PROVE  DirectoryInv'
<1>1. RecordsAreReal'
  BY DEF DirectoryInv, RecordsAreReal, StableStep
<1>2. MappingIsLive'
  BY DEF DirectoryInv, TypeOK, MappingIsLive, StableStep
<1>3. OneOpenSessionPerRoom'
  BY DEF DirectoryInv, OneOpenSessionPerRoom, StableStep
<1>4. TicketsKnowTheirSession'
  BY DEF DirectoryInv, RecordsAreReal, TicketsKnowTheirSession, StableStep
<1>5. OpenSessionHasServer'
  BY DEF DirectoryInv, RecordsAreReal, OpenSessionHasServer, StableStep, Exists, Registered
<1> QED
  BY <1>1, <1>2, <1>3, <1>4, <1>5 DEF DirectoryInv

LEMMA InitDirectory == Init => DirectoryInv
<1> SUFFICES ASSUME Init PROVE DirectoryInv
  OBVIOUS
<1>1. TypeOK
  BY BlankSessionType, BlankTicketType DEF Init, TypeOK
<1>2. RecordsAreReal
  BY DEF Init, RecordsAreReal, BlankSession, BlankTicket, Exists, IsOpen, IsEnded,
         OpenStatuses, EndedStatuses, IsStored
<1>3. MappingIsLive
  BY DEF Init, MappingIsLive
<1>4. OneOpenSessionPerRoom
  BY DEF Init, OneOpenSessionPerRoom, BlankSession, IsOpen, OpenStatuses
<1>5. TicketsKnowTheirSession
  BY DEF Init, TicketsKnowTheirSession, BlankTicket, IsStored
<1>6. OpenSessionHasServer
  BY DEF Init, OpenSessionHasServer, BlankSession, IsOpen, OpenStatuses
<1> QED
  BY <1>1, <1>2, <1>3, <1>4, <1>5, <1>6 DEF DirectoryInv

LEMMA RegisterDirectory ==
  ASSUME DirectoryInv, NEW s \in Servers, NEW n \in ReportedCounts,
         RegisterDedicatedServer(s, n)
  PROVE  DirectoryInv'
<1>1. Least(n, ServerCapacity) \in PlayerCounts
  BY CapacityAssumption DEF Least, PlayerCounts, ReportedCounts
<1>2. TypeOK'
  BY <1>1 DEF RegisterDedicatedServer, DirectoryInv, TypeOK
<1>3. \A k \in Servers : Registered(k) => Registered(k)'
  BY <1>1, CapacityAssumption, ValueAssumption
     DEF RegisterDedicatedServer, DirectoryInv, TypeOK, Registered, PlayerCounts
<1>4. StableStep
  BY <1>3 DEF RegisterDedicatedServer, StableStep
<1> QED
  BY <1>2, <1>4, StableStepKeepsDirectory

LEMMA HeartbeatDirectory ==
  ASSUME DirectoryInv, NEW s \in Servers, NEW r \in Rooms \cup {NoRoom},
         NEW n \in ReportedCounts, HeartbeatDedicatedServer(s, r, n)
  PROVE  DirectoryInv'
<1>1. playerCount' \in [Servers -> PlayerCounts \cup {Unregistered}]
  BY CapacityAssumption, SetPlayerCountType
     DEF HeartbeatDedicatedServer, ReportedCounts, DirectoryInv
<1>2. \A id \in SessionIds :
        \/ sessions'[id] = sessions[id]
        \/ sessions'[id] = [sessions[id] EXCEPT !.players = [u \in Users |-> Absent]]
  BY DEF HeartbeatDedicatedServer, Emptied
<1>3. \A id \in SessionIds : /\ sessions'[id] \in Session
                            /\ sessions'[id].status = sessions[id].status
                            /\ sessions'[id].room = sessions[id].room
                            /\ sessions'[id].server = sessions[id].server
                            /\ sessions'[id].stray = sessions[id].stray
  <2> SUFFICES ASSUME NEW id \in SessionIds
               PROVE  /\ sessions'[id] \in Session
                      /\ sessions'[id].status = sessions[id].status
                      /\ sessions'[id].room = sessions[id].room
                      /\ sessions'[id].server = sessions[id].server
                      /\ sessions'[id].stray = sessions[id].stray
    OBVIOUS
  <2>1. sessions[id] \in Session
    BY DEF DirectoryInv, TypeOK
  <2> DEFINE nobody == [u \in Users |-> Absent]
  <2>2. nobody \in [Users -> ConnectionIds \cup {Absent}]
    OBVIOUS
  <2>3. sessions'[id] = sessions[id] \/ sessions'[id] = [sessions[id] EXCEPT !.players = nobody]
    BY <1>2
  <2> HIDE DEF nobody
  <2> QED
    BY <2>1, <2>2, <2>3 DEF Session
<1>4. TypeOK'
  BY <1>1, <1>3 DEF HeartbeatDedicatedServer, Emptied, DirectoryInv, TypeOK
<1>5. \A k \in Servers : Registered(k) => Registered(k)'
  BY CapacityAssumption, SetPlayerCountRegisters
     DEF HeartbeatDedicatedServer, ReportedCounts, DirectoryInv
<1>6. StableStep
  BY <1>3, <1>5 DEF HeartbeatDedicatedServer, StableStep, Exists, IsOpen, IsEnded
<1> QED
  BY <1>4, <1>6, StableStepKeepsDirectory

\* A new open session under an unused id, mapped to its room, when the room had
\* no open session before the step: what the three creating handlers do.
Creates(id, room) ==
  /\ sessions[id].status = "unused"
  /\ sessions'[id].room = room
  /\ Exists(sessions'[id])
  /\ sessionIdByRoomId' = [sessionIdByRoomId EXCEPT ![room] = id]
  /\ \A i \in SessionIds \ {id} :
       /\ Exists(sessions'[i]) <=> Exists(sessions[i])
       /\ sessions'[i].room = sessions[i].room
       /\ sessions'[i].server = sessions[i].server
       /\ sessions'[i].stray = sessions[i].stray
       /\ IsOpen(sessions'[i]) => IsOpen(sessions[i]) /\ sessions[i].room # room
       /\ sessions'[i].status = "unused" => sessions[i].status = "unused"
  /\ \A t \in TicketIds : IsStored(tickets'[t]) =>
       \/ /\ tickets'[t].session = id
          /\ tickets'[t].room = room
       \/ /\ IsStored(tickets[t])
          /\ tickets'[t].session = tickets[t].session
          /\ tickets'[t].room = tickets[t].room
  /\ Registered(sessions[id].server)' \/ sessions'[id].stray
  /\ \A s \in Servers : Registered(s) => Registered(s)'

LEMMA CreationKeepsDirectory ==
  ASSUME DirectoryInv, TypeOK', RecordsAreReal', NEW id \in SessionIds, NEW room \in Rooms,
         Creates(id, room)
  PROVE  DirectoryInv'
<1>1. ~Exists(sessions[id])
  BY DEF Creates, Exists, IsOpen, IsEnded, OpenStatuses, EndedStatuses
<1>2. MappingIsLive'
  BY <1>1 DEF Creates, DirectoryInv, TypeOK, MappingIsLive
<1>3. OneOpenSessionPerRoom'
  BY DEF Creates, DirectoryInv, TypeOK, OneOpenSessionPerRoom
<1>4. \A t \in TicketIds : IsStored(tickets[t]) =>
        tickets[t].session \in SessionIds \ {id}
  BY DEF Creates, DirectoryInv, RecordsAreReal, TicketsKnowTheirSession
<1>5. sessions'[id].status # "unused"
  BY DEF Creates, Exists, IsOpen, IsEnded, OpenStatuses, EndedStatuses
<1>6. TicketsKnowTheirSession'
  BY <1>4, <1>5 DEF Creates, DirectoryInv, TicketsKnowTheirSession
<1>7. OpenSessionHasServer'
  BY DEF Creates, DirectoryInv, RecordsAreReal, OpenSessionHasServer, Exists, Registered
<1> QED
  BY <1>2, <1>3, <1>6, <1>7 DEF DirectoryInv

\* Without an open session in the directory, no session of the room is open.
LEMMA NoOpenSession ==
  ASSUME DirectoryInv, NEW room \in Rooms, ~HasOpenSession(sessions, room),
         NEW id \in SessionIds, IsOpen(sessions[id])
  PROVE  sessions[id].room # room
BY ValueAssumption DEF DirectoryInv, OneOpenSessionPerRoom, HasOpenSession

LEMMA RequestDirectory ==
  ASSUME DirectoryInv, NEW u \in Users, NEW r \in Rooms, NEW s \in Servers,
         NEW m \in Capacities, NEW id \in SessionIds, NEW t \in TicketIds,
         RequestGameServerTicket(u, r, s, m, id, t)
  PROVE  DirectoryInv'
<1> DEFINE new == NewSession(r, s, m, "creating", FALSE)
           issued == [status |-> "valid", user |-> u, room |-> r, server |-> s,
                      session |-> id, lapsed |-> FALSE]
<1>1. new \in Session
  BY CapacityAssumption, NewSessionType DEF OpenStatuses
<1>2. issued \in Ticket
  BY DEF Ticket
<1>3. \A k \in TicketIds :
        \/ tickets'[k] = issued
        \/ tickets'[k] = tickets[k]
        \/ tickets'[k] = BlankTicket("removed")
  BY DEF RequestGameServerTicket, WithoutLapsed
<1>4. TypeOK'
  <2>1. sessions' \in [SessionIds -> Session]
    BY <1>1 DEF RequestGameServerTicket, WithSession, DirectoryInv, TypeOK
  <2>2. tickets' \in [TicketIds -> Ticket]
    BY <1>2, WithoutLapsedType DEF RequestGameServerTicket, DirectoryInv, TypeOK
  <2> QED
    BY <2>1, <2>2 DEF RequestGameServerTicket, DirectoryInv, TypeOK
<1>5. \A k \in SessionIds : \/ sessions'[k] = sessions[k]
                            \/ k = id /\ sessions[id].status = "unused" /\ sessions'[id] = new
  BY DEF RequestGameServerTicket, WithSession, DirectoryInv, TypeOK
<1>6. new.room = r /\ new.server = s /\ Exists(new)
  BY DEF NewSession, Exists, IsOpen, OpenStatuses
<1>7. RecordsAreReal'
  <2>1. ~IsStored(BlankTicket("removed"))
    BY DEF IsStored, BlankTicket
  <2>2. \A k \in TicketIds :
          IsStored(tickets'[k]) => /\ tickets'[k].user \in Users
                                   /\ tickets'[k].room \in Rooms
                                   /\ tickets'[k].server \in Servers
                                   /\ tickets'[k].session \in SessionIds
    BY <1>3, <2>1 DEF DirectoryInv, RecordsAreReal
  <2>3. \A k \in SessionIds :
          Exists(sessions'[k]) => sessions'[k].room \in Rooms /\ sessions'[k].server \in Servers
    BY <1>5, <1>6 DEF DirectoryInv, RecordsAreReal
  <2> QED
    BY <2>2, <2>3 DEF RecordsAreReal
<1>8. \A k \in TicketIds : IsStored(tickets'[k]) =>
         \/ /\ tickets'[k].session = id
            /\ tickets'[k].room = r
         \/ /\ IsStored(tickets[k])
            /\ tickets'[k].session = tickets[k].session
            /\ tickets'[k].room = tickets[k].room
  <2>1. ~IsStored(BlankTicket("removed"))
    BY DEF IsStored, BlankTicket
  <2> QED
    BY <1>3, <2>1
<1>9. playerCount' = playerCount /\ Registered(s)
  BY DEF RequestGameServerTicket
<1>10. CASE HasOpenSession(sessions, r)
  <2>1. id = sessionIdByRoomId[r] /\ IsOpen(sessions[id])
    BY <1>10 DEF RequestGameServerTicket, GetOrCreate, HasOpenSession
  <2>2. sessions' = sessions /\ sessionIdByRoomId' = sessionIdByRoomId
    BY <2>1 DEF RequestGameServerTicket, WithSession, IsOpen, OpenStatuses, DirectoryInv, TypeOK
  <2>3. sessions[id].room = r
    BY <2>1, ValueAssumption DEF DirectoryInv, MappingIsLive
  <2>4. sessions[id].status # "unused" /\ Exists(sessions[id])
    BY <2>1 DEF IsOpen, OpenStatuses, Exists
  <2>5. TicketsKnowTheirSession'
    BY <1>8, <2>2, <2>3, <2>4 DEF DirectoryInv, TicketsKnowTheirSession
  <2>6. OpenSessionHasServer'
    BY <1>9, <2>2 DEF DirectoryInv, OpenSessionHasServer, Registered
  <2> QED
    BY <1>4, <1>7, <2>2, <2>5, <2>6 DEF DirectoryInv, MappingIsLive, OneOpenSessionPerRoom
<1>11. CASE ~HasOpenSession(sessions, r)
  <2>1. sessions[id].status = "unused"
    BY <1>11 DEF RequestGameServerTicket, GetOrCreate
  <2>2. sessions' = [sessions EXCEPT ![id] = new]
    BY <2>1 DEF RequestGameServerTicket, WithSession
  <2>3. sessions'[id] = new
    BY <2>2 DEF DirectoryInv, TypeOK
  <2>4. \A i \in SessionIds \ {id} : sessions'[i] = sessions[i]
    BY <2>2 DEF DirectoryInv, TypeOK
  <2>5. sessionIdByRoomId' = [sessionIdByRoomId EXCEPT ![r] = id]
    BY DEF RequestGameServerTicket
  <2>6. \A i \in SessionIds : IsOpen(sessions[i]) => sessions[i].room # r
    BY <1>11, NoOpenSession
  <2>7. \A k \in Servers : Registered(k) => Registered(k)'
    BY <1>9 DEF Registered
  <2>8. Registered(sessions[id].server)'
    BY <1>6, <1>9, <2>3 DEF Registered
  <2> HIDE DEF new
  <2>9. Creates(id, r)
    BY <1>6, <1>8, <2>1, <2>3, <2>4, <2>5, <2>6, <2>7, <2>8 DEF Creates
  <2> QED
    BY <1>4, <1>7, <2>9, CreationKeepsDirectory
<1> QED
  BY <1>10, <1>11

\* resolveSessionForVerifiedTicket finds the existing session that the request
\* names, or an existing session of the ticket's room, or creates one for it.
LEMMA ResolvedSession ==
  ASSUME DirectoryInv, NEW t \in TicketIds, NEW c, NEW named \in SessionIds \cup {NoSession},
         NEW id \in SessionIds, VerifyGameTicket(t, c, named, id)
  PROVE  LET ticket == tickets[t]
             new == FallbackSession(ticket.room, ticket.server)
             resolved == WithSession(id, new)
         IN  /\ ticket \in Ticket
             /\ ticket.user \in Users
             /\ ticket.room \in Rooms
             /\ ticket.server \in Servers
             /\ ticket.session \in SessionIds
             /\ new \in Session /\ new.room = ticket.room /\ new.server = ticket.server
             /\ IsOpen(new)
             /\ new.stray \/ Registered(ticket.server)
             /\ \/ /\ Exists(sessions[id])
                   /\ named = id \/ sessions[id].room = ticket.room
                   /\ resolved = sessions
                \/ /\ sessions[id].status = "unused"
                   /\ sessionIdByRoomId[ticket.room] = NoSession
                   /\ resolved = [sessions EXCEPT ![id] = new]
<1> DEFINE ticket == tickets[t]
           new == FallbackSession(ticket.room, ticket.server)
           resolved == WithSession(id, new)
<1>1. /\ ticket.user \in Users
      /\ ticket.room \in Rooms
      /\ ticket.server \in Servers
      /\ ticket.session \in SessionIds
      /\ ticket \in Ticket
      /\ IsStored(ticket)
  BY DEF VerifyGameTicket, IsValid, IsStored, DirectoryInv, RecordsAreReal, TypeOK
<1>2. new \in Session /\ new.room = ticket.room /\ new.server = ticket.server /\ IsOpen(new)
  <2>1. new \in Session
    BY <1>1, FallbackSessionType
  <2> QED
    BY <2>1 DEF FallbackSession, NewSession, IsOpen, OpenStatuses
<1>2a. new.stray \/ Registered(ticket.server)
  BY DEF FallbackSession, NewSession
<1>3. \/ /\ Exists(sessions[id])
         /\ named = id \/ sessions[id].room = ticket.room
         /\ resolved = sessions
      \/ /\ sessions[id].status = "unused"
         /\ sessionIdByRoomId[ticket.room] = NoSession
         /\ resolved = [sessions EXCEPT ![id] = new]
  <2> DEFINE wanted == IF named = NoSession THEN ticket.session ELSE named
  <2>1. CASE Exists(sessions[wanted])
    <3>1. id = wanted
      BY <2>1 DEF VerifyGameTicket, ResolveSession
    <3>2. named = id \/ sessions[id].room = ticket.room
      BY <1>1, <2>1, <3>1 DEF DirectoryInv, TicketsKnowTheirSession
    <3> QED
      BY <2>1, <3>1, <3>2 DEF WithSession, Exists, IsOpen, IsEnded, OpenStatuses, EndedStatuses
  <2>2. CASE ~Exists(sessions[wanted]) /\ sessionIdByRoomId[ticket.room] # NoSession
    <3>1. Exists(sessions[id]) /\ sessions[id].room = ticket.room
      BY <2>2, <1>1 DEF VerifyGameTicket, ResolveSession, DirectoryInv, MappingIsLive
    <3> QED
      BY <3>1 DEF WithSession, Exists, IsOpen, IsEnded, OpenStatuses, EndedStatuses
  <2>3. CASE ~Exists(sessions[wanted]) /\ sessionIdByRoomId[ticket.room] = NoSession
    <3>1. sessions[id].status = "unused"
      BY <2>3 DEF VerifyGameTicket, ResolveSession
    <3> QED
      BY <2>3, <3>1 DEF WithSession
  <2> QED
    BY <2>1, <2>2, <2>3
<1> QED
  BY <1>1, <1>2, <1>2a, <1>3

LEMMA VerifyDirectory ==
  ASSUME DirectoryInv, NEW t \in TicketIds, NEW c \in ConnectionIds,
         NEW named \in SessionIds \cup {NoSession}, NEW id \in SessionIds,
         VerifyGameTicket(t, c, named, id)
  PROVE  DirectoryInv'
<1> DEFINE ticket == tickets[t]
           new == FallbackSession(ticket.room, ticket.server)
           resolved == WithSession(id, new)
           joined == CanJoin(resolved[id], ticket.user)
<1>1. /\ ticket.user \in Users
      /\ ticket.room \in Rooms
      /\ ticket.server \in Servers
      /\ ticket.session \in SessionIds
      /\ ticket \in Ticket
  BY ResolvedSession
<1>2. /\ new \in Session /\ new.room = ticket.room /\ new.server = ticket.server /\ IsOpen(new)
      /\ new.stray \/ Registered(ticket.server)
  BY ResolvedSession
<1>3. \/ Exists(sessions[id]) /\ resolved = sessions
      \/ /\ sessions[id].status = "unused"
         /\ sessionIdByRoomId[ticket.room] = NoSession
         /\ resolved = [sessions EXCEPT ![id] = new]
  BY ResolvedSession
<1>4. /\ resolved \in [SessionIds -> Session]
      /\ \A i \in SessionIds \ {id} : resolved[i] = sessions[i]
  BY <1>2, <1>3 DEF DirectoryInv, TypeOK
<1>5. /\ sessions' \in [SessionIds -> Session]
      /\ \A i \in SessionIds \ {id} : sessions'[i] = sessions[i]
      /\ sessions'[id].room = resolved[id].room
      /\ sessions'[id].server = resolved[id].server
      /\ sessions'[id].stray = resolved[id].stray
      /\ Exists(sessions'[id]) <=> Exists(resolved[id])
      /\ IsOpen(sessions'[id]) <=> IsOpen(resolved[id])
      /\ sessions'[id].status = "unused" => resolved[id].status = "unused"
  <2> DEFINE s == resolved[id]
  <2>1. s \in Session
    BY <1>4
  <2>2. CASE joined
    <3>1. sessions' = [resolved EXCEPT ![id] = Joined(s, ticket.user, c)]
      BY <2>2 DEF VerifyGameTicket
    <3>2. Joined(s, ticket.user, c) \in Session
      BY <1>1, <2>1, ChangedSessionType DEF EndedStatuses
    <3>3. /\ Joined(s, ticket.user, c).room = s.room
          /\ Joined(s, ticket.user, c).server = s.server
          /\ Joined(s, ticket.user, c).stray = s.stray
          /\ IsOpen(Joined(s, ticket.user, c))
          /\ Joined(s, ticket.user, c).status # "unused"
      BY <2>1 DEF Joined, Session, IsOpen, OpenStatuses
    <3>4. IsOpen(s)
      BY <2>2 DEF CanJoin
    <3> HIDE DEF resolved, s
    <3> QED
      BY <1>4, <3>1, <3>2, <3>3, <3>4 DEF s, Exists
  <2>3. CASE ~joined
    <3>1. sessions' = resolved
      BY <2>3 DEF VerifyGameTicket
    <3> HIDE DEF resolved
    <3> QED
      BY <1>4, <3>1
  <2> QED
    BY <2>2, <2>3
<1>6. /\ tickets' \in [TicketIds -> Ticket]
      /\ \A k \in TicketIds :
           IsStored(tickets'[k]) => /\ IsStored(tickets[k])
                                    /\ tickets'[k].user = tickets[k].user
                                    /\ tickets'[k].room = tickets[k].room
                                    /\ tickets'[k].server = tickets[k].server
                                    /\ tickets'[k].session = tickets[k].session
      /\ \A k \in TicketIds : IsValid(tickets'[k]) => IsValid(tickets[k])
  <2>1. tickets' = [tickets EXCEPT ![t].status = "consumed"]
    BY DEF VerifyGameTicket
  <2>2. IsStored(tickets[t])
    BY DEF VerifyGameTicket, IsValid, IsStored
  <2> QED
    BY <2>1, <2>2 DEF DirectoryInv, TypeOK, Ticket, IsStored, IsValid
<1>7. playerCount' \in [Servers -> PlayerCounts \cup {Unregistered}]
  <2>1. CASE joined
    <3>1. PICK after : SetPlayerCount(ticket.server, Cardinality(Population(after)))
      BY <2>1 DEF VerifyGameTicket
    <3> QED
      BY <1>1, <3>1, PopulationFinite, SetPlayerCountType DEF DirectoryInv
  <2>2. CASE ~joined
    BY <2>2 DEF VerifyGameTicket, DirectoryInv, TypeOK
  <2> QED
    BY <2>1, <2>2
<1>8. \A k \in Servers : Registered(k) => Registered(k)'
  <2>1. CASE joined
    <3>1. PICK after : SetPlayerCount(ticket.server, Cardinality(Population(after)))
      BY <2>1 DEF VerifyGameTicket
    <3> QED
      BY <3>1, PopulationFinite, SetPlayerCountRegisters DEF DirectoryInv
  <2>2. CASE ~joined
    BY <2>2 DEF VerifyGameTicket, Registered
  <2> QED
    BY <2>1, <2>2
<1>9. admissions' \in [TicketIds -> Nat]
  <2>1. admissions' = [admissions EXCEPT ![t] = @ + 1] \/ admissions' = admissions
    BY DEF VerifyGameTicket
  <2> QED
    BY <2>1 DEF DirectoryInv, TypeOK
<1>10. sessionIdByRoomId' = IF sessions[id].status = "unused"
                           THEN [sessionIdByRoomId EXCEPT ![ticket.room] = id]
                           ELSE sessionIdByRoomId
  <2>1. sessionIdByRoomId' = [sessionIdByRoomId EXCEPT ![resolved[id].room] =
                                IF sessions[id].status = "unused" THEN id ELSE @]
    BY DEF VerifyGameTicket
  <2>2. CASE sessions[id].status = "unused"
    <3>1. resolved[id].room = ticket.room
      BY <1>2, <1>3, <2>2 DEF Exists, IsOpen, IsEnded, OpenStatuses, EndedStatuses, DirectoryInv, TypeOK
    <3> QED
      BY <2>1, <2>2, <3>1
  <2>3. CASE sessions[id].status # "unused"
    BY <2>1, <2>3 DEF DirectoryInv, TypeOK
  <2> QED
    BY <2>2, <2>3
<1>11. TypeOK'
  BY <1>1, <1>5, <1>6, <1>7, <1>9, <1>10 DEF DirectoryInv, TypeOK
<1>12. CASE Exists(sessions[id]) /\ resolved = sessions
  <2>1. sessionIdByRoomId' = sessionIdByRoomId
    BY <1>10, <1>12 DEF Exists, IsOpen, IsEnded, OpenStatuses, EndedStatuses
  <2>2. StableStep
    BY <1>5, <1>6, <1>12, <1>8, <2>1 DEF StableStep
  <2> QED
    BY <1>11, <2>2, StableStepKeepsDirectory
<1>13. CASE /\ sessions[id].status = "unused"
            /\ sessionIdByRoomId[ticket.room] = NoSession
            /\ resolved = [sessions EXCEPT ![id] = new]
  <2>1. resolved[id] = new
    BY <1>13 DEF DirectoryInv, TypeOK
  <2>2. Exists(sessions'[id]) /\ sessions'[id].room = ticket.room /\ sessions'[id].server = ticket.server
    BY <1>2, <1>5, <2>1 DEF Exists
  <2>3. \A i \in SessionIds : IsOpen(sessions[i]) => sessions[i].room # ticket.room
    BY <1>1, <1>13, NoOpenSession DEF HasOpenSession
  <2>4. RecordsAreReal'
    BY <1>1, <1>5, <1>6, <2>2 DEF RecordsAreReal, DirectoryInv
  <2>5. sessionIdByRoomId' = [sessionIdByRoomId EXCEPT ![ticket.room] = id]
    BY <1>10, <1>13
  <2>6. Registered(sessions[id].server)' \/ sessions'[id].stray
    <3>1. sessions'[id].stray = new.stray
      BY <1>5, <2>1
    <3>2. Registered(ticket.server) => playerCount'[ticket.server] # Unregistered
      BY <1>1, <1>8 DEF Registered
    <3>3. new.stray \/ Registered(ticket.server)
      BY <1>2
    <3> HIDE DEF new
    <3> QED
      BY <2>2, <3>1, <3>2, <3>3 DEF Registered
  <2> HIDE DEF resolved, new, joined
  <2>7. Creates(id, ticket.room)
    BY <1>5, <1>6, <1>13, <1>8, <2>2, <2>3, <2>5, <2>6 DEF Creates
  <2> QED
    BY <1>1, <1>11, <2>4, <2>7, CreationKeepsDirectory
<1> QED
  BY <1>3, <1>12, <1>13

LEMMA LeftDirectory ==
  ASSUME DirectoryInv, NEW s \in Servers, NEW r \in Rooms \cup {NoRoom}, NEW u \in Users,
         NEW named \in SessionIds \cup {NoSession}, NEW c \in ConnectionIds,
         ReportPlayerLeft(s, r, u, named, c)
  PROVE  DirectoryInv'
<1> DEFINE listed == ListedSessions(s, r)
           found == {id \in listed : MatchesConnection(sessions[id], u, c)}
           removed == [id \in SessionIds |->
                         IF id \in found THEN Without(sessions[id], u) ELSE sessions[id]]
           emptied == {id \in listed : ClosesWhenEmpty(removed[id])}
           closed == [id \in SessionIds |->
                        IF id \in emptied THEN Closed(removed[id]) ELSE removed[id]]
           Narrows(new, old) == /\ new \in Session
                                /\ Exists(new) <=> Exists(old)
                                /\ new.room = old.room
                                /\ new.server = old.server
                                /\ new.stray = old.stray
                                /\ IsOpen(new) => IsOpen(old)
                                /\ new.status = "unused" => old.status = "unused"
<1>1. \A x \in Session : Narrows(x, x) /\ Narrows(Without(x, u), x)
  BY DEF Without, Session, Exists, IsOpen, IsEnded
<1>2. \A x \in Session : Exists(x) => Narrows(Closed(x), x)
  BY DEF Closed, Session, Exists, IsOpen, IsEnded, OpenStatuses, EndedStatuses
<1>3. \A id \in SessionIds : Narrows(removed[id], sessions[id])
  BY <1>1 DEF DirectoryInv, TypeOK
<1>4. \A id \in SessionIds : Narrows(closed[id], sessions[id])
  <2> SUFFICES ASSUME NEW id \in SessionIds PROVE Narrows(closed[id], sessions[id])
    OBVIOUS
  <2>1. CASE id \in emptied
    <3>1. Exists(removed[id])
      BY <2>1 DEF ClosesWhenEmpty, Exists
    <3>2. closed[id] = Closed(removed[id])
      BY <2>1
    <3> HIDE DEF removed, closed
    <3> QED
      BY <1>2, <1>3, <3>1, <3>2
  <2>2. CASE id \notin emptied
    <3>1. closed[id] = removed[id]
      BY <2>2
    <3> HIDE DEF removed, closed
    <3> QED
      BY <1>3, <3>1
  <2> QED
    BY <2>1, <2>2
<1>5. \/ sessions' = closed
      \/ named \in SessionIds /\ sessions' = [closed EXCEPT ![named] = Without(closed[named], u)]
  BY DEF ReportPlayerLeft, RemovedFromServer
<1>6. \A id \in SessionIds : Narrows(sessions'[id], sessions[id])
  <2>1. closed = [id \in SessionIds |-> closed[id]]
    OBVIOUS
  <2> HIDE DEF closed
  <2>2. CASE sessions' = closed
    BY <1>4, <2>2
  <2>3. CASE named \in SessionIds /\ sessions' = [closed EXCEPT ![named] = Without(closed[named], u)]
    <3> SUFFICES ASSUME NEW id \in SessionIds PROVE Narrows(sessions'[id], sessions[id])
      OBVIOUS
    <3>1. sessions'[id] = IF id = named THEN Without(closed[id], u) ELSE closed[id]
      BY <2>1, <2>3
    <3>2. Narrows(Without(closed[id], u), closed[id])
      BY <1>1, <1>4
    <3> QED
      BY <1>4, <3>1, <3>2
  <2> QED
    BY <1>5, <2>2, <2>3
<1>7. sessions' \in [SessionIds -> Session]
  <2>1. sessions' = [id \in SessionIds |-> sessions'[id]]
    BY <1>5
  <2> QED
    BY <1>6, <2>1
<1>8. playerCount' \in [Servers -> PlayerCounts \cup {Unregistered}]
  <2>1. listed \in SUBSET SessionIds
    BY DEF ListedSessions
  <2>2. \/ \E x : SetPlayerCount(s, PlayersIn(x, listed))
        \/ \E x : SetPlayerCount(s, Cardinality(Population(x)))
        \/ playerCount' = playerCount
    BY DEF ReportPlayerLeft
  <2> QED
    BY <2>1, <2>2, PlayersInNat, PopulationFinite, SetPlayerCountType DEF DirectoryInv, TypeOK
<1>9. UNCHANGED <<sessionIdByRoomId, tickets, admissions>>
  BY DEF ReportPlayerLeft
<1>10. TypeOK'
  BY <1>7, <1>8, <1>9 DEF DirectoryInv, TypeOK
<1>11. \A k \in Servers : Registered(k) => Registered(k)'
  <2>1. listed \in SUBSET SessionIds
    BY DEF ListedSessions
  <2>2. \/ \E x : SetPlayerCount(s, PlayersIn(x, listed))
        \/ \E x : SetPlayerCount(s, Cardinality(Population(x)))
        \/ playerCount' = playerCount
    BY DEF ReportPlayerLeft
  <2>3. ASSUME NEW n \in Nat, SetPlayerCount(s, n)
        PROVE  \A k \in Servers : Registered(k) => Registered(k)'
    BY <2>3, SetPlayerCountRegisters DEF DirectoryInv
  <2>4. CASE playerCount' = playerCount
    BY <2>4 DEF Registered
  <2> QED
    BY <2>1, <2>2, <2>3, <2>4, PlayersInNat, PopulationFinite
<1>12. StableStep
  BY <1>6, <1>9, <1>11 DEF StableStep
<1> QED
  BY <1>10, <1>12, StableStepKeepsDirectory

LEMMA UnnamedReplacementDirectory ==
  ASSUME DirectoryInv, NEW s \in Servers, NEW r \in Rooms \cup {NoRoom},
         NEW n \in ReportedCounts, ReportUnnamedReplacement(s, r, n)
  PROVE  DirectoryInv'
<1>1. PlayersIn(sessions, ListedSessions(s, r)) \in Nat
  BY PlayersInNat DEF ListedSessions
<1>2. Greatest(n, PlayersIn(sessions, ListedSessions(s, r))) \in Nat
  BY <1>1, CapacityAssumption DEF Greatest, ReportedCounts
<1>3. TypeOK'
  BY <1>2, SetPlayerCountType DEF ReportUnnamedReplacement, DirectoryInv, TypeOK
<1>4. \A k \in Servers : Registered(k) => Registered(k)'
  BY <1>2, SetPlayerCountRegisters DEF ReportUnnamedReplacement, DirectoryInv
<1>5. StableStep
  BY <1>4 DEF ReportUnnamedReplacement, StableStep
<1> QED
  BY <1>3, <1>5, StableStepKeepsDirectory

LEMMA ResultDirectory ==
  ASSUME DirectoryInv, NEW id \in SessionIds,
         ReportSessionResult(id)
  PROVE  DirectoryInv'
<1>1. Closed(sessions[id]) \in Session
  BY DEF DirectoryInv, TypeOK, Closed, Session, EndedStatuses
<1>2. TypeOK'
  BY <1>1 DEF ReportSessionResult, DirectoryInv, TypeOK
<1>3. StableStep
  BY DEF ReportSessionResult, StableStep, DirectoryInv, TypeOK, Session, Closed, Exists, IsOpen,
         IsEnded, OpenStatuses, EndedStatuses, Registered
<1> QED
  BY <1>2, <1>3, StableStepKeepsDirectory

LEMMA ReconcileDirectory ==
  ASSUME DirectoryInv, NEW s \in Servers, NEW id \in SessionIds, ReconcileLobby(s, id)
  PROVE  DirectoryInv'
<1> DEFINE old == sessionIdByRoomId[Lobby]
           orphaned == HasOpenSession(sessions, Lobby)
           closed == IF orphaned
                     THEN [sessions EXCEPT ![old] = Closed(sessions[old])] ELSE sessions
           new == NewSession(Lobby, s, LobbyCapacity, "active", TRUE)
<1>1. \A i \in SessionIds : /\ closed[i] \in Session
                            /\ Exists(closed[i]) <=> Exists(sessions[i])
                            /\ closed[i].room = sessions[i].room
                            /\ closed[i].server = sessions[i].server
                            /\ closed[i].stray = sessions[i].stray
                            /\ IsOpen(closed[i]) => IsOpen(sessions[i])
                            /\ closed[i].status = "unused" => sessions[i].status = "unused"
  <2> SUFFICES ASSUME NEW i \in SessionIds
               PROVE  /\ closed[i] \in Session
                      /\ Exists(closed[i]) <=> Exists(sessions[i])
                      /\ closed[i].room = sessions[i].room
                      /\ closed[i].server = sessions[i].server
                      /\ closed[i].stray = sessions[i].stray
                      /\ IsOpen(closed[i]) => IsOpen(sessions[i])
                      /\ closed[i].status = "unused" => sessions[i].status = "unused"
    OBVIOUS
  <2>1. sessions[i] \in Session
    BY DEF DirectoryInv, TypeOK
  <2>2. \/ closed[i] = sessions[i]
        \/ IsOpen(sessions[i]) /\ closed[i] = Closed(sessions[i])
    BY DEF HasOpenSession, DirectoryInv, TypeOK
  <2> HIDE DEF closed
  <2> QED
    BY <2>1, <2>2 DEF Closed, Session, Exists, IsOpen, IsEnded, OpenStatuses, EndedStatuses
<1>2. closed \in [SessionIds -> Session]
  <2>1. closed = [i \in SessionIds |-> closed[i]]
    BY DEF DirectoryInv, TypeOK
  <2> HIDE DEF closed
  <2> QED
    BY <1>1, <2>1
<1>3. UNCHANGED <<tickets, playerCount, admissions>>
  BY DEF ReconcileLobby
<1>4. CASE /\ Registered(s)
           /\ sessions[id].status = "unused"
           /\ sessions' = [closed EXCEPT ![id] = new]
           /\ sessionIdByRoomId' = [sessionIdByRoomId EXCEPT ![Lobby] = id]
  <2>1. new \in Session /\ new.room = Lobby /\ new.server = s /\ Exists(new)
    <3>1. new \in Session
      BY CapacityAssumption, ValueAssumption, NewSessionType DEF OpenStatuses
    <3> QED
      BY <3>1 DEF NewSession, Exists, IsOpen, OpenStatuses
  <2>2. \A i \in SessionIds : IsOpen(closed[i]) => sessions[i].room # Lobby
    <3> SUFFICES ASSUME NEW i \in SessionIds, IsOpen(closed[i]), sessions[i].room = Lobby
                 PROVE  FALSE
      OBVIOUS
    <3>1. IsOpen(sessions[i])
      BY <1>1
    <3>2. old = i /\ orphaned
      BY <3>1, ValueAssumption DEF DirectoryInv, OneOpenSessionPerRoom, HasOpenSession
    <3>3. closed[i] = Closed(sessions[i])
      BY <3>2 DEF DirectoryInv, TypeOK
    <3>4. ~IsOpen(Closed(sessions[i]))
      BY DEF Closed, IsOpen, OpenStatuses, DirectoryInv, TypeOK, Session
    <3> QED
      BY <3>3, <3>4
  <2> HIDE DEF closed, new
  <2>3. sessions'[id] = new /\ \A i \in SessionIds \ {id} : sessions'[i] = closed[i]
    BY <1>2, <1>4
  <2>4. TypeOK'
    BY <1>2, <1>3, <1>4, <2>1, ValueAssumption DEF DirectoryInv, TypeOK
  <2>5. RecordsAreReal'
    BY <1>1, <1>3, <2>1, <2>3, ValueAssumption DEF DirectoryInv, RecordsAreReal
  <2>6. \A i \in SessionIds \ {id} :
          /\ Exists(sessions'[i]) <=> Exists(sessions[i])
          /\ sessions'[i].room = sessions[i].room
          /\ sessions'[i].server = sessions[i].server
          /\ sessions'[i].stray = sessions[i].stray
          /\ IsOpen(sessions'[i]) => IsOpen(sessions[i]) /\ sessions[i].room # Lobby
          /\ sessions'[i].status = "unused" => sessions[i].status = "unused"
    BY <1>1, <2>2, <2>3
  <2>7. /\ Exists(sessions'[id])
        /\ sessions'[id].room = Lobby
        /\ Registered(sessions[id].server)'
        /\ \A k \in Servers : Registered(k) => Registered(k)'
    BY <1>3, <1>4, <2>1, <2>3 DEF Registered
  <2>8. Creates(id, Lobby)
    BY <1>3, <1>4, <2>6, <2>7 DEF Creates
  <2> QED
    BY <2>4, <2>5, <2>8, ValueAssumption, CreationKeepsDirectory
<1>5. CASE sessions' = closed /\ UNCHANGED sessionIdByRoomId
  <2> HIDE DEF closed
  <2>1. TypeOK'
    BY <1>2, <1>3, <1>5 DEF DirectoryInv, TypeOK
  <2>2. StableStep
    BY <1>1, <1>3, <1>5 DEF StableStep, Registered
  <2> QED
    BY <2>1, <2>2, StableStepKeepsDirectory
<1>6. \/ /\ Registered(s)
         /\ sessions[id].status = "unused"
         /\ sessions' = [closed EXCEPT ![id] = new]
         /\ sessionIdByRoomId' = [sessionIdByRoomId EXCEPT ![Lobby] = id]
      \/ sessions' = closed /\ UNCHANGED sessionIdByRoomId
  BY DEF ReconcileLobby
<1> QED
  BY <1>4, <1>5, <1>6

LEMMA CleanupDirectory ==
  ASSUME DirectoryInv, NEW old \in SUBSET SessionIds, NEW retired \in SUBSET Servers,
         Cleanup(old, retired)
  PROVE  DirectoryInv'
<1>1. \A i \in SessionIds :
        \/ i \in old /\ sessions'[i] = BlankSession("deleted")
        \/ i \notin old /\ IsOpen(sessions[i]) /\ sessions'[i] = Closed(sessions[i])
        \/ i \notin old /\ sessions'[i] = sessions[i]
  BY DEF Cleanup
<1>2. \A i \in SessionIds :
        /\ sessions'[i] \in Session
        /\ i \in old => ~Exists(sessions'[i])
        /\ i \notin old => /\ Exists(sessions'[i]) <=> Exists(sessions[i])
                           /\ sessions'[i].room = sessions[i].room
                           /\ sessions'[i].server = sessions[i].server
                           /\ sessions'[i].stray = sessions[i].stray
                           /\ IsOpen(sessions'[i]) => IsOpen(sessions[i])
                           /\ sessions'[i].status = "unused"
                                => sessions[i].status = "unused"
  <2> SUFFICES ASSUME NEW i \in SessionIds
               PROVE  /\ sessions'[i] \in Session
                      /\ i \in old => ~Exists(sessions'[i])
                      /\ i \notin old => /\ Exists(sessions'[i]) <=> Exists(sessions[i])
                                         /\ sessions'[i].room = sessions[i].room
                                         /\ sessions'[i].server = sessions[i].server
                                         /\ sessions'[i].stray = sessions[i].stray
                                         /\ IsOpen(sessions'[i]) => IsOpen(sessions[i])
                                         /\ sessions'[i].status = "unused"
                                              => sessions[i].status = "unused"
    OBVIOUS
  <2>1. sessions[i] \in Session
    BY DEF DirectoryInv, TypeOK
  <2>2. BlankSession("deleted") \in Session /\ ~Exists(BlankSession("deleted"))
    BY BlankSessionType DEF BlankSession, Exists, IsOpen, IsEnded, OpenStatuses, EndedStatuses
  <2>3. CASE i \in old
    BY <1>1, <2>2, <2>3
  <2>4. CASE i \notin old /\ sessions'[i] = Closed(sessions[i]) /\ IsOpen(sessions[i])
    BY <2>1, <2>4 DEF Closed, Session, Exists, IsOpen, IsEnded, OpenStatuses, EndedStatuses
  <2>5. CASE i \notin old /\ sessions'[i] = sessions[i]
    BY <2>1, <2>5
  <2> QED
    BY <1>1, <2>3, <2>4, <2>5
<1>3. TypeOK'
  <2>1. sessions' \in [SessionIds -> Session]
    <3>1. sessions' = [i \in SessionIds |-> sessions'[i]]
      BY DEF Cleanup
    <3> QED
      BY <1>2, <3>1
  <2>2. tickets' \in [TicketIds -> Ticket]
    BY WithoutLapsedType DEF Cleanup, DirectoryInv, TypeOK
  <2> QED
    BY <2>1, <2>2 DEF Cleanup, DirectoryInv, TypeOK
<1>4. RecordsAreReal'
  <2>1. \A k \in TicketIds : tickets'[k] = tickets[k] \/ tickets'[k] = BlankTicket("removed")
    BY DEF Cleanup, WithoutLapsed
  <2>2. ~IsStored(BlankTicket("removed"))
    BY DEF IsStored, BlankTicket
  <2> QED
    BY <1>2, <2>1, <2>2 DEF RecordsAreReal, DirectoryInv
<1>5. \A r \in Rooms : sessionIdByRoomId'[r] =
        IF sessionIdByRoomId[r] \in old THEN NoSession ELSE sessionIdByRoomId[r]
  BY DEF Cleanup
<1>6. MappingIsLive'
  BY <1>2, <1>5 DEF DirectoryInv, TypeOK, MappingIsLive
<1>7. OneOpenSessionPerRoom'
  <2> SUFFICES ASSUME NEW i \in SessionIds, IsOpen(sessions'[i])
               PROVE  sessionIdByRoomId'[sessions'[i].room] = i
    BY DEF OneOpenSessionPerRoom
  <2>1. i \notin old /\ IsOpen(sessions[i]) /\ sessions'[i].room = sessions[i].room
    BY <1>2 DEF Exists
  <2>2. sessions[i].room \in Rooms
    BY <2>1 DEF DirectoryInv, RecordsAreReal, Exists
  <2> QED
    BY <1>5, <2>1, <2>2 DEF DirectoryInv, OneOpenSessionPerRoom
<1>8. \A i \in old : sessions'[i].status # "unused"
  BY <1>1 DEF Cleanup, BlankSession
<1>9. \A k \in TicketIds : IsStored(tickets'[k]) => tickets'[k] = tickets[k]
  BY DEF Cleanup, WithoutLapsed, IsStored, BlankTicket
<1>10. TicketsKnowTheirSession'
  BY <1>2, <1>8, <1>9 DEF DirectoryInv, RecordsAreReal, TicketsKnowTheirSession
<1>11. OpenSessionHasServer'
  <2>1. ASSUME NEW i \in SessionIds, IsOpen(sessions'[i])
        PROVE  playerCount'[sessions'[i].server] # Unregistered \/ sessions'[i].stray
    <3>1. /\ i \notin old /\ IsOpen(sessions[i])
          /\ sessions'[i].server = sessions[i].server
          /\ sessions'[i].stray = sessions[i].stray
          /\ sessions[i].server \in Servers
      BY <1>2, <2>1 DEF DirectoryInv, RecordsAreReal, Exists
    <3>2. sessions[i].server \notin retired
      <4>1. ~IsOpen(Closed(sessions[i]))
        BY DEF Closed, IsOpen, OpenStatuses, DirectoryInv, TypeOK, Session
      <4>2. sessions[i].server \in retired => sessions'[i] = Closed(sessions[i])
        BY <3>1 DEF Cleanup
      <4> QED
        BY <2>1, <4>1, <4>2
    <3> QED
      BY <3>1, <3>2 DEF Cleanup, DirectoryInv, OpenSessionHasServer, Registered
  <2> QED
    BY <2>1 DEF OpenSessionHasServer, Registered
<1> QED
  BY <1>3, <1>4, <1>6, <1>7, <1>10, <1>11 DEF DirectoryInv

LEMMA LapseDirectory ==
  ASSUME DirectoryInv, NEW t \in TicketIds, Lapse(t)
  PROVE  DirectoryInv'
<1>1. tickets' \in [TicketIds -> Ticket]
  <2>1. tickets[t] \in Ticket
    BY DEF DirectoryInv, TypeOK
  <2>2. [tickets[t] EXCEPT !.lapsed = TRUE] \in Ticket
    BY <2>1 DEF Ticket
  <2> QED
    BY <2>2 DEF Lapse, DirectoryInv, TypeOK
<1>2. TypeOK'
  BY <1>1 DEF Lapse, DirectoryInv, TypeOK
<1>3. StableStep
  BY DEF Lapse, StableStep, DirectoryInv, TypeOK, Ticket, IsStored, IsValid, Registered
<1> QED
  BY <1>2, <1>3, StableStepKeepsDirectory

LEMMA RestartDirectory ==
  ASSUME DirectoryInv, Restart
  PROVE  DirectoryInv'
<1>1. TypeOK'
  BY BlankSessionType, BlankTicketType DEF Restart, DirectoryInv, TypeOK
<1>2. \A i \in SessionIds : ~Exists(sessions'[i])
  BY DEF Restart, BlankSession, Exists, IsOpen, IsEnded, OpenStatuses, EndedStatuses
<1>3. \A t \in TicketIds : ~IsStored(tickets'[t])
  BY DEF Restart, BlankTicket, IsStored
<1>4. RecordsAreReal'
  BY <1>2, <1>3 DEF RecordsAreReal
<1>5. MappingIsLive'
  BY DEF Restart, MappingIsLive
<1>6. OneOpenSessionPerRoom'
  BY <1>2 DEF OneOpenSessionPerRoom, Exists
<1>7. TicketsKnowTheirSession'
  BY <1>3 DEF TicketsKnowTheirSession
<1>8. OpenSessionHasServer'
  BY <1>2 DEF OpenSessionHasServer, Exists
<1> QED
  BY <1>1, <1>4, <1>5, <1>6, <1>7, <1>8 DEF DirectoryInv

\* The directory is an inductive invariant: every operation of the registry
\* keeps types, live mappings and the single open session of a room.
THEOREM DirectoryCorrect == Spec => []DirectoryInv
<1>1. Init => DirectoryInv
  BY InitDirectory
<1>2. DirectoryInv /\ [Next]_vars => DirectoryInv'
  <2> SUFFICES ASSUME DirectoryInv, [Next]_vars PROVE DirectoryInv'
    OBVIOUS
  <2>1. CASE UNCHANGED vars
    BY <2>1 DEF vars, DirectoryInv, TypeOK, RecordsAreReal, MappingIsLive, OneOpenSessionPerRoom,
                TicketsKnowTheirSession, OpenSessionHasServer, Registered
  <2>2. ASSUME NEW s \in Servers, NEW n \in ReportedCounts, RegisterDedicatedServer(s, n)
        PROVE  DirectoryInv'
    BY <2>2, RegisterDirectory
  <2>3. ASSUME NEW s \in Servers, NEW r \in Rooms \cup {NoRoom}, NEW n \in ReportedCounts,
               HeartbeatDedicatedServer(s, r, n)
        PROVE  DirectoryInv'
    BY <2>3, HeartbeatDirectory
  <2>4. ASSUME NEW u \in Users, NEW r \in Rooms, NEW s \in Servers, NEW m \in Capacities,
               NEW id \in SessionIds, NEW t \in TicketIds,
               RequestGameServerTicket(u, r, s, m, id, t)
        PROVE  DirectoryInv'
    BY <2>4, RequestDirectory
  <2>5. ASSUME NEW t \in TicketIds, NEW c \in ConnectionIds,
               NEW named \in SessionIds \cup {NoSession}, NEW id \in SessionIds,
               VerifyGameTicket(t, c, named, id)
        PROVE  DirectoryInv'
    BY <2>5, VerifyDirectory
  <2>6. ASSUME NEW s \in Servers, NEW r \in Rooms \cup {NoRoom}, NEW u \in Users,
               NEW named \in SessionIds \cup {NoSession}, NEW c \in ConnectionIds,
               ReportPlayerLeft(s, r, u, named, c)
        PROVE  DirectoryInv'
    BY <2>6, LeftDirectory
  <2>7. ASSUME NEW s \in Servers, NEW r \in Rooms \cup {NoRoom}, NEW n \in ReportedCounts,
               ReportUnnamedReplacement(s, r, n)
        PROVE  DirectoryInv'
    BY <2>7, UnnamedReplacementDirectory
  <2>8. ASSUME NEW id \in SessionIds, ReportSessionResult(id)
        PROVE  DirectoryInv'
    BY <2>8, ResultDirectory
  <2>9. ASSUME NEW s \in Servers, NEW id \in SessionIds, ReconcileLobby(s, id)
        PROVE  DirectoryInv'
    BY <2>9, ReconcileDirectory
  <2>10. ASSUME NEW old \in SUBSET SessionIds, NEW retired \in SUBSET Servers,
                Cleanup(old, retired)
         PROVE  DirectoryInv'
    BY <2>10, CleanupDirectory
  <2>11. ASSUME NEW t \in TicketIds, Lapse(t)
         PROVE  DirectoryInv'
    BY <2>11, LapseDirectory
  <2>12. CASE Restart
    BY <2>12, RestartDirectory
  <2> QED
    BY <2>1, <2>2, <2>3, <2>4, <2>5, <2>6, <2>7, <2>8, <2>9, <2>10, <2>11, <2>12 DEF Next
<1> QED
  BY <1>1, <1>2, PTL DEF Spec

\* Every reachable state of the registry, the store and the counts has its type.
THEOREM TypeCorrect == Spec => []TypeOK
<1>1. DirectoryInv => TypeOK
  BY DEF DirectoryInv
<1> QED
  BY <1>1, DirectoryCorrect, PTL

\* However many users ask for a room at the same time, and however requests,
\* reports, cleanups and restarts interleave, one open session serves it.
THEOREM OneOpenSession == Spec => []OneOpenSessionPerRoom
<1>1. DirectoryInv => OneOpenSessionPerRoom
  BY DEF DirectoryInv
<1> QED
  BY <1>1, DirectoryCorrect, PTL

\* The room index never points at a deleted session or at another room's.
THEOREM MappingStaysLive == Spec => []MappingIsLive
<1>1. DirectoryInv => MappingIsLive
  BY DEF DirectoryInv
<1> QED
  BY <1>1, DirectoryCorrect, PTL

\* A session stays open only on a server that the registry knows, so that its
\* heartbeats and its retirement reach it, or a verification made it for a server
\* that was already gone, whose retirement is past.
THEOREM OpenSessionsReachable == Spec => []OpenSessionHasServer
<1>1. DirectoryInv => OpenSessionHasServer
  BY DEF DirectoryInv
<1> QED
  BY <1>1, DirectoryCorrect, PTL

-----------------------------------------------------------------------------
(* Capacity, and the end of a session *)

\* What a step may do to one session: create it or let a player join within its
\* capacity, while it is not ended; shrink it; or delete it.
SafeChange(old, new) ==
  \/ ~IsEnded(old) /\ Cardinality(Population(new)) <= new.max
  \/ /\ Population(new) \subseteq Population(old)
     /\ new.max = old.max
     /\ IsOpen(new) => IsOpen(old)
  \/ Population(new) = {} /\ ~IsOpen(new) /\ new.max \in Nat

SafeStep == \A id \in SessionIds : SafeChange(sessions[id], sessions'[id])

LEMMA SameIsSafe == \A s : SafeChange(s, s)
BY DEF SafeChange

LEMMA ClosedIsSafe ==
  ASSUME NEW s \in Session
  PROVE  SafeChange(s, Closed(s))
BY DEF SafeChange, Closed, Session, Population, IsOpen, OpenStatuses, EndedStatuses

LEMMA BlankIsSafe ==
  ASSUME NEW s, NEW status \in {"unused", "deleted"}
  PROVE  SafeChange(s, BlankSession(status))
BY DEF SafeChange, BlankSession, Population, IsOpen, OpenStatuses

\* A new session is empty.
LEMMA NewIsSafe ==
  ASSUME NEW room, NEW server, NEW max \in Nat, NEW status, NEW permanent, NEW s, ~IsEnded(s)
  PROVE  SafeChange(s, NewSession(room, server, max, status, permanent))
<1> DEFINE new == NewSession(room, server, max, status, permanent)
<1>1. Population(new) = {} /\ new.max = max
  BY DEF NewSession, Population
<1>2. Cardinality(Population(new)) <= max
  BY <1>1, FS_EmptySet
<1> QED
  BY <1>1, <1>2 DEF SafeChange

\* A join that canJoin allows keeps the session within its capacity.
LEMMA JoinWithinCapacity ==
  ASSUME NEW s \in Session, Cardinality(Population(s)) <= s.max,
         NEW user \in Users, NEW conn \in ConnectionIds, CanJoin(s, user)
  PROVE  Cardinality(Population(Joined(s, user, conn))) <= Joined(s, user, conn).max
<1> DEFINE new == Joined(s, user, conn)
<1>1. conn # Absent
  BY ValueAssumption DEF ConnectionIds
<1>2. new.max = s.max /\ new.players = [s.players EXCEPT ![user] = conn]
  BY DEF Joined, Session
<1>3. Population(new) = Population(s) \cup {user}
  <2> HIDE DEF new
  <2> QED
    BY <1>1, <1>2 DEF Population, Session
<1>4. IsFiniteSet(Population(s)) /\ Cardinality(Population(s)) \in Nat /\ s.max \in Nat
  BY PopulationFinite DEF Session
<1>5. CASE user \in Population(s)
  <2>1. Population(s) \cup {user} = Population(s)
    BY <1>5
  <2> QED
    BY <1>2, <1>3, <2>1
<1>6. CASE user \notin Population(s)
  <2>1. Cardinality(Population(s)) < s.max
    BY <1>6 DEF CanJoin
  <2>2. Cardinality(Population(s) \cup {user}) = Cardinality(Population(s)) + 1
    BY <1>4, <1>6, FS_AddElement
  <2>3. Cardinality(Population(new)) <= new.max
    <3> HIDE DEF new
    <3> QED
      BY <1>2, <1>3, <1>4, <2>1, <2>2
  <2> QED
    BY <2>3
<1> QED
  BY <1>5, <1>6

LEMMA HeartbeatSafe ==
  ASSUME TypeOK, NEW s \in Servers, NEW r \in Rooms \cup {NoRoom},
         NEW n \in ReportedCounts, HeartbeatDedicatedServer(s, r, n)
  PROVE  SafeStep
<1> SUFFICES ASSUME NEW id \in SessionIds PROVE SafeChange(sessions[id], sessions'[id])
  BY DEF SafeStep
<1> DEFINE nobody == [u \in Users |-> Absent]
<1>1. \/ sessions'[id] = sessions[id]
      \/ sessions'[id] = [sessions[id] EXCEPT !.players = nobody]
  BY DEF HeartbeatDedicatedServer, Emptied
<1>2. CASE sessions'[id] = [sessions[id] EXCEPT !.players = nobody]
  <2>1. Population(sessions'[id]) = {}
    <3>1. sessions'[id].players = nobody
      BY <1>2 DEF TypeOK, Session
    <3> QED
      BY <3>1 DEF Population
  <2> HIDE DEF nobody
  <2>2. sessions'[id].max = sessions[id].max /\ sessions'[id].status = sessions[id].status
    BY <1>2 DEF TypeOK, Session
  <2> QED
    BY <2>1, <2>2 DEF SafeChange, IsOpen
<1> QED
  BY <1>1, <1>2, SameIsSafe

LEMMA RequestSafe ==
  ASSUME TypeOK, NEW u \in Users, NEW r \in Rooms, NEW s \in Servers,
         NEW m \in Capacities, NEW id \in SessionIds, NEW t \in TicketIds,
         RequestGameServerTicket(u, r, s, m, id, t)
  PROVE  SafeStep
<1> DEFINE new == NewSession(r, s, m, "creating", FALSE)
<1>1. \A k \in SessionIds : \/ sessions'[k] = sessions[k]
                            \/ sessions[k].status = "unused" /\ sessions'[k] = new
  BY DEF RequestGameServerTicket, WithSession, TypeOK
<1>2. \A k \in SessionIds : sessions[k].status = "unused" => SafeChange(sessions[k], new)
  BY CapacityAssumption, NewIsSafe DEF IsEnded, EndedStatuses
<1> HIDE DEF new
<1> QED
  BY <1>1, <1>2, SameIsSafe DEF SafeStep

LEMMA VerifySafe ==
  ASSUME TypeOK, RecordsAreReal, WithinCapacity, NEW t \in TicketIds, NEW c \in ConnectionIds,
         NEW named \in SessionIds \cup {NoSession}, NEW id \in SessionIds,
         VerifyGameTicket(t, c, named, id)
  PROVE  SafeStep
<1> DEFINE ticket == tickets[t]
           new == FallbackSession(ticket.room, ticket.server)
           resolved == WithSession(id, new)
           joined == CanJoin(resolved[id], ticket.user)
           after == [resolved EXCEPT ![id] = Joined(resolved[id], ticket.user, c)]
<1>1. ticket.user \in Users /\ ticket.room \in Rooms /\ ticket.server \in Servers
  BY DEF VerifyGameTicket, IsValid, IsStored, RecordsAreReal
<1>2. new \in Session
  BY <1>1, FallbackSessionType
<1>3. Cardinality(Population(new)) <= new.max
  <2>1. Population(new) = {} /\ new.max = FallbackCapacity
    BY DEF FallbackSession, NewSession, Population
  <2> HIDE DEF new
  <2> QED
    BY <2>1, FS_EmptySet, CapacityAssumption
<1>4. \/ resolved = sessions
      \/ sessions[id].status = "unused" /\ resolved = [sessions EXCEPT ![id] = new]
  BY DEF WithSession
<1> HIDE DEF new
<1>5. \A k \in SessionIds \ {id} : resolved[k] = sessions[k]
  BY <1>4 DEF TypeOK
<1>6. /\ resolved \in [SessionIds -> Session]
      /\ Cardinality(Population(resolved[id])) <= resolved[id].max
      /\ SafeChange(sessions[id], resolved[id])
      /\ IsOpen(resolved[id]) => ~IsEnded(sessions[id])
  <2>1. CASE resolved = sessions
    <3>1. IsOpen(sessions[id]) => ~IsEnded(sessions[id])
      BY DEF IsOpen, IsEnded, OpenStatuses, EndedStatuses
    <3> QED
      BY <2>1, <3>1, SameIsSafe DEF TypeOK, WithinCapacity
  <2>2. CASE sessions[id].status = "unused" /\ resolved = [sessions EXCEPT ![id] = new]
    <3>1. resolved[id] = new /\ resolved \in [SessionIds -> Session]
      BY <1>2, <2>2 DEF TypeOK
    <3>2. ~IsEnded(sessions[id])
      BY <2>2 DEF IsEnded, EndedStatuses
    <3> HIDE DEF resolved
    <3> QED
      BY <1>3, <3>1, <3>2 DEF SafeChange
  <2> QED
    BY <1>4, <2>1, <2>2
<1> HIDE DEF resolved
<1>7. CASE joined
  <2>1. sessions' = after
    BY <1>7 DEF VerifyGameTicket, resolved, new
  <2>2. sessions'[id] = Joined(resolved[id], ticket.user, c)
    BY <1>6, <2>1
  <2>3. \A k \in SessionIds \ {id} : sessions'[k] = sessions[k]
    BY <1>5, <1>6, <2>1
  <2>4. Cardinality(Population(sessions'[id])) <= sessions'[id].max
    BY <1>1, <1>6, <1>7, <2>2, JoinWithinCapacity
  <2>5. ~IsEnded(sessions[id])
    BY <1>6, <1>7 DEF CanJoin
  <2> QED
    BY <2>3, <2>4, <2>5, SameIsSafe DEF SafeStep, SafeChange
<1>8. CASE ~joined
  <2>1. sessions' = resolved
    BY <1>8 DEF VerifyGameTicket, resolved, new
  <2> QED
    BY <1>5, <1>6, <2>1, SameIsSafe DEF SafeStep
<1> QED
  BY <1>7, <1>8

LEMMA LeftSafe ==
  ASSUME TypeOK, NEW s \in Servers, NEW r \in Rooms \cup {NoRoom}, NEW u \in Users,
         NEW named \in SessionIds \cup {NoSession}, NEW c \in ConnectionIds,
         ReportPlayerLeft(s, r, u, named, c)
  PROVE  SafeStep
<1> DEFINE listed == ListedSessions(s, r)
           found == {id \in listed : MatchesConnection(sessions[id], u, c)}
           removed == [id \in SessionIds |->
                         IF id \in found THEN Without(sessions[id], u) ELSE sessions[id]]
           emptied == {id \in listed : ClosesWhenEmpty(removed[id])}
           closed == [id \in SessionIds |->
                        IF id \in emptied THEN Closed(removed[id]) ELSE removed[id]]
           Shrinks(new, old) == /\ new \in Session
                                /\ Population(new) \subseteq Population(old)
                                /\ new.max = old.max
                                /\ IsOpen(new) => IsOpen(old)
<1>1. \A x \in Session : Shrinks(x, x) /\ Shrinks(Without(x, u), x)
  BY DEF Without, Session, Population, IsOpen
<1>2. \A x \in Session : Shrinks(Closed(x), x)
  BY DEF Closed, Session, Population, IsOpen, OpenStatuses, EndedStatuses
<1>3. \A id \in SessionIds : Shrinks(removed[id], sessions[id])
  BY <1>1 DEF TypeOK
<1>4. \A id \in SessionIds : closed[id] = removed[id] \/ closed[id] = Closed(removed[id])
  OBVIOUS
<1>5. \A id \in SessionIds : Shrinks(closed[id], sessions[id])
  <2> HIDE DEF removed, closed
  <2> QED
    BY <1>2, <1>3, <1>4
<1>6. \/ sessions' = closed
      \/ named \in SessionIds /\ sessions' = [closed EXCEPT ![named] = Without(closed[named], u)]
  BY DEF ReportPlayerLeft, RemovedFromServer
<1>7. \A id \in SessionIds : \/ sessions'[id] = closed[id]
                             \/ sessions'[id] = Without(closed[id], u)
  <2>1. closed = [id \in SessionIds |-> closed[id]]
    OBVIOUS
  <2> HIDE DEF closed
  <2> QED
    BY <1>6, <2>1
<1>8. \A id \in SessionIds : Shrinks(sessions'[id], sessions[id])
  <2> HIDE DEF closed
  <2>1. \A id \in SessionIds : Shrinks(Without(closed[id], u), closed[id])
    BY <1>1, <1>5
  <2> QED
    BY <1>5, <1>7, <2>1
<1> QED
  BY <1>8 DEF SafeStep, SafeChange

LEMMA ReconcileSafe ==
  ASSUME TypeOK, NEW s \in Servers, NEW id \in SessionIds, ReconcileLobby(s, id)
  PROVE  SafeStep
<1> DEFINE new == NewSession(Lobby, s, LobbyCapacity, "active", TRUE)
<1>1. \A k \in SessionIds :
        \/ sessions'[k] = sessions[k]
        \/ sessions'[k] = Closed(sessions[k])
        \/ sessions[k].status = "unused" /\ sessions'[k] = new
  BY DEF ReconcileLobby, TypeOK
<1>2. \A k \in SessionIds : sessions[k].status = "unused" => SafeChange(sessions[k], new)
  BY CapacityAssumption, NewIsSafe DEF IsEnded, EndedStatuses
<1>3. \A k \in SessionIds : SafeChange(sessions[k], Closed(sessions[k]))
  BY ClosedIsSafe DEF TypeOK, EndedStatuses
<1> HIDE DEF new
<1> QED
  BY <1>1, <1>2, <1>3, SameIsSafe DEF SafeStep

LEMMA CleanupSafe ==
  ASSUME TypeOK, NEW old \in SUBSET SessionIds, NEW retired \in SUBSET Servers,
         Cleanup(old, retired)
  PROVE  SafeStep
<1>1. \A k \in SessionIds :
        \/ sessions'[k] = BlankSession("deleted")
        \/ sessions'[k] = Closed(sessions[k])
        \/ sessions'[k] = sessions[k]
  BY DEF Cleanup
<1>2. \A k \in SessionIds : SafeChange(sessions[k], Closed(sessions[k]))
  BY ClosedIsSafe DEF TypeOK, EndedStatuses
<1>3. \A k \in SessionIds : SafeChange(sessions[k], BlankSession("deleted"))
  BY BlankIsSafe
<1> QED
  BY <1>1, <1>2, <1>3, SameIsSafe DEF SafeStep

LEMMA NextIsSafe ==
  ASSUME TypeOK, RecordsAreReal, WithinCapacity, [Next]_vars
  PROVE  SafeStep
<1>1. CASE sessions' = sessions
  BY <1>1, SameIsSafe DEF SafeStep
<1>2. ASSUME NEW s \in Servers, NEW r \in Rooms \cup {NoRoom}, NEW n \in ReportedCounts,
             HeartbeatDedicatedServer(s, r, n)
      PROVE  SafeStep
  BY <1>2, HeartbeatSafe
<1>3. ASSUME NEW u \in Users, NEW r \in Rooms, NEW s \in Servers, NEW m \in Capacities,
             NEW id \in SessionIds, NEW t \in TicketIds,
             RequestGameServerTicket(u, r, s, m, id, t)
      PROVE  SafeStep
  BY <1>3, RequestSafe
<1>4. ASSUME NEW t \in TicketIds, NEW c \in ConnectionIds,
             NEW named \in SessionIds \cup {NoSession}, NEW id \in SessionIds,
             VerifyGameTicket(t, c, named, id)
      PROVE  SafeStep
  BY <1>4, VerifySafe
<1>5. ASSUME NEW s \in Servers, NEW r \in Rooms \cup {NoRoom}, NEW u \in Users,
             NEW named \in SessionIds \cup {NoSession}, NEW c \in ConnectionIds,
             ReportPlayerLeft(s, r, u, named, c)
      PROVE  SafeStep
  BY <1>5, LeftSafe
<1>6. ASSUME NEW id \in SessionIds, ReportSessionResult(id)
      PROVE  SafeStep
  <2>1. \A k \in SessionIds : sessions'[k] \in {sessions[k], Closed(sessions[k])}
    BY <1>6 DEF ReportSessionResult, TypeOK
  <2>2. \A k \in SessionIds : SafeChange(sessions[k], Closed(sessions[k]))
    BY ClosedIsSafe DEF TypeOK
  <2> QED
    BY <2>1, <2>2, SameIsSafe DEF SafeStep
<1>7. ASSUME NEW s \in Servers, NEW id \in SessionIds, ReconcileLobby(s, id)
      PROVE  SafeStep
  BY <1>7, ReconcileSafe
<1>8. ASSUME NEW old \in SUBSET SessionIds, NEW retired \in SUBSET Servers, Cleanup(old, retired)
      PROVE  SafeStep
  BY <1>8, CleanupSafe
<1>9. CASE Restart
  <2>1. \A k \in SessionIds : sessions'[k] \in {sessions[k], BlankSession("deleted")}
    BY <1>9 DEF Restart
  <2> QED
    BY <2>1, BlankIsSafe, SameIsSafe DEF SafeStep
<1> QED
  BY <1>1, <1>2, <1>3, <1>4, <1>5, <1>6, <1>7, <1>8, <1>9
     DEF Next, vars, RegisterDedicatedServer, ReportUnnamedReplacement, Lapse

\* No interleaving of verifications, reports and heartbeats puts more players
\* into a session than its maxPlayers.
THEOREM CapacityKept == Spec => []WithinCapacity
<1>1. Init => WithinCapacity
  <2>1. Population(BlankSession("unused")) = {} /\ BlankSession("unused").max = 0
    BY DEF Population, BlankSession
  <2> QED
    BY <2>1, FS_EmptySet DEF Init, WithinCapacity
<1>2. TypeOK /\ TypeOK' /\ RecordsAreReal /\ WithinCapacity /\ [Next]_vars => WithinCapacity'
  <2> SUFFICES ASSUME TypeOK, TypeOK', RecordsAreReal, WithinCapacity, [Next]_vars,
                      NEW id \in SessionIds
               PROVE  Cardinality(Population(sessions'[id])) <= sessions'[id].max
    BY DEF WithinCapacity
  <2>1. SafeChange(sessions[id], sessions'[id])
    BY NextIsSafe DEF SafeStep
  <2>2. CASE Population(sessions'[id]) \subseteq Population(sessions[id])
             /\ sessions'[id].max = sessions[id].max
    <3>1. Cardinality(Population(sessions'[id])) <= Cardinality(Population(sessions[id]))
      BY <2>2, PopulationFinite, FS_Subset
    <3>2. Cardinality(Population(sessions[id])) <= sessions[id].max /\ sessions[id].max \in Nat
      BY DEF WithinCapacity, TypeOK, Session
    <3> QED
      BY <2>2, <3>1, <3>2, PopulationFinite
  <2>3. CASE Population(sessions'[id]) = {}
    BY <2>3, FS_EmptySet DEF TypeOK, Session
  <2> QED
    BY <2>1, <2>2, <2>3 DEF SafeChange
<1>3. DirectoryInv => TypeOK /\ RecordsAreReal
  BY DEF DirectoryInv
<1> QED
  BY <1>1, <1>2, <1>3, DirectoryCorrect, PTL DEF Spec

\* A closed or failed session is never reopened and takes no new player, not
\* even from a ticket that was issued while it was open.
THEOREM EndedStay == Spec => EndedSessionsStayEnded
<1> DEFINE Stays == \A id \in SessionIds : IsEnded(sessions[id]) =>
                      /\ ~IsOpen(sessions'[id])
                      /\ Population(sessions'[id]) \subseteq Population(sessions[id])
<1>1. TypeOK /\ RecordsAreReal /\ WithinCapacity /\ [Next]_vars => Stays
  <2>1. \A s : IsEnded(s) => ~IsOpen(s)
    BY DEF IsEnded, IsOpen, EndedStatuses, OpenStatuses
  <2> QED
    BY <2>1, NextIsSafe DEF SafeStep, SafeChange
<1>2. DirectoryInv => TypeOK /\ RecordsAreReal
  BY DEF DirectoryInv
<1>3. Spec => [][Stays]_vars
  BY <1>1, <1>2, DirectoryCorrect, CapacityKept, PTL DEF Spec
<1> QED
  BY <1>3 DEF EndedSessionsStayEnded

-----------------------------------------------------------------------------
(* Tickets *)

\* A ticket admits at most once: no verification finds a ticket valid again,
\* across consumption, expiry, cleanup and restart.
THEOREM SingleAdmission == Spec => []TicketAdmitsOnce
<1>1. Init => TicketAdmitsOnce
  BY DEF Init, TicketAdmitsOnce
<1>2. TypeOK /\ TicketAdmitsOnce /\ [Next]_vars => TicketAdmitsOnce'
  <2> SUFFICES ASSUME TypeOK, TicketAdmitsOnce, [Next]_vars, NEW t \in TicketIds
               PROVE  (admissions[t] <= 1 /\ (admissions[t] = 1 => tickets[t].status \in {"consumed", "removed"}))'
    BY DEF TicketAdmitsOnce
  <2>1. admissions[t] \in Nat /\ admissions[t] <= 1
        /\ (admissions[t] = 1 => tickets[t].status \in {"consumed", "removed"})
    BY DEF TypeOK, TicketAdmitsOnce
  <2>2. CASE admissions'[t] = admissions[t]
             /\ (tickets[t].status = "consumed" => tickets'[t].status \in {"consumed", "removed"})
             /\ (tickets[t].status = "removed" => tickets'[t].status = "removed")
    BY <2>1, <2>2
  <2>3. ASSUME NEW u \in Users, NEW r \in Rooms, NEW s \in Servers, NEW m \in Capacities,
               NEW id \in SessionIds, NEW k \in TicketIds,
               RequestGameServerTicket(u, r, s, m, id, k)
        PROVE  admissions'[t] = admissions[t]
               /\ (tickets[t].status = "consumed" => tickets'[t].status \in {"consumed", "removed"})
               /\ (tickets[t].status = "removed" => tickets'[t].status = "removed")
    <3>1. \/ tickets'[t] = tickets[t]
          \/ t = k
          \/ IsStored(tickets[t]) /\ tickets'[t] = BlankTicket("removed")
      BY <2>3 DEF RequestGameServerTicket, WithoutLapsed
    <3>2. tickets[k].status = "unissued" /\ admissions' = admissions
      BY <2>3 DEF RequestGameServerTicket
    <3> QED
      BY <3>1, <3>2 DEF IsStored, BlankTicket
  <2>4. ASSUME NEW k \in TicketIds, NEW c \in ConnectionIds,
               NEW named \in SessionIds \cup {NoSession}, NEW id \in SessionIds,
               VerifyGameTicket(k, c, named, id)
        PROVE  (admissions[t] <= 1 /\ (admissions[t] = 1 => tickets[t].status \in {"consumed", "removed"}))'
    <3>1. tickets[k].status = "valid" /\ tickets' = [tickets EXCEPT ![k].status = "consumed"]
      BY <2>4 DEF VerifyGameTicket, IsValid
    <3>2. admissions' = [admissions EXCEPT ![k] = @ + 1] \/ admissions' = admissions
      BY <2>4 DEF VerifyGameTicket
    <3>3. CASE t = k
      <4>1. tickets'[t].status = "consumed"
        BY <3>1, <3>3 DEF TypeOK, Ticket
      <4>2. admissions[t] = 0
        BY <2>1, <3>1, <3>3
      <4>3. admissions'[t] <= 1
        BY <3>2, <4>2 DEF TypeOK
      <4> QED
        BY <4>1, <4>3
    <3>4. CASE t # k
      BY <2>1, <3>1, <3>2, <3>4 DEF TypeOK
    <3> QED
      BY <3>3, <3>4
  <2>5. ASSUME NEW old \in SUBSET SessionIds, NEW retired \in SUBSET Servers,
               Cleanup(old, retired)
        PROVE  admissions'[t] = admissions[t]
               /\ (tickets[t].status = "consumed" => tickets'[t].status \in {"consumed", "removed"})
               /\ (tickets[t].status = "removed" => tickets'[t].status = "removed")
    BY <2>5 DEF Cleanup, WithoutLapsed, IsStored, BlankTicket
  <2>6. ASSUME NEW k \in TicketIds, Lapse(k)
        PROVE  admissions'[t] = admissions[t] /\ tickets'[t].status = tickets[t].status
    BY <2>6 DEF Lapse, TypeOK, Ticket
  <2>7. ASSUME Restart
        PROVE  admissions'[t] = admissions[t]
               /\ (tickets[t].status = "consumed" => tickets'[t].status \in {"consumed", "removed"})
               /\ (tickets[t].status = "removed" => tickets'[t].status = "removed")
    BY <2>7 DEF Restart, IsStored, BlankTicket
  <2>8. CASE UNCHANGED <<tickets, admissions>>
    BY <2>1, <2>8
  <2>9. /\ \A s, n : RegisterDedicatedServer(s, n) => UNCHANGED <<tickets, admissions>>
        /\ \A s, r, n : HeartbeatDedicatedServer(s, r, n) => UNCHANGED <<tickets, admissions>>
    BY DEF RegisterDedicatedServer, HeartbeatDedicatedServer
  <2>10. /\ \A s, r, n : ReportUnnamedReplacement(s, r, n) => UNCHANGED <<tickets, admissions>>
         /\ \A s, r, u, named, c :
              ReportPlayerLeft(s, r, u, named, c) => UNCHANGED <<tickets, admissions>>
    BY DEF ReportUnnamedReplacement, ReportPlayerLeft
  <2>11. /\ \A id : ReportSessionResult(id) => UNCHANGED <<tickets, admissions>>
         /\ \A s, id : ReconcileLobby(s, id) => UNCHANGED <<tickets, admissions>>
    BY DEF ReportSessionResult, ReconcileLobby
  <2> QED
    BY <2>2, <2>3, <2>4, <2>5, <2>6, <2>7, <2>8, <2>9, <2>10, <2>11 DEF Next, vars
<1> QED
  BY <1>1, <1>2, TypeCorrect, PTL DEF Spec

\* What AdmissionIsForTicket says of one ticket and one step.
AdmitsRightly(t) ==
  admissions'[t] # admissions[t] =>
    /\ tickets[t].status = "valid" /\ ~tickets[t].lapsed
    /\ \E id \in SessionIds :
         /\ IsOpen(sessions'[id])
         /\ tickets[t].user \in Population(sessions'[id])
         /\ \/ sessions'[id].room = tickets[t].room
            \/ /\ Exists(sessions[id])
               /\ \E c \in ConnectionIds : VerifyGameTicket(t, c, id, id)

\* A verification that lets a player in puts the ticket's user into an open
\* session: the one the request names, and else one of the ticket's room.
LEMMA VerifyAdmits ==
  ASSUME DirectoryInv, NEW k \in TicketIds, NEW c \in ConnectionIds,
         NEW named \in SessionIds \cup {NoSession}, NEW id \in SessionIds,
         VerifyGameTicket(k, c, named, id), NEW t \in TicketIds, admissions'[t] # admissions[t]
  PROVE  AdmitsRightly(t)
<1> DEFINE ticket == tickets[k]
           new == FallbackSession(ticket.room, ticket.server)
           resolved == WithSession(id, new)
           s == resolved[id]
<1>1. CanJoin(s, ticket.user)
  BY DEF VerifyGameTicket
<1>2. t = k
  <2>1. admissions' = [admissions EXCEPT ![k] = @ + 1] \/ admissions' = admissions
    BY DEF VerifyGameTicket
  <2> QED
    BY <2>1 DEF DirectoryInv, TypeOK
<1>3. IsValid(ticket)
  BY DEF VerifyGameTicket
<1>4. /\ new \in Session /\ new.room = ticket.room
      /\ ticket.user \in Users
      /\ \/ /\ Exists(sessions[id])
            /\ named = id \/ sessions[id].room = ticket.room
            /\ resolved = sessions
         \/ resolved = [sessions EXCEPT ![id] = new]
  <2>1. new \in Session /\ new.room = ticket.room
    BY ResolvedSession
  <2>2. ticket.user \in Users
    BY ResolvedSession
  <2>3. \/ /\ Exists(sessions[id])
           /\ named = id \/ sessions[id].room = ticket.room
           /\ resolved = sessions
        \/ /\ sessions[id].status = "unused"
           /\ sessionIdByRoomId[ticket.room] = NoSession
           /\ resolved = [sessions EXCEPT ![id] = new]
    BY ResolvedSession
  <2> QED
    BY <2>1, <2>2, <2>3
<1>5. /\ resolved \in [SessionIds -> Session]
      /\ s.room = ticket.room \/ (Exists(sessions[id]) /\ named = id)
  <2> HIDE DEF new, resolved
  <2>1. sessions \in [SessionIds -> Session]
    BY DEF DirectoryInv, TypeOK
  <2>2. CASE resolved = sessions
    <3>1. s = sessions[id]
      BY <2>2
    <3> HIDE DEF s
    <3> QED
      BY <1>4, <2>1, <2>2, <3>1
  <2>3. CASE resolved = [sessions EXCEPT ![id] = new]
    <3>1. s = new
      BY <2>1, <2>3
    <3> HIDE DEF s
    <3> QED
      BY <1>4, <2>1, <2>3, <3>1
  <2> QED
    BY <1>4, <2>2, <2>3
<1>6. sessions' = [resolved EXCEPT ![id] = Joined(s, ticket.user, c)]
  BY <1>1 DEF VerifyGameTicket
<1>7. sessions'[id] = Joined(s, ticket.user, c)
  <2> HIDE DEF resolved
  <2> QED
    BY <1>5, <1>6
<1> HIDE DEF resolved, new
<1>8. s \in Session
  BY <1>5
<1> HIDE DEF s
<1>9. /\ IsOpen(sessions'[id])
      /\ \/ sessions'[id].room = ticket.room
         \/ Exists(sessions[id]) /\ VerifyGameTicket(k, c, id, id)
  <2>1. IsOpen(sessions'[id]) /\ sessions'[id].room = s.room
    BY <1>7, <1>8 DEF Joined, Session, IsOpen, OpenStatuses
  <2> QED
    BY <1>5, <2>1
<1>10. ticket.user \in Population(sessions'[id])
  <2>1. c # Absent
    BY ValueAssumption DEF ConnectionIds
  <2>2. sessions'[id].players[ticket.user] = c
    BY <1>4, <1>7, <1>8 DEF Joined, Session
  <2> QED
    BY <1>4, <2>1, <2>2 DEF Population
<1> QED
  BY <1>2, <1>3, <1>9, <1>10 DEF AdmitsRightly, IsValid

\* A player gets in only with a ticket that is neither used nor expired, and into
\* the room the ticket is for, also when its session had to be created again,
\* unless the request itself named another existing session.
THEOREM AdmittedToTheRoom == Spec => AdmissionIsForTicket
<1>1. DirectoryInv /\ [Next]_vars => \A t \in TicketIds : AdmitsRightly(t)
  <2> SUFFICES ASSUME DirectoryInv, [Next]_vars, NEW t \in TicketIds,
                      admissions'[t] # admissions[t]
               PROVE  AdmitsRightly(t)
    BY DEF AdmitsRightly
  <2>1. \E k \in TicketIds, c \in ConnectionIds, named \in SessionIds \cup {NoSession},
           id \in SessionIds : VerifyGameTicket(k, c, named, id)
    <3>1. /\ \A s, n : RegisterDedicatedServer(s, n) => UNCHANGED admissions
          /\ \A s, r, n : HeartbeatDedicatedServer(s, r, n) => UNCHANGED admissions
          /\ \A s, r, n : ReportUnnamedReplacement(s, r, n) => UNCHANGED admissions
      BY DEF RegisterDedicatedServer, HeartbeatDedicatedServer, ReportUnnamedReplacement
    <3>2. \A u, r, s, m, id, k :
            RequestGameServerTicket(u, r, s, m, id, k) => UNCHANGED admissions
      BY DEF RequestGameServerTicket
    <3>3. /\ \A s, r, u, named, c : ReportPlayerLeft(s, r, u, named, c) => UNCHANGED admissions
          /\ \A id : ReportSessionResult(id) => UNCHANGED admissions
      BY DEF ReportPlayerLeft, ReportSessionResult
    <3>4. /\ \A s, id : ReconcileLobby(s, id) => UNCHANGED admissions
          /\ \A old, retired : Cleanup(old, retired) => UNCHANGED admissions
          /\ \A k : Lapse(k) => UNCHANGED admissions
          /\ Restart => UNCHANGED admissions
      BY DEF ReconcileLobby, Cleanup, Lapse, Restart
    <3> QED
      BY <3>1, <3>2, <3>3, <3>4 DEF Next, vars
  <2> QED
    BY <2>1, VerifyAdmits
<1>2. Spec => [][\A t \in TicketIds : AdmitsRightly(t)]_vars
  BY <1>1, DirectoryCorrect, PTL DEF Spec
<1> QED
  BY <1>2 DEF AdmissionIsForTicket, AdmitsRightly

-----------------------------------------------------------------------------
(* Reports about a replaced login *)

\* A player-left report that names another connection than the player's does
\* nothing to the player, in whichever of its sessions he is.
LEMMA ReportSparesNewLogin ==
  ASSUME TypeOK, NEW id \in SessionIds, NEW u \in Users,
         sessions[id].players[u] \in Connections,
         NEW s \in Servers, NEW r \in Rooms \cup {NoRoom},
         NEW named \in SessionIds \cup {NoSession},
         NEW c \in Connections \ {sessions[id].players[u]},
         ReportPlayerLeft(s, r, u, named, c)
  PROVE  sessions'[id].players[u] # Absent
<1> DEFINE listed == ListedSessions(s, r)
           found == {i \in listed : MatchesConnection(sessions[i], u, c)}
           removed == [i \in SessionIds |->
                         IF i \in found THEN Without(sessions[i], u) ELSE sessions[i]]
           closed == RemovedFromServer(listed, u, c)
<1>1. sessions[id].players[u] \notin {NoConnection, c, Absent} /\ c # NoConnection
  BY ValueAssumption
<1>2. \A x : x.players = sessions[id].players => ~MatchesConnection(x, u, c)
  BY <1>1 DEF MatchesConnection
<1>3. id \notin found
  BY <1>2
<1>4. closed[id].players = sessions[id].players
  <2>1. closed[id] \in {sessions[id], Closed(sessions[id])}
    BY <1>3 DEF RemovedFromServer
  <2>2. Closed(sessions[id]).players = sessions[id].players
    BY DEF Closed, TypeOK, Session
  <2> QED
    BY <2>1, <2>2
<1>5. sessions'[id] = closed[id]
  <2>1. \/ sessions' = closed
        \/ /\ MatchesConnection(closed[named], u, c)
           /\ sessions' = [closed EXCEPT ![named] = Without(closed[named], u)]
    BY DEF ReportPlayerLeft
  <2>2. closed = [i \in SessionIds |-> closed[i]]
    BY DEF RemovedFromServer
  <2> HIDE DEF closed
  <2>3. MatchesConnection(closed[named], u, c) => named # id
    BY <1>2, <1>4
  <2> QED
    BY <2>1, <2>2, <2>3
<1> QED
  BY <1>1, <1>4, <1>5

\* A report about the connection a login replaced never takes the player out of
\* his session, however late it comes (dedicatedServerHandler.js, player-left).
THEOREM NewLoginStays == Spec => ReplacedLoginKeepsPlayer
<1> DEFINE Spares ==
      \A id \in SessionIds, u \in Users :
        /\ sessions[id].players[u] \in Connections
        /\ sessions'[id].players[u] = Absent
        => \A s \in Servers, r \in Rooms \cup {NoRoom}, named \in SessionIds \cup {NoSession},
              c \in Connections \ {sessions[id].players[u]} :
             ~ReportPlayerLeft(s, r, u, named, c)
<1>1. TypeOK => Spares
  BY ReportSparesNewLogin
<1>2. Spec => [][Spares]_vars
  BY <1>1, TypeCorrect, PTL DEF Spec
<1> QED
  BY <1>2 DEF ReplacedLoginKeepsPlayer
=============================================================================
