------------------------ MODULE RealtimeRooms_proofs ------------------------
(***************************************************************************)
(* Proofs about RealtimeRooms: the maps of the room manager and of the     *)
(* registry, what a closed connection leaves behind, and who is in a room. *)
(* The room operations change four variables together, so one lemma about  *)
(* Leave and one about Join carry their invariant; an action adds only     *)
(* which members it removes.  The last part is about RoomDirectory.        *)
(***************************************************************************)
EXTENDS RealtimeRooms, TLAPS

\* The type and the agreement of the room manager's maps and ctx.roomId.
RoomTypes ==
  /\ rooms \in [Rooms -> SUBSET Connections]
  /\ existing \subseteq Rooms
  /\ roomsByConnectionId \in [Connections -> SUBSET Rooms]
  /\ roomId \in [Connections -> Rooms \cup {NoRoom}]

RoomInv == RoomTypes /\ RoomMapsAgree /\ RoomsAreInUse /\ ActiveRoomIsJoined

\* The type and the agreement of the registry's maps.
RegistryInv ==
  /\ byConnectionId \in [Connections -> Users \cup {NoUser, Absent}]
  /\ byUserId \in [Users -> SUBSET Connections]
  /\ RegistryMapsAgree

ContextTypes ==
  /\ socket \in [Connections -> {"unused", "open", "closing", "closed"}]
  /\ state \in [Connections -> {"connected", "authenticated", "closing", "closed"}]
  /\ user \in [Connections -> Users \cup {NoUser}]

PendingTypes ==
  /\ pending \subseteq Steps \X Connections \X Rooms
  /\ announced \in [Rooms -> SUBSET Users]

\* Who is authenticated, waits in a handler or is in a room has a user.
KnownUsers ==
  /\ \A c \in Connections : state[c] = "authenticated" => user[c] \in Users
  /\ \A c \in Connections : \A r \in Rooms : \A step \in Steps :
       <<step, c, r>> \in pending => user[c] \in Users
  /\ \A r \in Rooms : \A c \in rooms[r] : user[c] \in Users

\* A connection object is registered when its socket opens, not before.
UnusedUnknown ==
  \A c \in Connections : socket[c] = "unused" => byConnectionId[c] = Absent

IInv ==
  /\ ContextTypes /\ PendingTypes
  /\ RoomInv /\ RegistryInv
  /\ KnownUsers /\ ClosedLeaveNothing /\ UnusedUnknown

-----------------------------------------------------------------------------
(* The room manager *)

\* leave() keeps the maps of the room manager in agreement and adds no member,
\* whoever leaves; `active` is roomId but for a connection that leaves too.
LEMMA LeaveKeepsRooms ==
  ASSUME NEW gone, NEW active \in [Connections -> Rooms \cup {NoRoom}],
         RoomsAssumption, RoomInv, LeaveFrom(gone, active),
         \A c \in Connections :
           active[c] = roomId[c] \/ <<active[c], c>> \in gone
  PROVE  /\ RoomInv'
         /\ \A r \in Rooms : rooms'[r] = {c \in rooms[r] : <<r, c>> \notin gone}
<1>1. \A r \in Rooms : rooms'[r] = {c \in rooms[r] : <<r, c>> \notin gone}
  BY DEF LeaveFrom
<1>2. \A c \in Connections : roomsByConnectionId'[c]
                               = {r \in roomsByConnectionId[c] : <<r, c>> \notin gone}
  BY DEF LeaveFrom
<1>3. \A c \in Connections :
        roomId'[c] = IF <<active[c], c>> \in gone THEN NoRoom ELSE active[c]
  BY DEF LeaveFrom
<1>4. RoomTypes'
  <2>1. rooms' \in [Rooms -> SUBSET Connections]
    BY DEF LeaveFrom, RoomInv, RoomTypes
  <2>2. existing' \subseteq Rooms
    BY DEF LeaveFrom, RoomInv, RoomTypes
  <2>3. roomsByConnectionId' \in [Connections -> SUBSET Rooms]
    BY DEF LeaveFrom, RoomInv, RoomTypes
  <2>4. roomId' \in [Connections -> Rooms \cup {NoRoom}]
    BY DEF LeaveFrom
  <2> QED BY <2>1, <2>2, <2>3, <2>4 DEF RoomTypes
<1>5. RoomMapsAgree'
  <2> SUFFICES ASSUME NEW r \in Rooms, NEW c \in Connections
               PROVE  c \in rooms'[r] <=> r \in roomsByConnectionId'[c]
    BY DEF RoomMapsAgree
  <2>1. c \in rooms[r] <=> r \in roomsByConnectionId[c]
    BY DEF RoomInv, RoomMapsAgree
  <2>2. rooms'[r] = {d \in rooms[r] : <<r, d>> \notin gone}
    BY <1>1
  <2>3. roomsByConnectionId'[c] = {s \in roomsByConnectionId[c] : <<s, c>> \notin gone}
    BY <1>2
  <2> QED BY <2>1, <2>2, <2>3
<1>6. RoomsAreInUse'
  <2>1. existing' = {r \in existing : r \in Permanent \/ rooms'[r] # {}}
    BY DEF LeaveFrom
  <2> QED BY <2>1, <1>1 DEF RoomInv, RoomsAreInUse
<1>7. ActiveRoomIsJoined'
  <2> SUFFICES ASSUME NEW c \in Connections, roomId'[c] # NoRoom
               PROVE  c \in rooms'[roomId'[c]]
    BY DEF ActiveRoomIsJoined
  <2>1. roomId'[c] = roomId[c] /\ <<roomId[c], c>> \notin gone
    BY <1>3
  <2>2. roomId[c] \in Rooms /\ c \in rooms[roomId[c]]
    BY <2>1 DEF RoomInv, RoomTypes, ActiveRoomIsJoined
  <2> QED BY <2>1, <2>2, <1>1
<1> QED BY <1>1, <1>4, <1>5, <1>6, <1>7 DEF RoomInv

\* join() keeps them in agreement and adds one member.
LEMMA JoinKeepsRooms ==
  ASSUME NEW c \in Connections, NEW r \in Rooms, NEW gone,
         RoomsAssumption, RoomInv, Join(c, r, gone), gone \subseteq {r} \X Connections
  PROVE  /\ RoomInv'
         /\ \A s \in Rooms : rooms'[s] = {d \in rooms[s] : <<s, d>> \notin gone}
                               \cup (IF s = r THEN {c} ELSE {})
<1>1. \A s \in Rooms : rooms'[s] = {d \in rooms[s] : <<s, d>> \notin gone}
                               \cup (IF s = r THEN {c} ELSE {})
  BY DEF Join
<1>2. \A d \in Connections :
        roomsByConnectionId'[d] = {s \in roomsByConnectionId[d] : <<s, d>> \notin gone}
                                    \cup (IF d = c THEN {r} ELSE {})
  BY DEF Join
<1>3. \A d \in Connections :
        roomId'[d] = IF d = c THEN r
                     ELSE IF <<roomId[d], d>> \in gone THEN NoRoom ELSE roomId[d]
  BY DEF Join
<1>4. RoomTypes'
  <2>1. rooms' \in [Rooms -> SUBSET Connections]
    BY DEF Join, RoomInv, RoomTypes
  <2>2. existing' \subseteq Rooms
    BY DEF Join, RoomInv, RoomTypes
  <2>3. roomsByConnectionId' \in [Connections -> SUBSET Rooms]
    BY DEF Join, RoomInv, RoomTypes
  <2>4. roomId' \in [Connections -> Rooms \cup {NoRoom}]
    BY DEF Join, RoomInv, RoomTypes
  <2> QED BY <2>1, <2>2, <2>3, <2>4 DEF RoomTypes
<1>5. RoomMapsAgree'
  <2> SUFFICES ASSUME NEW s \in Rooms, NEW d \in Connections
               PROVE  d \in rooms'[s] <=> s \in roomsByConnectionId'[d]
    BY DEF RoomMapsAgree
  <2>1. d \in rooms[s] <=> s \in roomsByConnectionId[d]
    BY DEF RoomInv, RoomMapsAgree
  <2>2. rooms'[s] = {e \in rooms[s] : <<s, e>> \notin gone}
                      \cup (IF s = r THEN {c} ELSE {})
    BY <1>1
  <2>3. roomsByConnectionId'[d] = {t \in roomsByConnectionId[d] : <<t, d>> \notin gone}
                                    \cup (IF d = c THEN {r} ELSE {})
    BY <1>2
  <2> QED BY <2>1, <2>2, <2>3
<1>6. RoomsAreInUse'
  <2>1. existing' = existing \cup {r}
    BY DEF Join
  <2>2. ASSUME NEW s \in Rooms \ {r} PROVE rooms'[s] = rooms[s]
    <3>1. \A d : <<s, d>> \notin gone
      OBVIOUS
    <3>2. rooms'[s] = {d \in rooms[s] : <<s, d>> \notin gone}
      BY <1>1
    <3> QED BY <3>1, <3>2
  <2> QED BY <2>1, <2>2, <1>1 DEF RoomInv, RoomsAreInUse
<1>7. ActiveRoomIsJoined'
  <2> SUFFICES ASSUME NEW d \in Connections, roomId'[d] # NoRoom
               PROVE  d \in rooms'[roomId'[d]]
    BY DEF ActiveRoomIsJoined
  <2>1. CASE d = c
    BY <2>1, <1>1, <1>3
  <2>2. CASE d # c
    <3>1. roomId'[d] = roomId[d] /\ <<roomId[d], d>> \notin gone
      BY <2>2, <1>3
    <3>2. roomId[d] \in Rooms /\ d \in rooms[roomId[d]]
      BY <3>1 DEF RoomInv, RoomTypes, ActiveRoomIsJoined
    <3> QED BY <3>1, <3>2, <1>1
  <2> QED BY <2>1, <2>2
<1> QED BY <1>1, <1>4, <1>5, <1>6, <1>7 DEF RoomInv

\* Leave is LeaveFrom with the active rooms as they are.
LEMMA LeaveKeeps ==
  ASSUME NEW gone, RoomsAssumption, RoomInv, Leave(gone)
  PROVE  /\ RoomInv'
         /\ \A r \in Rooms : rooms'[r] = {c \in rooms[r] : <<r, c>> \notin gone}
<1>1. roomId \in [Connections -> Rooms \cup {NoRoom}]
  BY DEF RoomInv, RoomTypes
<1>2. LeaveFrom(gone, roomId)
  BY DEF Leave
<1> QED BY <1>1, <1>2, LeaveKeepsRooms

-----------------------------------------------------------------------------
(* The registry *)

\* removeConnectionById, for any set of connections.
LEMMA ForgetKeepsRegistry ==
  ASSUME NEW conns, RoomsAssumption, RegistryInv, Forget(conns)
  PROVE  /\ RegistryInv'
         /\ \A c \in Connections : byConnectionId'[c] \in {byConnectionId[c], Absent}
  BY DEF RoomsAssumption, RegistryInv, RegistryMapsAgree, Forget

\* The cleanup of a closed connection.
LEMMA UnregisterKeepsRegistry ==
  ASSUME NEW c \in Connections, RoomsAssumption, RegistryInv,
         user[c] \in Users \cup {NoUser}, Unregister(c)
  PROVE  /\ RegistryInv'
         /\ byConnectionId'[c] = Absent
         /\ \A d \in Connections : byConnectionId'[d] \in {byConnectionId[d], Absent}
  BY DEF RoomsAssumption, RegistryInv, RegistryMapsAgree, Unregister

\* Authentication, also as another user than before.
LEMMA AuthenticateKeepsRegistry ==
  ASSUME NEW c \in Connections, NEW u \in Users, RoomsAssumption, RegistryInv,
         Authenticate(c, u)
  PROVE  RegistryInv'
  BY DEF RoomsAssumption, RegistryInv, RegistryMapsAgree, Authenticate, AddConnection

-----------------------------------------------------------------------------
(* The inductive invariant *)

\* No connection enters a room or changes its user.
Shrinks == user' = user /\ \A r \in Rooms : rooms'[r] \subseteq rooms[r]

\* What all actions but a join and an authentication have in common: no member
\* and no user is added, and whoever is closed now leaves nothing.
LEMMA ShrinkingStep ==
  ASSUME IInv, RoomInv', RegistryInv', ContextTypes', PendingTypes',
         user' = user,
         \A c \in Connections : state'[c] = "authenticated" => state[c] = "authenticated",
         \A r \in Rooms : rooms'[r] \subseteq rooms[r],
         \A c \in Connections : \A r \in Rooms : \A step \in Steps :
           <<step, c, r>> \in pending' => user[c] \in Users,
         \A c \in Connections : socket'[c] = "closed" =>
           byConnectionId'[c] = Absent /\ \A r \in Rooms : c \notin rooms'[r],
         \A c \in Connections : socket'[c] = "unused" => byConnectionId'[c] = Absent
  PROVE  IInv' /\ Shrinks
<1>1. KnownUsers'
  <2>1. \A c \in Connections : state'[c] = "authenticated" => user'[c] \in Users
    BY DEF IInv, KnownUsers
  <2>2. \A r \in Rooms : \A c \in rooms'[r] : user'[c] \in Users
    BY DEF IInv, KnownUsers
  <2> QED BY <2>1, <2>2 DEF KnownUsers
<1>2. ClosedLeaveNothing'
  BY DEF ClosedLeaveNothing
<1>3. UnusedUnknown'
  BY DEF UnusedUnknown
<1> QED BY <1>1, <1>2, <1>3 DEF IInv, Shrinks

\* The server starts with permanent rooms and nobody in them.
LEMMA InitIInv ==
  ASSUME RoomsAssumption, Init
  PROVE  IInv
<1>1. ContextTypes /\ PendingTypes
  BY DEF Init, ContextTypes, PendingTypes
<1>2. RoomInv
  BY DEF RoomsAssumption, Init, RoomInv, RoomTypes, RoomMapsAgree, RoomsAreInUse, ActiveRoomIsJoined
<1>3. RegistryInv
  BY DEF RoomsAssumption, Init, RegistryInv, RegistryMapsAgree
<1>4. KnownUsers /\ ClosedLeaveNothing /\ UnusedUnknown
  BY DEF Init, KnownUsers, ClosedLeaveNothing, UnusedUnknown
<1> QED BY <1>1, <1>2, <1>3, <1>4 DEF IInv

\* A step that leaves the room manager alone keeps its invariant.
LEMMA RoomsUnchanged ==
  ASSUME RoomInv, UNCHANGED roomVars
  PROVE  RoomInv'
  BY DEF roomVars, RoomInv, RoomTypes, RoomMapsAgree, RoomsAreInUse, ActiveRoomIsJoined

\* A step that leaves the registry alone keeps its invariant.
LEMMA RegistryUnchanged ==
  ASSUME RegistryInv, UNCHANGED registryVars
  PROVE  RegistryInv'
  BY DEF registryVars, RegistryInv, RegistryMapsAgree

\* A new connection is registered without a user.
LEMMA ConnectStep ==
  ASSUME RoomsAssumption, IInv, NEW c \in Connections, Connect(c)
  PROVE  IInv' /\ Shrinks
<1>1. RoomInv'
  BY RoomsUnchanged DEF IInv, Connect
<1>2. RegistryInv'
  <2>1. byConnectionId[c] = Absent
    BY DEF IInv, UnusedUnknown, Connect
  <2> QED BY <2>1 DEF RoomsAssumption, IInv, RegistryInv, RegistryMapsAgree, Connect
<1>3. ContextTypes' /\ PendingTypes'
  BY DEF IInv, ContextTypes, PendingTypes, Connect
<1>4. \A d \in Connections : socket'[d] = "closed" =>
        byConnectionId'[d] = Absent /\ \A r \in Rooms : d \notin rooms'[r]
  BY DEF IInv, ContextTypes, RegistryInv, ClosedLeaveNothing, Connect, roomVars
<1>5. \A d \in Connections : socket'[d] = "unused" => byConnectionId'[d] = Absent
  BY DEF IInv, ContextTypes, RegistryInv, UnusedUnknown, Connect
<1> QED BY <1>1, <1>2, <1>3, <1>4, <1>5, ShrinkingStep
        DEF IInv, KnownUsers, Connect, roomVars

\* Authentication moves one connection to its user and leaves rooms alone.
LEMMA AuthenticateStep ==
  ASSUME RoomsAssumption, IInv, NEW c \in Connections, NEW u \in Users,
         Authenticate(c, u)
  PROVE  IInv'
<1>1. RoomInv'
  BY RoomsUnchanged DEF IInv, Authenticate, AddConnection
<1>2. RegistryInv'
  BY AuthenticateKeepsRegistry DEF IInv
<1>3. ContextTypes' /\ PendingTypes'
  BY DEF IInv, ContextTypes, PendingTypes, Authenticate, AddConnection
<1>4. \A d \in Connections : user'[d] = IF d = c THEN u ELSE user[d]
  BY DEF IInv, ContextTypes, Authenticate, AddConnection
<1>5. KnownUsers'
  <2>1. \A d \in Connections : state'[d] = "authenticated" => user'[d] \in Users
    BY <1>4 DEF IInv, ContextTypes, KnownUsers, Authenticate, AddConnection
  <2>2. \A d \in Connections : \A r \in Rooms : \A step \in Steps :
          <<step, d, r>> \in pending' => user'[d] \in Users
    BY <1>4 DEF IInv, KnownUsers, Authenticate, AddConnection
  <2>3. \A r \in Rooms : \A d \in rooms'[r] : user'[d] \in Users
    BY <1>4 DEF IInv, RoomInv, RoomTypes, KnownUsers, Authenticate, AddConnection, roomVars
  <2> QED BY <2>1, <2>2, <2>3 DEF KnownUsers
<1>6. ClosedLeaveNothing' /\ UnusedUnknown'
  BY DEF IInv, RegistryInv, ClosedLeaveNothing, UnusedUnknown, Authenticate, AddConnection, IsOpen, roomVars
<1> QED BY <1>1, <1>2, <1>3, <1>5, <1>6 DEF IInv

\* The socket begins to close, with or without the heartbeat's mark.
LEMMA ClosingStep ==
  ASSUME RoomsAssumption, IInv, NEW c \in Connections,
         SocketCloses(c) \/ HeartbeatTimeout(c)
  PROVE  IInv' /\ Shrinks
<1>1. UNCHANGED <<user, registryVars, roomVars, pending, announced>>
  BY DEF SocketCloses, HeartbeatTimeout
<1>2. socket' = [socket EXCEPT ![c] = "closing"]
  BY DEF SocketCloses, HeartbeatTimeout
<1>3. state' = state \/ state' = [state EXCEPT ![c] = "closing"]
  BY DEF SocketCloses, HeartbeatTimeout
<1>4. RoomInv' /\ RegistryInv'
  BY <1>1, RoomsUnchanged, RegistryUnchanged DEF IInv
<1>5. ContextTypes' /\ PendingTypes'
  BY <1>1, <1>2, <1>3 DEF IInv, ContextTypes, PendingTypes
<1>6. \A d \in Connections : state'[d] = "authenticated" => state[d] = "authenticated"
  BY <1>3 DEF IInv, ContextTypes
<1>7. \A d \in Connections : socket'[d] = "closed" =>
        byConnectionId'[d] = Absent /\ \A r \in Rooms : d \notin rooms'[r]
  BY <1>1, <1>2 DEF IInv, ContextTypes, ClosedLeaveNothing, roomVars, registryVars
<1>8. \A d \in Connections : socket'[d] = "unused" => byConnectionId'[d] = Absent
  BY <1>1, <1>2 DEF IInv, ContextTypes, UnusedUnknown, registryVars
<1> QED BY <1>1, <1>4, <1>5, <1>6, <1>7, <1>8, ShrinkingStep
        DEF IInv, KnownUsers, roomVars

\* The cleanup takes the connection out of every room it is in.
LEMMA HandleCloseStep ==
  ASSUME RoomsAssumption, IInv, NEW c \in Connections, HandleClose(c)
  PROVE  IInv' /\ Shrinks
<1> DEFINE left == RoomsBeforeCleanup(c)
           gone == (left \X {c}) \cup UNION {Stale(r) : r \in left}
<1>1. Leave(gone)
  BY DEF HandleClose
<1>2. left \subseteq Rooms /\ \A r \in Rooms : c \in rooms[r] => r \in left
  BY DEF IInv, RoomInv, RoomTypes, RoomMapsAgree, RoomsBeforeCleanup
<1>3. RoomInv' /\ \A r \in Rooms : rooms'[r] = {d \in rooms[r] : <<r, d>> \notin gone}
  <2> HIDE DEF gone
  <2> QED BY <1>1, LeaveKeeps DEF IInv
<1>4. \A r \in Rooms : rooms'[r] \subseteq rooms[r] /\ c \notin rooms'[r]
  <2> SUFFICES ASSUME NEW r \in Rooms
               PROVE  rooms'[r] \subseteq rooms[r] /\ c \notin rooms'[r]
    OBVIOUS
  <2>1. rooms'[r] = {d \in rooms[r] : <<r, d>> \notin gone}
    BY <1>3
  <2>2. c \in rooms[r] => <<r, c>> \in gone
    BY <1>2
  <2> HIDE DEF gone, left
  <2> QED BY <2>1, <2>2
<1> HIDE DEF gone, left
<1>5. user[c] \in Users \cup {NoUser} /\ Unregister(c) /\ user' = user
  BY DEF IInv, ContextTypes, HandleClose
<1>6. /\ RegistryInv' /\ byConnectionId'[c] = Absent
      /\ \A d \in Connections : byConnectionId'[d] \in {byConnectionId[d], Absent}
  BY <1>5, UnregisterKeepsRegistry DEF IInv
<1>7. ContextTypes' /\ pending' = pending
  BY DEF IInv, ContextTypes, HandleClose
<1>8. announced' \in [Rooms -> SUBSET Users]
  BY DEF IInv, PendingTypes, HandleClose
<1>9. PendingTypes'
  BY <1>7, <1>8 DEF IInv, PendingTypes
<1>10. \A d \in Connections : state'[d] = "authenticated" => state[d] = "authenticated"
  BY DEF IInv, ContextTypes, HandleClose
<1>11. \A d \in Connections : d # c => socket'[d] = socket[d]
  BY DEF IInv, ContextTypes, HandleClose
<1>12. socket'[c] = "closed"
  BY DEF IInv, ContextTypes, HandleClose
<1>13. \A d \in Connections : socket'[d] = "closed" =>
         byConnectionId'[d] = Absent /\ \A r \in Rooms : d \notin rooms'[r]
  BY <1>4, <1>6, <1>11 DEF IInv, ClosedLeaveNothing
<1>14. \A d \in Connections : socket'[d] = "unused" => byConnectionId'[d] = Absent
  BY <1>6, <1>11, <1>12 DEF IInv, UnusedUnknown
<1> QED BY <1>3, <1>4, <1>5, <1>6, <1>7, <1>9, <1>10, <1>13, <1>14, ShrinkingStep
        DEF IInv, KnownUsers

\* What is left to show of a step that leaves contexts and registry alone, takes
\* members out of rooms and waits only in handlers of known users.
LEMMA RoomStep ==
  ASSUME IInv, RoomInv', PendingTypes', UNCHANGED <<contextVars, registryVars>>,
         \A r \in Rooms : rooms'[r] \subseteq rooms[r],
         \A c \in Connections : \A r \in Rooms : \A step \in Steps :
           <<step, c, r>> \in pending' => user[c] \in Users
  PROVE  IInv' /\ Shrinks
<1>1. /\ socket' = socket /\ state' = state /\ user' = user
      /\ byConnectionId' = byConnectionId /\ byUserId' = byUserId
  BY DEF contextVars, registryVars
<1>2. RegistryInv' /\ ContextTypes'
  BY <1>1 DEF IInv, RegistryInv, RegistryMapsAgree, ContextTypes
<1>3. \A d \in Connections : socket'[d] = "closed" =>
        byConnectionId'[d] = Absent /\ \A r \in Rooms : d \notin rooms'[r]
  BY <1>1 DEF IInv, ClosedLeaveNothing
<1>4. \A d \in Connections : socket'[d] = "unused" => byConnectionId'[d] = Absent
  BY <1>1 DEF IInv, UnusedUnknown
<1> QED BY <1>1, <1>2, <1>3, <1>4, ShrinkingStep

\* Waiting for the directory, and giving up.
LEMMA WaitingStep ==
  ASSUME RoomsAssumption, IInv, NEW c \in Connections, NEW r \in Rooms,
         RequestJoin(c, r) \/ JoinRefused(c, r) \/ DirectoryFails(c, r)
  PROVE  IInv' /\ Shrinks
<1>1. UNCHANGED <<contextVars, registryVars>> /\ UNCHANGED roomVars /\ announced' = announced
  BY DEF RequestJoin, JoinRefused, DirectoryFails, contextVars, registryVars
<1>2. RoomInv' /\ \A s \in Rooms : rooms'[s] \subseteq rooms[s]
  BY <1>1, RoomsUnchanged DEF IInv, roomVars
<1>3. \/ pending' \subseteq pending
      \/ user[c] \in Users /\ pending' = pending \cup {<<"join", c, r>>}
  BY DEF RequestJoin, Await, Authenticated, JoinRefused, DirectoryFails, IInv, KnownUsers
<1>4. <<"join", c, r>> \in Steps \X Connections \X Rooms
  BY DEF Steps
<1>5. PendingTypes'
  BY <1>1, <1>3, <1>4 DEF IInv, PendingTypes
<1>6. \A d \in Connections : \A s \in Rooms : \A step \in Steps :
        <<step, d, s>> \in pending' => user[d] \in Users
  BY <1>3 DEF IInv, KnownUsers
<1> QED BY <1>1, <1>2, <1>5, <1>6, RoomStep

\* leave_room, and the broadcasts after an update of the directory.
LEMMA LeavingStep ==
  ASSUME RoomsAssumption, IInv, NEW c \in Connections, NEW r \in Rooms,
         AnnounceJoin(c, r) \/ AnnounceLeave(c, r) \/ LeaveRoom(c, r)
  PROVE  IInv' /\ Shrinks
<1>1. UNCHANGED <<contextVars, registryVars>>
  BY DEF AnnounceJoin, AnnounceLeave, LeaveRoom, contextVars, registryVars
<1>2. user[c] \in Users
  BY DEF AnnounceJoin, AnnounceLeave, LeaveRoom, Authenticated, IInv, KnownUsers, Steps
<1>3. PICK gone : Leave(gone)
  BY DEF AnnounceJoin, AnnounceLeave, LeaveRoom
<1>4. RoomInv' /\ \A s \in Rooms : rooms'[s] \subseteq rooms[s]
  BY <1>3, LeaveKeeps DEF IInv
<1>5. pending' \subseteq pending \cup {<<"announceLeave", c, r>>}
  BY DEF AnnounceJoin, AnnounceLeave, LeaveRoom, Await
<1>6. announced' \in [Rooms -> SUBSET Users]
  BY <1>2 DEF AnnounceJoin, AnnounceLeave, LeaveRoom, IInv, PendingTypes
<1>7. PendingTypes'
  <2>1. <<"announceLeave", c, r>> \in Steps \X Connections \X Rooms
    BY DEF Steps
  <2> QED BY <1>5, <1>6, <2>1 DEF IInv, PendingTypes
<1>8. \A d \in Connections : \A s \in Rooms : \A step \in Steps :
        <<step, d, s>> \in pending' => user[d] \in Users
  BY <1>2, <1>5 DEF IInv, KnownUsers
<1> QED BY <1>1, <1>4, <1>7, <1>8, RoomStep

\* A broadcast drops the closed members of its room.
LEMMA BroadcastStep ==
  ASSUME RoomsAssumption, IInv, NEW r \in Rooms, Broadcast(r)
  PROVE  IInv' /\ Shrinks
<1>1. RoomInv' /\ \A s \in Rooms : rooms'[s] \subseteq rooms[s]
  BY LeaveKeeps DEF IInv, Broadcast
<1>2. UNCHANGED <<contextVars, registryVars>> /\ UNCHANGED <<pending, announced>>
  BY DEF Broadcast, contextVars, registryVars
<1>3. PendingTypes'
  BY <1>2 DEF IInv, PendingTypes
<1> QED BY <1>1, <1>2, <1>3, RoomStep DEF IInv, KnownUsers

\* The registry forgets closed connections when it is read.
LEMMA ForgetStep ==
  ASSUME RoomsAssumption, IInv, NEW conns, Forget(conns)
  PROVE  IInv' /\ Shrinks
<1>1. /\ RegistryInv'
      /\ \A c \in Connections : byConnectionId'[c] \in {byConnectionId[c], Absent}
  BY ForgetKeepsRegistry DEF IInv
<1>2. UNCHANGED contextVars /\ UNCHANGED roomVars /\ UNCHANGED <<pending, announced>>
  BY DEF Forget
<1>3. socket' = socket /\ state' = state /\ user' = user
  BY <1>2 DEF contextVars
<1>4. RoomInv' /\ ContextTypes' /\ PendingTypes'
  BY <1>2, <1>3, RoomsUnchanged DEF IInv, ContextTypes, PendingTypes
<1>5. \A d \in Connections : socket'[d] = "closed" =>
        byConnectionId'[d] = Absent /\ \A r \in Rooms : d \notin rooms'[r]
  BY <1>1, <1>2, <1>3 DEF IInv, ClosedLeaveNothing, roomVars
<1>6. \A d \in Connections : socket'[d] = "unused" => byConnectionId'[d] = Absent
  BY <1>1, <1>3 DEF IInv, UnusedUnknown
<1> QED BY <1>1, <1>2, <1>3, <1>4, <1>5, <1>6, ShrinkingStep DEF IInv, KnownUsers, roomVars

\* join_room after its await: the user's other connections leave, and this one
\* joins if it is open still.
LEMMA JoinRoomStep ==
  ASSUME RoomsAssumption, IInv, NEW c \in Connections, NEW r \in Rooms, JoinRoom(c, r)
  PROVE  /\ IInv' /\ user' = user
         /\ \A s \in Rooms : \/ rooms'[s] \subseteq rooms[s]
                             \/ s = r /\ rooms'[s] \subseteq (rooms[s] \ Siblings(c, r)) \cup {c}
<1> DEFINE gone == ({r} \X Siblings(c, r)) \cup Stale(r)
<1>1. user[c] \in Users
  BY DEF JoinRoom, IInv, KnownUsers, Steps
<1>2. gone \subseteq {r} \X Connections
  BY DEF Siblings, Stale, IInv, RoomInv, RoomTypes
<1>3. /\ RoomInv'
      /\ \A s \in Rooms : \/ rooms'[s] \subseteq rooms[s]
                          \/ /\ s = r /\ IsOpen(c)
                             /\ rooms'[s] \subseteq (rooms[s] \ Siblings(c, r)) \cup {c}
  <2>1. CASE IsOpen(c)
    <3>1. Join(c, r, gone)
      BY <2>1 DEF JoinRoom
    <3>2. \A d \in Siblings(c, r) : <<r, d>> \in gone
      OBVIOUS
    <3> HIDE DEF gone
    <3>3. /\ RoomInv'
          /\ \A s \in Rooms : rooms'[s] = {d \in rooms[s] : <<s, d>> \notin gone}
                                \cup (IF s = r THEN {c} ELSE {})
      BY <1>2, <3>1, JoinKeepsRooms DEF IInv
    <3>4. ASSUME NEW s \in Rooms, s # r PROVE rooms'[s] \subseteq rooms[s]
      BY <3>3, <3>4
    <3>5. rooms'[r] \subseteq (rooms[r] \ Siblings(c, r)) \cup {c}
      BY <3>2, <3>3
    <3> QED BY <2>1, <3>3, <3>4, <3>5
  <2>2. CASE ~IsOpen(c)
    <3> DEFINE out == gone \cup {<<r, c>>}
               active == [roomId EXCEPT ![c] = r]
    <3>1. LeaveFrom(out, active)
      BY <2>2 DEF JoinRoom
    <3>2. active \in [Connections -> Rooms \cup {NoRoom}]
      BY DEF IInv, RoomInv, RoomTypes
    <3>3. \A d \in Connections : active[d] = roomId[d] \/ <<active[d], d>> \in out
      BY DEF IInv, RoomInv, RoomTypes
    <3> HIDE DEF out, active
    <3>4. RoomInv' /\ \A s \in Rooms : rooms'[s] = {d \in rooms[s] : <<s, d>> \notin out}
      BY <3>1, <3>2, <3>3, LeaveKeepsRooms DEF IInv
    <3> QED BY <3>4
  <2> QED BY <2>1, <2>2
<1> HIDE DEF gone
<1>4. /\ socket' = socket /\ state' = state /\ user' = user
      /\ byConnectionId' = byConnectionId /\ byUserId' = byUserId
      /\ announced' = announced
  BY DEF JoinRoom, contextVars, registryVars
<1>5. RegistryInv' /\ ContextTypes'
  BY <1>4 DEF IInv, RegistryInv, RegistryMapsAgree, ContextTypes
<1>6. pending' \subseteq pending \cup {<<"announceJoin", c, r>>}
  BY DEF JoinRoom
<1>7. PendingTypes'
  <2>1. <<"announceJoin", c, r>> \in Steps \X Connections \X Rooms
    BY DEF Steps
  <2> QED BY <1>4, <1>6, <2>1 DEF IInv, PendingTypes
<1>8. KnownUsers'
  <2>1. \A d \in Connections : \A s \in Rooms : \A step \in Steps :
          <<step, d, s>> \in pending' => user'[d] \in Users
    BY <1>1, <1>4, <1>6 DEF IInv, KnownUsers
  <2>2. \A s \in Rooms : \A d \in rooms'[s] : user'[d] \in Users
    BY <1>1, <1>3, <1>4 DEF IInv, KnownUsers
  <2> QED BY <1>4, <2>1, <2>2 DEF IInv, KnownUsers
<1>9. ClosedLeaveNothing' /\ UnusedUnknown'
  BY <1>3, <1>4 DEF IInv, ClosedLeaveNothing, UnusedUnknown, IsOpen
<1> QED BY <1>3, <1>4, <1>5, <1>7, <1>8, <1>9 DEF IInv

\* Every step either shrinks rooms, authenticates a connection or joins a room.
LEMMA NextIInv ==
  ASSUME RoomsAssumption, IInv, [Next]_vars
  PROVE  /\ IInv'
         /\ \/ Shrinks
            \/ \E c \in Connections, u \in Users : Authenticate(c, u)
            \/ \E c \in Connections, r \in Rooms : JoinRoom(c, r)
<1>1. ASSUME UNCHANGED vars PROVE IInv' /\ Shrinks
  <2>1. /\ UNCHANGED roomVars /\ UNCHANGED registryVars
        /\ socket' = socket /\ state' = state /\ user' = user
        /\ pending' = pending /\ announced' = announced
    BY <1>1 DEF vars, contextVars
  <2>2. RoomInv' /\ RegistryInv'
    BY <2>1, RoomsUnchanged, RegistryUnchanged DEF IInv
  <2>3. ContextTypes' /\ PendingTypes'
    BY <2>1 DEF IInv, ContextTypes, PendingTypes
  <2>4. KnownUsers' /\ ClosedLeaveNothing' /\ UnusedUnknown'
    BY <2>1 DEF IInv, KnownUsers, ClosedLeaveNothing, UnusedUnknown, roomVars, registryVars
  <2> QED BY <2>1, <2>2, <2>3, <2>4 DEF IInv, Shrinks, roomVars
<1>2. ASSUME NEW c \in Connections,
             Connect(c) \/ SocketCloses(c) \/ HeartbeatTimeout(c) \/ HandleClose(c)
      PROVE  IInv' /\ Shrinks
  BY <1>2, ConnectStep, ClosingStep, HandleCloseStep
<1>3. ASSUME NEW c \in Connections, NEW u \in Users, Authenticate(c, u)
      PROVE  IInv'
  BY <1>3, AuthenticateStep
<1>4. ASSUME NEW c \in Connections, NEW r \in Rooms,
             \/ RequestJoin(c, r) \/ JoinRefused(c, r) \/ DirectoryFails(c, r)
             \/ AnnounceJoin(c, r) \/ AnnounceLeave(c, r) \/ LeaveRoom(c, r)
      PROVE  IInv' /\ Shrinks
  BY <1>4, WaitingStep, LeavingStep
<1>5. ASSUME NEW c \in Connections, NEW r \in Rooms, JoinRoom(c, r)
      PROVE  IInv'
  BY <1>5, JoinRoomStep
<1>6. ASSUME NEW r \in Rooms, Broadcast(r) PROVE IInv' /\ Shrinks
  BY <1>6, BroadcastStep
<1>7. ASSUME NEW conns, Forget(conns) PROVE IInv' /\ Shrinks
  BY <1>7, ForgetStep
<1>8. ASSUME Next
      PROVE  \/ \E c \in Connections :
                  Connect(c) \/ SocketCloses(c) \/ HeartbeatTimeout(c) \/ HandleClose(c)
             \/ \E c \in Connections, u \in Users : Authenticate(c, u)
             \/ \E c \in Connections, r \in Rooms :
                  \/ RequestJoin(c, r) \/ JoinRefused(c, r) \/ DirectoryFails(c, r)
                  \/ AnnounceJoin(c, r) \/ AnnounceLeave(c, r) \/ LeaveRoom(c, r)
             \/ \E c \in Connections, r \in Rooms : JoinRoom(c, r)
             \/ \E r \in Rooms : Broadcast(r)
             \/ \E conns : Forget(conns)
  <2>1. (\E u \in Users : GetAll(u)) \/ CleanupClosed => \E conns : Forget(conns)
    BY DEF GetAll, CleanupClosed
  <2> QED BY <1>8, <2>1 DEF Next
<1> QED BY <1>1, <1>2, <1>3, <1>4, <1>5, <1>6, <1>7, <1>8

-----------------------------------------------------------------------------
(* Theorems *)

\* The inductive invariant holds in every reachable state.
LEMMA AlwaysIInv == Spec => []IInv
<1>1. Init => IInv
  BY RoomsAssumption, InitIInv
<1>2. IInv /\ [Next]_vars => IInv'
  BY RoomsAssumption, NextIInv
<1> QED BY <1>1, <1>2, PTL DEF Spec

\* Every variable keeps its type (all of realTime's connection state).
THEOREM TypeCorrect == Spec => []TypeOK
<1>1. IInv => TypeOK
  BY DEF IInv, RoomInv, RoomTypes, RegistryInv, ContextTypes, PendingTypes, TypeOK
<1> QED BY <1>1, AlwaysIInv, PTL

\* The room manager's two maps are inverse, empty rooms are forgotten but for the
\* permanent ones, and ctx.roomId is a room of the connection (roomManager.js).
THEOREM RoomsAgree == Spec => [](RoomMapsAgree /\ RoomsAreInUse /\ ActiveRoomIsJoined)
<1>1. IInv => RoomMapsAgree /\ RoomsAreInUse /\ ActiveRoomIsJoined
  BY DEF IInv, RoomInv
<1> QED BY <1>1, AlwaysIInv, PTL

\* The two maps of the registry agree (clientsRegistry.js).
THEOREM RegistryAgrees == Spec => []RegistryMapsAgree
<1>1. IInv => RegistryMapsAgree
  BY DEF IInv, RegistryInv
<1> QED BY <1>1, AlwaysIInv, PTL

\* A connection whose close was handled is in no room and not registered, also
\* when one of its joins was still waiting for the directory (disconnectCleanup.js).
THEOREM ClosedGone == Spec => []ClosedLeaveNothing
<1>1. IInv => ClosedLeaveNothing
  BY DEF IInv
<1> QED BY <1>1, AlwaysIInv, PTL

\* Two members of a room have different users, unless connections change users.
Unique ==
  ~SwitchUsers => \A r \in Rooms : \A c, d \in rooms[r] : user[c] = user[d] => c = d

\* A join takes the user's other connections out before it adds its own; nothing
\* else adds a member, and authentication does not change a member's user.
LEMMA UniqueStep ==
  ASSUME RoomsAssumption, IInv, Unique, [Next]_vars
  PROVE  Unique'
<1> SUFFICES ASSUME ~SwitchUsers, NEW r \in Rooms,
                    NEW a \in rooms'[r], NEW b \in rooms'[r], user'[a] = user'[b]
             PROVE  a = b
  BY DEF Unique
<1>1. CASE Shrinks
  BY <1>1 DEF Shrinks, Unique
<1>2. CASE \E c \in Connections, u \in Users : Authenticate(c, u)
  <2> PICK c \in Connections, u \in Users : Authenticate(c, u)
    BY <1>2
  <2>1. rooms' = rooms /\ user[c] \in {NoUser, u} /\ user' = [user EXCEPT ![c] = u]
    BY DEF Authenticate, AddConnection, roomVars
  <2>2. user \in [Connections -> Users \cup {NoUser}]
    BY DEF IInv, ContextTypes
  <2>3. \A d \in rooms[r] : d \in Connections /\ user[d] \in Users
    BY DEF IInv, KnownUsers, RoomInv, RoomTypes
  <2>4. \A d \in rooms[r] : user'[d] = user[d]
    BY <2>1, <2>2, <2>3, RoomsAssumption DEF RoomsAssumption
  <2> QED BY <2>1, <2>4 DEF Unique
<1>3. CASE \E c \in Connections, s \in Rooms : JoinRoom(c, s)
  <2> PICK c \in Connections, s \in Rooms : JoinRoom(c, s)
    BY <1>3
  <2>1. /\ user' = user
        /\ \/ rooms'[r] \subseteq rooms[r]
           \/ r = s /\ rooms'[r] \subseteq (rooms[r] \ Siblings(c, s)) \cup {c}
    BY JoinRoomStep
  <2>2. ASSUME NEW d \in rooms[s], d \notin Siblings(c, s), user[d] = user[c]
        PROVE  d = c
    BY <2>2 DEF Siblings
  <2> QED BY <2>1, <2>2 DEF Unique
<1> QED BY NextIInv, <1>1, <1>2, <1>3

\* A room has at most one connection of a user, who is authenticated
\* (roomManager.js, leaveConnectionsByUser), if connections keep their user.
THEOREM OneMembership == Spec => []OneMembershipPerUser
<1>1. Init => Unique
  BY DEF Init, Unique
<1>2. IInv /\ Unique /\ [Next]_vars => Unique'
  BY RoomsAssumption, UniqueStep
<1>3. IInv /\ Unique => OneMembershipPerUser
  BY RoomsAssumption
     DEF RoomsAssumption, OneMembershipPerUser, Unique, Siblings, IInv, KnownUsers
<1> QED BY <1>1, <1>2, <1>3, AlwaysIInv, PTL DEF Spec

-----------------------------------------------------------------------------
(* Who leaves a room *)

\* What MembersStay says of one member and one step.
MayGo(c, r) ==
  \/ ~IsOpen(c)
  \/ <<"announceLeave", c, r>> \in pending' \ pending
  \/ \E d \in Connections \ {c} :
       user[d] = user[c] /\ <<"join", d, r>> \in pending \ pending'

\* leave() removes exactly the members of `gone`.
LEMMA LeaveRemoves ==
  ASSUME NEW gone, NEW active, LeaveFrom(gone, active),
         NEW r \in Rooms, NEW c \in rooms[r] \ rooms'[r]
  PROVE  <<r, c>> \in gone
BY DEF LeaveFrom

\* join() removes only members of `gone`.
LEMMA JoinRemoves ==
  ASSUME NEW gone, NEW d, NEW s, Join(d, s, gone),
         NEW r \in Rooms, NEW c \in rooms[r] \ rooms'[r]
  PROVE  <<r, c>> \in gone
BY DEF Join

\* The lazy removal takes out closed members only.
LEMMA StaleIsClosed ==
  ASSUME NEW r, NEW s, NEW c, <<r, c>> \in Stale(s)
  PROVE  r = s /\ ~IsOpen(c)
BY DEF Stale, Closed

\* The members that a join takes out are closed, or of the joining user, whose
\* own request ends with this step.
LEMMA JoinRoomRemoves ==
  ASSUME NEW d \in Connections, NEW s \in Rooms, JoinRoom(d, s),
         NEW r \in Rooms, NEW c \in rooms[r] \ rooms'[r]
  PROVE  MayGo(c, r)
<1> DEFINE gone == ({s} \X Siblings(d, s)) \cup Stale(s)
<1>1. <<r, c>> \in gone \/ (c = d /\ ~IsOpen(c))
  <2>1. CASE IsOpen(d)
    BY <2>1, JoinRemoves DEF JoinRoom
  <2>2. CASE ~IsOpen(d)
    <3>1. LeaveFrom(gone \cup {<<s, d>>}, [roomId EXCEPT ![d] = s])
      BY <2>2 DEF JoinRoom
    <3>2. <<r, c>> \in gone \cup {<<s, d>>}
      BY <3>1, LeaveRemoves
    <3> QED BY <2>2, <3>2
  <2> QED BY <2>1, <2>2
<1>2. CASE r = s /\ c \in Siblings(d, s)
  <2>1. d # c /\ user[d] = user[c]
    BY <1>2 DEF Siblings
  <2>2. <<"join", d, r>> \in pending \ pending'
    BY <1>2 DEF JoinRoom
  <2> QED BY <2>1, <2>2 DEF MayGo
<1>3. CASE <<r, c>> \in Stale(s)
  BY <1>3, StaleIsClosed DEF MayGo
<1> QED BY <1>1, <1>2, <1>3 DEF MayGo

\* A broadcast takes out closed members only.
LEMMA BroadcastRemoves ==
  ASSUME NEW s \in Rooms, Leave(Stale(s)),
         NEW r \in Rooms, NEW c \in rooms[r] \ rooms'[r]
  PROVE  MayGo(c, r)
<1>1. <<r, c>> \in Stale(s)
  BY LeaveRemoves DEF Leave
<1> QED BY <1>1, StaleIsClosed DEF MayGo

\* The members that the other handlers take out: the connection that leaves or
\* is closing, and closed ones.
LEMMA OtherRemovals ==
  ASSUME NEW d \in Connections, NEW s \in Rooms,
         \/ HandleClose(d) \/ LeaveRoom(d, s)
         \/ AnnounceJoin(d, s) \/ AnnounceLeave(d, s),
         NEW r \in Rooms, NEW c \in rooms[r] \ rooms'[r]
  PROVE  MayGo(c, r)
<1>1. CASE AnnounceJoin(d, s) \/ AnnounceLeave(d, s)
  BY <1>1, BroadcastRemoves DEF AnnounceJoin, AnnounceLeave
<1>2. CASE LeaveRoom(d, s)
  <2>1. /\ LeaveFrom({<<s, d>>} \cup Stale(s), roomId)
        /\ <<"announceLeave", d, s>> \in pending' \ pending
    BY <1>2 DEF LeaveRoom, Leave, Await
  <2>2. <<r, c>> \in {<<s, d>>} \cup Stale(s)
    BY <2>1, LeaveRemoves
  <2> QED BY <2>1, <2>2, StaleIsClosed DEF MayGo
<1>3. CASE HandleClose(d)
  <2> DEFINE left == RoomsBeforeCleanup(d)
             gone == (left \X {d}) \cup UNION {Stale(q) : q \in left}
  <2>1. LeaveFrom(gone, roomId) /\ socket[d] = "closing"
    BY <1>3 DEF HandleClose, Leave
  <2>2. <<r, c>> \in gone
    BY <2>1, LeaveRemoves
  <2>3. c = d \/ \E q \in left : <<r, c>> \in Stale(q)
    BY <2>2
  <2>4. CASE c = d
    BY <2>1, <2>4 DEF MayGo, IsOpen
  <2>5. CASE \E q \in left : <<r, c>> \in Stale(q)
    BY <2>5, StaleIsClosed DEF MayGo
  <2> QED BY <2>3, <2>4, <2>5
<1> QED BY <1>1, <1>2, <1>3

\* Nobody is put out of a room: an open member stays until it asks to leave or
\* another connection of its user joins (roomManager.js, gameRoomService.js).
THEOREM NobodyIsPutOut == Spec => MembersStay
<1>1. [Next]_vars => \A r \in Rooms : \A c \in rooms[r] \ rooms'[r] : MayGo(c, r)
  <2> SUFFICES ASSUME [Next]_vars, NEW r \in Rooms, NEW c \in rooms[r] \ rooms'[r]
               PROVE  MayGo(c, r)
    OBVIOUS
  <2>1. \/ \E d \in Connections : HandleClose(d)
        \/ \E d \in Connections, s \in Rooms :
             \/ JoinRoom(d, s) \/ LeaveRoom(d, s)
             \/ AnnounceJoin(d, s) \/ AnnounceLeave(d, s)
        \/ \E s \in Rooms : Broadcast(s)
        \/ rooms' = rooms
    <3>1. ASSUME NEW d \in Connections,
                 Connect(d) \/ SocketCloses(d) \/ HeartbeatTimeout(d)
          PROVE  rooms' = rooms
      BY <3>1 DEF Connect, SocketCloses, HeartbeatTimeout, roomVars
    <3>2. ASSUME NEW d \in Connections, NEW u \in Users, Authenticate(d, u)
          PROVE  rooms' = rooms
      BY <3>2 DEF Authenticate, roomVars
    <3>3. ASSUME NEW d \in Connections, NEW s \in Rooms,
                 RequestJoin(d, s) \/ JoinRefused(d, s) \/ DirectoryFails(d, s)
          PROVE  rooms' = rooms
      BY <3>3 DEF RequestJoin, JoinRefused, DirectoryFails, roomVars
    <3>4. ASSUME (\E u \in Users : GetAll(u)) \/ CleanupClosed PROVE rooms' = rooms
      BY <3>4 DEF GetAll, CleanupClosed, Forget, roomVars
    <3>5. ASSUME UNCHANGED vars PROVE rooms' = rooms
      BY <3>5 DEF vars, roomVars
    <3> QED BY <3>1, <3>2, <3>3, <3>4, <3>5 DEF Next
  <2>2. CASE rooms' = rooms
    BY <2>2
  <2>3. ASSUME NEW d \in Connections, NEW s \in Rooms, JoinRoom(d, s)
        PROVE  MayGo(c, r)
    BY <2>3, JoinRoomRemoves
  <2>4. CASE \E d \in Connections : HandleClose(d)
    BY <2>4, OtherRemovals
  <2>5. CASE \E d \in Connections, s \in Rooms :
               LeaveRoom(d, s) \/ AnnounceJoin(d, s) \/ AnnounceLeave(d, s)
    BY <2>5, OtherRemovals
  <2>6. CASE \E s \in Rooms : Broadcast(s)
    BY <2>6, BroadcastRemoves DEF Broadcast
  <2> QED BY <2>1, <2>2, <2>3, <2>4, <2>5, <2>6
<1>2. (\A r \in Rooms : \A c \in rooms[r] \ rooms'[r] : MayGo(c, r))
        => \A r \in Rooms : \A c \in rooms[r] \ rooms'[r] :
             IsOpen(c) =>
               \/ <<"announceLeave", c, r>> \in pending' \ pending
               \/ \E d \in Connections \ {c} :
                    user[d] = user[c] /\ <<"join", d, r>> \in pending \ pending'
  BY DEF MayGo
<1> QED BY <1>1, <1>2, PTL DEF Spec, MembersStay

-----------------------------------------------------------------------------
(* The room directory, which follows the members of the rooms.  A call that  *)
(* marks its room alone leaves the truth: what it has written is still so    *)
(* after each of its steps, since whatever changes the members either marks  *)
(* the room too or, when it takes closing ones out, disturbs the call.       *)
(* Dir!Cardinality is the one that RoomDirectory extends.                    *)

CONSTANTS WebSocketUsers, MaxPlayers, Calls, PongTimeout
VARIABLES lobby, record, members, calls, silence, dead, closing

Dir == INSTANCE RoomDirectory

\* The numbers of members that a room may have: no arithmetic is needed, and the users
\* need not be finitely many.
Counts == {Dir!Cardinality(S) : S \in SUBSET Users} \cup {0}

MarkingCalls ==
  [phase : {"count", "status", "reread"}, room : Rooms, online : Counts, alone : BOOLEAN]

DirectoryTypes ==
  /\ record \in [Rooms -> [status : {"none", "open", "full", "empty"}, online : Counts]]
  /\ members \in [Rooms -> SUBSET Users]
  /\ calls \in [Calls -> {Dir!Idle} \cup Dir!Waiting \cup MarkingCalls]

\* What is true of a call c that marks its room alone, after each of its writes.
Settles(c) ==
  LET call == calls[c]
      r == call.room
  IN  /\ \A d \in Calls \ {c} : d \notin Dir!MarksOf(r)
      /\ call.online = Dir!Cardinality(members[r])
      /\ call.phase # "count" => record[r].online = call.online
      /\ call.phase = "reread" => record[r].status = Dir!ResolveStatus(call.online)

DirectoryInv ==
  /\ DirectoryTypes
  /\ \A c \in Calls : calls[c] \in MarkingCalls /\ calls[c].alone => Settles(c)

\* A call is idle, waits to enter, or marks a room.
LEMMA KindsOfCalls ==
  ASSUME DirectoryTypes, NEW c \in Calls
  PROVE  /\ calls[c] \in {Dir!Idle} \cup Dir!Waiting \cup MarkingCalls
         /\ calls[c] = Dir!Idle => calls[c].phase = "idle"
         /\ calls[c] \in Dir!Waiting => calls[c].phase = "enter"
         /\ calls[c] \in MarkingCalls <=> calls[c].phase \in {"count", "status", "reread"}
BY DEF DirectoryTypes, Dir!Idle, Dir!Waiting, MarkingCalls

\* The status of a count is a status.
LEMMA StatusType ==
  ASSUME NEW n
  PROVE  Dir!ResolveStatus(n) \in {"open", "full", "empty"}
BY DEF Dir!ResolveStatus

\* And the number of a room's members is one that a room may have.
LEMMA CountType ==
  ASSUME NEW S \in SUBSET Users
  PROVE  Dir!Cardinality(S) \in Counts
BY DEF Counts

\* A call that marks room r is disturbed, and remains what it is; any other call is not.
LEMMA DisturbedCalls ==
  ASSUME DirectoryTypes, NEW r, NEW d \in Calls
  PROVE  /\ d \notin Dir!MarksOf(r) => Dir!Disturbed(r)[d] = calls[d]
         /\ d \in Dir!MarksOf(r) =>
              /\ Dir!Disturbed(r)[d] \in MarkingCalls /\ ~Dir!Disturbed(r)[d].alone
              /\ Dir!Disturbed(r)[d].phase = calls[d].phase
              /\ Dir!Disturbed(r)[d].room = calls[d].room
<1>1. d \in Dir!MarksOf(r) => Dir!Disturbed(r)[d] = [calls[d] EXCEPT !.alone = FALSE]
  BY DEF Dir!Disturbed
<1>2. d \in Dir!MarksOf(r) => calls[d] \in MarkingCalls
  BY KindsOfCalls DEF Dir!MarksOf
<1>3. d \notin Dir!MarksOf(r) => Dir!Disturbed(r)[d] = calls[d]
  BY DEF Dir!Disturbed
<1> QED BY <1>1, <1>2, <1>3 DEF MarkingCalls

\* When the members of room r change, the calls that are alone in other rooms go on as
\* they were, and whatever is alone in r has to settle anew.
LEMMA ChangeSettles ==
  ASSUME DirectoryInv, DirectoryTypes', NEW r \in Rooms,
         \A q \in Rooms \ {r} : members'[q] = members[q], record' = record,
         \A q \in Rooms \ {r} : \A d \in Calls : d \in Dir!MarksOf(q)' => d \in Dir!MarksOf(q),
         \A d \in Calls : calls'[d] \in MarkingCalls /\ calls'[d].alone =>
           Settles(d)' \/ (calls'[d] = calls[d] /\ d \notin Dir!MarksOf(r))
  PROVE  DirectoryInv'
<1> SUFFICES ASSUME NEW d \in Calls, calls'[d] \in MarkingCalls, calls'[d].alone,
                    calls'[d] = calls[d], d \notin Dir!MarksOf(r)
             PROVE  Settles(d)'
  BY DEF DirectoryInv
<1>1. Settles(d)
  BY DEF DirectoryInv
<1>2. calls[d].room \in Rooms /\ calls[d].phase \in {"count", "status", "reread"}
  BY DEF MarkingCalls
<1>3. PICK q \in Rooms : calls[d].room = q
  BY <1>2
<1>4. q # r
  BY <1>2, <1>3 DEF Dir!MarksOf
<1>5. \A e \in Calls \ {d} : e \notin Dir!MarksOf(q)
  BY <1>1, <1>3 DEF Settles
<1>6. \A e \in Calls \ {d} : e \notin Dir!MarksOf(q)'
  BY <1>4, <1>5
<1> QED BY <1>1, <1>3, <1>4, <1>6 DEF Settles

\* No call begins to mark a room by being disturbed in another one.
LEMMA DisturbedMarks ==
  ASSUME DirectoryTypes, NEW r \in Rooms, NEW q \in Rooms \ {r}, NEW d \in Calls,
         calls'[d] = Dir!Disturbed(r)[d]
  PROVE  d \in Dir!MarksOf(q)' <=> d \in Dir!MarksOf(q)
BY DisturbedCalls DEF Dir!MarksOf

\* Whoever joins or leaves a room marks it, and no other call is alone there.
LEMMA MarkSettles ==
  ASSUME DirectoryInv, NEW c \in Calls, NEW r \in Rooms, NEW S \in SUBSET Users,
         calls[c] \notin MarkingCalls, Dir!Mark(c, r, S), record' = record
  PROVE  DirectoryInv'
<1> DEFINE new == [phase |-> "count", room |-> r, online |-> Dir!Cardinality(S),
                   alone |-> Dir!MarksOf(r) = {}]
<1>1. DirectoryTypes
  BY DEF DirectoryInv
<1>2. /\ members' = [members EXCEPT ![r] = S]
      /\ calls' = [Dir!Disturbed(r) EXCEPT ![c] = new]
  BY DEF Dir!Mark
<1>3. new \in MarkingCalls
  BY CountType DEF MarkingCalls
<1>4. /\ new.phase = "count" /\ new.room = r /\ new.online = Dir!Cardinality(S)
      /\ new.alone => Dir!MarksOf(r) = {}
  BY Zenon
<1>5. DOMAIN Dir!Disturbed(r) = Calls /\ Dir!Disturbed(r) = [d \in Calls |-> Dir!Disturbed(r)[d]]
  BY DEF Dir!Disturbed
<1>6. c \notin UNION {Dir!MarksOf(q) : q \in Rooms}
  BY <1>1, KindsOfCalls DEF Dir!MarksOf
<1> HIDE DEF new
<1>7. calls'[c] = new /\ \A d \in Calls \ {c} : calls'[d] = Dir!Disturbed(r)[d]
  BY <1>2, <1>5
<1>8. DirectoryTypes'
  <2>1. ASSUME NEW d \in Calls \ {c}
        PROVE  Dir!Disturbed(r)[d] \in {Dir!Idle} \cup Dir!Waiting \cup MarkingCalls
    BY <1>1, DisturbedCalls DEF DirectoryTypes
  <2>2. calls' \in [Calls -> {Dir!Idle} \cup Dir!Waiting \cup MarkingCalls]
    BY <1>2, <1>3, <1>5, <2>1
  <2> QED BY <1>1, <1>2, <2>2 DEF DirectoryTypes
<1>9. \A q \in Rooms \ {r} : members'[q] = members[q]
  BY <1>1, <1>2 DEF DirectoryTypes
<1>10. ASSUME NEW q \in Rooms \ {r}, NEW d \in Calls
       PROVE  d \in Dir!MarksOf(q)' => d \in Dir!MarksOf(q)
  <2>1. CASE d = c
    BY <1>4, <1>7, <2>1 DEF Dir!MarksOf
  <2>2. CASE d # c
    BY <1>1, <1>7, <2>2, DisturbedMarks
  <2> QED BY <2>1, <2>2
<1>11. ASSUME NEW d \in Calls, calls'[d] \in MarkingCalls, calls'[d].alone
       PROVE  Settles(d)' \/ (calls'[d] = calls[d] /\ d \notin Dir!MarksOf(r))
  <2>1. CASE d = c
    <3>1. Dir!MarksOf(r) = {}
      BY <1>4, <1>7, <1>11, <2>1
    <3>2. \A e \in Calls \ {c} : e \notin Dir!MarksOf(r)'
      <4> SUFFICES ASSUME NEW e \in Calls \ {c} PROVE e \notin Dir!MarksOf(r)'
        OBVIOUS
      <4>1. e \notin Dir!MarksOf(r) /\ calls'[e] = calls[e]
        BY <1>1, <1>7, <3>1, DisturbedCalls
      <4> QED BY <4>1 DEF Dir!MarksOf
    <3>3. members'[r] = S
      BY <1>1, <1>2 DEF DirectoryTypes
    <3> QED BY <1>4, <1>7, <2>1, <3>2, <3>3 DEF Settles
  <2>2. CASE d # c
    BY <1>1, <1>7, <1>11, <2>2, DisturbedCalls
  <2> QED BY <2>1, <2>2
<1> QED BY <1>8, <1>9, <1>10, <1>11, ChangeSettles

\* Closing members are taken out: no call is alone in their room any more, and the call
\* that sent the message, if one of `ends` did, ends.
LEMMA SilentLeavesSettle ==
  ASSUME DirectoryInv, NEW r \in Rooms, NEW ends,
         members' = [members EXCEPT ![r] = members[r] \ closing], record' = record,
         calls' = [d \in Calls |-> IF d \in ends THEN Dir!Idle ELSE Dir!Disturbed(r)[d]]
  PROVE  DirectoryInv'
<1>1. DirectoryTypes
  BY DEF DirectoryInv
<1>2. DirectoryTypes'
  <2>1. ASSUME NEW d \in Calls
        PROVE  calls'[d] \in {Dir!Idle} \cup Dir!Waiting \cup MarkingCalls
    BY <1>1, DisturbedCalls DEF DirectoryTypes
  <2>2. calls' \in [Calls -> {Dir!Idle} \cup Dir!Waiting \cup MarkingCalls]
    BY <2>1
  <2>3. members' \in [Rooms -> SUBSET Users]
    BY <1>1 DEF DirectoryTypes
  <2> QED BY <1>1, <2>2, <2>3 DEF DirectoryTypes
<1>3. \A q \in Rooms \ {r} : members'[q] = members[q]
  BY <1>1 DEF DirectoryTypes
<1>4. ASSUME NEW q \in Rooms \ {r}, NEW d \in Calls
      PROVE  d \in Dir!MarksOf(q)' => d \in Dir!MarksOf(q)
  <2>1. CASE d \in ends
    BY <2>1 DEF Dir!MarksOf, Dir!Idle
  <2>2. CASE d \notin ends
    BY <1>1, <2>2, DisturbedMarks
  <2> QED BY <2>1, <2>2
<1>5. ASSUME NEW d \in Calls, calls'[d] \in MarkingCalls, calls'[d].alone
      PROVE  calls'[d] = calls[d] /\ d \notin Dir!MarksOf(r)
  <2>1. d \notin ends
    BY <1>5 DEF Dir!Idle, MarkingCalls
  <2> QED BY <1>1, <1>5, <2>1, DisturbedCalls
<1> QED BY <1>2, <1>3, <1>4, <1>5, ChangeSettles

\* A call goes on, or ends, or a new one waits: it writes the record of no room but the
\* one that it marks.
LEMMA CallSettles ==
  ASSUME DirectoryInv, DirectoryTypes', NEW c \in Calls,
         members' = members,
         \A d \in Calls \ {c} : calls'[d] = calls[d],
         \A q \in Rooms : c \in Dir!MarksOf(q)' => c \in Dir!MarksOf(q),
         \A q \in Rooms : c \notin Dir!MarksOf(q) => record'[q] = record[q],
         calls'[c] \in MarkingCalls /\ calls'[c].alone => Settles(c)'
  PROVE  DirectoryInv'
<1> SUFFICES ASSUME NEW d \in Calls \ {c}, calls'[d] \in MarkingCalls, calls'[d].alone
             PROVE  Settles(d)'
  BY DEF DirectoryInv
<1>1. calls'[d] = calls[d] /\ Settles(d)
  BY DEF DirectoryInv
<1>2. PICK q \in Rooms : calls[d].room = q
  BY <1>1 DEF MarkingCalls
<1>3. \A e \in Calls \ {d} : e \notin Dir!MarksOf(q)
  BY <1>1, <1>2 DEF Settles
<1>4. record'[q] = record[q] /\ \A e \in Calls \ {d} : e \notin Dir!MarksOf(q)'
  BY <1>3 DEF Dir!MarksOf
<1> QED BY <1>1, <1>2, <1>4 DEF Settles

\* Either write makes one more fact true of the record, and keeps the others.
LEMMA WritesSettle ==
  ASSUME DirectoryInv, NEW c \in Calls, Dir!WriteCount(c) \/ Dir!WriteStatus(c)
  PROVE  DirectoryInv'
<1>1. DirectoryTypes /\ calls[c] \in MarkingCalls
  BY KindsOfCalls DEF DirectoryInv, Dir!WriteCount, Dir!WriteStatus
<1>2. PICK r \in Rooms, n \in Counts : calls[c].room = r /\ calls[c].online = n
  BY <1>1 DEF MarkingCalls
<1>3. CASE Dir!WriteCount(c)
  <2>1. /\ calls[c].phase = "count"
        /\ record' = [record EXCEPT ![r].online = n]
        /\ calls' = [calls EXCEPT ![c].phase = "status"]
        /\ members' = members
    BY <1>2, <1>3 DEF Dir!WriteCount
  <2>2. /\ calls'[c] \in MarkingCalls /\ calls'[c].phase = "status" /\ calls'[c].room = r
        /\ calls'[c].online = n /\ calls'[c].alone = calls[c].alone
    BY <1>1, <1>2, <2>1 DEF DirectoryTypes, MarkingCalls
  <2>3. DirectoryTypes'
    BY <1>1, <1>2, <2>1, <2>2 DEF DirectoryTypes
  <2>4. /\ \A q \in Rooms : c \in Dir!MarksOf(q)' <=> c \in Dir!MarksOf(q)
        /\ \A d \in Calls \ {c} : calls'[d] = calls[d]
        /\ \A q \in Rooms : c \notin Dir!MarksOf(q) => record'[q] = record[q]
        /\ record'[r].online = n
    BY <1>1, <1>2, <2>1, <2>2 DEF DirectoryTypes, Dir!MarksOf
  <2>5. calls'[c].alone => Settles(c)'
    <3>1. SUFFICES ASSUME calls[c].alone PROVE Settles(c)'
      BY <2>2
    <3>2. Settles(c)
      BY <1>1, <3>1 DEF DirectoryInv
    <3>3. \A d \in Calls \ {c} : d \notin Dir!MarksOf(r)'
      BY <1>2, <2>4, <3>2 DEF Settles, Dir!MarksOf
    <3> QED BY <1>2, <2>1, <2>2, <2>4, <3>2, <3>3 DEF Settles
  <2> QED BY <2>1, <2>3, <2>4, <2>5, CallSettles
<1>4. CASE Dir!WriteStatus(c)
  <2>1. /\ calls[c].phase = "status"
        /\ record' = [record EXCEPT ![r].status = Dir!ResolveStatus(n)]
        /\ calls' = [calls EXCEPT ![c].phase = "reread"]
        /\ members' = members
    BY <1>2, <1>4 DEF Dir!WriteStatus
  <2>2. /\ calls'[c] \in MarkingCalls /\ calls'[c].phase = "reread" /\ calls'[c].room = r
        /\ calls'[c].online = n /\ calls'[c].alone = calls[c].alone
    BY <1>1, <1>2, <2>1 DEF DirectoryTypes, MarkingCalls
  <2>3. DirectoryTypes'
    BY <1>1, <1>2, <2>1, <2>2, StatusType DEF DirectoryTypes
  <2>4. /\ \A q \in Rooms : c \in Dir!MarksOf(q)' <=> c \in Dir!MarksOf(q)
        /\ \A d \in Calls \ {c} : calls'[d] = calls[d]
        /\ \A q \in Rooms : c \notin Dir!MarksOf(q) => record'[q] = record[q]
        /\ record'[r].online = record[r].online /\ record'[r].status = Dir!ResolveStatus(n)
    BY <1>1, <1>2, <2>1, <2>2 DEF DirectoryTypes, Dir!MarksOf
  <2>5. calls'[c].alone => Settles(c)'
    <3>1. SUFFICES ASSUME calls[c].alone PROVE Settles(c)'
      BY <2>2
    <3>2. Settles(c)
      BY <1>1, <3>1 DEF DirectoryInv
    <3>3. \A d \in Calls \ {c} : d \notin Dir!MarksOf(r)'
      BY <1>2, <2>4, <3>2 DEF Settles, Dir!MarksOf
    <3>4. Dir!ResolveStatus(calls'[c].online) = Dir!ResolveStatus(n)
      BY <2>2
    <3> QED BY <1>2, <2>1, <2>2, <2>4, <3>2, <3>3, <3>4 DEF Settles
  <2> QED BY <2>1, <2>3, <2>4, <2>5, CallSettles
<1> QED BY <1>3, <1>4

\* A call that begins or ends marks no room.
LEMMA UnmarkedSettles ==
  ASSUME DirectoryInv, NEW c \in Calls, NEW k \in {Dir!Idle} \cup Dir!Waiting,
         calls' = [calls EXCEPT ![c] = k], members' = members, record' = record
  PROVE  DirectoryInv'
<1>1. DirectoryTypes
  BY DEF DirectoryInv
<1>2. calls'[c] = k /\ \A d \in Calls \ {c} : calls'[d] = calls[d]
  BY <1>1 DEF DirectoryTypes
<1>3. DirectoryTypes'
  BY <1>1 DEF DirectoryTypes
<1>4. k \notin MarkingCalls /\ \A q \in Rooms : c \notin Dir!MarksOf(q)'
  BY <1>2 DEF Dir!Idle, Dir!Waiting, MarkingCalls, Dir!MarksOf
<1> QED BY <1>2, <1>3, <1>4, CallSettles

\* A room that is created was written by no status, so that no call is past its second
\* write there, and its count stays zero.
LEMMA CreateSettles ==
  ASSUME DirectoryInv, NEW r \in Rooms, Dir!CreateRoom(r)
  PROVE  DirectoryInv'
<1>1. /\ DirectoryTypes
      /\ record[r] = Dir!Absent /\ members' = members /\ calls' = calls
      /\ record' = [record EXCEPT ![r] = [status |-> "open", online |-> 0]]
  BY DEF DirectoryInv, Dir!CreateRoom
<1>2. DirectoryTypes'
  BY <1>1 DEF DirectoryTypes, Counts
<1>3. \A q : Dir!MarksOf(q)' = Dir!MarksOf(q)
  BY <1>1 DEF Dir!MarksOf
<1> SUFFICES ASSUME NEW c \in Calls, calls[c] \in MarkingCalls, calls[c].alone
             PROVE  Settles(c)'
  BY <1>1, <1>2 DEF DirectoryInv
<1>4. Settles(c)
  BY DEF DirectoryInv
<1>5. PICK q \in Rooms : calls[c].room = q
  BY DEF MarkingCalls
<1>6. record'[q].online = record[q].online
  BY <1>1 DEF DirectoryTypes, Dir!Absent
<1>7. calls[c].phase = "reread" => record'[q] = record[q]
  BY <1>1, <1>4, <1>5, StatusType DEF Settles, DirectoryTypes, Dir!Absent
<1> QED BY <1>1, <1>3, <1>4, <1>5, <1>6, <1>7 DEF Settles

\* Every step keeps it: those that change members mark their rooms.
LEMMA DirectoryStep == DirectoryInv /\ [Dir!Next]_Dir!vars => DirectoryInv'
<1> SUFFICES ASSUME DirectoryInv, [Dir!Next]_Dir!vars PROVE DirectoryInv'
  OBVIOUS
<1>1. DirectoryTypes
  BY DEF DirectoryInv
<1>2. ASSUME NEW c \in Calls, NEW u \in Users, NEW r \in Rooms,
             Dir!LeaveRoom(c, u, r) \/ Dir!ConnectionClosed(c, u, r)
      PROVE  DirectoryInv'
  <2>1. Dir!Leave(c, u, r) /\ record' = record
    BY <1>2 DEF Dir!LeaveRoom, Dir!ConnectionClosed
  <2>2. Dir!Mark(c, r, members[r] \ (closing \cup {u}))
    BY <2>1 DEF Dir!Leave
  <2>3. calls[c] \notin MarkingCalls
    BY <2>1 DEF Dir!Leave, Dir!IsNext, Dir!Idle, MarkingCalls
  <2>4. members[r] \ (closing \cup {u}) \in SUBSET Users
    BY <1>1 DEF DirectoryTypes
  <2> QED BY <2>1, <2>2, <2>3, <2>4, MarkSettles
<1>3. ASSUME NEW c \in Calls, Dir!EnterRoom(c) PROVE DirectoryInv'
  <2>1. calls[c] \in Dir!Waiting /\ calls[c] \notin MarkingCalls
    BY <1>1, <1>3, KindsOfCalls DEF Dir!EnterRoom
  <2>2. PICK u \in Users, r \in Rooms : calls[c].user = u /\ calls[c].room = r
    BY <2>1 DEF Dir!Waiting
  <2>3. Dir!Mark(c, r, (members[r] \cup {u}) \ closing) /\ record' = record
    BY <1>3, <2>2 DEF Dir!EnterRoom
  <2>4. (members[r] \cup {u}) \ closing \in SUBSET Users
    BY <1>1 DEF DirectoryTypes
  <2> QED BY <2>1, <2>3, <2>4, MarkSettles
<1>4. ASSUME Dir!Restart PROVE DirectoryInv'
  <2>1. /\ record' = Dir!Startup(record) /\ members' = [r \in Rooms |-> {}]
        /\ calls' = [c \in Calls |-> Dir!Idle]
    BY <1>4 DEF Dir!Restart
  <2>2. DirectoryTypes'
    BY <1>1, <2>1 DEF DirectoryTypes, Dir!Startup, Counts
  <2>3. \A c \in Calls : calls'[c] \notin MarkingCalls
    BY <2>1 DEF Dir!Idle, MarkingCalls
  <2> QED BY <2>2, <2>3 DEF DirectoryInv
<1>5. ASSUME UNCHANGED <<record, members, calls>> PROVE DirectoryInv'
  BY <1>5 DEF DirectoryInv, DirectoryTypes, Settles, Dir!MarksOf
<1>6. ASSUME \/ \E u \in Users : \/ Dir!ConnectionCloses(u) \/ Dir!ClosedWithoutRoom(u)
                                 \/ Dir!Vanish(u) \/ Dir!HeartbeatTimeout(u)
             \/ Dir!Interval \/ UNCHANGED Dir!vars
      PROVE  UNCHANGED <<record, members, calls>>
  BY <1>6 DEF Dir!ConnectionCloses, Dir!ClosedWithoutRoom, Dir!Vanish, Dir!HeartbeatTimeout,
              Dir!Interval, Dir!vars
<1>7. ASSUME NEW c \in Calls, Dir!DatabaseFails(c)
      PROVE  DirectoryInv'
  BY <1>7, UnmarkedSettles DEF Dir!DatabaseFails
<1>9. ASSUME NEW r \in Rooms, Dir!BroadcastToRoom(r)
      PROVE  DirectoryInv'
  <2>1. /\ members' = [members EXCEPT ![r] = members[r] \ closing]
        /\ calls' = Dir!Disturbed(r) /\ record' = record
    BY <1>9 DEF Dir!BroadcastToRoom, Dir!DropClosing
  <2>2. PICK none : none = {}
    OBVIOUS
  <2>3. calls' = [d \in Calls |-> IF d \in none THEN Dir!Idle ELSE Dir!Disturbed(r)[d]]
    BY <2>1, <2>2 DEF Dir!Disturbed
  <2> QED BY <2>1, <2>3, SilentLeavesSettle
<1>10. ASSUME NEW c \in Calls, Dir!TellMembers(c)
       PROVE  DirectoryInv'
  <2>1. calls[c] \in MarkingCalls
    BY <1>1, <1>10, KindsOfCalls DEF Dir!TellMembers
  <2>2. PICK r \in Rooms : calls[c].room = r
    BY <2>1 DEF MarkingCalls
  <2>3. /\ members' = [members EXCEPT ![r] = members[r] \ closing] /\ record' = record
        /\ Dir!Undisturbed(r) => calls' = [calls EXCEPT ![c] = Dir!Idle]
        /\ ~Dir!Undisturbed(r) => calls' = [Dir!Disturbed(r) EXCEPT ![c] = Dir!Idle]
    BY <1>10, <2>2 DEF Dir!TellMembers, Dir!DropClosing
  <2>4. CASE Dir!Undisturbed(r)
    <3>1. members[r] \ closing = members[r]
      BY <2>4 DEF Dir!Undisturbed
    <3>2. members' = members
      BY <1>1, <2>3, <3>1 DEF DirectoryTypes
    <3> QED BY <2>3, <2>4, <3>2, UnmarkedSettles
  <2>5. CASE ~Dir!Undisturbed(r)
    <3>1. DOMAIN Dir!Disturbed(r) = Calls
      BY DEF Dir!Disturbed
    <3>2. calls' = [d \in Calls |-> IF d \in {c} THEN Dir!Idle ELSE Dir!Disturbed(r)[d]]
      BY <2>3, <2>5, <3>1
    <3> QED BY <2>3, <3>2, SilentLeavesSettle
  <2> QED BY <2>4, <2>5
<1>8. ASSUME NEW c \in Calls, NEW u \in Users, NEW r \in Rooms, Dir!RequestJoin(c, u, r)
      PROVE  DirectoryInv'
  BY <1>8, UnmarkedSettles DEF Dir!RequestJoin, Dir!Waiting
<1> QED
  BY <1>2, <1>3, <1>4, <1>5, <1>6, <1>7, <1>8, <1>9, <1>10, WritesSettle, CreateSettles DEF Dir!Next, Dir!CallStep

\* A join or leave during which nothing else changes who is in its room, a closing connection
\* that is taken out unmarked included, stores the number of members and the status of that
\* number before the members are told (markUserJoined, markUserLeft), whatever failed, was
\* overlapped or was left uncounted before.
THEOREM LoneCallsTellTheTruth == Dir!Spec => Dir!LoneCallsSettle
<1>1. Dir!Init => DirectoryInv
  <2> SUFFICES ASSUME Dir!Init PROVE DirectoryInv
    OBVIOUS
  <2>1. DirectoryTypes
    BY DEF Dir!Init, DirectoryTypes, Dir!Startup, Dir!Absent, Counts
  <2>2. \A c \in Calls : calls[c] \notin MarkingCalls
    BY DEF Dir!Init, Dir!Idle, MarkingCalls
  <2> QED BY <2>1, <2>2 DEF DirectoryInv
<1>2. DirectoryInv =>
        \A c \in Calls :
          calls[c].phase = "reread" /\ calls[c].alone /\ calls'[c] = Dir!Idle =>
            LET n == Dir!Cardinality(members[calls[c].room])
            IN  record[calls[c].room] = [status |-> Dir!ResolveStatus(n), online |-> n]
  <2> SUFFICES ASSUME DirectoryInv, NEW c \in Calls,
                      calls[c].phase = "reread", calls[c].alone
               PROVE  LET n == Dir!Cardinality(members[calls[c].room])
                      IN  record[calls[c].room] = [status |-> Dir!ResolveStatus(n), online |-> n]
    OBVIOUS
  <2>1. DirectoryTypes /\ calls[c] \in MarkingCalls /\ Settles(c)
    BY KindsOfCalls DEF DirectoryInv
  <2>2. PICK r \in Rooms : calls[c].room = r
    BY <2>1 DEF MarkingCalls
  <2>3. /\ record[r].online = Dir!Cardinality(members[r])
        /\ record[r].status = Dir!ResolveStatus(Dir!Cardinality(members[r]))
    BY <2>1, <2>2 DEF Settles
  <2>4. record[r] = [status |-> record[r].status, online |-> record[r].online]
    BY <2>1 DEF DirectoryTypes
  <2> QED BY <2>2, <2>3, <2>4
<1> QED BY <1>1, <1>2, DirectoryStep, PTL DEF Dir!Spec, Dir!LoneCallsSettle
=============================================================================
