---------------------------- MODULE RealtimeRooms ----------------------------
(***************************************************************************)
(* The realtime connections of the server, the registry of connections     *)
(* (clientsRegistry.js) and the room manager (roomManager.js), driven by   *)
(* the connection core (realtimeServer.js), authentication (realtimeAuth), *)
(* join_room and leave_room (gameRoutes.js, gameRoomService.js), the       *)
(* heartbeat and the cleanup after a disconnect (realTime/index.js,        *)
(* disconnectCleanup.js), and the broadcasts of player_joined and          *)
(* player_left (gamePresenceService.js).                                   *)
(*                                                                         *)
(* A handler runs to its next await.  join_room waits for canJoinRoom and  *)
(* for markUserJoined, leave_room for markUserLeft: the rest of a handler  *)
(* is a member of `pending`, and everything else may happen first.  The    *)
(* token of an auth message is verified without input or output, so        *)
(* authentication is one action.                                           *)
(*                                                                         *)
(* Abstracted: the counts and statuses that the room directory stores, the *)
(* content of messages and the last player states.  A connection object is *)
(* used once: a client that reconnects is another member of Connections.   *)
(***************************************************************************)
EXTENDS Naturals, FiniteSets

CONSTANTS
  Users, Connections, Rooms,
  Permanent,    \* the rooms of permanentRoomDefinitions
  SwitchUsers,  \* may a connection authenticate again as another user?
  MaxPending    \* bound: handlers that wait at the same time

CONSTANTS NoUser, NoRoom, Absent  \* empty strings and missing records

ASSUME RoomsAssumption ==
  /\ Permanent \subseteq Rooms
  /\ SwitchUsers \in BOOLEAN
  /\ MaxPending \in Nat
  /\ NoUser \notin Users
  /\ NoRoom \notin Rooms
  /\ Absent \notin Users \cup {NoUser}

VARIABLES
  socket,               \* the raw WebSocket of a connection
  state,                \* ctx.state
  user,                 \* ctx.user
  roomId,               \* ctx.roomId, the room of messages that name none
  byConnectionId,       \* registry: the user of a record, or Absent
  byUserId,             \* registry: the connections of a user
  rooms,                \* the members of a room
  existing,             \* the keys of the map `rooms`
  roomsByConnectionId,  \* the rooms of a connection
  pending,              \* handlers that wait: <<step, connection, room>>
  announced             \* history: users whose last broadcast is player_joined

registryVars == <<byConnectionId, byUserId>>
roomVars == <<rooms, existing, roomsByConnectionId, roomId>>
contextVars == <<socket, state, user>>
vars == <<contextVars, registryVars, roomVars, pending, announced>>

Steps == {"join", "announceJoin", "announceLeave"}

TypeOK ==
  /\ socket \in [Connections -> {"unused", "open", "closing", "closed"}]
  /\ state \in [Connections -> {"connected", "authenticated", "closing", "closed"}]
  /\ user \in [Connections -> Users \cup {NoUser}]
  /\ roomId \in [Connections -> Rooms \cup {NoRoom}]
  /\ byConnectionId \in [Connections -> Users \cup {NoUser, Absent}]
  /\ byUserId \in [Users -> SUBSET Connections]
  /\ rooms \in [Rooms -> SUBSET Connections]
  /\ existing \subseteq Rooms
  /\ roomsByConnectionId \in [Connections -> SUBSET Rooms]
  /\ pending \subseteq Steps \X Connections \X Rooms
  /\ announced \in [Rooms -> SUBSET Users]

Init ==
  /\ socket = [c \in Connections |-> "unused"]
  /\ state = [c \in Connections |-> "connected"]
  /\ user = [c \in Connections |-> NoUser]
  /\ roomId = [c \in Connections |-> NoRoom]
  /\ byConnectionId = [c \in Connections |-> Absent]
  /\ byUserId = [u \in Users |-> {}]
  /\ rooms = [r \in Rooms |-> {}]
  /\ existing = Permanent
  /\ roomsByConnectionId = [c \in Connections |-> {}]
  /\ pending = {}
  /\ announced = [r \in Rooms |-> {}]

-----------------------------------------------------------------------------
(* Connections and the room manager *)

IsOpen(c) == socket[c] = "open" /\ state[c] \in {"connected", "authenticated"}
Authenticated(c) == state[c] = "authenticated"
Closed == {c \in Connections : ~IsOpen(c)}

\* leave(), once for every pair of `gone`: both maps, the room if it is empty
\* now, and the active room of the connection.
LeaveFrom(gone, active) ==
  /\ rooms' = [r \in Rooms |-> {c \in rooms[r] : <<r, c>> \notin gone}]
  /\ existing' = {r \in existing : r \in Permanent \/ rooms'[r] # {}}
  /\ roomsByConnectionId' =
       [c \in Connections |-> {r \in roomsByConnectionId[c] : <<r, c>> \notin gone}]
  /\ roomId' =
       [c \in Connections |-> IF <<active[c], c>> \in gone THEN NoRoom ELSE active[c]]

Leave(gone) == LeaveFrom(gone, roomId)

\* The lazy removal: who reads or broadcasts to a room drops its closed members.
Stale(r) == {r} \X (rooms[r] \cap Closed)

\* join() after the removals of `gone`.
Join(c, r, gone) ==
  /\ rooms' = [s \in Rooms |->
       {d \in rooms[s] : <<s, d>> \notin gone} \cup (IF s = r THEN {c} ELSE {})]
  /\ existing' = existing \cup {r}
  /\ roomsByConnectionId' = [d \in Connections |->
       {s \in roomsByConnectionId[d] : <<s, d>> \notin gone}
         \cup (IF d = c THEN {r} ELSE {})]
  /\ roomId' = [d \in Connections |->
       IF d = c THEN r
       ELSE IF <<roomId[d], d>> \in gone THEN NoRoom ELSE roomId[d]]

-----------------------------------------------------------------------------
(* The life of a connection *)

Connect(c) ==
  /\ socket[c] = "unused"
  /\ socket' = [socket EXCEPT ![c] = "open"]
  /\ byConnectionId' = [byConnectionId EXCEPT ![c] = NoUser]
  /\ UNCHANGED <<state, user, byUserId, roomVars, pending, announced>>

\* addConnection moves the record of a connection to its new user.
AddConnection(c, u) ==
  /\ byConnectionId' = [byConnectionId EXCEPT ![c] = u]
  /\ byUserId' = [v \in Users |->
       IF v = u THEN byUserId[v] \cup {c}
       ELSE IF v = byConnectionId[c] THEN byUserId[v] \ {c} ELSE byUserId[v]]

\* handleRealtimeAuthEnvelope
Authenticate(c, u) ==
  /\ IsOpen(c)
  /\ SwitchUsers \/ user[c] \in {NoUser, u}
  /\ AddConnection(c, u)
  /\ user' = [user EXCEPT ![c] = u]
  /\ state' = [state EXCEPT ![c] = "authenticated"]
  /\ UNCHANGED <<socket, roomVars, pending, announced>>

\* The client closes or the network fails: readyState changes, and the close
\* event is still to come.
SocketCloses(c) ==
  /\ socket[c] = "open"
  /\ socket' = [socket EXCEPT ![c] = "closing"]
  /\ UNCHANGED <<state, user, registryVars, roomVars, pending, announced>>

HeartbeatTimeout(c) ==
  /\ socket[c] = "open"
  /\ socket' = [socket EXCEPT ![c] = "closing"]
  /\ state' = [state EXCEPT ![c] = "closing"]
  /\ UNCHANGED <<user, registryVars, roomVars, pending, announced>>

\* The rooms that the cleanup of a connection deals with.
RoomsBeforeCleanup(c) ==
  IF roomsByConnectionId[c] = {} THEN {roomId[c]} \cap Rooms
  ELSE roomsByConnectionId[c]

\* A mutant: only the connections of a user are removed.
Unregister_UserOnly(c) ==
  /\ byConnectionId' = [d \in Connections |->
       IF user[c] \in Users /\ d \in byUserId[user[c]]
       THEN Absent ELSE byConnectionId[d]]
  /\ byUserId' = [u \in Users |-> IF u = user[c] THEN {} ELSE byUserId[u]]

\* removeConnection(connection), and remove(userId) without a connection: that
\* removes every connection of the user.
Unregister(c) ==
  /\ byConnectionId' = [d \in Connections |->
       IF d = c \/ (user[c] \in Users /\ d \in byUserId[user[c]])
       THEN Absent ELSE byConnectionId[d]]
  /\ byUserId' = [u \in Users |->
       IF u = user[c] THEN {} ELSE byUserId[u] \ {c}]

HandleClose(c) ==
  /\ socket[c] = "closing"
  /\ LET left == RoomsBeforeCleanup(c)
     IN /\ announced' = [r \in Rooms |->
             IF r \in left THEN announced[r] \ {user[c]} ELSE announced[r]]
        /\ Leave((left \X {c}) \cup UNION {Stale(r) : r \in left})
  /\ Unregister(c)
  /\ socket' = [socket EXCEPT ![c] = "closed"]
  /\ state' = [state EXCEPT ![c] = "closed"]
  /\ UNCHANGED <<user, pending>>

-----------------------------------------------------------------------------
(* Rooms *)

Await(step) == Cardinality(pending) < MaxPending /\ pending' = pending \cup {step}

\* join_room, to its await of canJoinRoom.
RequestJoin(c, r) ==
  /\ IsOpen(c) /\ Authenticated(c)
  /\ <<"join", c, r>> \notin pending
  /\ Await(<<"join", c, r>>)
  /\ UNCHANGED <<contextVars, registryVars, roomVars, announced>>

JoinRefused(c, r) ==
  /\ <<"join", c, r>> \in pending
  /\ pending' = pending \ {<<"join", c, r>>}
  /\ UNCHANGED <<contextVars, registryVars, roomVars, announced>>

\* A mutant: the connections of every user are replaced.
Siblings_AnyUser(c, r) == rooms[r] \ {c}
Siblings(c, r) == {d \in rooms[r] \ {c} : user[d] = user[c]}
LogicalRejoin(c, r) == c \in rooms[r] \/ \E d \in Siblings(c, r) : IsOpen(d)

\* A mutant: nobody counts the members after the join.
JoinRoom_Uncounted(c, r) ==
  /\ <<"join", c, r>> \in pending
  /\ Join(c, r, ({r} \X Siblings(c, r)) \cup Stale(r))
  /\ pending' = (pending \ {<<"join", c, r>>})
       \cup (IF LogicalRejoin(c, r) THEN {} ELSE {<<"announceJoin", c, r>>})
  /\ UNCHANGED <<contextVars, registryVars, announced>>

\* A mutant: the old connections of the user stay.
JoinRoom_KeepsOld(c, r) ==
  /\ <<"join", c, r>> \in pending
  /\ IF IsOpen(c) THEN Join(c, r, Stale(r))
     ELSE LeaveFrom(Stale(r) \cup {<<r, c>>}, [roomId EXCEPT ![c] = r])
  /\ pending' = (pending \ {<<"join", c, r>>})
       \cup (IF LogicalRejoin(c, r) THEN {} ELSE {<<"announceJoin", c, r>>})
  /\ UNCHANGED <<contextVars, registryVars, announced>>

\* joinRoom: the other connections of the user leave, this one joins, and the
\* count of members drops whoever is closed, be it this connection.
JoinRoom(c, r) ==
  /\ <<"join", c, r>> \in pending
  /\ LET gone == ({r} \X Siblings(c, r)) \cup Stale(r)
     IN IF IsOpen(c) THEN Join(c, r, gone)
        ELSE LeaveFrom(gone \cup {<<r, c>>}, [roomId EXCEPT ![c] = r])
  /\ pending' = (pending \ {<<"join", c, r>>})
       \cup (IF LogicalRejoin(c, r) THEN {} ELSE {<<"announceJoin", c, r>>})
  /\ UNCHANGED <<contextVars, registryVars, announced>>

\* After markUserJoined: room_updated to the room, then player_joined.
AnnounceJoin(c, r) ==
  /\ <<"announceJoin", c, r>> \in pending
  /\ pending' = pending \ {<<"announceJoin", c, r>>}
  /\ announced' = [announced EXCEPT ![r] = @ \cup {user[c]}]
  /\ Leave(Stale(r))
  /\ UNCHANGED <<contextVars, registryVars>>

\* leave_room, to its await of markUserLeft.
LeaveRoom(c, r) ==
  /\ IsOpen(c) /\ Authenticated(c)
  /\ c \in rooms[r]
  /\ <<"announceLeave", c, r>> \notin pending
  /\ Await(<<"announceLeave", c, r>>)
  /\ Leave({<<r, c>>} \cup Stale(r))
  /\ UNCHANGED <<contextVars, registryVars, announced>>

AnnounceLeave(c, r) ==
  /\ <<"announceLeave", c, r>> \in pending
  /\ pending' = pending \ {<<"announceLeave", c, r>>}
  /\ announced' = [announced EXCEPT ![r] = @ \ {user[c]}]
  /\ Leave(Stale(r))
  /\ UNCHANGED <<contextVars, registryVars>>

\* The directory's database call fails: the handler ends without a broadcast.
DirectoryFails(c, r) ==
  /\ \E step \in {"announceJoin", "announceLeave"} :
       /\ <<step, c, r>> \in pending
       /\ pending' = pending \ {<<step, c, r>>}
  /\ UNCHANGED <<contextVars, registryVars, roomVars, announced>>

\* Any broadcast to a room, a snapshot of its members or the health page.
Broadcast(r) ==
  /\ Stale(r) # {}
  /\ Leave(Stale(r))
  /\ UNCHANGED <<contextVars, registryVars, pending, announced>>

-----------------------------------------------------------------------------
(* Reads of the registry *)

Forget(conns) ==
  /\ byConnectionId' = [c \in Connections |->
       IF c \in conns THEN Absent ELSE byConnectionId[c]]
  /\ byUserId' = [u \in Users |->
       {c \in byUserId[u] : c \notin conns \/ byConnectionId[c] # u}]
  /\ UNCHANGED <<contextVars, roomVars, pending, announced>>

\* getAll, which the membership check of the voice server calls.
GetAll(u) == byUserId[u] \cap Closed # {} /\ Forget(byUserId[u] \cap Closed)

\* cleanupClosedConnections, which the health page calls.
CleanupClosed ==
  LET dead == {c \in Closed : byConnectionId[c] # Absent}
  IN dead # {} /\ Forget(dead)

-----------------------------------------------------------------------------

Next ==
  \/ \E c \in Connections :
       \/ Connect(c) \/ SocketCloses(c) \/ HeartbeatTimeout(c) \/ HandleClose(c)
       \/ \E u \in Users : Authenticate(c, u)
       \/ \E r \in Rooms :
            \/ RequestJoin(c, r) \/ JoinRefused(c, r) \/ JoinRoom(c, r)
            \/ AnnounceJoin(c, r) \/ LeaveRoom(c, r) \/ AnnounceLeave(c, r)
            \/ DirectoryFails(c, r)
  \/ \E r \in Rooms : Broadcast(r)
  \/ \E u \in Users : GetAll(u)
  \/ CleanupClosed

\* ws emits the close event of every socket that closes: after closeTimeout it
\* destroys the stream.
Fairness == \A c \in Connections : WF_vars(HandleClose(c))

Spec == Init /\ [][Next]_vars /\ Fairness

-----------------------------------------------------------------------------
(* Properties *)

\* The two maps of the room manager are inverse: a broadcast reaches exactly the
\* connections that a disconnect will take out again (roomManager.js).
RoomMapsAgree ==
  \A r \in Rooms, c \in Connections :
    c \in rooms[r] <=> r \in roomsByConnectionId[c]

\* A room is in memory as long as it has members; an empty one stays only if it
\* is permanent, however its last member went (roomManager.js, leave).
RoomsAreInUse == existing = {r \in Rooms : rooms[r] # {} \/ r \in Permanent}

\* The room that messages without a room go to is one the connection is in
\* (ctx.roomId, which join, leave and the lazy removal maintain).
ActiveRoomIsJoined ==
  \A c \in Connections : roomId[c] # NoRoom => c \in rooms[roomId[c]]

\* The two maps of the registry agree, also after a connection changed its user
\* or was removed with the others of its user (clientsRegistry.js).
RegistryMapsAgree ==
  \A u \in Users, c \in Connections : c \in byUserId[u] <=> byConnectionId[c] = u

\* A connection whose close has been handled is in no room and not registered,
\* whichever of its handlers were still waiting (README, Disconnect Cleanup).
ClosedLeaveNothing ==
  \A c \in Connections : socket[c] = "closed" =>
    /\ byConnectionId[c] = Absent
    /\ \A r \in Rooms : c \notin rooms[r]

\* Only authenticated users are in rooms, and a user has at most one connection
\* in a room: reconnecting replaces it (leaveConnectionsByUser).  A connection
\* that authenticates again as another user is outside this promise.
OneMembershipPerUser ==
  \A r \in Rooms : \A c \in rooms[r] :
    user[c] # NoUser /\ (~SwitchUsers => Siblings(c, r) = {})

\* Nobody is put out of a room: an open connection stays a member until it asks
\* to leave or a join of another connection of its user takes its place.
MembersStay ==
  [][\A r \in Rooms : \A c \in rooms[r] \ rooms'[r] :
       IsOpen(c) =>
         \/ <<"announceLeave", c, r>> \in pending' \ pending
         \/ \E d \in Connections \ {c} :
              user[d] = user[c] /\ <<"join", d, r>> \in pending \ pending']_vars

\* A connection that begins to close is gone from every room and from the
\* registry in the end, for good.
ClosingConnectionsGo ==
  \A c \in Connections :
    socket[c] = "closing" ~>
      [](byConnectionId[c] = Absent /\ \A r \in Rooms : c \notin rooms[r])
=============================================================================
