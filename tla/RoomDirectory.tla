---------------------------- MODULE RoomDirectory ----------------------------
(***************************************************************************)
(* The room directory: the record that MongoDB keeps of every room (its    *)
(* online count and its status), the realtime members of the rooms, whose  *)
(* number it follows, and the heartbeat that finds dead connections.       *)
(* Source: realTime/lobby, infra/mongo/.../room.repository.js, the join    *)
(* and leave handlers of realTime/router/gameRoutes.js, roomManager.js,    *)
(* the disconnect hook of realTime/index.js, stability/heartbeat.js.       *)
(*                                                                         *)
(* A call is one handler with its awaits: canJoinRoom reads the record and *)
(* the user enters the room; then markUserJoined (or, for one who leaves,  *)
(* markUserLeft) writes the count that was taken at that moment, writes    *)
(* the status that belongs to it, reads the record again, and the handler  *)
(* sends it to the members.  Each of these is a database operation of its  *)
(* own; calls interleave between them, any of them can fail, and Node can  *)
(* stop.                                                                   *)
(*                                                                         *)
(* A WebSocket is closing for a while before its disconnect hook runs.     *)
(* Whoever reads a room in that time (a count, a message to the members)   *)
(* takes the closing connections out of it and marks nothing.              *)
(*                                                                         *)
(* Abstracted: names, descriptions, owners, visibility and times of rooms; *)
(* a user has one connection (RealtimeRooms has several), and a heartbeat  *)
(* interval is one tick.  closeRoomByOwner is called by no route and is    *)
(* left out, so no record is ever "closed".                                *)
(***************************************************************************)
EXTENDS Naturals, FiniteSets

CONSTANTS
  Users, Rooms,
  WebSocketUsers,  \* of Users: the others are connected by gRPC
  MaxPlayers,      \* of every room
  Calls,           \* the handlers that may run at a time (a bound)
  PongTimeout      \* timeoutMs, in heartbeat intervals

ASSUME DirectoryAssumption ==
  /\ WebSocketUsers \subseteq Users
  /\ MaxPlayers \in Nat \ {0} /\ PongTimeout \in Nat \ {0}

VARIABLES
  lobby,     \* the room of PUBLIC_LOBBY_ROOM_CONFIG, if it is one of Rooms: it never
             \* changes, and startup writes its record anew
  record,    \* the stored status and online count of each room
  members,   \* the users in each realtime room
  calls,     \* the handlers that wait for the database
  silence,   \* the intervals since the last pong of each user's connection
  dead,      \* the users whose client is gone although the socket is open
  closing    \* the users whose socket is closing and whose hook has not run

vars == <<lobby, record, members, calls, silence, dead, closing>>
hearts == <<lobby, silence, dead, closing>>

Absent == [status |-> "none", online |-> 0]
Records == [status : {"none", "open", "full", "empty"}, online : 0..Cardinality(Users)]
Idle == [phase |-> "idle"]
Waiting == [phase : {"enter"}, user : Users, room : Rooms]
Marking == [phase : {"count", "status", "reread"}, room : Rooms,
            online : 0..Cardinality(Users), alone : BOOLEAN]

TypeOK ==
  /\ lobby \in SUBSET Rooms /\ Cardinality(lobby) <= 1
  /\ record \in [Rooms -> Records]
  /\ members \in [Rooms -> SUBSET Users]
  /\ calls \in [Calls -> {Idle} \cup Waiting \cup Marking]
  /\ silence \in [Users -> 0..PongTimeout + 1]
  /\ dead \subseteq Users /\ closing \subseteq WebSocketUsers

\* The startup upserts the record of the lobby, empty, whatever it was before.
Startup(rec) ==
  [r \in Rooms |-> IF r \in lobby THEN [status |-> "empty", online |-> 0] ELSE rec[r]]

Init ==
  /\ lobby \in {L \in SUBSET Rooms : Cardinality(L) <= 1}
  /\ record = Startup([r \in Rooms |-> Absent])
  /\ members = [r \in Rooms |-> {}]
  /\ calls = [c \in Calls |-> Idle]
  /\ silence = [u \in Users |-> 0]
  /\ dead = {} /\ closing = {}

-----------------------------------------------------------------------------

Joinable(rec) == rec.status \in {"open", "empty"} /\ rec.online < MaxPlayers

ResolveStatus(n) ==
  IF n = 0 THEN "empty" ELSE IF n >= MaxPlayers THEN "full" ELSE "open"

\* The calls that mark room r, from the moment the members changed.
MarksOf(r) == {c \in Calls : calls[c].phase \in {"count", "status", "reread"}
                             /\ calls[c].room = r}

\* Handlers are alike: a new one takes a place that is free.
IsNext(c) == calls[c] = Idle /\ c = CHOOSE d \in Calls : calls[d] = Idle

\* u has passed canJoinRoom and is not in the room yet.
Joining(u) == \E c \in Calls : calls[c].phase = "enter" /\ calls[c].user = u

\* The calls after the members of room r changed: the ones that mark it are not alone.
\* (A call is alone if nothing else changes its room's members while it marks the
\* room; kept for LoneCallsSettle only.)
Disturbed(r) ==
  [d \in Calls |-> IF d \in MarksOf(r) THEN [calls[d] EXCEPT !.alone = FALSE] ELSE calls[d]]

\* The members of room r become `present`, and call c marks it.
Mark(c, r, present) ==
  /\ members' = [members EXCEPT ![r] = present]
  /\ calls' = [Disturbed(r) EXCEPT ![c] =
                 [phase |-> "count", room |-> r, online |-> Cardinality(present),
                  alone |-> MarksOf(r) = {}]]

\* Room r is read: whoever is closing is no member any more.  Nobody marks it.
DropClosing(r) == members' = [members EXCEPT ![r] = @ \ closing]
Undisturbed(r) == members[r] \cap closing = {}

\* create_room: RoomModel.create is awaited before anyone knows the room.
CreateRoom(r) ==
  /\ record[r] = Absent
  /\ record' = [record EXCEPT ![r] = [status |-> "open", online |-> 0]]
  /\ UNCHANGED <<members, calls, hearts>>

\* join_room: canJoinRoom reads the record (a join that is refused, with
\* room_not_found or room_full, changes nothing).
RequestJoin(c, u, r) ==
  /\ IsNext(c) /\ u \notin dead \cup closing /\ ~Joining(u)
  /\ \A s \in Rooms \ {r} : u \notin members[s]
  /\ Joinable(record[r])
  /\ calls' = [calls EXCEPT ![c] = [phase |-> "enter", user |-> u, room |-> r]]
  /\ UNCHANGED <<record, members, hearts>>

\* A mutant: the count is taken before the user is in the room.
EnterRoom_CountsFirst(c) ==
  LET r == calls[c].room IN
  /\ calls[c].phase = "enter"
  /\ members' = [members EXCEPT ![r] = (@ \cup {calls[c].user}) \ closing]
  /\ calls' = [Disturbed(r) EXCEPT ![c] =
                 [phase |-> "count", room |-> r, online |-> Cardinality(members[r]),
                  alone |-> MarksOf(r) = {}]]
  /\ UNCHANGED <<record, hearts>>

\* joinRoom and getRoomInfo in one piece: the count is that of this moment, without
\* the members that are closing (the one who joins may be).
EnterRoom(c) ==
  LET r == calls[c].room IN
  /\ calls[c].phase = "enter"
  /\ Mark(c, r, (members[r] \cup {calls[c].user}) \ closing)
  /\ UNCHANGED <<record, hearts>>

\* u is out of room r, with whoever is closing, and call c of a handler marks it.
Leave(c, u, r) ==
  /\ IsNext(c) /\ u \in members[r]
  /\ Mark(c, r, members[r] \ (closing \cup {u}))

LeaveRoom(c, u, r) ==
  /\ u \notin dead \cup closing
  /\ Leave(c, u, r)
  /\ UNCHANGED <<record, hearts>>

\* Either end closes the WebSocket of u.
ConnectionCloses(u) ==
  /\ u \in WebSocketUsers \ closing
  /\ Joining(u) \/ \E r \in Rooms : u \in members[r]
  /\ closing' = closing \cup {u}
  /\ dead' = dead \ {u}
  /\ silence' = [silence EXCEPT ![u] = 0]
  /\ UNCHANGED <<lobby, record, members, calls>>

\* The disconnect hook of u (a gRPC stream runs it as it closes): it reads the room
\* that u is still a member of, and leaves it.  A join of u that waits resumes first;
\* RealtimeRooms has the one that resumes later.
ConnectionClosed(c, u, r) ==
  /\ u \in closing \/ u \notin WebSocketUsers
  /\ ~Joining(u)
  /\ Leave(c, u, r)
  /\ dead' = dead \ {u} /\ closing' = closing \ {u}
  /\ UNCHANGED <<lobby, record, silence>>

\* The room manager has taken u out: the hook finds no room and marks none.
ClosedWithoutRoom(u) ==
  /\ u \in closing /\ ~Joining(u) /\ \A r \in Rooms : u \notin members[r]
  /\ closing' = closing \ {u}
  /\ UNCHANGED <<lobby, record, members, calls, silence, dead>>

\* Any other message to the members of room r.
BroadcastToRoom(r) ==
  /\ ~Undisturbed(r)
  /\ DropClosing(r)
  /\ calls' = Disturbed(r)
  /\ UNCHANGED <<record, hearts>>

-----------------------------------------------------------------------------

\* markUserJoined, markUserLeft: updateOnlineCount.
WriteCount(c) ==
  /\ calls[c].phase = "count"
  /\ record' = [record EXCEPT ![calls[c].room].online = calls[c].online]
  /\ calls' = [calls EXCEPT ![c].phase = "status"]
  /\ UNCHANGED <<members, hearts>>

\* updateRoomStatus, with the status of the count of this call.
WriteStatus(c) ==
  /\ calls[c].phase = "status"
  /\ record' = [record EXCEPT ![calls[c].room].status = ResolveStatus(calls[c].online)]
  /\ calls' = [calls EXCEPT ![c].phase = "reread"]
  /\ UNCHANGED <<members, hearts>>

\* findRoomById: room_updated, with this record, goes to who is in the room.
TellMembers(c) ==
  LET r == calls[c].room IN
  /\ calls[c].phase = "reread"
  /\ DropClosing(r)
  /\ calls' = [(IF Undisturbed(r) THEN calls ELSE Disturbed(r)) EXCEPT ![c] = Idle]
  /\ UNCHANGED <<record, hearts>>

\* A database operation rejects: the handler answers with an error or, after
\* a disconnect, logs it.  What was done before stays done.
DatabaseFails(c) ==
  /\ calls[c].phase \in {"enter", "count", "status", "reread"}
  /\ calls' = [calls EXCEPT ![c] = Idle]
  /\ UNCHANGED <<record, members, hearts>>

-----------------------------------------------------------------------------

Members == UNION {members[r] : r \in Rooms}

\* The client of u vanishes; nothing closes the socket.
Vanish(u) ==
  /\ u \in Members \ (dead \cup closing)
  /\ dead' = dead \cup {u}
  /\ UNCHANGED <<record, members, calls, lobby, silence, closing>>

\* One interval: the timer of a WebSocket whose last pong is older than the
\* timeout does not ping it (it is closed by HeartbeatTimeout before the next
\* interval); every other one is pinged, and a client that lives answers.  A gRPC
\* stream has no such timer.
Interval ==
  /\ dead \cap WebSocketUsers # {}
  /\ \A u \in dead : silence[u] <= PongTimeout
  /\ silence' = [u \in Users |-> IF u \in dead \cap WebSocketUsers THEN silence[u] + 1 ELSE 0]
  /\ UNCHANGED <<record, members, calls, lobby, dead, closing>>

\* A mutant: the timeout only reports.
TimeoutEnds_Never(u) == FALSE
TimeoutEnds(u) == silence[u] > PongTimeout

\* onTimeout closes the connection, and the timer terminates its socket.
HeartbeatTimeout(u) == TimeoutEnds(u) /\ ConnectionCloses(u)

\* Node stops and starts: the realtime state is gone, the records stay.
Restart ==
  /\ record' = Startup(record)
  /\ members' = [r \in Rooms |-> {}]
  /\ calls' = [c \in Calls |-> Idle]
  /\ silence' = [u \in Users |-> 0]
  /\ dead' = {} /\ closing' = {}
  /\ UNCHANGED lobby

CallStep(c) ==
  EnterRoom(c) \/ WriteCount(c) \/ WriteStatus(c) \/ TellMembers(c)

Next ==
  \/ \E r \in Rooms : CreateRoom(r)
  \/ \E c \in Calls, u \in Users, r \in Rooms :
       RequestJoin(c, u, r) \/ LeaveRoom(c, u, r) \/ ConnectionClosed(c, u, r)
  \/ \E u \in Users :
       ConnectionCloses(u) \/ ClosedWithoutRoom(u) \/ Vanish(u) \/ HeartbeatTimeout(u)
  \/ \E r \in Rooms : BroadcastToRoom(r)
  \/ \E c \in Calls : CallStep(c) \/ DatabaseFails(c)
  \/ Interval
  \/ Restart

\* Database operations are answered, intervals pass, the timer that finds a dead
\* connection ends it, and a disconnect hook that waits for a free call slot of
\* this model gets one.
Fairness ==
  /\ \A c \in Calls : WF_vars(CallStep(c))
  /\ WF_vars(Interval)
  /\ \A u \in Users : WF_vars(HeartbeatTimeout(u))
  /\ \A u \in WebSocketUsers : SF_vars(\E c \in Calls, r \in Rooms : ConnectionClosed(c, u, r))

Spec == Init /\ [][Next]_vars /\ Fairness

-----------------------------------------------------------------------------

\* A call that marks its room alone leaves the truth: the stored count is the
\* number of members, the status is that of the count, and the members are told
\* so.  Alone means that from its count to its message nothing else changes who
\* is in the room: no other join or leave, and no read that takes a closing
\* connection out without a mark (roomManager.js:308-310, 341-348).  Hence what an
\* overlap, such a read, a failed write or a stopped process left wrong is right
\* again after the next undisturbed join or leave (markUserJoined and
\* markUserLeft, roomDirectoryService.js:292-328, the handlers around them).
LoneCallsSettle ==
  [][\A c \in Calls :
       calls[c].phase = "reread" /\ calls[c].alone /\ calls'[c] = Idle =>
         LET n == Cardinality(members[calls[c].room])
         IN  record[calls[c].room] = [status |-> ResolveStatus(n), online |-> n]]_vars

\* A WebSocket member whose client has vanished does not stay: the heartbeat finds
\* it and it leaves the room (heartbeat.js:48-73, realTime/index.js:28-45).  Of a
\* gRPC member nothing of the kind can be said: it has no heartbeat.
VanishedMembersLeave ==
  \A u \in WebSocketUsers : u \in dead ~> u \notin Members
=============================================================================
