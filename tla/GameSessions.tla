---------------------------- MODULE GameSessions ----------------------------
(***************************************************************************)
(* The game sessions and the tickets of Game Server Control: the session   *)
(* registry (gameSessionRegistry.js), the ticket service and its store     *)
(* (gameTicketService.js, gameTicketStore.js), and the handlers that use   *)
(* them: the tail of requestGameServerTicket and the dedicated-server      *)
(* endpoints verify-ticket, player-left, session-result, register and      *)
(* heartbeat (dedicatedServerHandler.js), plus the periodic cleanup, the   *)
(* public lobby reconciler and a restart of the Node process.              *)
(*                                                                         *)
(* Node runs each handler to completion, so a handler is one action.  The  *)
(* requests come from Unity processes over HTTP: they may be late,         *)
(* repeated or out of order, so an action takes any well-formed request.   *)
(*                                                                         *)
(* Abstracted: the choice of a server and its reserved capacity (module    *)
(* ServerAllocation), signatures, names and time stamps.  The clock shows  *)
(* only through Lapse (a ticket's expiresAt passes) and through the set    *)
(* of ended sessions that a cleanup finds older than closedSessionTtlMs.   *)
(***************************************************************************)
EXTENDS Naturals, FiniteSets

CONSTANTS
  Users, Rooms, Servers, Connections, SessionIds, TicketIds,
  Lobby,             \* the room of the public lobby
  Capacities,        \* the roomMaxPlayers that a client may ask for
  FallbackCapacity,  \* maxPlayers of a session that verify-ticket creates
  LobbyCapacity,     \* maxPlayers of the permanent lobby session
  ServerCapacity,    \* maxPlayers of a dedicated server
  MaxTickets         \* the size of the ticket store

CONSTANTS  \* the empty strings and the missing values of the code
  NoRoom, NoSession, NoServer, NoConnection, NoUser, Absent, Unregistered

ASSUME CapacityAssumption ==
  /\ Capacities \subseteq Nat \ {0}
  /\ FallbackCapacity \in Nat \ {0}
  /\ LobbyCapacity \in Nat \ {0}
  /\ ServerCapacity \in Nat \ {0}
  /\ MaxTickets \in Nat \ {0}

ASSUME ValueAssumption ==
  /\ IsFiniteSet(Users)
  /\ IsFiniteSet(SessionIds)
  /\ Lobby \in Rooms
  /\ NoRoom \notin Rooms
  /\ NoSession \notin SessionIds
  /\ NoServer \notin Servers
  /\ NoUser \notin Users
  /\ NoConnection \notin Connections
  /\ Absent \notin Connections \cup {NoConnection}
  /\ Unregistered \notin Nat

VARIABLES
  sessions,           \* sessionsById
  sessionIdByRoomId,  \* the session a room is mapped to
  tickets,            \* ticketsById
  playerCount,        \* currentPlayers of each registered server
  admissions          \* history: how often a ticket let a player in

vars == <<sessions, sessionIdByRoomId, tickets, playerCount, admissions>>

-----------------------------------------------------------------------------
(* Data *)

PlayerCounts == 0 .. ServerCapacity
ReportedCounts == 0 .. ServerCapacity + 1  \* what a request may claim
ConnectionIds == Connections \cup {NoConnection}

OpenStatuses == {"creating", "active"}
EndedStatuses == {"closed"}  \* and "failed", which nothing treats otherwise

Session ==
  [status    : OpenStatuses \cup EndedStatuses \cup {"unused", "deleted"},
   room      : Rooms \cup {NoRoom},
   server    : Servers \cup {NoServer},
   max       : Nat,
   players   : [Users -> ConnectionIds \cup {Absent}],
   permanent : BOOLEAN,
   stray     : BOOLEAN]  \* history: made by a verification on an unknown server

Ticket ==
  [status  : {"unissued", "valid", "consumed", "removed"},
   user    : Users \cup {NoUser},
   room    : Rooms \cup {NoRoom},
   server  : Servers \cup {NoServer},
   session : SessionIds \cup {NoSession},
   lapsed  : BOOLEAN]

BlankSession(status) ==
  [status |-> status, room |-> NoRoom, server |-> NoServer, max |-> 0,
   players |-> [u \in Users |-> Absent], permanent |-> FALSE, stray |-> FALSE]

BlankTicket(status) ==
  [status |-> status, user |-> NoUser, room |-> NoRoom, server |-> NoServer,
   session |-> NoSession, lapsed |-> FALSE]

Population(s) == {u \in Users : s.players[u] # Absent}
IsOpen(s) == s.status \in OpenStatuses
IsEnded(s) == s.status \in EndedStatuses
Exists(s) == IsOpen(s) \/ IsEnded(s)
IsStored(t) == t.status \in {"valid", "consumed"}
Registered(server) == playerCount[server] # Unregistered

Least(a, b) == IF a < b THEN a ELSE b
Greatest(a, b) == IF a < b THEN b ELSE a

-----------------------------------------------------------------------------
(* The session registry *)

NewSession(room, server, max, status, permanent) ==
  [status |-> status, room |-> room, server |-> server, max |-> max,
   players |-> [u \in Users |-> Absent], permanent |-> permanent, stray |-> FALSE]

\* What verify-ticket creates: whether the server is still known is not asked.
FallbackSession(room, server) ==
  [NewSession(room, server, FallbackCapacity, "creating", FALSE)
     EXCEPT !.stray = ~Registered(server)]

HasOpenSession_ActiveOnly(ss, room) ==
  /\ sessionIdByRoomId[room] # NoSession
  /\ ss[sessionIdByRoomId[room]].status = "active"

HasOpenSession(ss, room) ==
  /\ sessionIdByRoomId[room] # NoSession
  /\ IsOpen(ss[sessionIdByRoomId[room]])

\* The answer of getOrCreateSession: the room's open session, whatever server
\* it is bound to, and otherwise a session with an unused id.
GetOrCreate(id, room) ==
  IF HasOpenSession(sessions, room)
  THEN id = sessionIdByRoomId[room]
  ELSE sessions[id].status = "unused"

\* sessionsById after getOrCreateSession answered with id.
WithSession(id, new) ==
  IF sessions[id].status = "unused" THEN [sessions EXCEPT ![id] = new] ELSE sessions

CanJoin(s, user) ==
  /\ IsOpen(s)
  /\ Cardinality(Population(s)) < s.max \/ user \in Population(s)

Joined(s, user, conn) ==
  [s EXCEPT !.players[user] = conn, !.status = "active"]

Without(s, user) == [s EXCEPT !.players[user] = Absent]

Closed(s) == [s EXCEPT !.status = "closed"]

MatchesConnection_ByUserOnly(s, user, conn) == user \in Population(s)

\* What hasPlayer asks in removePlayerFromServer and removePlayer in its
\* connection check: a report naming a replaced connection does not match.
MatchesConnection(s, user, conn) ==
  /\ user \in Population(s)
  /\ conn = NoConnection \/ s.players[user] \in {NoConnection, conn}

\* A session that a player-left report leaves empty is closed, if it may be.
ClosesWhenEmpty(s) ==
  /\ IsOpen(s)
  /\ Population(s) = {}
  /\ ~s.permanent

ListedSessions(server, room) ==
  {id \in SessionIds : /\ Exists(sessions[id])
                       /\ sessions[id].server = server
                       /\ room \in {NoRoom, sessions[id].room}}

\* syncEmptyServerSessions: the open sessions among ids lose their players.
Emptied(ids) ==
  [id \in SessionIds |-> IF id \in ids /\ IsOpen(sessions[id])
                         THEN [sessions[id] EXCEPT !.players = [u \in Users |-> Absent]]
                         ELSE sessions[id]]

\* removePlayerFromServer: the user leaves every listed session he is in on that
\* connection, and every listed session then empty is closed, if it may be.
RemovedFromServer(listed, user, conn) ==
  LET found == {id \in listed : MatchesConnection(sessions[id], user, conn)}
      removed == [id \in SessionIds |->
                    IF id \in found THEN Without(sessions[id], user) ELSE sessions[id]]
      emptied == {id \in listed : ClosesWhenEmpty(removed[id])}
  IN  [id \in SessionIds |->
         IF id \in emptied THEN Closed(removed[id]) ELSE removed[id]]

\* The players over the open sessions among ids: each user counts once per
\* session he is in.
PlayersIn(ss, ids) ==
  Cardinality({p \in ids \X Users : IsOpen(ss[p[1]]) /\ p[2] \in Population(ss[p[1]])})

\* updatePlayerCount: a count above maxPlayers is cut, an unknown server ignored.
SetPlayerCount(server, n) ==
  playerCount' = IF Registered(server)
                 THEN [playerCount EXCEPT ![server] = Least(n, ServerCapacity)]
                 ELSE playerCount

-----------------------------------------------------------------------------
(* The ticket store *)

WithoutLapsed(ts) ==
  [t \in TicketIds |-> IF IsStored(ts[t]) /\ ts[t].lapsed
                       THEN BlankTicket("removed") ELSE ts[t]]

IsValid_ConsumedToo(t) == IsStored(t) /\ ~t.lapsed

IsValid_LapsedToo(t) == t.status = "valid"

IsValid(t) == t.status = "valid" /\ ~t.lapsed

StoreHasRoom(ts) == Cardinality({t \in TicketIds : IsStored(ts[t])}) < MaxTickets

-----------------------------------------------------------------------------
(* The handlers *)

Init ==
  /\ sessions = [id \in SessionIds |-> BlankSession("unused")]
  /\ sessionIdByRoomId = [r \in Rooms |-> NoSession]
  /\ tickets = [t \in TicketIds |-> BlankTicket("unissued")]
  /\ playerCount = [s \in Servers |-> Unregistered]
  /\ admissions = [t \in TicketIds |-> 0]

\* registerDedicatedServer: a new record, or a fresh count for a known one.
RegisterDedicatedServer(server, n) ==
  /\ playerCount' = [playerCount EXCEPT ![server] = Least(n, ServerCapacity)]
  /\ UNCHANGED <<sessions, sessionIdByRoomId, tickets, admissions>>

\* heartbeatDedicatedServer: the reported count replaces the recorded one; a
\* report of zero players empties the server's open sessions (of one room when
\* the heartbeat names it) but leaves them open.
HeartbeatDedicatedServer(server, room, n) ==
  /\ Registered(server)
  /\ SetPlayerCount(server, n)
  /\ sessions' = IF n = 0 THEN Emptied(ListedSessions(server, room)) ELSE sessions
  /\ UNCHANGED <<sessionIdByRoomId, tickets, admissions>>

\* The tail of requestGameServerTicket, after the allocator chose the server.
\* A full ticket store makes issueTicket throw, after the session was created.
RequestGameServerTicket(user, room, server, max, id, t) ==
  /\ Registered(server)
  /\ GetOrCreate(id, room)
  /\ tickets[t].status = "unissued"
  /\ sessions' = WithSession(id, NewSession(room, server, max, "creating", FALSE))
  /\ sessionIdByRoomId' = [sessionIdByRoomId EXCEPT ![room] = id]
  /\ LET kept == WithoutLapsed(tickets)
     IN  tickets' = IF StoreHasRoom(kept)
                    THEN [kept EXCEPT ![t] =
                            [status |-> "valid", user |-> user, room |-> room,
                             server |-> server, session |-> id, lapsed |-> FALSE]]
                    ELSE kept
  /\ UNCHANGED <<playerCount, admissions>>

\* resolveSessionForVerifiedTicket: the session the request names, and the
\* ticket's when it names none, open or not and of whatever room; when that one
\* is not there the room's session, then a new one.
ResolveSession(ticket, named, id) ==
  LET wanted == IF named = NoSession THEN ticket.session ELSE named
  IN  CASE Exists(sessions[wanted]) -> id = wanted
        [] ~Exists(sessions[wanted])
           /\ sessionIdByRoomId[ticket.room] # NoSession -> id = sessionIdByRoomId[ticket.room]
        [] OTHER -> sessions[id].status = "unused"

\* verifyGameTicket: the ticket is consumed first; joining may still fail.
VerifyGameTicket(t, conn, named, id) ==
  LET ticket == tickets[t]
      resolved == WithSession(id, FallbackSession(ticket.room, ticket.server))
      joined == CanJoin(resolved[id], ticket.user)
      after == IF joined
               THEN [resolved EXCEPT ![id] = Joined(resolved[id], ticket.user, conn)]
               ELSE resolved
  IN  /\ IsValid(ticket)
      /\ ResolveSession(ticket, named, id)
      /\ tickets' = [tickets EXCEPT ![t].status = "consumed"]
      /\ sessions' = after
      /\ sessionIdByRoomId' = [sessionIdByRoomId EXCEPT ![resolved[id].room] =
                                 IF sessions[id].status = "unused" THEN id ELSE @]
      /\ IF joined
         THEN /\ admissions' = [admissions EXCEPT ![t] = @ + 1]
              /\ SetPlayerCount(ticket.server, Cardinality(Population(after[id])))
         ELSE UNCHANGED <<admissions, playerCount>>

\* reportPlayerLeft with reason duplicate_user_replaced and no connection:
\* nobody is removed, the larger of the two counts is recorded.
ReportUnnamedReplacement(server, room, reported) ==
  /\ SetPlayerCount(server, Greatest(reported, PlayersIn(sessions, ListedSessions(server, room))))
  /\ UNCHANGED <<sessions, sessionIdByRoomId, tickets, admissions>>

\* Every other reportPlayerLeft: removePlayerFromServer, and when it has found
\* nobody the session named in the report is tried by its id alone.
ReportPlayerLeft(server, room, user, named, conn) ==
  LET listed == ListedSessions(server, room)
      found == {id \in listed : MatchesConnection(sessions[id], user, conn)}
      closed == RemovedFromServer(listed, user, conn)
      tried == /\ found = {}
               /\ named # NoSession
               /\ Exists(sessions[named])
               /\ user \in Population(sessions[named])
      fallback == tried /\ MatchesConnection(closed[named], user, conn)
      final == IF fallback THEN [closed EXCEPT ![named] = Without(@, user)] ELSE closed
  IN  /\ sessions' = final
      /\ IF found # {}
         THEN SetPlayerCount(server, PlayersIn(final, listed))
         ELSE IF tried
              THEN SetPlayerCount(server, Cardinality(Population(final[named])))
              ELSE UNCHANGED playerCount
      /\ UNCHANGED <<sessionIdByRoomId, tickets, admissions>>

\* reportSessionResult: any dedicated server may end any session, even twice.
ReportSessionResult(id) ==
  /\ Exists(sessions[id])
  /\ sessions' = [sessions EXCEPT ![id] = Closed(@)]
  /\ UNCHANGED <<sessionIdByRoomId, tickets, playerCount, admissions>>

\* reconcileNow of the lobby reconciler, with the allocator's choice of server:
\* an open session on a registered server is left alone (healthy or not), one
\* on a server that is gone is closed and replaced.
ReconcileLobby(server, id) ==
  LET old == sessionIdByRoomId[Lobby]
      orphaned == HasOpenSession(sessions, Lobby)
      closed == IF orphaned
                THEN [sessions EXCEPT ![old] = Closed(@)] ELSE sessions
  IN  /\ orphaned => ~Registered(sessions[old].server)
      /\ \/ /\ Registered(server)
            /\ sessions[id].status = "unused"
            /\ sessions' = [closed EXCEPT ![id] =
                              NewSession(Lobby, server, LobbyCapacity, "active", TRUE)]
            /\ sessionIdByRoomId' = [sessionIdByRoomId EXCEPT ![Lobby] = id]
         \/ /\ orphaned
            /\ sessions' = closed
            /\ UNCHANGED sessionIdByRoomId
      /\ UNCHANGED <<tickets, playerCount, admissions>>

Cleanup_LeavesSessionsOpen(old, retired) ==
  /\ old = {}
  /\ retired \subseteq {s \in Servers : Registered(s)}
  /\ tickets' = WithoutLapsed(tickets)
  /\ playerCount' = [s \in Servers |-> IF s \in retired THEN Unregistered ELSE playerCount[s]]
  /\ UNCHANGED <<sessions, sessionIdByRoomId, admissions>>

\* cleanup: expired tickets go, sessions ended long ago go with the mapping
\* that still names them, and the servers whose process died or was shut down
\* are unregistered after their open sessions were closed.  A ticket may still
\* be valid when its session goes: it may ask for a TTL of an hour, a closed
\* session stays for five minutes.
Cleanup(old, retired) ==
  /\ old \subseteq {id \in SessionIds : IsEnded(sessions[id])}
  /\ retired \subseteq {s \in Servers : Registered(s)}
  /\ tickets' = WithoutLapsed(tickets)
  /\ sessions' = [id \in SessionIds |->
                    CASE id \in old -> BlankSession("deleted")
                      [] id \notin old /\ IsOpen(sessions[id])
                         /\ sessions[id].server \in retired -> Closed(sessions[id])
                      [] OTHER -> sessions[id]]
  /\ sessionIdByRoomId' = [r \in Rooms |->
                             IF sessionIdByRoomId[r] \in old THEN NoSession
                             ELSE sessionIdByRoomId[r]]
  /\ playerCount' = [s \in Servers |-> IF s \in retired THEN Unregistered ELSE playerCount[s]]
  /\ UNCHANGED admissions

\* The expiresAt of a stored ticket passes.
Lapse(t) ==
  /\ IsStored(tickets[t])
  /\ ~tickets[t].lapsed
  /\ tickets' = [tickets EXCEPT ![t].lapsed = TRUE]
  /\ UNCHANGED <<sessions, sessionIdByRoomId, playerCount, admissions>>

\* The Node process stops and starts again: all of this state is in memory.
Restart ==
  /\ sessions' = [id \in SessionIds |->
                    IF Exists(sessions[id]) THEN BlankSession("deleted") ELSE sessions[id]]
  /\ sessionIdByRoomId' = [r \in Rooms |-> NoSession]
  /\ tickets' = [t \in TicketIds |->
                   IF IsStored(tickets[t]) THEN BlankTicket("removed") ELSE tickets[t]]
  /\ playerCount' = [s \in Servers |-> Unregistered]
  /\ UNCHANGED admissions

Next ==
  \/ \E s \in Servers, n \in ReportedCounts : RegisterDedicatedServer(s, n)
  \/ \E s \in Servers, r \in Rooms \cup {NoRoom}, n \in ReportedCounts :
       HeartbeatDedicatedServer(s, r, n)
  \/ \E u \in Users, r \in Rooms, s \in Servers, m \in Capacities,
        id \in SessionIds, t \in TicketIds :
       RequestGameServerTicket(u, r, s, m, id, t)
  \/ \E t \in TicketIds, c \in ConnectionIds, named \in SessionIds \cup {NoSession},
        id \in SessionIds : VerifyGameTicket(t, c, named, id)
  \/ \E s \in Servers, r \in Rooms \cup {NoRoom}, u \in Users,
        named \in SessionIds \cup {NoSession}, c \in ConnectionIds :
       ReportPlayerLeft(s, r, u, named, c)
  \/ \E s \in Servers, r \in Rooms \cup {NoRoom}, n \in ReportedCounts :
       ReportUnnamedReplacement(s, r, n)
  \/ \E id \in SessionIds : ReportSessionResult(id)
  \/ \E s \in Servers, id \in SessionIds : ReconcileLobby(s, id)
  \/ \E old \in SUBSET SessionIds, retired \in SUBSET Servers : Cleanup(old, retired)
  \/ \E t \in TicketIds : Lapse(t)
  \/ Restart

Spec == Init /\ [][Next]_vars
-----------------------------------------------------------------------------
(* Properties *)

\* Every variable has its type.
TypeOK ==
  /\ sessions \in [SessionIds -> Session]
  /\ sessionIdByRoomId \in [Rooms -> SessionIds \cup {NoSession}]
  /\ tickets \in [TicketIds -> Ticket]
  /\ playerCount \in [Servers -> PlayerCounts \cup {Unregistered}]
  /\ admissions \in [TicketIds -> Nat]

\* A room has at most one open session, and it is the one the room is mapped
\* to: no path (ticket, verify, reconcile, cleanup) loses or doubles it.
OneOpenSessionPerRoom ==
  \A id \in SessionIds :
    IsOpen(sessions[id]) => sessionIdByRoomId[sessions[id].room] = id

\* A room is never mapped to a session that was deleted, or to another room's.
MappingIsLive ==
  \A r \in Rooms :
    sessionIdByRoomId[r] # NoSession =>
      /\ Exists(sessions[sessionIdByRoomId[r]])
      /\ sessions[sessionIdByRoomId[r]].room = r

\* No session ever holds more players than its maxPlayers, however logins are
\* duplicated and reports reordered.
WithinCapacity ==
  \A id \in SessionIds : Cardinality(Population(sessions[id])) <= sessions[id].max

\* A ticket lets its user in at most once, and never stays valid afterwards.
TicketAdmitsOnce ==
  \A t \in TicketIds :
    /\ admissions[t] <= 1
    /\ admissions[t] = 1 => tickets[t].status \in {"consumed", "removed"}

\* An open session is bound to a registered server, which hosts it and closes
\* it when it is retired.  The only exception is a session that verify-ticket
\* itself made for a server that was gone by then, because the ticket outlived
\* its session; a session made while its server was known does not stay behind.
OpenSessionHasServer ==
  \A id \in SessionIds :
    IsOpen(sessions[id]) => Registered(sessions[id].server) \/ sessions[id].stray

\* A ticket admits only while it is neither consumed nor lapsed, and puts its
\* user into an open session: the existing one that the request names, whatever
\* its room, and otherwise one of the ticket's room, whether that is the
\* ticket's session, the room's next one or a new one.
AdmissionIsForTicket ==
  [][\A t \in TicketIds : admissions'[t] # admissions[t] =>
       /\ tickets[t].status = "valid" /\ ~tickets[t].lapsed
       /\ \E id \in SessionIds :
            /\ IsOpen(sessions'[id])
            /\ tickets[t].user \in Population(sessions'[id])
            /\ \/ sessions'[id].room = tickets[t].room
               \/ /\ Exists(sessions[id])
                  /\ \E c \in ConnectionIds : VerifyGameTicket(t, c, id, id)]_vars

\* An ended session is never opened again and takes no new player.
EndedSessionsStayEnded ==
  [][\A id \in SessionIds : IsEnded(sessions[id]) =>
       /\ ~IsOpen(sessions'[id])
       /\ Population(sessions'[id]) \subseteq Population(sessions[id])]_vars

\* A player who leaves an existing session did not leave by a player-left
\* report about another connection: such a report is about a replaced login.
ReplacedLoginKeepsPlayer ==
  [][\A id \in SessionIds, u \in Users :
       /\ sessions[id].players[u] \in Connections
       /\ sessions'[id].players[u] = Absent
       => \A s \in Servers, r \in Rooms \cup {NoRoom}, named \in SessionIds \cup {NoSession},
             c \in Connections \ {sessions[id].players[u]} :
            ~ReportPlayerLeft(s, r, u, named, c)]_vars
=============================================================================
