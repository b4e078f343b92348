# A verification project for the Metaverse Rang server

The server (`src/server/src`) is one Node.js process, its tools and worker
threads, and the Unity dedicated-server processes that it launches and talks to
over HTTP.  Node runs a handler without interruption from one `await` to the
next; what makes the program hard is what happens between: requests of
independent processes that are late, repeated or out of order, handlers that wait
for the database, for a send or for a launch, sockets that close, timers, and a
restart that loses all that is kept in memory.

This directory holds TLA+ modules of the parts that carry the server's own
logic, the configurations with which TLC checks them, and proofs for TLAPS.
`PROJECT.json` lists the components, the runs, the theorems and the hazards, and
maps every definition to the lines it models.

Paths are relative to `src/server/src`, and line numbers are those of the commit
that is modelled.

## 1. Inventory

A restart of Node loses what is kept in memory.

### Game Server Control (`gameServerControl/`)

| Component | State, and where it is kept | Operations | Works with |
|---|---|---|---|
| game sessions (`sessions/`) | sessions by id, the session of each room, players of a session; memory | create or get, add and remove a player, close, clean up | ticket requests, reports of dedicated servers, lobby reconciler, cleanup |
| game tickets (`tickets/`) | tickets by id with expiry, consumed and revoked marks; memory | issue, verify and consume, revoke, clean up | ticket requests, verify-ticket |
| server registry, health store, allocator (`registry/`, `allocation/`) | servers with status, players, room, assigned rooms, reserved capacity; the last heartbeat; memory | register, heartbeat, allocate, reserve, claim, release, unregister | all the others here |
| ticket requests, auto launch (`handlers/clientGameServerHandler.js`) | launches under way by room, windows and cooldowns; memory | request a ticket, launch a process and wait for it | registry, sessions, tickets, launchers |
| dedicated-server handler (`handlers/dedicatedServerHandler.js`) | none | register, heartbeat, renew token, verify-ticket, player-left, session-result | registry, sessions, tickets |
| lobby reconciler (`realTime/lobby/publicLobbyDedicatedReconciler.js`) | the run in flight; memory | assign the public lobby to a server, create its permanent session | registry, sessions |
| process lifecycle (`index.js`) | process manifest, a file; what was seen empty or orphaned, memory | idle, orphan and resource cleanup, compaction, restart | launchers, registry, operating system |
| launchers, warm pool (`tools/`) | none: they poll | launch a process and record it, keep warm processes ready | operating system, manifest, HTTP |
| service tokens (`auth/gameServerServiceToken.js`) | none: tokens are signed | create, verify, renew | dedicated-server handler, launchers |

Hard: two processes for one room; a session on a server that is gone; a second
login while the report of the first one's departure is under way; capacity shared
by rooms of several sizes; a launch that is awaited while the registry changes;
tickets that outlive their session, their reservation and their server; a manifest that
several processes append to while another one reads it; a restart
while processes run on.  Correct means: one open session per room, on a registered
server; a ticket admits its user once, into its own room, while it is valid;
reserved capacity never exceeds the server's; a live process is on record, and one
that nobody uses or knows is told to stop.

### Realtime (`realTime/`)

| Component | State, and where it is kept | Operations | Works with |
|---|---|---|---|
| connections (`core/`, `auth/`, `stability/heartbeat.js`) | state, user and room of a connection; memory | open, authenticate, close, heartbeat timeout | registry, room manager |
| registry (`clientsRegistry.js`) | connections by id and by user; memory | add, move to another user, remove, lazy removal of closed ones | voice, health page |
| room manager (`roomManager.js`) | connections of a room, rooms of a connection; memory | join, leave, broadcast, count, lazy removal of closed ones | game routes, room directory |
| room directory (`lobby/`, `infra/mongo`) | rooms with status and online count; MongoDB | create, list, may join, joined, left | game and lobby routes |
| ack tracker, flood protection (`stability/`) | messages that wait for an answer; windows of sources; memory | track, resolve, retry; allow, clean up | every message |
| protocol and transports (`protocol/`, `transport/`, `router/`) | sockets | parse, route, send | all of the above |

Hard: a join that waits for the database while its connection closes or another
one of the user joins; the time between a socket's closing and its close event, in
which reads and broadcasts drop the connection; two maps that must stay inverse;
counts captured before several awaited writes; clients that vanish, with a heartbeat
(WebSocket) or without one (gRPC).

### Accounts (`core/auth/`, `domain/auth/`, `transport/grpc`)

| Component | State, and where it is kept | Operations | Works with |
|---|---|---|---|
| refresh tokens and accounts | users, hashed tokens; MongoDB | register, log in, rotate, log out of one or all devices | realtime authentication, voice |
| microservice tokens | token sets and profiles of the external service; MongoDB | external login, refresh, profile | accounts |
| gRPC transport | none | maps calls to services | accounts, profile |

Hard: every call is a sequence of awaited database operations, each of which may
fail, and calls on the same token or account interleave.

### Voice (`voice/`)

| Component | State, and where it is kept | Operations | Hard |
|---|---|---|---|
| connections (`core/`, `reconnect/`) | connections by id, by client, by user and avatar, eligibility, retention timers; memory | authenticate, hand over, suspend, resume, expire | a timer that races a resumption; the close of an old transport after it |
| sessions (`session/`) | sessions, participants, indexes of pairs and of connections, burned ids; memory | create a pair, add, remove, close | indexes while sessions grow, shrink and close |
| session deltas (`dedicated/`) | epoch and last sequence of a server; memory | apply a batch of numbered events | duplicates, gaps, a sender that restarts, batches that overlap |
| routing and mute (`routing/`) | publisher settings, flow guard, mutes; memory | publish, stop, frame, mute, reconnect request | order of frames and messages over failing sends |
| directional policies and downloads (`directional/`) | blocked routes; timeline of a recording, a file | block, open, what a download holds | blocks older than the recording, members who leave and return |
| recording (`recording/`) | record of a session, a worker thread; segments, files | consent, start, frame, finalize | an awaited start; a worker that fails |
| transport, protocol, authentication | state, chain of sends and media queue of a transport | open, close, send, drain | a queue at its limit; two ways out of one socket |
| NPC publisher (`npc/`) | sessions of a publishing program | open, publish, close | overlapping calls |
| capacity, metrics, audit | counters | compare, count, log | little |

The health page and the bootstrap (`health/`, `index.js`) read the other parts'
statistics through caches, and start them.

"Hazards" in `PROJECT.json` names the places where this code is hard to test,
with the properties that watch them.

## 2. Modules

| Module | What it is |
|---|---|
| `GameSessions` | sessions and tickets with all the handlers that change them |
| `SingleUseTicket` | abstract: what a ticket promises, whatever happens to other tickets |
| `GameTickets` | the ticket store and service with a clock; implements `SingleUseTicket` |
| `ServiceTokens` | service tokens as formulas over settings and clocks |
| `ServerAllocation` | registry, health, allocator, reservations, claims, awaited launches, lobby |
| `ServerProcesses` | launchers, server processes, the manifest and the cleanup |
| `RealtimeRooms` | connections, client registry, room manager, join and leave around their awaits |
| `RoomDirectory` | stored counts and statuses of rooms, one step per database operation; the heartbeat |
| `Accounts` | accounts and refresh tokens, one step per database operation |
| `VoiceSessions` | the session registry and the numbered batches that drive it |
| `VoiceConnections` | the connection registry, transports, retention, local controls |
| `VoiceRouting` | frames and messages on the chains of sends and in the media queues |
| `VoicePayloads` | every binary payload: what encoders and decoders accept, write and read |
| `VoiceDirectional` | routes, mutes, the timeline of a recording and what downloads hold |
| `VoiceRecording` | the recording of a session with its worker thread |
| `GameSessions_proofs`, `GameTickets_proofs` (with `ServiceTokens`), `ServerAllocation_proofs` (with `ServerProcesses`), `RealtimeRooms_proofs` (with `RoomDirectory`), `Accounts_proofs`, `VoiceSessions_proofs`, `VoiceConnections_proofs` (with `VoiceRouting`), `VoiceRecording_proofs` (with `VoiceDirectional`) | proofs |
| `MC...` | what only the configurations use: symmetry, instance values, and, where formulas without state are checked beside a model, the composition of the two |

Definitions with a suffix (`CanJoin_OneTooMany`) are wrong on purpose: what the
definition before the underscore would be with a plausible bug.  No
specification uses them; `PROJECT.json` names the property that fails when one
takes the place of the definition after it.

### GameSessions

`sessions` and `sessionIdByRoomId` are the two maps of the session registry,
`tickets` is the ticket store, `playerCount` the `currentPlayers` of registered
servers (or `Unregistered`), and `admissions` counts, for the properties, how
often a ticket let somebody in.

Each endpoint is an action that takes any well-formed request, since the
processes that send them may be late or repeat themselves:
`RegisterDedicatedServer`, `HeartbeatDedicatedServer` (an empty heartbeat drops
the room's players), `RequestGameServerTicket` (its last part: session, player
count, ticket), `VerifyGameTicket` (consumes the ticket, resolves or creates the
session, adds the player), `ReportPlayerLeft` (by connection, or by user without
one; it closes an empty session unless it is permanent),
`ReportUnnamedReplacement`, `ReportSessionResult`, `ReconcileLobby`.  `Cleanup`
is the periodic timer: expired tickets, sessions that ended long ago, servers
that are gone.  `Lapse` is a ticket's expiry, `Restart` a restart of Node.  A session that
failed counts as closed: nothing treats the two differently.
Choosing the server is left to `ServerAllocation`; here any registered server may
be the one.  Tickets may outlive sessions: an ended session is deleted after 300
seconds (`sessions/gameSessionRegistry.js:12`), while a ticket may be asked for up to 3600
(`handlers/clientGameServerHandler.js:188`).  `VerifyGameTicket` therefore has all the
ways of `ResolveSession`: the session that the request names, else the ticket's, else the
room's, else a new one (`FallbackSession`) on the ticket's server, registered or not;
`stray` marks one whose server was gone.

### GameTickets, SingleUseTicket and ServiceTokens

`GameTickets` adds the clock: every ticket has the time that is `left`, `Tick`
takes one unit of it, and `VerifyAndConsumeTicketTooLate` is the case where the
clock ticks between the two readings of one verification.  Issuing cleans up,
counts, and refuses at the limit.  A ticket's `Phase` (unknown, open, spent,
void) maps the store to `SingleUseTicket`.

`ServiceTokens` has no state, as the server keeps none for tokens: `CreateToken`,
`Verify`, `Renew` and `RenewAfter` are the functions of the code, a signature is the
pair of the secret and what it signs.  `ServiceTokensHold` says, for all settings,
requests and offsets of clocks: a token is accepted exactly while it is good, the skew
included, for the server and the purpose it names; nothing but the secret makes one; a
changed one is refused; and a server that renews when it is told to is still
accepted, as often as it renews, if the largest TTL is 30 seconds or more.

### ServerAllocation

`servers` holds the registry's records, `health` what `resolveHealthStatus`
computes, `host` the server of a room's open session, and `waiting` the ticket
requests that await a launch.  A request is one action up to the await, and
`ResumeAfterLaunch` is the rest of it, which allocates again.  `Candidates`,
`Score` and `Outranks` are the allocator; ties may go to any of the tied
servers.  `GetStatus` is the status endpoint, which releases reservations as a
side effect.  `issued` has the rooms and servers for which there may be a ticket: where the
room's session is gone, its verification opens one and reserves nothing
(`VerifyTicketOpensSession`), which `unreserved` remembers.

### ServerProcesses

A launch is followed from request to exit by `launcher`, `proc` and the two kinds
of records in `manifest`.  `LaunchForRoom` is a ticket request up to its await,
with the limits, windows and cooldowns (`pending`, `cooling`, `hits`), and
`LaunchAnswered` the rest; `KeepWarm` is the keep-alive tool.  A launcher spawns
(`LaunchProcess`, `LaunchWarmProcess`), writes its record (`RecordRoomLaunch`,
`RecordWarmLaunch`) and ends, or fails anywhere between (`EndLauncher`).  The
periodic cleanup is three steps, `ReadManifest`, `Scan` and
`EndCleanup`: nothing else of Node runs between them, but launchers and
servers do.  The compaction in the last of them changes nothing, since it fails before it
replaces the file (section 4).  `emptySeen` and `orphanSeen` are the two maps of times,
of which `Ages` says that the grace has passed.  `lost` remembers the launches whose record
was not written.  `IdleShutdownEnabled` and `RestartOrphanCleanupEnabled` are the two flags of
that name; `.env.example` sets the first to false and the second to true.

### RealtimeRooms and RoomDirectory

In `RealtimeRooms`, `socket` is the raw socket (unused, open, closing, closed: the
close event has been handled), `state`, `user` and `roomId` are the context,
`byConnectionId` and `byUserId` the registry, `rooms`, `existing` and
`roomsByConnectionId` the room manager, `pending` the handlers that wait, and
`announced` the users whose last broadcast in a room is `player_joined`.
`RequestJoin` runs to the await of `canJoinRoom`, `JoinRoom` from there to the
await of `markUserJoined`, `AnnounceJoin` from there to the end, and so on for a
leave.  `SocketCloses` and `HeartbeatTimeout` begin a close and `HandleClose` is
the close event with its cleanup.  In between the connection is not open, and
every read or broadcast drops it from the room it reads (`Stale`).  Verifying a
token does no input or output, so authentication is one action.

`RoomDirectory` takes the handlers apart at every database operation: a call in
`calls` writes the count it took when the members changed (`WriteCount`), then the
status (`WriteStatus`), then reads the record and tells the members
(`TellMembers`); `DatabaseFails` ends it wherever it is.  `closing` are the members whose
socket closes: the next read of their room takes them out without a call
(`DropClosing`, in `TellMembers` and `BroadcastToRoom`), and their close event then
finds no room (`ClosedWithoutRoom`).  `Vanish`, `Interval` and
`HeartbeatTimeout` are the heartbeat, which only `WebSocketUsers` have; members over gRPC
have none.  `Restart` is a restart of Node, after which only the lobby's record is written
anew.

### Accounts

`accounts` and `tokens` are the collections, `linked` and `profiled` those of the
microservice, `held` the tokens that a client was given.  A call in `calls` is at
one step of registration, login, rotation, logout or external login; every step is
one database operation or one request, after which any other call may run.
`StepFails` ends a call where it is, `Expire` is the lifetime of a token.

### VoiceSessions

`status`, `members`, `pairIndex` and `sessionIndex` are the session registry;
`epoch`, `accepted` and `burnedEpochs` what the delta service knows of its sender.
A request begins in `batch`; the loop over its events is `turn` until it awaits its
observer, and meanwhile other requests and expiring connections run.  What an event
says is chosen when it is applied, since a sender that repeats a number need not
repeat its content.  `origin` and `overlapped` are history for the properties.

### VoiceConnections

`record`, `byClient` and `byUser` are the registry, `eligibility` what the dedicated
server reads of it, `retention` the timers, `transport` and `closer` the transports.
`sending` is the await of AUTH_RESULT, which splits registration, handoff and
resumption in two; `AuthResultSent` and `AuthEnds` are the outcomes.  A close
releases the connection before its own await.  `player` stands for the dedicated
game session, external to this module.

### VoiceRouting and VoicePayloads

Each transport handles one packet at a time: `busy` is what it waits for.  `outbox`
is the chain of sends, `queue` and `drain` the media queue, whose drain puts one
frame at a time on that chain; the continuations of the drain (`Drain...`) are
steps of their own, and a send (`Send...`) succeeds, fails or times out.  `received`,
`accepted` and `published` are the three sequence numbers that a frame passes.
`heard` and `view` stand for the client.  Not every change of a session is told:
`RemoveConnection` (a retention that expires, a transport that closes for good) and
`SessionsEnd` (a server that is gone or has a new epoch) change the members and queue no
message; `untold` remembers the sessions that a client lost in this way.

`VoicePayloads` has for every payload X the operators `CanX`, `EncodeX`, `AcceptsX`
and `DecodeX`, and for the envelope the rules of message types.  A cell is one
field of fixed width or one character.  `PayloadsAgree` says of every payload that
what its encoder accepts, its decoder reads as the same message (but for trimmed
texts), and that an altered one, with a cell changed, missing or added, is either
refused or read as a message that the encoder accepts and the decoder reads again;
that the two contents of one message type are told apart; and that the server sends
and handles what the rules of message types say, apart from ACK (section 4).

### VoiceDirectional and VoiceRecording

`VoiceDirectional` keeps routes as senders (`policy`) and receivers (`muted`) set
them, the timeline with what it believes of them (`timeline`, `noted`), the
`intervals` of the participants, and, for the properties, what the routes and the
members really were at each moment (`history`).  At the end `downloads` is what
each user finds listed, is offered and is given.  `cleanups` are the session events
whose deliveries are awaited before policies are removed.  `RemoveConnection` takes a
connection out of the session while recorder and timeline keep it; `Synchronize` is what
either learns with the next session it is given, in a `Join`, a `Leave` or an
`UpdateConsent`.  Two variables remember for the properties what nobody was told: `gone` who
left the session and is still taken for a participant, `untold` which blocks and mutes have
changed since the timeline last heard of them.

`VoiceRecording` has the record and its consents in the service, the client of the
worker, the worker's own `view` of the members, and the message queues between
them; `waiting`, `detached` and `closing` are the handlers that await the start.
`files` is the directory, `Restart` the end of the process.

## 3. What TLC checks

All runs are exhaustive on their instance, and all pass.

| Run | Instance | Distinct states |
|---|---|---|
| `sessions` | 2 users with 2 connections, the lobby and another room, 1 server, 2 session ids, 2 tickets, sessions for one player and a lobby for two | 65 thousand |
| `sharing` | 1 server of 2 slots, launched warm or for the lobby and asked for by name; the lobby and a room, of sizes 1 and 2; 1 waiting request, 2 rooms with tickets | 164 thousand |
| `tickets` | 3 tickets, a store of 2, TTLs below, at and above the limits; sampled settings of service tokens | 1.5 thousand |
| `server_processes` | 1 process from launch to exit, 2 rooms, every limit 1, 2 restarts of Node, both flags set | 22 thousand |
| `realtime_rooms` | 2 connections of 2 users or of one, 1 room, 2 waiting handlers | 33 thousand |
| `room_directory` | 1 room, of a user or the lobby, for 2 players; 2 users, one of them over WebSocket, 2 calls at a time, 2 heartbeat intervals | 32 thousand |
| `accounts` | 2 emails, 1 name that both may want, 2 calls at a time, 2 refresh tokens, 1 logout of all devices | 1.2 million |
| `voice_sessions` | 4 connections of 3 users, 3 session ids, 2 epochs of 3 events, 2 requests at a time | 650 thousand |
| `voice_connections` | 1 user with 2 connection ids, 2 clients, 3 transports | 520 thousand |
| `voice_routing` | a publisher and a listener, 1 session, queue, fan-out and frames of 1 or 2; sampled payloads | 331 thousand |
| `voice_recording` | 3 members, 1 pending frame, 2 messages under way | 550 thousand |
| `voice_directional` | 3 connections of 2 users, a recording of 2 moments, 2 controls, 2 changes of members, 1 removal | 2.5 million |

What each shows:

* `sessions`: a room has one open session (`OneOpenSessionPerRoom`), on a registered server
  unless a verification opened it for one that was gone (`OpenSessionHasServer`); a ticket
  admits once (`TicketAdmitsOnce`); the late report of a replaced login does not remove the
  new one (`ReplacedLoginKeepsPlayer`); and who is admitted has a valid ticket, and is
  admitted into the ticket's room or into an existing session, of whatever room, that the
  request named (`AdmissionIsForTicket`).
* `sharing`: reservations fit into the server (`ReservationsFit`); the host of an open
  session keeps the room's, unless a verification opened it after the release
  (`HostHasReservation`); and rooms go only to servers that report and are open, also after an
  awaited launch (`NewRoomsGoToOpenServers`; the reconciler returns the lobby to the server
  that hosts it without a reservation, open or not).
* `tickets`: the store implements `SingleUseTicket` (`ImplementsSingleUse`), every ticket
  closes (`TicketsClose`), and service tokens are good exactly while they should be
  (`TokensHold`).
* `server_processes`: a live process stays on record while launchers, scans and restarts
  interleave, and only stopped ones are recorded as ended (`ManifestIsTrue`); one that Node
  does not know registers or is told to stop (`OrphansEnd`, with
  `RestartOrphanCleanupEnabled`); registered ones leave that are dead, or that stay empty
  (`UnusedServersGo`, the latter with `IdleShutdownEnabled`, which is off as shipped).
* `realtime_rooms`: a closed connection is in no room and not registered, whichever of
  its handlers wait (`ClosedLeaveNothing`), for good and in the end
  (`ClosingConnectionsGo`); a user has one connection in a room
  (`OneMembershipPerUser`); nobody else is put out of a room (`MembersStay`).
* `room_directory`: a call during which nothing else changes who is in its room leaves the
  true count and status and tells the members so, hence what an overlap, a silent removal, a
  failed write or a restart left wrong is right after the next undisturbed call
  (`LoneCallsSettle`); members over WebSocket whose client vanished go
  (`VanishedMembersLeave`).
* `accounts`: a replaced token is dead (`ReplacedTokensAreDead`); after a logout of all
  devices only a rotation that was under way survives (`OldSessionsEnd`); tokens of an
  external login are handed out only when all four records exist
  (`ExternalLoginsAreComplete`).
* `voice_sessions`: a pair shares at most one active session and the indexes know it
  (`OneSessionPerPair`); as long as requests do not overlap, events apply in order and
  once (`AcceptedInOrder`), and a new epoch leaves nothing of the old one
  (`SessionsOfCurrentEpoch`).
* `voice_connections`: the indexes find exactly the records (`IndexesAgree`); every record
  has a transport or a timer that ends it (`HeldOrRetained`), and a suspended one is
  resumed or goes (`RetentionEnds`); the dedicated server reads the eligibility of the
  controls that were set last (`EligibilityFollowsControls`).
* `voice_routing`: a listener hears frames in order and none twice, over a publisher's next
  transport too (`FramesInOrder`); when every message was sent, a client that did not ask
  for a snapshot believes itself in its sessions and in those only that it lost without a
  message (`ClientsKnowTheirSessions`); queues drain (`QueuesDrain`); encoders and decoders
  agree (`CodecsAgree`).
* `voice_recording`: the worker finds no frame of a participant it knows to be gone or not
  to consent (`FramesFollowConsent`); a ready recording is complete
  (`ReadyIsComplete`); what ended stays so (`EndedStaysEnded`); finalizations end
  (`FinalizationEnds`).
* `voice_directional`: a download is cut exactly where a sender had blocked the route to the
  user or the user had muted the sender, except for what the timeline was not told until it
  is told again (`CutsFollowBlocks`, see section 4); a recording is listed for those
  who were in it, and they find nothing of the moments when they were not, except for those
  between a silent removal and the next session that the recorder is given
  (`DownloadsAreAttended`).

Why the bounds are enough:

* Two connections, calls, requests or handlers at a time are what is needed for one to
  overtake another.  Bounds on handlers (`MaxPending`, `MaxWaiting`, `Calls`, `Batches`,
  `MaxChain`, `MaxMessages`) limit what waits at once, not what happens in the course of
  a behaviour.
* Every limit of the code is so small that it is reached: sessions and rooms for one or
  two, a ticket store smaller than the set of tickets, a media queue of one frame, a
  fan-out of one, one pending and one active launch, one pending frame.
* Two session ids (three in `voice_sessions`) give an ended session and its successor;
  ids are used once, as in the code.  Three transports give an old one, its
  replacement, and one more that resumes or registers again.
* Two rooms, one of them the lobby, on a server of two slots with requests of two sizes are
  the smallest case in which a reservation changes its size while another room wants the
  rest.  What several rooms do to one server does not depend on other servers, nor what happens to one process on
  others, but for the limits on launches (section 6).
* Four connections of three users give sessions that grow to three, two sessions that
  overlap in one participant, and two connections of one user that must not share one.
* Sampled settings and payloads lie at, just below and just above each limit:
  TTLs of 29, 30, 31, 60, 121, 300 and 86401 seconds, clocks five seconds off either way,
  texts of one to three characters, blank ones among them, with a maximum of 2, integers at the scaled maxima 12, 20 and 21
  of the three widths and one beyond.
* `CodecsAgree` and `TokensHold` speak of no state.  They are written `Init => ...`, which
  evaluates them once, in the initial state.
* Symmetry is used for interchangeable names, in `sessions`, `accounts`,
  `voice_sessions` and `voice_directional`, none of which checks liveness.

Deadlock is checked except where the modelled part may come to rest: in
`realtime_rooms` and `voice_connections` all connections may have closed, each being
used once; in `voice_routing` publishers may fall silent; `voice_recording` and
`voice_directional` end with the recording, and `voice_sessions` when the service
stops.

Fairness, and why the code justifies it:

| Module | Assumed weakly fair | Because |
|---|---|---|
| `GameTickets` | the clock, the cleanup | `setInterval` in `GameServerControl.start` |
| `ServerProcesses` | the three steps of the cleanup, the passing of graces | `setInterval`; the cleanup does not pause |
| `RealtimeRooms` | the close event | `ws` destroys the stream when the peer does not answer a close |
| `RoomDirectory` | steps of calls, heartbeat intervals; strongly, that a close handler finds a free slot of the model | the driver answers or fails every operation, `setInterval`, and the server does not limit the handlers that run |
| `VoiceConnections` | expiry of retentions | timers fire; how long a waiting AUTH_RESULT takes does not matter |
| `VoiceRouting` | sends, the drain, the end of a forwarded stop | as before |
| `VoiceRecording` | the worker's steps, its answers | the worker is a thread of its own; messages are delivered |

Nothing is assumed of clients, of dedicated servers or of launchers.

## 4. What the code does not keep

Behaviours that were met while the code was read.  The models contain those of the parts
they cover, and where a property would otherwise claim too much it names the exception,
so that what it says of everything else is checked.  "Claimed" gives the text that says
otherwise, where there is one; the others are consequences a reader may not expect.

**Allocation and processes**

* The allocator never adds the weight of the requested room
  (`gameServerControl/allocation/gameServerAllocator.js:311`; claimed in README.md:1120-1140).
* A warm server that was claimed and is empty again is counted as ready, and no room can
  claim it (`registry/gameServerRegistry.js:555`; claimed in README.md:1190).  It is not
  retired either once its process is dead (`index.js:1140`): `UnusedServersGo` is about
  servers whose launch record is found, by the room they were launched for.
* The manifest is never compacted: `index.js:245` uses `path`, which is not imported, and the
  error is caught after a backup was written, at every cleanup again (claimed in
  README.md:1229-1234): `EndCleanup` compacts nothing.
* A launcher that fails after it spawned writes no record
  (`tools/launchDedicatedRoomServer.js:277`): the process runs unknown to all
  (`lost` in `ManifestIsTrue`, `OrphansEnd`).
* The limits on launches count registered servers
  (`handlers/clientGameServerHandler.js:1058`), and the keep-alive tool counts what it
  polled: both launch more than the limit while servers start.
* A server that takes longer to register than the orphan grace is ended while it starts.
* A verification may name any existing session, of whatever room or server
  (`handlers/dedicatedServerHandler.js:695`; claimed at :691): a user
  with a ticket for one room may be entered into another room's session.
  `AdmissionIsForTicket` names this case.
* A ticket that outlives the session it names, its room's reservation or its server opens a new
  session that is bound to that server all the same and reserves nothing (`:707`).  The
  reconciler may then give the lobby to the server that hosts it, beside a room that has claimed
  it or although it is draining.  `stray` and `unreserved` except these.
* Empty servers are not stopped as shipped: `idleShutdownEnabled` is off
  (`index.js:54`, `.env.example:69`).
* Service tokens: the default TTL of 60 is not held to a smaller maximum when no default
  is configured (`gameServerServiceToken.js:186`; the server configures one); a token is created
  for names that are refused when it is verified; with a maximum TTL below 25 seconds a
  server is told to renew after its token has ended; renewal does not look at the
  purpose; a removed server keeps its token until it ends.

**Realtime**

* A join that was waiting when its connection closed takes the user's open connection out
  of the room (`gameRoutes.js:40`, `gameRoomService.js:48`; roomManager.js:211 speaks of old
  connections).  `MembersStay` names the join of another connection of the user.
* A broadcast between a socket's closing and its close event drops the member, so that the
  departure is not announced (`realTime/index.js:48`, `roomManager.js:308`; claimed at
  realTime/index.js:156).
* For the same reason the directory is not told, and its count stays wrong until the next join
  or leave (`realTime/index.js:48-54`; claimed at realTime/index.js:98): `LoneCallsSettle`
  speaks of what a call leaves, not of what follows it.
* Realtime connections over gRPC have no heartbeat
  (`transport/grpcStreaming/attachGrpcStreamingRealtimeCore.js:234`) and the gRPC server no
  keepalive (`transport/grpc/server.js:90`): a member that vanishes there stays.
* The cleanup of one connection removes all those of its user from the registry
  (`disconnectCleanup.js:15`; clientsRegistry.js:284 speaks of several).
* Overlapping calls of the room directory that are written in another order leave a wrong
  count; a room whose stored count is full is closed to everybody, also to its members,
  and if nobody is inside, no join or leave will correct it; joins at the same time
  overbook a room; a failed `markUserJoined` answers with an error though the user is in.
* The ack tracker is never given a message.

**Accounts**

* Two overlapping rotations of one token both succeed, and a rotation under way survives a
  logout of all devices (`token.service.js:200-243`, `:314-317`; claimed at auth.service.js:351
  and README.md:396).  `OldSessionsEnd` excepts exactly these (`raced`).
* A password changed at the microservice locks its user out of the external login; of two
  first external logins at once one fails; when the profile cannot be read the caller is
  told of an error although account and tokens exist.

**Voice connections and sessions**

* The first event of an epoch may have any number, and the one accepted then is where the
  order begins (`voiceDedicatedSessionDeltaService.js:833-840`; claimed at :1004 and
  :843): `AcceptedInOrder` excepts it.
* The HTTP handler does not put the requests of a server in line: an event that awaits its
  observer is overtaken by its own retry, and a new epoch by the rest of the old
  (`:898` before `:905`).  `overlapped` excepts these.
* A resumed connection may still be ended by its retention timer, which is cancelled only
  when the client authenticates (`voiceReconnectCoordinator.js:173-205`;
  VOICE_CONNECTION_CORE_V1.md speaks of reconnection within the retention).
* A transport that is closed while AUTH_RESULT is sent becomes active again when the
  send succeeds; its own close later suspends whoever has registered since.
* Settings of publishers and mutes survive the connection they were made for.

**Voice routing and payloads**

* A snapshot that answers RECONNECT_REQUEST may be older than messages which overtook it
  (`voiceRoutingApplication.js:1459`; claimed in VOICE_SESSION_CONTRACT_V1.md:83):
  `ClientsKnowTheirSessions` is about clients that do not ask (`Requesting`).
* The peers of a connection that expires or closes for good are not told that their session has
  changed or ended (`voiceReconnectCoordinator.js:186`, `:221`), nor anyone of sessions that
  end with a server or an epoch (`session/voiceSessionRegistry.js:778`): they believe in it
  until they resume (`untold` in `ClientsKnowTheirSessions`).
* PUBLISH_STOP overtakes the frames in the media queue
  (VOICE_MESSAGE_CONTRACT_V1.md:59 calls it the end of the stream).
* After a send that timed out its sequence number is used again on the open transport
  (`voiceTransportConnection.js:1190`).
* Frames that were queued before a mute, or before the listener left, are still
  delivered; a frame for more listeners than the fan-out limit reaches none; a slow
  listener of a PUBLISH_STOP delays the publisher's next packet.
* Rules of message types let clients send ACK; the server closes the transport on one.
  The reserved field of the envelope is not checked.  A failure text above its limit
  makes the answer itself fail.

**Recording**

* The worker is not told of members who join, leave or revoke while it starts
  (`voiceRecordingService.js:715`, `:974`): it takes frames of those it does not know,
  which is why `FramesFollowConsent` allows "unknown", and its metadata keep those who left.
* A failed start leaves its thread and its consents; a finalization after a failure of the
  worker is rejected while the worker may go on; a failed recording may become declined;
  sessions that end by expiry or a new epoch are not finalized; `finalizeAll` stops at the
  first rejection.
* A user whose only interval is empty is offered the whole recording, though it is not listed
  for that user (`voiceRecordingDownloadService.js:79-92`;
  VOICE_RECORDING_USER_DOWNLOAD_CONTRACT_G4_RD0_20260809.txt:11 gives users what they attended).
  `DownloadsAreAttended` is about the recordings that are listed.
* A connection that expires or closes for good leaves its session, but not its recording, until
  the recorder is next given the session: its interval goes on (`gone` in
  `DownloadsAreAttended`), and so does that of a peer who is left alone.
* The timeline is not told when a route is opened while one end is away or by a removal, nor
  of a policy that outlived its sender's absence: cuts stay open or are missed
  (`untold` in `CutsFollowBlocks`) until a control of that route is next told.  Turning the
  speaker off and muting everyone are never told and cut nothing.
  Changes while the recorder starts are known only by the state they leave
  (`Known`).  A block cuts the whole mix of that moment.
* A failed write of the timeline is an unhandled rejection, and the event is lost.
* NPC publisher: the second of two overlapping `closeSession` calls dereferences null,
  and a frame whose authorization is awaited may follow SESSION_CLOSED.

## 5. What is proved

The theorems hold for every value of the constants that satisfies the named
assumptions of the modules, which TLC evaluates in the runs: positive capacities,
sizes and limits, finite sets where something is counted or summed, values that stand
for "none" outside the sets they are missing from, the order of the limits of a TTL, and
that every voice connection has a user.  The bounds (`MaxTickets`, `MaxTokens`,
`MaxTransports`, `MaxSequence` and so on) are constants as well: a theorem holds for each of
their values.

**GameSessions.**  `DirectoryInv` is the inductive invariant: types, `MappingIsLive`
(a room is mapped to an existing session of its own), `OneOpenSessionPerRoom`, and
`RecordsAreReal`, which says that records which exist have a real room and that ones
which do not are blank.  The strengthening is needed because opening a session reads
the mapping: only if a mapped session exists and is the room's own does "the mapped one
is not open" imply that no session of the room is.  Two parts more are
`TicketsKnowTheirSession`: a stored ticket names a session that was created once and, while
it exists, is of the ticket's room; and `OpenSessionHasServer`: an open session has a
registered server or is `stray`.  No assumption relates the lives of tickets and sessions.
From it follow `TypeCorrect`, `OneOpenSession`, `MappingStaysLive` and
`OpenSessionsReachable`; `CapacityKept` (no session above its capacity)
needs in addition the cardinality of a set with one more player, and that a join checks
before it adds.  Three are action properties: `EndedStay` (ended sessions stay ended),
`AdmittedToTheRoom` (the ticket that lets a player in is valid, and of the room of the session
unless the request named that session, which needs `TicketsKnowTheirSession`), and `NewLoginStays` (a late report about the connection
that a login replaced does not take the player out).  `SingleAdmission` needs only the types:
it carries "admitted once" together with the ticket's status.

**GameTickets, ServiceTokens.**  `TypeCorrect`; `StoreBounded`, from the cardinality of the
unexpired tickets and one more; and `SingleUse`: the store implements
`SingleUseTicket`, step by step under the mapping `Phase`.  `TokensAreGood`: what the run of
the tickets evaluates for some clocks, secrets and TTLs holds for all of them.  A token is
accepted exactly within its life with the tolerance, a forged or foreign one never, and a server
that asks for a new token when it is told to has a good one at every moment.  The
proof is arithmetic on `ClampInteger`: what a setting is clamped to, and that the
renewed life is long enough for the next renewal.

**ServerAllocation.**  `IInv` has the types, `HealthIsOfRegistered`,
`HostHasReservation`, and `Tidy` of every record, which strengthens
`ClaimedServerIsExclusive`: a claimed server has a room, no assignment but that
one and the lobby, and nobody in it, and a warm one has nobody in it.  Without the last fact a
claim could inherit players' rooms, and the next heartbeat could move the primary
room.  The lobby may come beside the claimed room because the reconciler does not
look at the primary room of the server that hosts the lobby, where a verification may have
opened the lobby's session without a reservation.  Most handlers replace one record, so
`Succeeds` says once when a record may take the place of another.  From `IInv`:
`TypeCorrect`, `HealthRegistered`, `HostKeepsReservation`, `ClaimIsExclusive`, and
the action properties `SessionsStay` (an open session keeps its server while that is
registered) and
`NewRoomsAreOpen`.

`ReservedFits` is about a sum: the reservations of a server fit its capacity.  `Reserved`
folds over the assigned rooms, and what the fold yields has to be shown by induction over
subsets of `Rooms`; it is used in the form that a set of subsets which is not
empty has a smallest member (`NoSmallerSet`): were there a set for which the claim fails,
a smallest one would lack its first room and be right.  That gives `SumsExist`,
`ReservedIsSum` and `SumsOfLarger`, and from these `ReservedAfter`: giving a room a size adds
at most that size to what the other rooms reserve, which is what the allocator compares
with the free slots.  `MayBecome` then names the two things that a handler may do to the
reservations of a record, and there is a lemma for each kind of handler.  The strengthening
is that a server which is not registered has no assignments: otherwise a registration could
inherit reservations.  The theorem, as the property, excepts the processes that register
again.

**ServerProcesses**, in the same module.  `ProcessInv` adds to the types and to `ManifestIsTrue` what a launcher knows
(`LaunchersKnow`: it has a process exactly from its spawn on), that a live process is on
record unless its record was never written (`LiveAreRecorded`), and that both the file and the
copy that a cleanup has read tell the truth (`IsTrue`).  The copy is needed because the scan
decides from it, after more was appended, who is recorded as ended.  From it: `ProcessTypes` and
`ManifestCorrect`.

**RealtimeRooms.**  `IInv` collects the types, the agreement of the room manager's
maps with each other and with `ctx.roomId`, the agreement of the registry's maps,
`ClosedLeaveNothing`, and two facts that carry it through the awaits: members of
rooms and owners of waiting handlers are authenticated (`KnownUsers`), and an
unused connection is registered nowhere.  `LeaveKeepsRooms` and `JoinKeepsRooms`
show once that the two operations of the room manager preserve its part, for any
set of members that leaves; each action then instantiates them.  From `IInv`:
`TypeCorrect`, `RoomsAgree`, `RegistryAgrees` and `ClosedGone`.  `OneMembership`
adds `Unique` (two members of a room have different users): every step only takes
members out, authenticates one connection, or joins one after its siblings left.
`NobodyIsPutOut` is an action property: whoever leaves the members of a room asked to,
was closed, or made room for another connection of the same user.

**RoomDirectory**, in the same module.  `DirectoryInv` has the types and `Settles` of every
call that marks its room alone: no other call marks the room, what the call has counted is
the number of the members now, and after each of its writes the record says so.  It is
inductive because whatever changes the members of a room marks it as well, or is the silent
removal of a closing member, and either takes the mark "alone" from the others.  `LoneCallsTellTheTruth` is the action property `LoneCallsSettle`.
The number of members is only compared, so the proof needs no arithmetic and no bound on the
users.

**Accounts.**  Operations are calls that wait for the database between their steps, so
the invariant has two parts.  `StoreInv` is about the collections: types, that tokens are
created in order and descend from older ones (`TokensInOrder`), and the three properties.
`Sound` is the set of what a call may know while it waits: a rotation past
its second step has a dead token, one that read an old epoch carries the mark of its race, a
login has an account.  `Grows` says what every step keeps of the collections (accounts,
tokens and logouts are added and not taken back, a token changes only by dying), and
`KnowledgeStays` that with it all that the other calls know stays true: an action is then proved
for its own call only.  From it: `TypeCorrect`, `RotationIsSingle`, `LogoutEndsSessions` and
`ExternalLoginsCorrect`.

**VoiceSessions.**  `RegistryInv` has the types, `IndexesAgree`, and that a session has two
participants or more of different users (`SessionsConnectUsers`).  The index maps a pair to one
session, so two sessions that shared a pair could not both agree with it: this gives
`PairsShareOneSession`.  A new pair (`CreateKeepsRegistry`), one more
participant (`JoinKeepsRegistry`) and shrinking (`ShrinkKeepsRegistry`, for any set of leaving
participants and closed sessions) are each proved once.  `InLine` is what the numbered batches keep while no two of them overlap: one
batch waits, it is of the current epoch, its observed event is the next one, and no session is
of another epoch.  From it: `NoSessionOutlivesItsEpoch` and the action property
`EventsInOrder`.  With batches that overlap neither holds (section 4).

**VoiceRecording.**  The hazard is in the queue from the main thread to
the worker: a frame that the worker may not write makes it give the recording up.
`RecordingInv` says what the two queues hold in every state.  `StartInv`: before the recording
has started, a start, its answer, or nothing; and what the start told, or has told, the worker
(`Told`).  `LaterInv`: after that there is no other start.  `FilesInv`: only a worker with
complete files answers "ready".  `StopInv`: nothing follows a stop.  `FramesInv` is about what
the worker will know: there is a sequence of views along the queue (`Learns`) in which every
frame is of somebody who is not known to be gone or to refuse, and while frames may be
added the last view fits the consents of the record (`Fits`).  It is an induction over the
queue, made on a set of numbers (`AllNaturals`); `LearnsMore` puts two queues together, `KeptBy`
says that reports about a participant keep what they keep.  Then there is one lemma for each
thing that happens to a queue: nothing (`SameQueue`), a message is added (`QueueGrows`), one is
taken or its handling fails (`QueueShrinks`: a departure that is lost leaves the worker knowing
more only about one who sends no frames), the changes of the members are reported
(`ChangesFit`), and the consents that waited for the start are sent (`ResumedFit`).
`ViewIsLearned` connects the sequence with the recursive function `ViewAt` that the property
uses.  From it: `RecordingTypes`, `FramesAreConsented`, `ReadyMeansComplete`, and the action
property `EndedRecordingsStay`.

**VoiceConnections.**  `RegistryInv` has the types, `IndexesAgree` and that a stored
eligibility is that of the controls; `UnansweredHoldsNothing` says that a transport gets its
connection only by the answer it waits to send, and `HeldOrRetained` is inductive with these.
`StaysHeldOrRetained` states once what a step may do to a connection so that it stays held or
retained, and `Answered` what an authentication may do, whether it is refused, resumes or
registers.  From it: `TypeCorrect`, `IndexesCorrect`, `NoConnectionIsForgotten` and
`SnapshotFollowsControls`.

**VoiceRouting**, in the same module.  A frame reaches a client by one of two ways: at once
into the chain of sends, or through the bounded media queue, whose drain passes frames on to
the chain and may drop the oldest one or a stale one.  `OrderInv` says that the two ways never
cross.  For each publisher and client `Line` holds: its frames ascend along the chain, along
the queue and from the one to the other, all of them are later than what the client has heard
and none is later than what the publisher's record has accepted; and where no drain runs the
queue is empty, which is what lets a new frame go straight into the chain.  There is one lemma
for each thing that can happen to a line (`NewFrameIsSent`, `NewFrameWaits`, `OldestGoes`,
`HeadGoes`, `NextIsSent`, `OthersJoin`, `OthersWait`).  `Bounded` keeps the numbers of packets and frames
within their bounds, which the types of the frames need.  `KnowInv` is about the messages that
tell of sessions, for the connections that send no RECONNECT_REQUEST: a snapshot is only at
the head of a chain, one change is under way at most, and what the client has, or will have
from the snapshot (`Base`), is its sessions of now and those that ended without a message
(`Believed`), with that change if there is one (`EventsTell`).  From it:
`RoutingTypes`, `FramesKeepTheirOrder` and `ClientsAreInformed`.

**VoiceDirectional**, in the module of `VoiceRecording`.  The first half is about the
operators that a download is computed with.  `Moments` turns a sequence of intervals into a
set, and each helper of the code is shown to compute what its name says of these sets: sorting
keeps them (`SortedIs`), merging too (`MergeIs`), `IntersectIs`, `SubtractIs` and `ClipIs`;
`EffectiveIs` says that the blocked intervals read from a timeline are the moments at which the
last event of a source said "blocked" (`Says`).  Hence `CutIs` and `AuthorizedIs`, and
`DownloadIs`: what is found is what is offered without the cut.  The loops of the code are
recursive functions on the length of a sequence; an induction over one is made on a set of
numbers, as before, and stated once for all loops (`Recursion`, `TypedRun`).  The second half
is the invariant `MixInv`, which connects the state of a running recording with what was.
`TimeInv`: the timeline is in the order of its times, none of which is in the future.
`IntervalsInv`: the intervals of a connection are the moments at which it was a member or gone
without a word, and the last one is open while it is.  `NotedInv`: what the timeline's service
has noted of senders' blocks and receivers' mutes is what is held, but for what it was not
told (`untold`).  `NowInv` and `PastInv`: the timeline says at present,
and of each moment since it was registered, what was held then.  The present needs a clause
of its own, since a policy whose sender or receiver is away has no event yet, and gets it when
that one joins; the past follows from it with every tick (`TickKeeps`), and events that are
written later leave it alone (`SaysAppended`, `PastKept`).  The end of the recording (`EndKeeps`) is where the two
halves meet.  From it: `DirectionalTypes`, `CutsAreBlocks` and `DownloadsHoldAttended`, for
recordings of any length.

Some of what is proved is not listed for a run, since the theorem says more:
the type invariants, `MappingIsLive`, `WithinCapacity`, `EndedSessionsStayEnded`,
`StoreIsBounded`, `ClaimedServerIsExclusive`, `HealthIsOfRegistered`,
`SessionKeepsServer`, `RoomMapsAgree`, `RoomsAreInUse`, `ActiveRoomIsJoined` and
`RegistryMapsAgree`.  Nor are the properties of `ServerProcesses`, `RoomDirectory`,
`VoiceRouting` and `VoiceDirectional`, which their theorems name as `Proc!ManifestIsTrue`,
`Dir!LoneCallsSettle`, `Route!FramesInOrder`, `Mix!CutsFollowBlocks` and so on: the runs check
the same definitions.  The theorems about `ServerProcesses`, `VoiceRouting` and
`VoiceDirectional` have the assumption of the model as their hypothesis.

Only model-checked: liveness (`TicketsClose`, `ClosingConnectionsGo`, `OrphansEnd`,
`UnusedServersGo`, `RetentionEnds`, `FinalizationEnds`, `QueuesDrain`,
`VanishedMembersLeave`), which is out of the prover's reach; and `CodecsAgree`, which evaluates
encoders and decoders on given samples.

## 6. What is not modelled

* Names, metadata, regions, signatures, the contents of messages and the last
  player states: no property depends on them.
* Operations that nothing in the server calls: `removeRoom` and `clear` of the room
  manager, the increment and decrement of a server's players, `closeRoomByOwner`, the
  change of a user name, the reconnect policy of voice, `track` of the ack tracker.
* Limits on memory and processor time, ports, command lines and process ids that the
  operating system uses again.
* Two server processes at a time in `server_processes`: that requests for one room share
  a launch and that limits hold across launches is in the model, and one process cannot
  show it.  Claims from the warm pool are a theorem (`ClaimIsExclusive`) and no run.
* Game Server Control's HTTP routes, realtime parsing and transports, gRPC handlers
  other than those of accounts: conversions between the wire and the modelled handlers.
* Flood protection: one counter per connection that no other part reads.
* Audio, ffmpeg, the muxer, files and streams of downloads; the verification of routes,
  which logs.  Bytes that are no UTF-8 in texts of payloads.
* The NPC publisher (read, see section 4): its sessions share the chains of sends of
  `VoiceRouting`, whose instance has no room for another publisher.
* Voice capacity, metrics and audit; the health page and the bootstrap: nothing else
  reads what they keep.

## 7. Plan

Every safety property of the runs has its theorem, apart from `CodecsAgree`: a proof about it
would be about single formats, one payload at a time, beginning with `VoicePayloads` as sets
of records with lengths.

Models, where instances allow it: the NPC publisher beside `VoiceRouting`, two processes in
`ServerProcesses`, `RealtimeRooms` composed with `RoomDirectory`.
