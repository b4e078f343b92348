--------------------------- MODULE VoiceConnections ---------------------------
(***************************************************************************)
(* The voice connections of the server: their registry                     *)
(* (voiceConnectionRegistry.js), registration with the handoff to a new    *)
(* client (voiceConnectionRegistrationService.js and its adapter), the     *)
(* transports that carry them (voiceTransportConnection.js, the gateway),  *)
(* the retention of connections whose transport is gone                    *)
(* (voiceReconnectCoordinator.js), and the local controls of the routing   *)
(* application: publishing, speaker off and the eligibility for sessions.  *)
(*                                                                         *)
(* A transport handles its packets one after the other.  Registration runs *)
(* to the await that sends AUTH_RESULT; while it waits, the retention      *)
(* timer, the authentication timer and the peer may act.  close() runs to  *)
(* its await of closeTransport: it has released the connection by then.    *)
(*                                                                         *)
(* Abstracted: sequence numbers, heartbeats (one cause of a close), the    *)
(* media queue, tokens and rooms.  `player` stands for the dedicated game  *)
(* session that preparation reads: the ready connection of a user, with an *)
(* id that is used once.                                                   *)
(***************************************************************************)
EXTENDS Naturals, FiniteSets

CONSTANTS Users, Clients,
          Connections,   \* ids of dedicated connections, which voice connections share
          UserOf,        \* the user of a dedicated connection
          MaxTransports  \* bound: the transports that are accepted, in order

CONSTANTS NoConnection, NoClient

ASSUME ConnectionsAssumption ==
  /\ UserOf \in [Connections -> Users]
  /\ NoConnection \notin Connections /\ NoClient \notin Clients
  /\ MaxTransports \in Nat

Transports == 1..MaxTransports
NoTransport == 0

VARIABLES
  player,       \* external: the ready dedicated connection of a user
  met,          \* external: the ids that were in use
  record,       \* connectionsById
  byClient,     \* connectionIdByClientInstanceId
  byUser,       \* connectionIdByUserAvatar
  eligibility,  \* sessionEligibilityByConnectionId
  retention,    \* expiryTimersByConnectionId
  speakerOff,   \* mute registry: the listeners with their speaker off
  publishing,   \* publisherSettingsByConnectionId
  transport,    \* state and connectionId of a transport
  closer,       \* closePromise of a transport
  sending       \* the AUTH_RESULT that a transport awaits

registryVars == <<record, byClient, byUser, eligibility>>
controlVars == <<speakerOff, publishing>>
playerVars == <<player, met>>
vars == <<playerVars, registryVars, retention, controlVars, transport, closer, sending>>

\* The life of a record: registered and activated in one step, it is suspended,
\* resumed on another transport, and closed only to be removed.
ConnectionRecords == [state : {"none", "active", "suspended"},
                      client : Clients \cup {NoClient},
                      transport : Transports \cup {NoTransport}]
NoRecord == [state |-> "none", client |-> NoClient, transport |-> NoTransport]
Activated(i, t) == [state |-> "active", client |-> i, transport |-> t]
Suspended(r) == [r EXCEPT !.state = "suspended"]
Resumed(r, t) == [r EXCEPT !.state = "active", !.transport = t]

Unopened == [state |-> "unused", connection |-> NoConnection]

TypeOK ==
  /\ player \in [Users -> Connections \cup {NoConnection}]
  /\ met \subseteq Connections
  /\ record \in [Connections -> ConnectionRecords]
  /\ byClient \in [Clients -> Connections \cup {NoConnection}]
  /\ byUser \in [Users -> Connections \cup {NoConnection}]
  /\ eligibility \in [Connections -> {"none", "initial", "eligible", "ineligible"}]
  /\ retention \subseteq Connections
  /\ speakerOff \subseteq Connections /\ publishing \subseteq Connections
  /\ transport \in [Transports ->
       [state : {"unused", "waiting_auth", "active", "closing", "closed"},
        connection : Connections \cup {NoConnection}]]
  /\ closer \in [Transports -> {"none", "begun", "done"}]
  /\ sending \in [Transports -> {"none", "success", "failure"}]

Init ==
  /\ player = [u \in Users |-> NoConnection] /\ met = {}
  /\ record = [c \in Connections |-> NoRecord]
  /\ byClient = [i \in Clients |-> NoConnection]
  /\ byUser = [u \in Users |-> NoConnection]
  /\ eligibility = [c \in Connections |-> "none"]
  /\ retention = {} /\ speakerOff = {} /\ publishing = {}
  /\ transport = [t \in Transports |-> Unopened]
  /\ closer = [t \in Transports |-> "none"]
  /\ sending = [t \in Transports |-> "none"]

Registered(c) == record[c].state # "none"
Holders(c) == {t \in Transports : transport[t].connection = c}

-----------------------------------------------------------------------------
(* The registry and the reconnect coordinator *)

\* The registry after `gone` was removed and, unless it is NoConnection, c was
\* registered and activated on transport t for client i.
Registry(gone, c, i, t) ==
  /\ record' = [d \in Connections |->
       IF d = c THEN Activated(i, t)
       ELSE IF d = gone THEN NoRecord ELSE record[d]]
  /\ byClient' = [j \in Clients |->
       IF c # NoConnection /\ j = i THEN c
       ELSE IF gone # NoConnection /\ j = record[gone].client THEN NoConnection
       ELSE byClient[j]]
  /\ byUser' = [u \in Users |->
       IF c # NoConnection /\ u = UserOf[c] THEN c
       ELSE IF gone # NoConnection /\ u = UserOf[gone] THEN NoConnection ELSE byUser[u]]
  /\ eligibility' = [d \in Connections |->
       IF d = c THEN "initial" ELSE IF d = gone THEN "none" ELSE eligibility[d]]

\* removeConnection, and the mute state of the connection.
Remove(c) ==
  /\ IF Registered(c) THEN Registry(c, NoConnection, NoClient, NoTransport)
     ELSE UNCHANGED registryVars
  /\ speakerOff' = speakerOff \ {c}
  /\ UNCHANGED publishing

\* A mutant: the timer is not started.
Suspend_NoTimer(c) ==
  /\ record' = IF Registered(c) THEN [record EXCEPT ![c] = Suspended(@)] ELSE record
  /\ UNCHANGED <<byClient, byUser, eligibility, retention, controlVars>>

\* A transport of c is gone: whatever transport holds c now, it is suspended, and
\* its retention starts anew.
Suspend(c) ==
  /\ record' = IF Registered(c) THEN [record EXCEPT ![c] = Suspended(@)] ELSE record
  /\ retention' = IF Registered(c) THEN retention \cup {c} ELSE retention
  /\ UNCHANGED <<byClient, byUser, eligibility, controlVars>>

\* The timer of c is cancelled, or has fired, and is forgotten.
CancelRetention(c) == retention' = retention \ {c}

\* closeConnectionImmediately
CloseImmediately(c) == Remove(c) /\ CancelRetention(c)

\* handleTransportClosed: a client that says goodbye leaves at once.
HandleTransportClosed(c, reason) ==
  IF c = NoConnection THEN UNCHANGED <<registryVars, retention, controlVars>>
  ELSE IF reason = "client_disconnected"
       THEN CloseImmediately(c)
       ELSE Suspend(c)

\* A mutant: only an active connection is looked for.
ExpireConnection_OnlyActive(c) ==
  /\ c \in retention
  /\ retention' = retention \ {c}
  /\ IF record[c].state = "active" THEN Remove(c)
     ELSE UNCHANGED <<registryVars, controlVars>>
  /\ UNCHANGED <<playerVars, transport, closer, sending>>

\* The retention timer fires; the state of the connection is not looked at.
ExpireConnection(c) ==
  /\ c \in retention
  /\ CancelRetention(c)
  /\ Remove(c)
  /\ UNCHANGED <<playerVars, transport, closer, sending>>

-----------------------------------------------------------------------------
(* Transports *)

PlayerReady(u, c) ==
  /\ c \notin met /\ UserOf[c] = u
  /\ player' = [player EXCEPT ![u] = c] /\ met' = met \cup {c}
  /\ UNCHANGED <<registryVars, retention, controlVars, transport, closer, sending>>

PlayerLeft(u) ==
  /\ player[u] # NoConnection
  /\ player' = [player EXCEPT ![u] = NoConnection]
  /\ UNCHANGED <<met, registryVars, retention, controlVars, transport, closer, sending>>

AcceptConnection(t) ==
  /\ transport[t].state = "unused"
  /\ \A s \in 1..(t - 1) : transport[s].state # "unused"
  /\ transport' = [transport EXCEPT ![t].state = "waiting_auth"]
  /\ UNCHANGED <<playerVars, registryVars, retention, controlVars, closer, sending>>

Reject(t) ==
  /\ sending' = [sending EXCEPT ![t] = "failure"]
  /\ UNCHANGED <<registryVars, retention, controlVars, transport>>

Answer(t, c) ==
  /\ transport' = [transport EXCEPT ![t].connection = c]
  /\ sending' = [sending EXCEPT ![t] = "success"]

ResumeConnection(c, t) == record' = [record EXCEPT ![c] = Resumed(@, t)]

\* The id is registered: its client resumes it once it is suspended; an active
\* one belongs to another transport.
Resume(t, c, i) ==
  IF record[c].client = i /\ record[c].state = "suspended"
  THEN /\ ResumeConnection(c, t)
       /\ Answer(t, c)
       /\ UNCHANGED <<byClient, byUser, eligibility, retention, controlVars>>
  ELSE Reject(t)

\* A mutant: the user's former connection is not removed.
Register_NoHandoff(t, c, i) ==
  IF byClient[i] = NoConnection
  THEN /\ Registry(NoConnection, c, i, t)
       /\ Answer(t, c)
       /\ UNCHANGED <<retention, controlVars>>
  ELSE Reject(t)

\* The new id cannot be registered as its user still has a connection of another
\* client: that one is handed over (the adapter of the registration service).
Conflict(c, i) ==
  LET old == byUser[UserOf[c]]
  IN  old # NoConnection /\ record[old].client # i

\* The old connection is closed, and registration is tried once more: it fails when
\* the client still has another connection, and the old one stays closed.
Handoff(old, t, c, i) ==
  /\ CancelRetention(old)
  /\ speakerOff' = speakerOff \ {old}
  /\ UNCHANGED publishing
  /\ IF byClient[i] = NoConnection
     THEN Registry(old, c, i, t) /\ Answer(t, c)
     ELSE /\ Registry(old, NoConnection, NoClient, NoTransport)
          /\ sending' = [sending EXCEPT ![t] = "failure"]
          /\ UNCHANGED transport

\* The id is new.
Register(t, c, i) ==
  IF byClient[i] = NoConnection /\ byUser[UserOf[c]] = NoConnection
  THEN /\ Registry(NoConnection, c, i, t)
       /\ Answer(t, c)
       /\ UNCHANGED <<retention, controlVars>>
  ELSE IF Conflict(c, i) THEN Handoff(byUser[UserOf[c]], t, c, i)
  ELSE Reject(t)

\* prepare: the dedicated session of the room knows the user as ready; its
\* connection id becomes the one of the voice connection.
Prepared(u) == player[u] # NoConnection
ConnectionIdOf(u) == player[u]

\* The token, the fields or the membership in the room may be refused at any time.
Refused(t) == Reject(t)

\* AUTH_REQUEST of user u from client instance i, to the await that sends AUTH_RESULT.
HandleAuthRequest(t, u, i) ==
  /\ transport[t].state = "waiting_auth" /\ sending[t] = "none" /\ closer[t] = "none"
  /\ \/ Refused(t)
     \/ ~Prepared(u) /\ Reject(t)
     \/ /\ Prepared(u)
        /\ IF Registered(ConnectionIdOf(u)) THEN Resume(t, ConnectionIdOf(u), i)
           ELSE Register(t, ConnectionIdOf(u), i)
  /\ UNCHANGED <<playerVars, closer>>

\* AUTH_RESULT of a success is sent: the transport becomes active, be it closed
\* meanwhile, and the retention of its connection ends.  Without a connection
\* handleAuthenticated throws, and close() has its promise already.
AuthResultSent(t) ==
  /\ sending[t] = "success"
  /\ sending' = [sending EXCEPT ![t] = "none"]
  /\ transport' = [transport EXCEPT ![t].state = "active"]
  /\ CancelRetention(transport[t].connection)
  /\ UNCHANGED <<playerVars, registryVars, controlVars, closer>>

\* close() to the await of closeTransport.
BeginClose(t, reason) ==
  /\ closer' = [closer EXCEPT ![t] = "begun"]
  /\ transport' = [transport EXCEPT ![t].state = "closing", ![t].connection = NoConnection]
  /\ HandleTransportClosed(transport[t].connection, reason)

\* AUTH_RESULT cannot be sent, or it was one of a failure: the transport closes,
\* and nothing is left to do if it has begun to.
AuthEnds(t) ==
  /\ sending[t] \in {"success", "failure"}
  /\ sending' = [sending EXCEPT ![t] = "none"]
  /\ IF closer[t] = "none" THEN BeginClose(t, "transport_closed")
     ELSE UNCHANGED <<registryVars, retention, controlVars, transport, closer>>
  /\ UNCHANGED playerVars

\* The peer closes, a time-out, a packet that is refused, or backpressure.
TransportCloses(t) ==
  /\ transport[t].state # "unused" /\ closer[t] = "none"
  /\ BeginClose(t, "transport_closed")
  /\ UNCHANGED <<playerVars, sending>>

CloseEnds(t) ==
  /\ closer[t] = "begun"
  /\ closer' = [closer EXCEPT ![t] = "done"]
  /\ transport' = [transport EXCEPT ![t].state = "closed"]
  /\ UNCHANGED <<playerVars, registryVars, retention, controlVars, sending>>

\* Packets are handled, one at a time, by an open transport with a connection.
Receives(t) ==
  /\ transport[t].state = "active" /\ transport[t].connection # NoConnection
  /\ sending[t] = "none"

Disconnect(t) ==
  /\ Receives(t)
  /\ BeginClose(t, "client_disconnected")
  /\ UNCHANGED <<playerVars, sending>>

-----------------------------------------------------------------------------
(* The local controls of a connection *)

\* Whoever neither publishes nor listens is not eligible for voice sessions.
Eligible(c, publishes, off) ==
  IF c \in publishes \/ c \notin off THEN "eligible" ELSE "ineligible"

\* A mutant: eligibility is computed before the control is stored.
SetControls_Early(c, publishes, off) ==
  /\ publishing' = publishes /\ speakerOff' = off
  /\ eligibility' = IF ~Registered(c) THEN eligibility
       ELSE [eligibility EXCEPT ![c] = Eligible(c, publishing, speakerOff)]

\* setSessionEligibility: a connection that is not registered has none to set.
SetControls(c, publishes, off) ==
  /\ publishing' = publishes /\ speakerOff' = off
  /\ eligibility' = IF ~Registered(c) THEN eligibility
       ELSE [eligibility EXCEPT ![c] = Eligible(c, publishes, off)]

\* getSnapshot: what a dedicated server reads of its players' connections.
Snapshot ==
  {[connection |-> c, eligible |-> eligibility[c] = "eligible"] :
     c \in {d \in Connections : /\ Registered(d) /\ player[UserOf[d]] = d
                               /\ eligibility[d] # "initial"}}

LocalControl(t) ==
  /\ Receives(t)
  /\ LET c == transport[t].connection
     IN \/ SetControls(c, publishing \cup {c}, speakerOff)  \* PUBLISH_START
        \/ SetControls(c, publishing \ {c}, speakerOff)     \* PUBLISH_STOP
        \/ SetControls(c, publishing, speakerOff \cup {c})  \* LISTENER_MUTE_CHANGED
        \/ SetControls(c, publishing, speakerOff \ {c})
  /\ UNCHANGED <<playerVars, record, byClient, byUser, retention, transport, closer, sending>>

-----------------------------------------------------------------------------

Next ==
  \/ \E u \in Users :
       PlayerLeft(u) \/ \E c \in Connections : PlayerReady(u, c)
  \/ \E t \in Transports :
       \/ AcceptConnection(t)
       \/ \E u \in Users, i \in Clients : HandleAuthRequest(t, u, i)
       \/ AuthResultSent(t) \/ AuthEnds(t)
       \/ TransportCloses(t) \/ CloseEnds(t) \/ Disconnect(t) \/ LocalControl(t)
  \/ \E c \in Connections : ExpireConnection(c)

\* Timers fire.
Fairness == \A c \in Connections : WF_vars(ExpireConnection(c))

Spec == Init /\ [][Next]_vars /\ Fairness

-----------------------------------------------------------------------------
(* Properties *)

\* A user has one voice connection, a client instance has one, and the indexes
\* find exactly the records: no left-over entry keeps a client or a user out
\* (registerAuthenticatedConnection, removeConnection).
IndexesAgree ==
  /\ \A i \in Clients, c \in Connections :
       byClient[i] = c <=> Registered(c) /\ record[c].client = i
  /\ \A u \in Users, c \in Connections :
       byUser[u] = c <=> Registered(c) /\ UserOf[c] = u
  /\ \A c \in Connections : Registered(c) <=> eligibility[c] # "none"

\* No connection is kept for ever: a record has a transport that holds it, or its
\* retention runs; and one that is active is held by the transport it names, so
\* nothing is published for a connection whose transport is gone.
HeldOrRetained ==
  \A c \in Connections :
    /\ Registered(c) => Holders(c) # {} \/ c \in retention
    /\ record[c].state = "active" => record[c].transport \in Holders(c)

\* The eligibility that the dedicated server reads is that of the controls that
\* were set last, through removals, handoffs and resumptions
\* (synchronizeSessionEligibilityFromLocalControls).
EligibilityFollowsControls ==
  \A p \in Snapshot :
    p.eligible <=> p.connection \in publishing \/ p.connection \notin speakerOff

\* A connection that lost its transport is resumed or goes
\* (VOICE_RECONNECT_CONTRACT_V1.md, the retention of the server).
RetentionEnds ==
  \A c \in Connections :
    (record[c].state = "suspended" /\ Holders(c) = {}) ~>
      (record[c].state = "active" \/ ~Registered(c))
=============================================================================
