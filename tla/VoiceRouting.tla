----------------------------- MODULE VoiceRouting -----------------------------
(***************************************************************************)
(* Live voice: publishing, the flow guard (voicePacketFlowGuard.js), mutes *)
(* (voiceMuteRegistry.js), the fan-out of frames, session messages and     *)
(* reconnect requests (voiceRoutingApplication.js), and the two ways out   *)
(* of a transport (voiceTransportConnection.js): the chain of sends, which *)
(* carries one envelope after the other, and the media queue, whose drain  *)
(* has one frame at a time on that chain.                                  *)
(*                                                                         *)
(* A transport handles one packet at a time; handling a frame does not     *)
(* wait, any other packet waits for its answer to be sent.  The            *)
(* continuations of the drain are steps of their own.                      *)
(*                                                                         *)
(* Abstracted: payloads; the rates and ages of the flow guard, which may   *)
(* refuse any frame, and of the queue, which may find any frame stale; the *)
(* registry and its timers (VoiceConnections), of which only the removals  *)
(* are here; recording (VoiceRecording).                                   *)
(* `heard` and `view` stand for the client: the last frame it heard of a   *)
(* publisher and the sessions it believes to be in. `untold` is a history: *)
(* the sessions that ended without a message to the participant.           *)
(***************************************************************************)
EXTENDS Naturals, FiniteSets, Sequences

CONSTANTS Connections, Sessions, Unknown,
          Publishers,   \* bound: the connections that publish
          Mutes,        \* bound: who uses which mute, of everything or of another
          Requesting,   \* the connections whose client sends RECONNECT_REQUEST
          Capacity,     \* queueCapacity
          MaxFanOut,    \* maxFanOutPerFrame
          MaxChain,     \* bound: envelopes of a chain when a stop is added
          MaxPackets,   \* bound: packets of a transport
          MaxFrames     \* bound: frames of a publisher

ASSUME RoutingAssumption ==
  /\ Publishers \subseteq Connections
  /\ Mutes \subseteq Connections \X (Connections \cup {"speaker_off", "mute_all"})
  /\ \A m \in Mutes : m[1] # m[2]
  /\ Requesting \subseteq Connections
  /\ Capacity \in Nat \ {0} /\ MaxFanOut \in Nat \ {0}
  /\ MaxChain \in Nat /\ MaxPackets \in Nat /\ MaxFrames \in Nat

\* The clients whose beliefs are asserted: the result of a RECONNECT_REQUEST and an
\* event may cross, so that those who send it may be behind.
Followed == Connections \ Requesting

Everything == {"speaker_off", "mute_all"}

VARIABLES
  members,     \* external: the participants of an active session
  untold,      \* the sessions that a participant was not told the end of
  removed,     \* the connections that the registry removed
  open,        \* the connections that are active and have a transport
  publishing,  \* publisherSettingsByConnectionId
  muted,       \* statesByListenerConnectionId
  received,    \* lastReceivedSequence of the transport
  accepted,    \* lastAcceptedSequence of the flow guard
  published,   \* lastPublishedSequence of the connection record
  busy,        \* what the packet that is being handled waits for
  queue,       \* mediaQueue
  drain,       \* mediaDrainPromise, and where the drain stands
  outbox,      \* sendingTail: the envelopes that were not sent yet
  heard,       \* client: the last frame of a publisher
  view         \* client: its sessions, once every message about them was sent

envVars == <<members, untold, removed>>
controlVars == <<publishing, muted>>
sequenceVars == <<received, accepted, published>>
sendVars == <<queue, drain, outbox>>
clientVars == <<heard, view>>
vars == <<envVars, open, controlVars, sequenceVars, busy, sendVars, clientVars>>

Frame(p, n) == [kind |-> "frame", from |-> p, id |-> n]
Stop(p) == [kind |-> "stop", from |-> p]
Ack == [kind |-> "ack"]
Joined(s) == [kind |-> "session", session |-> s, in |-> TRUE]
Left(s) == [kind |-> "session", session |-> s, in |-> FALSE]
Result(S) == [kind |-> "result", view |-> S]
Snapshot(S) == [kind |-> "snapshot", view |-> S]

Frames == {Frame(p, n) : p \in Connections, n \in 1..(MaxFrames + MaxPackets)}
Envelopes == Frames \cup {Stop(p) : p \in Connections} \cup {Ack}
  \cup {Joined(s) : s \in Sessions} \cup {Left(s) : s \in Sessions}
  \cup {Result(S) : S \in SUBSET Sessions} \cup {Snapshot(S) : S \in SUBSET Sessions}

TypeOK ==
  /\ members \in [Sessions -> SUBSET Connections]
  /\ untold \in [Followed -> SUBSET Sessions] /\ removed \subseteq Connections
  /\ open \subseteq Connections /\ publishing \subseteq Connections
  /\ muted \in [Connections -> SUBSET (Connections \cup Everything)]
  /\ received \in [Connections -> Nat] /\ accepted \in [Connections -> Nat]
  /\ published \in [Connections -> Nat]
  /\ busy \in [Connections -> {"no", "answer", "stopping"}]
  /\ queue \in [Connections -> Seq(Frames)]
  /\ \A c \in Connections : Len(queue[c]) <= Capacity
  /\ drain \in [Connections -> {"idle", "sending", "sent", "failed", "ending"}]
  /\ outbox \in [Connections -> Seq(Envelopes)]
  /\ heard \in [Connections -> [Connections -> Nat]]
  /\ view \in [Followed -> (SUBSET Sessions) \cup {Unknown}]

Init ==
  /\ members = [s \in Sessions |-> {}]
  /\ untold = [c \in Followed |-> {}] /\ removed = {}
  /\ open = Connections /\ publishing = {}
  /\ muted = [c \in Connections |-> {}]
  /\ received = [c \in Connections |-> 0] /\ accepted = [c \in Connections |-> 0]
  /\ published = [c \in Connections |-> 0]
  /\ busy = [c \in Connections |-> "no"]
  /\ queue = [c \in Connections |-> <<>>]
  /\ drain = [c \in Connections |-> "idle"]
  /\ outbox = [c \in Connections |-> <<>>]
  /\ heard = [c \in Connections |-> [p \in Connections |-> 0]]
  /\ view = [c \in Followed |-> {}]

\* createSessionDescriptors: what a connection is told of its sessions.
SessionsOf(c) == {s \in Sessions : c \in members[s]}
Peers(c) == UNION {members[s] : s \in SessionsOf(c)} \ {c}
RouteAllowed(l, p) == muted[l] \cap (Everything \cup {p}) = {}

\* sendEnvelope: e goes to the end of the chain of every open connection of C.
Sent(C, e(_)) ==
  [c \in Connections |-> IF c \in C \cap open THEN Append(outbox[c], e(c)) ELSE outbox[c]]

\* The client of c, if its beliefs are followed, believes S now.
Believing(c, S) == [d \in Followed |-> IF d = c THEN S ELSE view[d]]

\* close(): the queue goes, what was not sent is rejected, the connection is
\* suspended; the state of the old transport is of no use to the next.
Close(c) ==
  /\ open' = open \ {c}
  /\ busy' = [busy EXCEPT ![c] = "no"]
  /\ queue' = [queue EXCEPT ![c] = <<>>]
  /\ drain' = [drain EXCEPT ![c] = "idle"]
  /\ outbox' = [outbox EXCEPT ![c] = <<>>]
  /\ view' = Believing(c, Unknown)

-----------------------------------------------------------------------------
(* Sessions and transports *)

\* A mutant: who left is not told.
SessionChanges_Remaining(s, M) ==
  /\ M # members[s] /\ Cardinality(M) # 1 /\ (M \ members[s]) \cap removed = {}
  /\ M \subseteq members[s] \/ members[s] \subseteq M
  /\ \A c \in Connections : \A i \in DOMAIN outbox[c] : outbox[c][i].kind # "session"
  /\ members' = [members EXCEPT ![s] = M]
  /\ outbox' = Sent(M, LAMBDA c : Joined(s))
  /\ UNCHANGED <<untold, removed, open, controlVars, sequenceVars, busy, queue, drain, clientVars>>

\* handleDedicatedSessionEvent: everyone concerned is told of the new membership.
\* The events of a batch come one after the other, each when its messages are sent.
SessionChanges(s, M) ==
  /\ M # members[s] /\ Cardinality(M) # 1 /\ (M \ members[s]) \cap removed = {}
  /\ M \subseteq members[s] \/ members[s] \subseteq M
  /\ \A c \in Connections : \A i \in DOMAIN outbox[c] : outbox[c][i].kind # "session"
  /\ members' = [members EXCEPT ![s] = M]
  /\ outbox' = Sent(members[s] \cup M, LAMBDA c : IF c \in M THEN Joined(s) ELSE Left(s))
  /\ untold' = [c \in Followed |->
       IF c \in members[s] \cup M THEN untold[c] \ {s} ELSE untold[c]]
  /\ UNCHANGED <<removed, open, controlVars, sequenceVars, busy, queue, drain, clientVars>>

\* The peer closes, or a time-out of the transport.
TransportCloses(c) ==
  /\ c \in open
  /\ Close(c)
  /\ UNCHANGED <<envVars, controlVars, sequenceVars, heard>>

\* The sessions have the participants M now, and nobody is told (VoiceSessionRegistry).
ChangeSilently(M) ==
  /\ members' = M
  /\ untold' = [c \in Followed |->
       untold[c] \cup {s \in Sessions : c \in members[s] \ M[s]}]

\* removeParticipant for every session of c: one with nobody else to talk to is closed.
Without(c) ==
  [s \in Sessions |->
     IF c \in members[s] /\ Cardinality(members[s]) = 2 THEN {} ELSE members[s] \ {c}]

\* expireConnection of a suspended connection, or closeConnectionImmediately when a
\* transport closes for good; the others are told by neither.
RemoveConnection(c) ==
  /\ c \notin removed
  /\ removed' = removed \cup {c}
  /\ ChangeSilently(Without(c))
  /\ muted' = [l \in Connections |-> IF l = c THEN {} ELSE muted[l] \ {c}]
  /\ accepted' = [accepted EXCEPT ![c] = 0]
  /\ IF c \in open THEN Close(c) ELSE UNCHANGED <<open, busy, sendVars, view>>
  /\ UNCHANGED <<publishing, received, published, heard>>

\* closeByServerId of a server that is gone or has another epoch, whose sessions were S.
SessionsEnd(S) ==
  /\ \A s \in S : members[s] # {}
  /\ ChangeSilently([s \in Sessions |-> IF s \in S THEN {} ELSE members[s]])
  /\ UNCHANGED <<removed, open, controlVars, sequenceVars, busy, sendVars, clientVars>>

\* handleAuthenticated on a new transport, whose sequences start again.
Resume(c) ==
  /\ c \notin open \cup removed
  /\ open' = open \cup {c}
  /\ received' = [received EXCEPT ![c] = 0]
  /\ accepted' = [accepted EXCEPT ![c] = 0]
  /\ busy' = [busy EXCEPT ![c] = "answer"]
  /\ outbox' = [outbox EXCEPT ![c] = <<Snapshot(SessionsOf(c))>>]
  /\ untold' = [d \in Followed |-> IF d = c THEN {} ELSE untold[d]]
  /\ UNCHANGED <<members, removed, controlVars, published, queue, drain, clientVars>>

-----------------------------------------------------------------------------
(* Packets *)

\* A packet of an open transport; those of a listener are not counted.
Receive(c) ==
  /\ c \in open /\ busy[c] = "no" /\ received[c] < MaxPackets
  /\ received' = IF c \in Publishers THEN [received EXCEPT ![c] = @ + 1] ELSE received

Answer(c, e) ==
  /\ busy' = [busy EXCEPT ![c] = "answer"]
  /\ outbox' = [outbox EXCEPT ![c] = Append(@, e)]
  /\ UNCHANGED <<open, queue, drain>>

PublishStart(c) ==
  /\ c \in Publishers /\ Receive(c)
  /\ publishing' = publishing \cup {c}
  /\ Answer(c, Ack)
  /\ UNCHANGED <<envVars, muted, accepted, published, clientVars>>

\* handlePublishStop to its first await: the peers are told, on their chains.
PublishStop(c) ==
  /\ c \in Publishers /\ Receive(c)
  /\ \A l \in Peers(c) : Len(outbox[l]) < MaxChain
  /\ publishing' = publishing \ {c}
  /\ busy' = [busy EXCEPT ![c] = "stopping"]
  /\ outbox' = Sent(Peers(c), LAMBDA l : Stop(c))
  /\ UNCHANGED <<envVars, open, muted, accepted, published, queue, drain, clientVars>>

Told(c) == \A l \in Connections : \A i \in DOMAIN outbox[l] : outbox[l][i] # Stop(c)

\* Promise.allSettled: each of them was sent, refused or lost its transport.
StopForwarded(c) ==
  /\ busy[c] = "stopping" /\ Told(c)
  /\ Answer(c, Ack)
  /\ UNCHANGED <<envVars, controlVars, sequenceVars, clientVars>>

\* applyChange of the mute registry.
ApplyChange(c, what, on) ==
  muted' = [muted EXCEPT ![c] = IF on THEN @ \cup {what} ELSE @ \ {what}]

\* handleListenerMuteChanged; a mute of someone who is no peer closes the transport.
Mute(c, what, on) ==
  /\ Receive(c)
  /\ IF what \in Everything \cup Peers(c)
     THEN /\ ApplyChange(c, what, on)
          /\ Answer(c, Ack) /\ UNCHANGED view
     ELSE Close(c) /\ UNCHANGED muted
  /\ UNCHANGED <<envVars, publishing, accepted, published, heard>>

\* handleReconnectRequest: the sessions are read, the result is sent, and then the
\* snapshot of those sessions.
ReconnectRequest(c) ==
  /\ c \in Requesting /\ Receive(c)
  /\ Answer(c, Result(SessionsOf(c)))
  /\ UNCHANGED <<envVars, controlVars, accepted, published, clientVars>>

-----------------------------------------------------------------------------
(* Frames *)

\* A mutant: the sequence of the transport, which starts again after a resumption.
Logical_OfTransport(c, n) == n

\* logicalPublishedSequence.
Logical(c, n) == IF n > published[c] THEN n ELSE published[c] + 1

\* updateSequences of the connection record
UpdateSequences(c, n) ==
  /\ n >= published[c]
  /\ published' = [published EXCEPT ![c] = n]

\* A full queue drops its oldest frame.
Pushed(q, f) == Append(IF Len(q) < Capacity THEN q ELSE Tail(q), f)

\* enqueueMediaEnvelope for the listeners L: an idle drain takes the frame at once.
Enqueue(L, f) ==
  /\ queue' = [l \in Connections |->
       IF l \in L /\ drain[l] # "idle" THEN Pushed(queue[l], f) ELSE queue[l]]
  /\ outbox' = Sent({l \in L : drain[l] = "idle"}, LAMBDA l : f)
  /\ drain' = [l \in Connections |->
       IF l \in L /\ drain[l] = "idle" THEN "sending" ELSE drain[l]]

\* The listeners of c; too many of them, and nobody gets the frame.
Listeners(c) ==
  IF Cardinality(Peers(c)) > MaxFanOut THEN {}
  ELSE {l \in Peers(c) : RouteAllowed(l, c) /\ l \in open}

\* forwardVoiceFrame, which does not wait for the frame to be sent
ForwardVoiceFrame(c, L) == Enqueue(L, Frame(c, published'[c]))

\* A frame of somebody who does not publish closes the transport.
UnexpectedFrame(c) ==
  /\ Receive(c) /\ c \in Publishers \ publishing
  /\ Close(c)
  /\ UNCHANGED <<envVars, controlVars, accepted, published, heard>>

\* The flow guard finds the frame too old, too early after others or out of order.
FrameRefused(c) ==
  /\ Receive(c) /\ c \in publishing
  /\ UNCHANGED <<envVars, open, controlVars, accepted, published, busy, sendVars, clientVars>>

VoiceFrame(c) ==
  /\ Receive(c) /\ c \in publishing
  /\ published[c] < MaxFrames
  /\ accepted[c] < received'[c]
  /\ accepted' = [accepted EXCEPT ![c] = received'[c]]
  /\ UpdateSequences(c, Logical(c, received'[c]))
  /\ ForwardVoiceFrame(c, Listeners(c))
  /\ UNCHANGED <<envVars, open, controlVars, busy, clientVars>>

-----------------------------------------------------------------------------
(* The chain of sends, and the drain of the media queue *)

\* What the client makes of an envelope.
Hears(c, e) ==
  CASE e.kind = "frame" -> heard' = [heard EXCEPT ![c][e.from] = e.id] /\ UNCHANGED view
    [] e.kind = "session" ->
         /\ view' = [d \in Followed |->
              IF d # c \/ view[d] = Unknown THEN view[d]
              ELSE IF e.in THEN view[d] \cup {e.session} ELSE view[d] \ {e.session}]
         /\ UNCHANGED heard
    [] e.kind = "snapshot" ->
         view' = Believing(c, e.view) /\ UNCHANGED heard
    [] OTHER -> UNCHANGED clientVars

\* The head of the chain is sent, and whoever waits for it goes on.
SendSucceeds(c) ==
  /\ outbox[c] # <<>>
  /\ LET e == Head(outbox[c])
     IN /\ Hears(c, e)
        /\ outbox' = [outbox EXCEPT ![c] =
             IF e.kind = "result" THEN Append(Tail(@), Snapshot(e.view)) ELSE Tail(@)]
        /\ busy' = IF e.kind \in {"ack", "snapshot"} THEN [busy EXCEPT ![c] = "no"] ELSE busy
        /\ drain' = IF e.kind = "frame" THEN [drain EXCEPT ![c] = "sent"] ELSE drain
  /\ UNCHANGED <<envVars, open, controlVars, sequenceVars, queue>>

\* It fails, by backpressure or its time-out: an answer closes the transport,
\* others are given up.
SendFails(c) ==
  /\ outbox[c] # <<>>
  /\ LET e == Head(outbox[c])
     IN IF e.kind \in {"ack", "result", "snapshot"}
        THEN Close(c)
        ELSE /\ outbox' = [outbox EXCEPT ![c] = Tail(@)]
             /\ drain' = IF e.kind = "frame" THEN [drain EXCEPT ![c] = "failed"] ELSE drain
             /\ view' = IF e.kind = "session" THEN Believing(c, Unknown) ELSE view
             /\ UNCHANGED <<open, busy, queue>>
  /\ UNCHANGED <<envVars, controlVars, sequenceVars, heard>>

\* drainMediaQueue takes the next frame.
DrainNext(c) ==
  /\ drain[c] = "sent" /\ queue[c] # <<>>
  /\ queue' = [queue EXCEPT ![c] = Tail(@)]
  /\ outbox' = [outbox EXCEPT ![c] = Append(@, Head(queue[c]))]
  /\ drain' = [drain EXCEPT ![c] = "sending"]
  /\ UNCHANGED <<envVars, open, controlVars, sequenceVars, busy, clientVars>>

DropStale(c) ==
  /\ drain[c] = "sent" /\ queue[c] # <<>>
  /\ queue' = [queue EXCEPT ![c] = Tail(@)]
  /\ UNCHANGED <<envVars, open, controlVars, sequenceVars, busy, drain, outbox, clientVars>>

\* The queue is empty, or a frame failed and takes the queue along.
DrainReturns(c) ==
  /\ drain[c] = "failed" \/ (drain[c] = "sent" /\ queue[c] = <<>>)
  /\ queue' = [queue EXCEPT ![c] = <<>>]
  /\ drain' = [drain EXCEPT ![c] = "ending"]
  /\ UNCHANGED <<envVars, open, controlVars, sequenceVars, busy, outbox, clientVars>>

\* A mutant: the queue is not looked at again.
DrainEnds_NoRestart(c) ==
  /\ drain[c] = "ending"
  /\ drain' = [drain EXCEPT ![c] = "idle"]
  /\ UNCHANGED <<envVars, open, controlVars, sequenceVars, busy, queue, outbox, clientVars>>

\* The drain's promise settles; frames that came meanwhile start it again.
DrainEnds(c) ==
  /\ drain[c] = "ending"
  /\ drain' = [drain EXCEPT ![c] = IF queue[c] = <<>> THEN "idle" ELSE "sent"]
  /\ UNCHANGED <<envVars, open, controlVars, sequenceVars, busy, queue, outbox, clientVars>>

-----------------------------------------------------------------------------

Send(c) == SendSucceeds(c) \/ SendFails(c)
Drain(c) == DrainNext(c) \/ DropStale(c) \/ DrainReturns(c) \/ DrainEnds(c)

Next ==
  \/ \E s \in Sessions, M \in SUBSET Connections : SessionChanges(s, M)
  \/ \E S \in (SUBSET Sessions) \ {{}} : SessionsEnd(S)
  \/ \E c \in Connections :
       \/ TransportCloses(c) \/ RemoveConnection(c) \/ Resume(c)
       \/ PublishStart(c) \/ PublishStop(c) \/ StopForwarded(c) \/ ReconnectRequest(c)
       \/ UnexpectedFrame(c) \/ FrameRefused(c) \/ VoiceFrame(c)
       \/ SendSucceeds(c) \/ SendFails(c)
       \/ DrainNext(c) \/ DropStale(c) \/ DrainReturns(c) \/ DrainEnds(c)
  \/ \E m \in Mutes, on \in BOOLEAN : Mute(m[1], m[2], on)

\* A send ends, by its time-out if need be, and continuations run.
Fairness ==
  \A c \in Connections : WF_vars(Send(c)) /\ WF_vars(Drain(c)) /\ WF_vars(StopForwarded(c))

Spec == Init /\ [][Next]_vars /\ Fairness

-----------------------------------------------------------------------------
(* Properties *)

\* What is on its way to c, in the order in which c will hear it.
OnTheirWay(c) == outbox[c] \o queue[c]

\* A listener hears the frames of a publisher in the order in which they were
\* published, and none twice: through drops, failures, several common sessions and
\* the publisher's next transport, whose sequences start again (handleVoiceFrame,
\* enqueueMediaEnvelope, drainMediaQueue).
FramesInOrder ==
  \A c, p \in Connections :
    LET way == OnTheirWay(c)
        Of(i) == way[i].kind = "frame" /\ way[i].from = p
    IN \A i \in 1..Len(way) :
         Of(i) => /\ way[i].id > heard[c][p]
                  /\ \A j \in 1..(i - 1) : Of(j) => way[i].id > way[j].id

\* What a client believes, when every message about its sessions was sent and nothing
\* is on its way to it: that it is in its sessions, and in those that ended without a
\* message to it, with another's connection or with the server. So it is misled by
\* these only, and one that resumed by none before its snapshot, whatever events,
\* failed sends and resumptions came. Who else is in a session that goes on is not
\* part of the belief (handleDedicatedSessionEvent,
\* sendSessionSnapshotToConnection, closeByConnectionId, closeByServerId).
Informed(c) == c \in open /\ view[c] # Unknown /\ outbox[c] = <<>>
ClientsKnowTheirSessions ==
  \A c \in Followed : Informed(c) => view[c] = SessionsOf(c) \cup untold[c]

\* No frame stays in a queue that nobody drains (the `finally` of
\* ensureMediaDrainRunning).
QueuesDrain ==
  \A c \in Connections : (queue[c] # <<>>) ~> (queue[c] = <<>>)
=============================================================================
