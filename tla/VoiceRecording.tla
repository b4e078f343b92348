--------------------------- MODULE VoiceRecording ---------------------------
(***************************************************************************)
(* The recording of one voice session: the record that the service keeps   *)
(* (voiceRecordingService.js), its client of a worker thread, the worker   *)
(* (voiceRecordingWorker.js) with the two queues between them, and the     *)
(* observer that tells the service of session events                       *)
(* (createVoiceV5RuntimeServices.js).                                      *)
(*                                                                         *)
(* The service counts a participant as a member with or without consent;   *)
(* the worker has a view of its own, built from the participants it was    *)
(* started with and the messages after that.                               *)
(*                                                                         *)
(* When the worker answers `started`, the awaits of the consents and of a  *)
(* finalization that wait for it resume in the same turn of the event      *)
(* loop, before any other handler, so that answer is one step.             *)
(*                                                                         *)
(* Abstracted: the audio, times and segments.  The files of the session    *)
(* are one value; process exit is Restart, after which the storage is      *)
(* initialized again and the session does not return.                      *)
(***************************************************************************)
EXTENDS Naturals, Sequences, SequencesExt, FiniteSets

CONSTANTS
  Connections,
  MaxPendingFrames,  \* maximumPendingFrames of the policy
  MaxMessages        \* bound: messages under way when a call adds to them

ASSUME RecordingAssumption ==
  /\ IsFiniteSet(Connections)
  /\ MaxPendingFrames \in Nat /\ MaxMessages \in Nat

VARIABLES
  session,   \* participants of the registry's session, none when it is closed
  state,     \* state of the record
  consents,  \* consentsByConnectionId
  starting,  \* startPromise
  waiting,   \* connections whose updateConsent awaits the start
  detached,  \* those of them whose consent has left the map meanwhile
  closing,   \* does a finalization await the start?
  client,    \* the worker client
  inbox,     \* messages to the worker
  outbox,    \* messages from the worker
  view,      \* participantsByConnectionId of the worker
  files      \* the directory of the session

recordVars == <<state, consents>>
startVars == <<starting, waiting, detached, closing>>
threadVars == <<client, inbox, outbox, view>>
vars == <<session, recordVars, startVars, threadVars, files>>

About(type, c) == [type |-> type, of |-> c]
Start(participants) == [type |-> "start", view |-> participants]
Stop == [type |-> "stop"]

Messages ==
  {About(type, c) : type \in {"joined", "left", "granted", "revoked", "frame"},
                    c \in Connections}
  \cup {Start(v) : v \in [Connections -> {"unknown", "no", "yes"}]} \cup {Stop}

Unknown == [c \in Connections |-> "unknown"]
NoClient == [started |-> FALSE, stopped |-> FALSE, failed |-> FALSE, pending |-> 0]

TypeOK ==
  /\ session \subseteq Connections
  /\ state \in {"none", "waiting_consent", "recording", "finalizing", "ready",
                "failed", "declined"}
  /\ consents \in [Connections -> {"none", "no", "yes"}]
  /\ starting \in BOOLEAN /\ closing \in BOOLEAN
  /\ waiting \subseteq Connections /\ detached \subseteq Connections
  /\ client \in [started : BOOLEAN, stopped : BOOLEAN, failed : BOOLEAN, pending : Nat]
  /\ inbox \in Seq(Messages)
  /\ outbox \in Seq({"started", "frame_written", "failed", "ready"})
  /\ view \in [Connections -> {"unknown", "left", "no", "yes"}]
  /\ files \in {"none", "audio", "complete", "partial", "quarantined"}

Init ==
  /\ session = {} /\ state = "none"
  /\ consents = [c \in Connections |-> "none"]
  /\ starting = FALSE /\ waiting = {} /\ detached = {} /\ closing = FALSE
  /\ client = NoClient /\ inbox = <<>> /\ outbox = <<>>
  /\ view = Unknown /\ files = "none"

-----------------------------------------------------------------------------
(* Messages to the worker *)

Room == Len(inbox) + Len(outbox) < MaxMessages

Writable == client.started /\ ~client.stopped /\ ~client.failed

\* The client drops what it is told before `started`, after a stop or a failure.
Posted(messages) == IF Writable THEN inbox \o messages ELSE inbox

Members == {c \in Connections : consents[c] # "none"}

\* Messages about the members that the snapshot S of the session adds and lacks.
\* Before the start has ended there is no worker client to tell.
Changes(S) ==
  [i \in 1..Cardinality(Members \ S) |-> About("left", SetToSeq(Members \ S)[i])] \o
  [i \in 1..Cardinality(S \ Members) |-> About("joined", SetToSeq(S \ Members)[i])]

\* applySessionMembershipSnapshot: who joins has not consented, whatever he did before.
Synchronized(S) ==
  [c \in Connections |-> CASE c \notin S -> "none"
                           [] c \in S \ Members -> "no"
                           [] OTHER -> consents[c]]

Synchronize(S) ==
  /\ consents' = Synchronized(S)
  /\ detached' = detached \cup (waiting \ S)
  /\ waiting' = waiting \cap S
  /\ inbox' = Posted(Changes(S))

-----------------------------------------------------------------------------
(* The end of a recording *)

\* finalizeSession after a start has ended: a client that has failed rejects the
\* stop that it posts all the same.
Close ==
  CASE state = "recording" ->
         /\ state' = IF client.failed THEN "failed" ELSE "finalizing"
         /\ client' = [client EXCEPT !.stopped = TRUE]
         /\ inbox' = Append(inbox, Stop)
    [] state \in {"ready", "finalizing"} -> UNCHANGED <<state, client, inbox>>
    [] OTHER -> state' = "declined" /\ UNCHANGED <<client, inbox>>

\* A mutant: the finalization does not wait for a start.
Finalize_NoWait == Close /\ UNCHANGED closing

\* finalizeSession
Finalize ==
  IF starting THEN closing' = TRUE /\ UNCHANGED <<state, client, inbox>>
  ELSE Close /\ UNCHANGED closing

-----------------------------------------------------------------------------
(* Events of the session and their observer *)

\* session_created: registerSession
SessionCreated(S) ==
  /\ state = "none" /\ files = "none" /\ Cardinality(S) = 2
  /\ session' = S /\ state' = "waiting_consent"
  /\ consents' = [c \in Connections |-> IF c \in S THEN "no" ELSE "none"]
  /\ UNCHANGED <<startVars, threadVars, files>>

\* member_joined
MemberJoined(c) ==
  /\ session # {} /\ c \notin session /\ Room
  /\ session' = session \cup {c}
  /\ Synchronize(session \cup {c})
  /\ UNCHANGED <<state, starting, closing, client, outbox, view, files>>

\* member_left of a session that goes on
MemberLeft(c) ==
  /\ c \in session /\ Cardinality(session) > 2 /\ Room
  /\ session' = session \ {c}
  /\ Synchronize(session \ {c})
  /\ UNCHANGED <<state, starting, closing, client, outbox, view, files>>

\* session_closed, or member_left of the last pair
SessionClosed ==
  /\ session # {} /\ session' = {}
  /\ Finalize
  /\ UNCHANGED <<consents, starting, waiting, detached, outbox, view, files>>

\* A connection expires or the authority changes: no event, the recording is not told.
ConnectionExpires(c) ==
  /\ c \in session
  /\ session' = IF Cardinality(session) > 2 THEN session \ {c} ELSE {}
  /\ UNCHANGED <<recordVars, startVars, threadVars, files>>

\* stop: finalizeAll when the process shuts down.
Shutdown ==
  /\ state = "recording"
  /\ Close
  /\ UNCHANGED <<session, consents, startVars, outbox, view, files>>

-----------------------------------------------------------------------------
(* Consents and frames *)

\* updateConsent with the registry's session, which synchronizes the record first.
\* Consents given before the recording has started share one start, whose worker is told
\* of the consents that were given when it began.
UpdateConsent(c, consented) ==
  LET now == [Synchronized(session) EXCEPT ![c] = IF consented THEN "yes" ELSE "no"]
      said == About(IF consented THEN "granted" ELSE "revoked", c)
      awaits == consented /\ state = "waiting_consent"
      starts == awaits /\ ~starting
      begin == [d \in Connections |-> IF d \in session THEN now[d] ELSE "unknown"]
  IN
  /\ Room
  /\ consents' = now
  /\ waiting' = (waiting \cap session) \cup (IF awaits THEN {c} ELSE {})
  /\ detached' = detached \cup (waiting \ session)
  /\ starting' = (starting \/ starts)
  /\ inbox' = CASE starts -> <<Start(begin)>>
                [] state = "recording" -> Posted(Append(Changes(session), said))
                [] OTHER -> Posted(Changes(session))
  /\ IF starts
       THEN client' = NoClient /\ outbox' = <<>> /\ view' = Unknown
       ELSE UNCHANGED <<client, outbox, view>>
  /\ UNCHANGED <<session, state, closing, files>>

\* handleRecordingConsentChanged of the routing application drops the consent of
\* somebody who is in no active session of that id.
RecordingConsentChanged(c, consented) == c \in session /\ UpdateConsent(c, consented)

\* captureFrame writes the frame of a member who consents,
Captures(c) == c \in session /\ state = "recording" /\ consents[c] = "yes"

CaptureFrame(c) ==
  /\ Captures(c) /\ Writable /\ client.pending < MaxPendingFrames /\ Room
  /\ inbox' = Append(inbox, About("frame", c))
  /\ client' = [client EXCEPT !.pending = @ + 1]
  /\ UNCHANGED <<session, recordVars, startVars, outbox, view, files>>

\* gives the recording up when too many frames are pending,
CaptureOverflows(c) ==
  /\ Captures(c) /\ Writable /\ client.pending >= MaxPendingFrames
  /\ state' = "failed"
  /\ client' = [client EXCEPT !.failed = TRUE] /\ inbox' = <<>>
  /\ UNCHANGED <<session, consents, startVars, outbox, view, files>>

\* and ends it after its maximum duration.
CaptureEnds(c) ==
  /\ Captures(c)
  /\ Close
  /\ UNCHANGED <<session, consents, startVars, outbox, view, files>>

-----------------------------------------------------------------------------
(* The worker: one message at a time, in order *)

\* Participant state after a message about it.
Turned(was, type) ==
  CASE type = "joined" -> "no"
    [] type = "left" -> IF was = "unknown" THEN was ELSE "left"
    [] type = "granted" /\ was \in {"no", "yes"} -> "yes"
    [] type = "revoked" /\ was \in {"no", "yes"} -> "no"
    [] OTHER -> was

After(v, message) ==
  CASE message.type = "start" -> message.view
    [] message.type = "stop" -> v
    [] OTHER -> [v EXCEPT ![message.of] = Turned(@, message.type)]

\* updateConsent and writeFrame throw.
Rejects(v, message) ==
  \/ message.type \in {"granted", "revoked"} /\ v[message.of] = "unknown"
  \/ message.type = "frame" /\ v[message.of] # "yes"

Answer(type) == outbox' = Append(outbox, type)

HandleMessage ==
  /\ inbox # <<>> /\ Head(inbox).type # "stop"
  /\ ~Rejects(view, Head(inbox))
  /\ inbox' = Tail(inbox)
  /\ view' = After(view, Head(inbox))
  /\ files' = IF Head(inbox).type = "start" THEN "partial" ELSE files
  /\ CASE Head(inbox).type = "start" -> Answer("started")
       [] Head(inbox).type = "frame" -> Answer("frame_written")
       [] OTHER -> UNCHANGED outbox
  /\ UNCHANGED <<session, recordVars, startVars, client>>

\* The worker rejects a message, or its files fail: it answers `failed` and goes on
\* with its next message.  A consent is revoked before its segment is closed.
MessageFails ==
  /\ inbox # <<>>
  /\ \/ Rejects(view, Head(inbox))
     \/ Head(inbox).type \in {"start", "left", "revoked", "frame", "stop"}
  /\ inbox' = Tail(inbox)
  /\ view' = IF Head(inbox).type = "revoked" THEN After(view, Head(inbox)) ELSE view
  /\ files' \in {files} \cup (IF Head(inbox).type = "start" THEN {"partial"} ELSE {})
  /\ Answer("failed")
  /\ UNCHANGED <<session, recordVars, startVars, client>>

\* stopSession renames the mixed audio first,
WriteAudio ==
  /\ inbox # <<>> /\ Head(inbox) = Stop /\ files = "partial"
  /\ files' = "audio"
  /\ UNCHANGED <<session, recordVars, startVars, threadVars>>

\* A mutant: the answer is sent when the audio is written.
WriteMetadata_Early ==
  /\ inbox # <<>> /\ Head(inbox) = Stop /\ files \in {"partial", "audio"}
  /\ inbox' = Tail(inbox) /\ view' = Unknown
  /\ Answer("ready")
  /\ UNCHANGED <<session, recordVars, startVars, client, files>>

\* then the metadata, and answers.
WriteMetadata ==
  /\ inbox # <<>> /\ Head(inbox) = Stop /\ files = "audio"
  /\ files' = "complete"
  /\ inbox' = Tail(inbox) /\ view' = Unknown
  /\ Answer("ready")
  /\ UNCHANGED <<session, recordVars, startVars, client>>

-----------------------------------------------------------------------------
(* The answers of the worker *)

\* A mutant: consents given during the start are not told afterwards.
Resumed_OnlyDetached == [i \in 1..Cardinality(detached) |-> About("granted", SetToSeq(detached)[i])]

\* What the resumed updateConsent calls say: the consent that each one holds.
Resumed ==
  [i \in 1..Cardinality(detached) |-> About("granted", SetToSeq(detached)[i])] \o
  [i \in 1..Cardinality(waiting) |->
     LET c == SetToSeq(waiting)[i]
     IN About(IF consents[c] = "yes" THEN "granted" ELSE "revoked", c)]

HandleStarted ==
  /\ outbox # <<>> /\ Head(outbox) = "started"
  /\ outbox' = Tail(outbox)
  /\ starting' = FALSE /\ waiting' = {} /\ detached' = {} /\ closing' = FALSE
  /\ state' = IF closing THEN "finalizing" ELSE "recording"
  /\ client' = [client EXCEPT !.started = TRUE, !.stopped = closing]
  /\ inbox' = inbox \o Resumed \o (IF closing THEN <<Stop>> ELSE <<>>)
  /\ UNCHANGED <<session, consents, view, files>>

HandleFrameWritten ==
  /\ outbox # <<>> /\ Head(outbox) = "frame_written"
  /\ outbox' = Tail(outbox)
  /\ client' = [client EXCEPT !.pending = IF @ > 0 THEN @ - 1 ELSE 0]
  /\ UNCHANGED <<session, recordVars, startVars, inbox, view, files>>

\* A mutant: a failure does not reject the stop that waits.
HandleFailed_StopWaits ==
  /\ outbox # <<>> /\ Head(outbox) = "failed"
  /\ outbox' = Tail(outbox)
  /\ client' = [client EXCEPT !.failed = TRUE]
  /\ starting' = FALSE /\ waiting' = {} /\ detached' = {} /\ closing' = FALSE
  /\ UNCHANGED <<session, recordVars, inbox, view, files>>

\* fail rejects the start or the stop that waits.  A start that failed leaves the
\* record as it was, for the next consent to start it again.
HandleFailed ==
  /\ outbox # <<>> /\ Head(outbox) = "failed"
  /\ outbox' = Tail(outbox)
  /\ client' = [client EXCEPT !.failed = TRUE]
  /\ starting' = FALSE /\ waiting' = {} /\ detached' = {} /\ closing' = FALSE
  /\ state' = IF state = "finalizing" THEN "failed" ELSE state
  /\ UNCHANGED <<session, consents, inbox, view, files>>

\* The answer to a stop that a failure has rejected already changes nothing.
HandleReady ==
  /\ outbox # <<>> /\ Head(outbox) = "ready"
  /\ outbox' = Tail(outbox)
  /\ state' = IF state = "finalizing" THEN "ready" ELSE state
  /\ UNCHANGED <<session, consents, startVars, client, inbox, view, files>>

\* The process ends and starts: initializeStorage sets aside a directory that lacks
\* one of the two files.
Restart ==
  /\ state # "none"
  /\ session' = {} /\ state' = "none"
  /\ consents' = [c \in Connections |-> "none"]
  /\ starting' = FALSE /\ waiting' = {} /\ detached' = {} /\ closing' = FALSE
  /\ client' = NoClient /\ inbox' = <<>> /\ outbox' = <<>> /\ view' = Unknown
  /\ files' = IF files \in {"none", "complete"} THEN files ELSE "quarantined"

WorkerSteps == HandleMessage \/ MessageFails \/ WriteAudio \/ WriteMetadata
Answers == HandleStarted \/ HandleFrameWritten \/ HandleFailed \/ HandleReady

Next ==
  \/ \E S \in SUBSET Connections : SessionCreated(S)
  \/ \E c \in Connections :
       \/ MemberJoined(c) \/ MemberLeft(c) \/ ConnectionExpires(c)
       \/ RecordingConsentChanged(c, TRUE) \/ RecordingConsentChanged(c, FALSE)
       \/ CaptureFrame(c) \/ CaptureOverflows(c) \/ CaptureEnds(c)
  \/ SessionClosed \/ Shutdown \/ Restart
  \/ WorkerSteps \/ Answers

\* The worker and the main thread go on handling the messages in their queues.
Fairness == WF_vars(WorkerSteps) /\ WF_vars(Answers)

Spec == Init /\ [][Next]_vars /\ Fairness

-----------------------------------------------------------------------------
(* Properties *)

\* The worker's view when it comes to the i-th message of its queue.
ViewAt[i \in 1 .. Len(inbox) + 1] ==
  IF i = 1 THEN view ELSE After(ViewAt[i - 1], inbox[i - 1])

\* Consents, revocations, departures and frames reach the worker in an order in which
\* it never finds a frame of a participant it knows to be gone or not to consent: it
\* would give the whole recording up (writeFrame throws).
FramesFollowConsent ==
  \A i \in DOMAIN inbox :
    inbox[i].type = "frame" => ViewAt[i][inbox[i].of] \in {"yes", "unknown"}

\* A recording that the service reports as ready has its audio and its metadata, so
\* that a restart does not set it aside.
ReadyIsComplete == state = "ready" => files = "complete"

\* What has ended stays so until the process restarts: a start that was under way does
\* not turn a declined recording on, nothing undoes a ready one, and a failed one can
\* only be declined.
EndedStaysEnded ==
  [][/\ state \in {"ready", "declined"} => state' \in {state, "none"}
     /\ state = "failed" => state' \in {"failed", "declined", "none"}]_vars

\* A finalization ends: whatever fails in the worker, before it or during it, the stop
\* is answered or rejected.
FinalizationEnds == state = "finalizing" ~> state # "finalizing"
=============================================================================
