---------------------------- MODULE VoicePayloads ----------------------------
(***************************************************************************)
(* The binary contract of the voice service: what every encoder refuses    *)
(* and writes, and what every decoder refuses and reads.  The server, its  *)
(* test clients and the client of the game write each of these checks      *)
(* twice, once on either side of the wire.                                 *)
(* Source: voice/protocol, voice/auth, voice/reconnect, voice/session,     *)
(* voice/routing, voice/directional and voice/recording, *Payload.js.      *)
(*                                                                         *)
(* A payload is a sequence of cells.  A cell stands for one field of fixed *)
(* width (an unsigned integer, the 16 bytes of a UUID) or for one character*)
(* of a text, so fixedBytes of a layout is its number of fields here, and  *)
(* the order of the fields is that of their offsets.  For the payload X,   *)
(* CanX says which messages the encoder accepts, EncodeX what it writes,   *)
(* AcceptsX which cells the decoder accepts, DecodeX what it reads.        *)
(*                                                                         *)
(* Abstracted: the width of a cell, to the largest value of its field; the *)
(* upper bounds of the sizes, to those below; the types of the arguments;  *)
(* bytes that are no UTF-8.  MAX_UINT32 and MAX_UINT64 are scaled.         *)
(***************************************************************************)
EXTENDS Integers, Sequences, SequencesExt

CONSTANTS
  Max16, Max32, Max64,  \* the largest value of a field
  MaxText,              \* maximum length of a text, in characters
  MaxEntries,           \* snapshotEntries
  Texts, Ids, Numbers,  \* the values of fields that are tried (bounds)
  Cells                 \* what a cell may be changed to (a bound)

ASSUME PayloadAssumption ==
  /\ {Max16, Max32, Max64} \subseteq Nat
  /\ MaxText \in 1 .. Max16 /\ MaxEntries \in 1 .. Max16

EmptyUuid == 0    \* VoiceBinaryProtocolConstants.emptyUuid
Nothing == -1     \* null
Blank == 0        \* a character that trim removes; the others are not 0

Bit(flag) == IF flag THEN 1 ELSE 0
Bits == {0, 1}

-----------------------------------------------------------------------------
(* Texts: auth, reconnect and session payloads trim them on either side. *)

Trim(text) ==
  LET inner == {i \in 1 .. Len(text) : text[i] # Blank}
  IN  IF inner = {} THEN <<>> ELSE SubSeq(text, Min(inner), Max(inner))

CanText(text, required) == Len(Trim(text)) <= MaxText /\ (required => Trim(text) # <<>>)

\* The n cells behind the first `from` cells.
Part(b, from, n) == SubSeq(b, from + 1, from + n)

AcceptsText(b, from, n, required) ==
  /\ n <= MaxText /\ from + n <= Len(b)
  /\ required => Trim(Part(b, from, n)) # <<>>

ReadText(b, from, n) == Trim(Part(b, from, n))

-----------------------------------------------------------------------------
(* The envelope of every message. *)

Magic == 77
Version == 1
HeaderLength == 11

CanEnvelope(m) ==
  /\ m.flags \in 0 .. Max16 /\ m.sequence \in 0 .. Max32
  /\ m.timestampMs \in 0 .. Max64 /\ Len(m.payload) <= Max32

EncodeEnvelope(m) ==
  <<Magic, m.version, m.messageType, m.flags, HeaderLength, 0, Len(m.payload),
    m.sequence, m.timestampMs, m.sessionId, m.senderId>> \o m.payload

\* A longer header is skipped, and the reserved field is not looked at.
AcceptsEnvelope(b) ==
  /\ Len(b) >= HeaderLength
  /\ b[1] = Magic /\ b[2] = Version
  /\ b[5] \in HeaderLength .. Len(b)
  /\ Len(b) = b[5] + b[7]

DecodeEnvelope(b) ==
  [version |-> b[2], messageType |-> b[3], flags |-> b[4], sequence |-> b[8],
   timestampMs |-> b[9], sessionId |-> b[10], senderId |-> b[11],
   payload |-> Part(b, b[5], b[7])]

-----------------------------------------------------------------------------
(* AUTH_REQUEST and AUTH_RESULT. *)

Platforms == 1 .. 3
Authenticated == 0
AuthResultCodes == 0 .. 10 \cup {255}

CanAuthRequest(m) ==
  /\ m.platform \in Platforms
  /\ CanText(m.accessToken, TRUE) /\ CanText(m.roomId, TRUE)
  /\ CanText(m.avatarId, TRUE) /\ CanText(m.clientBuild, FALSE)

EncodeAuthRequest(m) ==
  LET accessToken == Trim(m.accessToken)  roomId == Trim(m.roomId)
      avatarId == Trim(m.avatarId)  clientBuild == Trim(m.clientBuild)
  IN  <<m.platform, 0, Len(accessToken), Len(roomId), Len(avatarId), Len(clientBuild),
        m.clientInstanceId>> \o accessToken \o roomId \o avatarId \o clientBuild

\* A mutant: a room of blanks only is accepted.
AcceptsAuthRequest_BlankRoom(b) ==
  /\ Len(b) >= 7
  /\ b[1] \in Platforms /\ b[2] = 0
  /\ Len(b) = 7 + b[3] + b[4] + b[5] + b[6]
  /\ AcceptsText(b, 7, b[3], TRUE)
  /\ AcceptsText(b, 7 + b[3], b[4], FALSE)
  /\ AcceptsText(b, 7 + b[3] + b[4], b[5], TRUE)
  /\ AcceptsText(b, 7 + b[3] + b[4] + b[5], b[6], FALSE)

AcceptsAuthRequest(b) ==
  /\ Len(b) >= 7
  /\ b[1] \in Platforms /\ b[2] = 0
  /\ Len(b) = 7 + b[3] + b[4] + b[5] + b[6]
  /\ AcceptsText(b, 7, b[3], TRUE)
  /\ AcceptsText(b, 7 + b[3], b[4], TRUE)
  /\ AcceptsText(b, 7 + b[3] + b[4], b[5], TRUE)
  /\ AcceptsText(b, 7 + b[3] + b[4] + b[5], b[6], FALSE)

DecodeAuthRequest(b) ==
  [platform |-> b[1], clientInstanceId |-> b[7],
   accessToken |-> ReadText(b, 7, b[3]),
   roomId |-> ReadText(b, 7 + b[3], b[4]),
   avatarId |-> ReadText(b, 7 + b[3] + b[4], b[5]),
   clientBuild |-> ReadText(b, 7 + b[3] + b[4] + b[5], b[6])]

CanAuthResult(m) ==
  /\ m.code \in AuthResultCodes
  /\ m.success <=> m.code = Authenticated
  /\ m.success => m.voiceConnectionId # EmptyUuid
  /\ CanText(m.userId, m.success) /\ CanText(m.message, FALSE)

EncodeAuthResult(m) ==
  LET userId == Trim(m.userId)  message == Trim(m.message)
  IN  <<Bit(m.success), Bit(m.retryable), m.code, m.voiceConnectionId,
        Len(userId), Len(message)>> \o userId \o message

AcceptsAuthResult(b) ==
  /\ Len(b) >= 6
  /\ b[1] \in Bits /\ b[2] \in Bits
  /\ b[3] \in AuthResultCodes
  /\ b[1] = 1 <=> b[3] = Authenticated
  /\ b[1] = 1 => b[4] # EmptyUuid
  /\ Len(b) = 6 + b[5] + b[6]
  /\ AcceptsText(b, 6, b[5], b[1] = 1)
  /\ AcceptsText(b, 6 + b[5], b[6], FALSE)

DecodeAuthResult(b) ==
  [success |-> b[1] = 1, retryable |-> b[2] = 1, code |-> b[3],
   voiceConnectionId |-> b[4],
   userId |-> ReadText(b, 6, b[5]), message |-> ReadText(b, 6 + b[5], b[6])]

-----------------------------------------------------------------------------
(* RECONNECT_REQUEST and RECONNECT_RESULT. *)

Resumed == 0
ReconnectResultCodes == 0 .. 13 \cup {255}

CanReconnectRequest(m) ==
  /\ m.lastReceivedSequence \in 0 .. Max32 /\ m.lastPublishedSequence \in 0 .. Max32
  /\ m.disconnectedAtMs \in 0 .. Max64
  /\ CanText(m.accessToken, TRUE) /\ CanText(m.roomId, TRUE) /\ CanText(m.avatarId, TRUE)

EncodeReconnectRequest(m) ==
  LET accessToken == Trim(m.accessToken)  roomId == Trim(m.roomId)
      avatarId == Trim(m.avatarId)
  IN  <<m.previousVoiceConnectionId, m.clientInstanceId, m.lastReceivedSequence,
        m.lastPublishedSequence, m.disconnectedAtMs,
        Len(accessToken), Len(roomId), Len(avatarId), 0>>
      \o accessToken \o roomId \o avatarId

AcceptsReconnectRequest(b) ==
  /\ Len(b) >= 9
  /\ b[9] = 0
  /\ Len(b) = 9 + b[6] + b[7] + b[8]
  /\ AcceptsText(b, 9, b[6], TRUE)
  /\ AcceptsText(b, 9 + b[6], b[7], TRUE)
  /\ AcceptsText(b, 9 + b[6] + b[7], b[8], TRUE)

DecodeReconnectRequest(b) ==
  [previousVoiceConnectionId |-> b[1], clientInstanceId |-> b[2],
   lastReceivedSequence |-> b[3], lastPublishedSequence |-> b[4],
   disconnectedAtMs |-> b[5],
   accessToken |-> ReadText(b, 9, b[6]),
   roomId |-> ReadText(b, 9 + b[6], b[7]),
   avatarId |-> ReadText(b, 9 + b[6] + b[7], b[8])]

CanReconnectResult(m) ==
  /\ m.code \in ReconnectResultCodes
  /\ m.success <=> m.code = Resumed
  /\ m.success => m.voiceConnectionId # EmptyUuid
  /\ m.resumeFromSequence \in 0 .. Max32 /\ m.retainedSessionCount \in 0 .. Max16
  /\ m.serverTimeMs \in 0 .. Max64
  /\ CanText(m.message, FALSE)

EncodeReconnectResult(m) ==
  LET message == Trim(m.message)
  IN  <<Bit(m.success), Bit(m.retryable), m.code, m.voiceConnectionId,
        m.resumeFromSequence, m.serverTimeMs, m.retainedSessionCount, Len(message)>>
      \o message

AcceptsReconnectResult(b) ==
  /\ Len(b) >= 8
  /\ b[1] \in Bits /\ b[2] \in Bits
  /\ b[3] \in ReconnectResultCodes
  /\ b[1] = 1 <=> b[3] = Resumed
  /\ b[1] = 1 => b[4] # EmptyUuid
  /\ Len(b) = 8 + b[8]
  /\ AcceptsText(b, 8, b[8], FALSE)

DecodeReconnectResult(b) ==
  [success |-> b[1] = 1, retryable |-> b[2] = 1, code |-> b[3],
   voiceConnectionId |-> b[4], resumeFromSequence |-> b[5], serverTimeMs |-> b[6],
   retainedSessionCount |-> b[7], message |-> ReadText(b, 8, b[8])]

-----------------------------------------------------------------------------
(* SESSION_JOINED, SESSION_LEFT and SESSION_CLOSED carry a descriptor,     *)
(* SESSION_SNAPSHOT several.                                               *)

States == 1 .. 6
Reasons == 0 .. 9
UnknownDistance == Max32
Extension == <<5, 1, 0>>   \* "G5", its version and its reserved byte

\* Distances are metres and, on the wire, whole millimetres: here they are
\* counted in halves of a millimetre, and Math.round takes a half up.
Millimetres(d) == IF d = Nothing THEN UnknownDistance ELSE (d + 1) \div 2
Metres(mm) == IF mm = UnknownDistance THEN Nothing ELSE 2 * mm

CanDescriptor(m) ==
  /\ m.state \in States /\ m.reason \in Reasons
  /\ m.distance # Nothing => Millimetres(m.distance) \in 0 .. UnknownDistance - 1
  /\ m.effectiveAtMs \in 0 .. Max64
  /\ CanText(m.peerAvatarId, TRUE)

EncodeDescriptor(m) ==
  LET peerAvatarId == Trim(m.peerAvatarId)
  IN  <<m.sessionId, m.state, m.reason, Millimetres(m.distance), m.effectiveAtMs,
        m.peerUserId, Len(peerAvatarId)>> \o peerAvatarId
      \o (IF m.peerConnectionId = Nothing THEN <<>>
          ELSE Append(Extension, m.peerConnectionId))

\* The extension is there if the payload is longer by its length.
AcceptsDescriptor(b) ==
  /\ Len(b) >= 7
  /\ b[2] \in States /\ b[3] \in Reasons
  /\ b[7] <= MaxText
  /\ Len(b) \in {7 + b[7], 7 + b[7] + 4}
  /\ ReadText(b, 7, b[7]) # <<>>
  /\ Len(b) = 7 + b[7] + 4 => Part(b, 7 + b[7], 3) = Extension

DecodeDescriptor(b) ==
  [sessionId |-> b[1], state |-> b[2], reason |-> b[3], distance |-> Metres(b[4]),
   effectiveAtMs |-> b[5], peerUserId |-> b[6],
   peerAvatarId |-> ReadText(b, 7, b[7]),
   peerConnectionId |-> IF Len(b) = 7 + b[7] THEN Nothing ELSE b[Len(b)]]

CanSnapshot(m) == Len(m) <= MaxEntries /\ \A i \in 1 .. Len(m) : CanDescriptor(m[i])

EncodeSnapshot(m) ==
  LET entries == [i \in 1 .. Len(m) |-> EncodeDescriptor(m[i])]
  IN  <<Len(m), 0>> \o FlattenSeq([i \in 1 .. Len(m) |-> <<Len(entries[i])>> \o entries[i]])

\* The cells before the i-th length of an entry, beyond b if there is none.
CursorOf(b) ==
  LET cursor[i \in 1 .. b[1] + 1] ==
        IF i = 1 THEN 2
        ELSE IF cursor[i - 1] >= Len(b) THEN Len(b) + 1
        ELSE cursor[i - 1] + 1 + b[cursor[i - 1] + 1]
  IN  cursor

EntryOf(b, i) == Part(b, CursorOf(b)[i] + 1, b[CursorOf(b)[i] + 1])

AcceptsSnapshot(b) ==
  /\ Len(b) >= 2
  /\ b[1] <= MaxEntries /\ b[2] = 0
  /\ \A i \in 1 .. b[1] :
       /\ CursorOf(b)[i] < Len(b) /\ CursorOf(b)[i + 1] <= Len(b)
       /\ AcceptsDescriptor(EntryOf(b, i))
  /\ CursorOf(b)[b[1] + 1] = Len(b)

DecodeSnapshot(b) == [i \in 1 .. b[1] |-> DecodeDescriptor(EntryOf(b, i))]

-----------------------------------------------------------------------------
(* HEARTBEAT_ACK, PUBLISH_START, PUBLISH_STOP, ACK. *)

CanHeartbeatAck(m) == m.sequence \in 0 .. Max32
EncodeHeartbeatAck(m) == <<m.sequence>>
AcceptsHeartbeatAck(b) == Len(b) = 1
DecodeHeartbeatAck(b) == [sequence |-> b[1]]

Opus == 1
Bitrates == {28, 32, 40}
StopReasons == 1 .. 4
AckCodes == 0 .. 2

CanPublishStart(m) ==
  m.sampleRate = 48000 /\ m.frameDurationMs = 20 /\ m.channels = 1 /\ m.bitrateKbps \in Bitrates

EncodePublishStart(m) ==
  <<Version, Opus, m.channels, Bit(m.vbr) + 2 * Bit(m.dtx), m.sampleRate,
    m.frameDurationMs, m.bitrateKbps>>

DecodePublishStart(b) ==
  [channels |-> b[3], vbr |-> b[4] % 2 = 1, dtx |-> (b[4] \div 2) % 2 = 1,
   sampleRate |-> b[5], frameDurationMs |-> b[6], bitrateKbps |-> b[7]]

\* The decoder calls the encoder for the rest of its checks.
AcceptsPublishStart(b) ==
  /\ Len(b) = 7
  /\ b[1] = Version /\ b[2] = Opus /\ b[4] \in 0 .. 3
  /\ CanPublishStart(DecodePublishStart(b))

CanPublishStop(m) == m.reason \in StopReasons
EncodePublishStop(m) == <<Version, m.reason, 0>>
AcceptsPublishStop(b) == Len(b) = 3 /\ b[1] = Version /\ b[3] = 0 /\ b[2] \in StopReasons
DecodePublishStop(b) == [reason |-> b[2]]

CanControlAck(m) == m.sequence \in 1 .. Max32 /\ m.code \in AckCodes
EncodeControlAck(m) == <<m.sequence, m.code, 0>>
AcceptsControlAck(b) == Len(b) = 3 /\ b[1] > 0 /\ b[3] = 0 /\ b[2] \in AckCodes
DecodeControlAck(b) == [sequence |-> b[1], code |-> b[2]]

-----------------------------------------------------------------------------
(* LISTENER_MUTE_CHANGED carries the mute of a listener or, by its kind, a  *)
(* directional control.                                                     *)

MuteKinds == 1 .. 3
PerUser == 3
SenderToReceiver == 4

CanMuteChanged(m) ==
  m.kind \in MuteKinds /\ (m.kind = PerUser => m.targetConnectionId # EmptyUuid)

\* Only a mute of one user has a target.
TargetOf(kind, id) == IF kind = PerUser THEN id ELSE EmptyUuid

EncodeMuteChanged(m) ==
  <<Version, m.kind, Bit(m.muted), 0, TargetOf(m.kind, m.targetConnectionId)>>

AcceptsMuteChanged(b) ==
  /\ Len(b) = 5
  /\ b[1] = Version /\ b[4] = 0
  /\ b[2] \in MuteKinds /\ b[3] \in Bits
  /\ b[2] = PerUser => b[5] # EmptyUuid

DecodeMuteChanged(b) ==
  [kind |-> b[2], muted |-> b[3] = 1, targetConnectionId |-> TargetOf(b[2], b[5])]

IsDirectionalControl(b) == Len(b) = 5 /\ b[2] = SenderToReceiver

CanDirectionalControl(m) == m.targetConnectionId # EmptyUuid

EncodeDirectionalControl(m) ==
  <<Version, SenderToReceiver, Bit(m.blocked), 0, m.targetConnectionId>>

AcceptsDirectionalControl(b) ==
  /\ Len(b) = 5
  /\ b[1] = Version /\ b[2] = SenderToReceiver
  /\ b[3] \in Bits /\ b[4] = 0 /\ b[5] # EmptyUuid

DecodeDirectionalControl(b) == [blocked |-> b[3] = 1, targetConnectionId |-> b[5]]

-----------------------------------------------------------------------------
(* RECORDING_CONSENT_CHANGED and RECORDING_STATE_CHANGED. *)

EncodeConsent(m) == <<Version, Bit(m.consented), 0>>
AcceptsConsent(b) == Len(b) = 3 /\ b[1] = Version /\ b[3] = 0 /\ b[2] \in Bits
DecodeConsent(b) == [consented |-> b[2] = 1]
RecordingStates == 1 .. 6
RecordingStopReasons == 1 .. 4

CanRecordingState(m) == m.state \in RecordingStates /\ m.reason \in {0} \cup RecordingStopReasons
EncodeRecordingState(m) == <<Version, m.state, m.reason, 0>>
AcceptsRecordingState(b) ==
  /\ Len(b) = 4
  /\ b[1] = Version /\ b[4] = 0
  /\ b[2] \in RecordingStates /\ b[3] \in {0} \cup RecordingStopReasons
DecodeRecordingState(b) == [state |-> b[2], reason |-> b[3]]

-----------------------------------------------------------------------------
(* VoiceMessageRules: who may send a message, and with which flags.  The   *)
(* flags that a client sets are those of its rule, ACK_REQUIRED on what it *)
(* asks for; the server handles a message by its type.                     *)

ToServer == {"AUTH_REQUEST", "PUBLISH_START", "LISTENER_MUTE_CHANGED",
            "RECORDING_CONSENT_CHANGED", "RECONNECT_REQUEST"}
ToClient == {"AUTH_RESULT", "SESSION_SNAPSHOT", "SESSION_JOINED", "SESSION_LEFT",
         "SESSION_CLOSED", "RECORDING_STATE_CHANGED", "RECONNECT_RESULT", "ERROR"}
EitherWay == {"HEARTBEAT", "HEARTBEAT_ACK", "DISCONNECT", "ACK", "VOICE_FRAME", "PUBLISH_STOP"}
MessageTypes == ToServer \cup ToClient \cup EitherWay

AllowedFlags ==
  [t \in MessageTypes |->
     CASE t = "VOICE_FRAME" -> {"DTX", "DISCONTINUITY"}
       [] t = "PUBLISH_STOP" -> {"ACK_REQUIRED", "END_OF_STREAM"}
       [] t \in ToServer \cup {"HEARTBEAT"} -> {"ACK_REQUIRED"}
       [] OTHER -> {}]

MeetsContract(t, flags) == t \in MessageTypes /\ flags \subseteq AllowedFlags[t]

\* What a transport does with a message that meets the contract, in order.
HandledByTransport == {"HEARTBEAT", "HEARTBEAT_ACK", "DISCONNECT"}
HandledByApplication == (ToServer \ {"AUTH_REQUEST"}) \cup {"VOICE_FRAME", "PUBLISH_STOP"}
Handled(t, authenticated) ==
  IF authenticated THEN t \in HandledByTransport \cup HandledByApplication
  ELSE t = "AUTH_REQUEST"

\* The messages of the server, with the flags that it sets; those of a frame
\* are the publisher's.
ServerSends(t, flags) ==
  \/ t \in (ToClient \ {"ERROR"}) \cup {"HEARTBEAT_ACK", "ACK"} /\ flags = {}
  \/ t = "HEARTBEAT" /\ flags = {"ACK_REQUIRED"}
  \/ t = "VOICE_FRAME" /\ MeetsContract(t, flags)
  \/ t = "PUBLISH_STOP" /\ flags = {"END_OF_STREAM"}

-----------------------------------------------------------------------------
(* Properties *)

\* b with one cell changed, cut short, with a cell more, or with both a cell
\* changed and a cell more.
Changed(b) == {[b EXCEPT ![i] = v] : i \in 1 .. Len(b), v \in Cells}
Altered(b) ==
  Changed(b) \cup {Part(b, 0, n) : n \in 0 .. Len(b) - 1}
             \cup {Append(x, v) : x \in Changed(b) \cup {b}, v \in Cells}

\* What the encoder accepts is decoded as what was encoded, but for what it
\* normalizes; what the decoder accepts, the encoder would accept and the
\* decoder read as the same message again.
Agree(messages, Can(_), Encode(_), Accepts(_), Decode(_), Normal(_)) ==
  \A m \in messages : Can(m) =>
    /\ Accepts(Encode(m)) /\ Decode(Encode(m)) = Normal(m)
    /\ \A b \in Altered(Encode(m)) :
         Accepts(b) => /\ Can(Decode(b))
                       /\ Accepts(Encode(Decode(b)))
                       /\ Decode(Encode(Decode(b))) = Decode(b)

Same(m) == m
Always(m) == TRUE
Trimmed(m) ==
  [f \in DOMAIN m |->
     IF f \in {"accessToken", "roomId", "avatarId", "clientBuild", "userId", "message"}
     THEN Trim(m[f]) ELSE m[f]]
NormalDescriptor(m) ==
  [m EXCEPT !.peerAvatarId = Trim(@), !.distance = Metres(Millimetres(@))]

Descriptors ==
  [sessionId : {1}, state : {0, 1, 6, 7}, reason : {0, 9, 10},
   distance : {Nothing, 0, 1, 2 * Max32 - 2, 2 * Max32 - 1}, effectiveAtMs : Numbers,
   peerUserId : {2}, peerAvatarId : Texts, peerConnectionId : {Nothing, 0, 1}]

SomeDescriptors ==
  {m \in Descriptors : m.state \in {1, 7} /\ m.reason = 0 /\ m.distance = 1
                       /\ m.effectiveAtMs = 0 /\ Len(m.peerAvatarId) = 1}
NormalSnapshot(m) == [i \in 1 .. Len(m) |-> NormalDescriptor(m[i])]

NormalMute(m) == [m EXCEPT !.targetConnectionId = TargetOf(m.kind, @)]

\* The two contents of LISTENER_MUTE_CHANGED reach their own decoder.
ToldApart ==
  \A b \in [1 .. 5 -> Cells] :
    /\ AcceptsMuteChanged(b) => ~IsDirectionalControl(b)
    /\ AcceptsDirectionalControl(b) => IsDirectionalControl(b)

\* The server sends nothing that its own contract refuses and nothing but what
\* goes to clients; it handles what a client may send and nothing else, but for
\* ACK, after which it closes the transport.
RulesAgree ==
  \A t \in MessageTypes :
    /\ \A flags \in SUBSET {"ACK_REQUIRED", "DTX", "END_OF_STREAM", "DISCONTINUITY"} :
         ServerSends(t, flags) => MeetsContract(t, flags) /\ t \in ToClient \cup EitherWay
    /\ (\E signedIn \in BOOLEAN : Handled(t, signedIn)) <=> t \in (ToServer \cup EitherWay) \ {"ACK"}

EnvelopesAgree ==
  Agree([version : {Version}, messageType : {0, 255}, flags : {0, Max16, Max16 + 1},
           sequence : Numbers, timestampMs : Numbers, sessionId : Ids, senderId : Ids,
           payload : Texts],
          CanEnvelope, EncodeEnvelope, AcceptsEnvelope, DecodeEnvelope, Same)

AuthRequestsAgree ==
  Agree([platform : {0, 1, 3, 4}, accessToken : Texts, roomId : Texts, avatarId : Texts,
           clientBuild : Texts, clientInstanceId : Ids],
          CanAuthRequest, EncodeAuthRequest, AcceptsAuthRequest, DecodeAuthRequest, Trimmed)

AuthResultsAgree ==
  Agree([success : BOOLEAN, retryable : BOOLEAN, code : {0, 1, 11, 255},
           voiceConnectionId : Ids, userId : Texts, message : Texts],
          CanAuthResult, EncodeAuthResult, AcceptsAuthResult, DecodeAuthResult, Trimmed)

ReconnectRequestsAgree ==
  Agree([previousVoiceConnectionId : Ids, clientInstanceId : {1},
           lastReceivedSequence : Numbers, lastPublishedSequence : Numbers,
           disconnectedAtMs : {0, Max64, Max64 + 1},
           accessToken : Texts, roomId : Texts, avatarId : Texts],
          CanReconnectRequest, EncodeReconnectRequest, AcceptsReconnectRequest,
          DecodeReconnectRequest, Trimmed)

ReconnectResultsAgree ==
  Agree([success : BOOLEAN, retryable : BOOLEAN, code : {0, 1, 14, 255},
           voiceConnectionId : Ids, resumeFromSequence : Numbers,
           serverTimeMs : {0, Max64, Max64 + 1}, retainedSessionCount : {0, Max16, Max16 + 1},
           message : Texts],
          CanReconnectResult, EncodeReconnectResult, AcceptsReconnectResult,
          DecodeReconnectResult, Trimmed)

SessionDescriptorsAgree ==
  Agree(Descriptors, CanDescriptor, EncodeDescriptor, AcceptsDescriptor,
          DecodeDescriptor, NormalDescriptor)

PublishStartsAgree ==
  Agree({[sampleRate |-> r, frameDurationMs |-> d, channels |-> c, bitrateKbps |-> k,
            vbr |-> v, dtx |-> x] :
             r \in {48000, 0}, d \in {20, 10}, c \in {1, 2}, k \in {28, 32, 40, 0},
             v \in BOOLEAN, x \in BOOLEAN},
          CanPublishStart, EncodePublishStart, AcceptsPublishStart, DecodePublishStart, Same)

PublishStopsAgree ==
  Agree([reason : 0 .. 5], CanPublishStop, EncodePublishStop, AcceptsPublishStop,
          DecodePublishStop, Same)

HeartbeatAcksAgree ==
  Agree([sequence : Numbers], CanHeartbeatAck, EncodeHeartbeatAck, AcceptsHeartbeatAck,
        DecodeHeartbeatAck, Same)

ControlAcksAgree ==
  Agree([sequence : Numbers, code : 0 .. 3], CanControlAck, EncodeControlAck,
          AcceptsControlAck, DecodeControlAck, Same)

ConsentsAgree ==
  Agree([consented : BOOLEAN], Always, EncodeConsent, AcceptsConsent, DecodeConsent, Same)

RecordingStateChangesAgree ==
  Agree([state : 0 .. 7, reason : 0 .. 5], CanRecordingState, EncodeRecordingState,
          AcceptsRecordingState, DecodeRecordingState, Same)

MuteChangesAgree ==
  Agree([kind : 0 .. 4, muted : BOOLEAN, targetConnectionId : Ids], CanMuteChanged,
          EncodeMuteChanged, AcceptsMuteChanged, DecodeMuteChanged, NormalMute)

DirectionalControlsAgree ==
  Agree([blocked : BOOLEAN, targetConnectionId : Ids], CanDirectionalControl,
          EncodeDirectionalControl, AcceptsDirectionalControl, DecodeDirectionalControl, Same)

SnapshotsAgree ==
  Agree(BoundedSeq(SomeDescriptors, MaxEntries + 1), CanSnapshot, EncodeSnapshot,
          AcceptsSnapshot, DecodeSnapshot, NormalSnapshot)

\* The two sides of every payload agree: the checks of an encoder and those
\* of its decoder, which are written twice and which no test compares outside
\* a few examples (encode and decode functions of the payload modules).
PayloadsAgree ==
  /\ EnvelopesAgree
  /\ AuthRequestsAgree
  /\ AuthResultsAgree
  /\ ReconnectRequestsAgree
  /\ ReconnectResultsAgree
  /\ SessionDescriptorsAgree
  /\ PublishStartsAgree
  /\ PublishStopsAgree
  /\ HeartbeatAcksAgree
  /\ ControlAcksAgree
  /\ ConsentsAgree
  /\ RecordingStateChangesAgree
  /\ MuteChangesAgree
  /\ DirectionalControlsAgree
  /\ SnapshotsAgree
  /\ ToldApart
  /\ RulesAgree

=============================================================================
