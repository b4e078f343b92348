-------------------------- MODULE VoiceDirectional --------------------------
(***************************************************************************)
(* Who may hear whom in a voice session, and what of it a user finds in    *)
(* the recording afterwards: the policies of senders                       *)
(* (voiceDirectionalRoutingExtension.js, voiceDirectionalPolicyRegistry.js)*)
(* and the mutes of receivers (voiceMuteRegistry.js), the timeline of both *)
(* that is written beside a recording (voiceDirectionalRecordingTimeline.js),*)
(* the intervals of its participants (voiceRecordingWorker.js), and the    *)
(* intervals of the recording that a download holds                        *)
(* (voiceRecordingDownloadService.js, voiceDirectionalDownloadExtension.js).*)
(*                                                                         *)
(* Time is the offset in the recording, which begins at 0; moment t is the *)
(* time from t to t + 1.  A download is the set of intervals that its file *)
(* is cut from; the audio, the files and ffmpeg are left out, as is the    *)
(* verification of routes, which only logs.                                *)
(*                                                                         *)
(* A session that changes while its recorder starts is modelled in         *)
(* VoiceRecording: here the recorder hears of it before or after.  Of a    *)
(* connection that expires or is closed at once it does not hear at all,   *)
(* until it is given the session again.                                    *)
(***************************************************************************)
EXTENDS Naturals, Sequences, SequencesExt, FiniteSets

CONSTANTS
  Connections,
  UserOf,       \* the user of each connection
  Controlled,   \* bound: routes that are blocked and opened, as <<sender, receiver>>
  MaxTime,      \* bound: length of the recording
  MaxControls,  \* bound: control messages
  MaxChanges,   \* bound: changes of the session's members
  MaxRemovals   \* bound: connections that are removed

ASSUME DirectionalAssumption ==
  /\ IsFiniteSet(Connections)
  /\ DOMAIN UserOf = Connections
  /\ \A r \in Controlled : r \in Connections \X Connections /\ r[1] # r[2]
  /\ MaxTime \in Nat /\ MaxControls \in Nat /\ MaxChanges \in Nat /\ MaxRemovals \in Nat

VARIABLES
  clock,
  connected,  \* connections that were not removed
  members,    \* participants of the session
  cleanups,   \* session events whose deliveries are awaited before the cleanup
  policy,     \* policiesByRoute: routes that their sender blocks
  muted,      \* routes that their receiver mutes: mutedPublisherConnectionIds
  noted,      \* routeStateByKey: source and route of the blocks it knows
  phase,      \* phase of the recording
  intervals,  \* intervals of each participant; the last one may be open
  timeline,   \* directional-events.ndjson
  downloads,  \* is it listed for a user, what moments is the user offered, and finds in it
  registered, \* offset at which the recording entered activeRecordingSessions
  controls,   \* control messages so far
  changes,    \* changes of the members so far
  history,    \* history[t + 1]: what held at moment t
  untold,     \* blocks and mutes that changed since the timeline was last told of them
  gone        \* connections that left the session, which the recorder was not told of

routeVars == <<policy, muted, noted>>
recordingVars == <<phase, intervals, timeline, downloads, registered>>
ghostVars == <<history, untold, gone>>
vars == <<clock, connected, members, cleanups, routeVars, recordingVars,
          controls, changes, ghostVars>>

\* A route is a sender and a receiver.
Routes == {r \in Connections \X Connections : r[1] # r[2]}
Sources == {"sender_mic", "receiver_speaker"}

Open == MaxTime + 1  \* leftAtMs: null
Spans == (0..MaxTime) \X (0..Open)

Users == {UserOf[c] : c \in Connections}

TypeOK ==
  /\ clock \in 0..MaxTime
  /\ connected \subseteq Connections /\ members \subseteq Connections
  /\ cleanups \in 0..(MaxChanges + 1)
  /\ controls \in 0..MaxControls /\ changes \in 0..MaxChanges
  /\ policy \subseteq Routes /\ muted \subseteq Routes
  /\ noted \subseteq Sources \X Routes
  /\ phase \in {"none", "starting", "recording", "ended"}
  /\ intervals \in [Connections -> Seq(Spans)]
  /\ timeline \in Seq([source : Sources, route : Routes, blocked : BOOLEAN,
                       at : 0..MaxTime])
  /\ downloads \in [Users -> [listed : BOOLEAN, offered : SUBSET (0..MaxTime),
                            found : SUBSET (0..MaxTime)]]
  /\ registered \in 0..MaxTime
  /\ history \in Seq([held : SUBSET (Sources \X Routes), untold : SUBSET (Sources \X Routes),
                      members : SUBSET Connections, gone : SUBSET Connections])
  /\ untold \subseteq Sources \X Routes
  /\ gone \subseteq Connections

NoDownloads == [u \in Users |-> [listed |-> FALSE, offered |-> {}, found |-> {}]]

Init ==
  /\ clock = 0 /\ connected = Connections /\ cleanups = 0 /\ controls = 0 /\ changes = 0
  /\ members \in {S \in SUBSET Connections : Cardinality(S) >= 2}
  /\ policy = {} /\ muted = {} /\ noted = {}
  /\ phase = "none" /\ intervals = [c \in Connections |-> <<>>]
  /\ timeline = <<>> /\ registered = 0 /\ downloads = NoDownloads
  /\ history = <<>> /\ untold = {} /\ gone = {}

-----------------------------------------------------------------------------
(* Controls and the timeline *)

Between(r, S) == r[1] \in S /\ r[2] \in S
RoutesOf(c) == {r \in Routes : c \in {r[1], r[2]}}

\* What senders and receivers hold blocked, by source
Mic(S) == {"sender_mic"} \X S
Speaker(S) == {"receiver_speaker"} \X S
Held == Mic(policy) \cup Speaker(muted)

\* Participants of the recorder and of its timeline, which share the session they were
\* given last: their interval is open.
Recorded == {c \in Connections : intervals[c] # <<>> /\ Last(intervals[c])[2] = Open}

Event(source, r, blocked, at) ==
  [source |-> source, route |-> r, blocked |-> blocked, at |-> at]

\* updateRouteState
Note(source, r, blocked) ==
  noted' = IF blocked THEN noted \cup {<<source, r>>} ELSE noted \ {<<source, r>>}

\* queueTimelineEvent: the writes to a file are put in line.
Write(event) == timeline' = Append(timeline, event)

\* recordVoiceDirectionalButtonState
Record(source, r, blocked) ==
  /\ Note(source, r, blocked)
  /\ IF phase = "recording" /\ Between(r, Recorded)
     THEN Write(Event(source, r, blocked, clock)) ELSE UNCHANGED timeline
  /\ untold' = IF phase = "recording" /\ ~Between(r, Recorded)
               THEN untold \cup {<<source, r>>} ELSE untold \ {<<source, r>>}

Counted == controls < MaxControls /\ controls' = controls + 1

\* handleEnvelope: a sender blocks or opens the route to an active peer.
SetBlocked(r, blocked) ==
  /\ Counted
  /\ r[1] \in connected /\ Between(r, members)
  /\ policy' = IF blocked THEN policy \cup {r} ELSE policy \ {r}
  /\ Record("sender_mic", r, blocked)
  /\ UNCHANGED <<changes, clock, connected, members, cleanups, muted, phase, intervals,
                 downloads, registered, history, gone>>

\* applyChange: a receiver mutes any sender, peer or not.
ApplyChange(r, blocked) ==
  /\ Counted
  /\ r[2] \in connected
  /\ muted' = IF blocked THEN muted \cup {r} ELSE muted \ {r}
  /\ Record("receiver_speaker", r, blocked)
  /\ UNCHANGED <<changes, clock, connected, members, cleanups, policy, phase, intervals,
                 downloads, registered, history, gone>>

\* removeParticipant: a session of two ends with either of them.
Without(c) == IF c \in members /\ Cardinality(members) <= 2 THEN {} ELSE members \ {c}

\* expireConnection and closeConnectionImmediately: the connection leaves its sessions and
\* both registries.  What the timeline knows of it stays, and so does its interval: no
\* event of the session comes of this, to the recorder or to a cleanup.
RemoveConnection(c) ==
  /\ c \in connected /\ Cardinality(Connections \ connected) < MaxRemovals
  /\ connected' = connected \ {c}
  /\ members' = Without(c)
  /\ policy' = policy \ RoutesOf(c)
  /\ muted' = muted \ RoutesOf(c)
  /\ untold' = untold \cup (Held \ Held')
  /\ gone' = IF phase = "none" THEN gone ELSE gone \cup (members \ members')
  /\ UNCHANGED <<changes, clock, cleanups, noted, recordingVars, controls, history>>

\* handleDedicatedSessionEvent, when its deliveries have ended.
CleanupInactivePolicies ==
  /\ cleanups > 0
  /\ cleanups' = cleanups - 1
  /\ policy' = {r \in policy : Between(r, members)}
  /\ untold' = untold \cup Mic(policy \ policy')
  /\ UNCHANGED <<changes, clock, connected, members, muted, noted, recordingVars, controls,
                 history, gone>>

-----------------------------------------------------------------------------
(* The recording and its participants *)

\* A session event; its cleanup follows when its deliveries have ended.
Change ==
  /\ changes < MaxChanges
  /\ changes' = changes + 1 /\ cleanups' = cleanups + 1

StartRecording ==
  /\ phase = "none" /\ members # {}
  /\ phase' = "starting"
  /\ intervals' = [c \in Connections |-> IF c \in members THEN <<<<0, Open>>>> ELSE <<>>]
  /\ UNCHANGED <<changes, clock, connected, members, cleanups, routeVars, timeline,
                 downloads, registered, controls, ghostVars>>

\* writeInitialBlockedState
InitialBlocked ==
  LET known == {n \in noted : Between(n[2], Recorded)}
  IN [i \in 1..Cardinality(known) |->
        LET n == SetToSeq(known)[i] IN Event(n[1], n[2], TRUE, 0)]

\* The worker has answered: registerActiveRecordingSession.  Of blocks between others than
\* its participants the timeline is not told.
Register ==
  /\ phase = "starting"
  /\ phase' = "recording" /\ registered' = clock
  /\ timeline' = InitialBlocked
  /\ untold' = untold \cup {n \in Held : ~Between(n[2], Recorded)}
  /\ UNCHANGED <<changes, clock, connected, members, cleanups, routeVars, intervals, downloads,
                 controls, history, gone>>

\* activateParticipant
Joined(c) == Append(intervals[c], <<clock, Open>>)

\* A mutant: who leaves stays active for the worker.
Left_StaysActive(c) == intervals[c]

\* updateMembership of one who leaves
Left(c) == [intervals[c] EXCEPT ![Len(intervals[c])] = <<@[1], clock>>]

\* applySessionMembershipSnapshot: the recorder is given the session, with the members S,
\* and finds who has left and who has joined since it was given it last.
Synchronize(S) ==
  IF phase = "recording"
  THEN /\ intervals' = [c \in Connections |->
            IF c \in Recorded \ S THEN Left(c)
            ELSE IF c \in S \ Recorded THEN Joined(c)
            ELSE intervals[c]]
       /\ gone' = {}
  ELSE UNCHANGED <<intervals, gone>>

Join(c) ==
  /\ Change
  /\ c \in connected \ members /\ members # {} /\ phase \in {"none", "recording"}
  /\ members' = members \cup {c}
  /\ Synchronize(members')
  /\ UNCHANGED <<clock, connected, routeVars, phase, timeline, downloads, registered,
                 controls, history, untold>>

Leave(c) ==
  /\ Change
  /\ c \in members /\ Cardinality(members) > 2 /\ phase \in {"none", "recording"}
  /\ members' = members \ {c}
  /\ Synchronize(members')
  /\ UNCHANGED <<clock, connected, routeVars, phase, timeline, downloads, registered,
                 controls, history, untold>>

\* updateConsent: a consent comes with the session as it is now.
UpdateConsent ==
  /\ phase = "recording" /\ members # {}
  /\ Synchronize(members)
  /\ UNCHANGED <<changes, clock, connected, members, cleanups, routeVars, phase, timeline,
                 downloads, registered, controls, history, untold>>

Tick ==
  /\ phase \in {"starting", "recording"} /\ clock < MaxTime
  /\ clock' = clock + 1
  /\ history' = Append(history, [held |-> Held, untold |-> untold, members |-> members,
                                 gone |-> gone])
  /\ UNCHANGED <<changes, connected, members, cleanups, routeVars, recordingVars, controls,
                 untold, gone>>

-----------------------------------------------------------------------------
(* Intervals: sequences of <<from, to>> *)

Shorter(x, y) == IF x <= y THEN x ELSE y
Longer(x, y) == IF x >= y THEN x ELSE y

Before(a, b) == a[1] < b[1] \/ (a[1] = b[1] /\ a[2] < b[2])

\* Those of some length, in their order
Lasting(seq) ==
  LET kept[n \in 0..Len(seq)] ==
        IF n = 0 THEN <<>>
        ELSE IF seq[n][2] > seq[n][1] THEN Append(kept[n - 1], seq[n]) ELSE kept[n - 1]
  IN kept[Len(seq)]

\* The span takes its place in a sorted sequence.
Placed(seq, span) ==
  LET k == CHOOSE n \in 0..Len(seq) :
             \A i \in DOMAIN seq : i <= n <=> ~Before(span, seq[i])
  IN [i \in 1..(Len(seq) + 1) |->
        IF i <= k THEN seq[i] ELSE IF i = k + 1 THEN span ELSE seq[i - 1]]

Sorted(seq) ==
  LET sorted[n \in 0..Len(seq)] ==
        IF n = 0 THEN <<>> ELSE Placed(sorted[n - 1], seq[n])
  IN sorted[Len(seq)]

\* mergeIntervals, of a sorted sequence
MergeSorted(seq) ==
  LET merged[n \in 0..Len(seq)] ==
        IF n = 0 THEN <<>>
        ELSE LET done == merged[n - 1]
                 span == seq[n]
             IN IF done # <<>> /\ span[1] <= Last(done)[2]
                THEN Append(Front(done), <<Last(done)[1], Longer(Last(done)[2], span[2])>>)
                ELSE Append(done, span)
  IN merged[Len(seq)]

Merge(seq) == MergeSorted(Sorted(Lasting(seq)))

\* intersectIntervals
Intersect(left, right) ==
  Merge(FlattenSeq([i \in DOMAIN left |-> [j \in DOMAIN right |->
    <<Longer(left[i][1], right[j][1]), Shorter(left[i][2], right[j][2])>>]]))

\* One allowed interval without the blocked ones, which are merged.
Remaining(span, blocked) ==
  LET cut[n \in 0..Len(blocked)] ==
        IF n = 0 THEN [rest |-> <<>>, cursor |-> span[1]]
        ELSE LET state == cut[n - 1]
                 b == blocked[n]
             IN IF b[2] <= state.cursor \/ b[1] >= span[2] THEN state
                ELSE [rest |-> IF b[1] > state.cursor
                               THEN Append(state.rest, <<state.cursor, b[1]>>)
                               ELSE state.rest,
                      cursor |-> Shorter(span[2], b[2])]
      end == cut[Len(blocked)]
  IN Lasting(Append(end.rest, <<end.cursor, span[2]>>))

\* subtractIntervals
Subtract(allowed, blocked) ==
  LET all == Merge(allowed)
      cut == Merge(blocked)
  IN Merge(FlattenSeq([i \in DOMAIN all |-> Remaining(all[i], cut)]))

Moments(seq) == UNION {seq[i][1]..(seq[i][2] - 1) : i \in DOMAIN seq}

-----------------------------------------------------------------------------
(* Downloads of a recording that has ended *)

\* The metadata: intervals end with the recording and have some length.
Attended(c) ==
  Lasting([i \in DOMAIN intervals[c] |->
             <<intervals[c][i][1], Shorter(intervals[c][i][2], clock)>>])

Memberships(u) == {c \in Connections : UserOf[c] = u /\ intervals[c] # <<>>}

\* Concatenation of what f gives for the elements of S.
Gathered(f(_), S) ==
  LET seq == SetToSeq(S)
  IN FlattenSeq([i \in DOMAIN seq |-> f(seq[i])])

Own(u) == Gathered(Attended, Memberships(u))

\* normalizeAuthorizedRecordingIntervals: without an interval, the whole recording.
Authorized(own) == IF own = <<>> THEN Lasting(<<<<0, clock>>>>) ELSE Sorted(own)

\* listRecordings: a user without an interval is shown nothing.
Listed(own) == own # <<>>

\* authorizedIntervalsCoverFullRecording: what starts after a gap, in sorted intervals,
\* does not count.
CoversAll(spans) ==
  LET until[n \in 0..Len(spans)] ==
        IF n = 0 THEN 0
        ELSE IF spans[n][1] > until[n - 1] THEN until[n - 1]
        ELSE Longer(until[n - 1], spans[n][2])
  IN until[Len(spans)] >= clock

\* normalizeClipIntervals
Clip(spans) ==
  Lasting([i \in DOMAIN spans |-> <<Shorter(spans[i][1], clock), Shorter(spans[i][2], clock)>>])

\* createClipFile: the intervals, one after the other
ClipFile(spans) == Moments(spans)

\* createAuthorizedClip: a file that exists was cut from the same intervals; without
\* a valid interval there is none.
AuthorizedClip(spans) == ClipFile(Clip(spans))

\* createDirectionalMixFile: what is left of the recording, one after the other
MixFile(spans) == Moments(spans)

\* createDirectionalPersonalizedRecording: a file that exists, or is being made, is of
\* the same intervals and blocks.
PersonalizedRecording(spans) == MixFile(spans)

\* A mutant: either side's last word counts, whatever the other side holds.
Blocked_LastWord(mic, speaker, event) == event.blocked

\* A route is blocked while its sender or its receiver blocks it.
Blocked(mic, speaker, event) == mic \/ speaker

\* buildEffectiveBlockedIntervals, for the events of one route
EffectiveBlocked(r) ==
  LET after[n \in 0..Len(timeline)] ==
        IF n = 0
        THEN [mic |-> FALSE, speaker |-> FALSE, blocked |-> FALSE, since |-> 0, spans |-> <<>>]
        ELSE IF timeline[n].route # r THEN after[n - 1]
        ELSE LET was == after[n - 1]
                 e == timeline[n]
                 mic == IF e.source = "sender_mic" THEN e.blocked ELSE was.mic
                 speaker == IF e.source = "receiver_speaker" THEN e.blocked ELSE was.speaker
                 now == Blocked(mic, speaker, e)
             IN [mic |-> mic, speaker |-> speaker, blocked |-> now,
                 since |-> IF ~was.blocked /\ now THEN e.at ELSE was.since,
                 spans |-> IF was.blocked /\ ~now
                           THEN Append(was.spans, <<was.since, e.at>>) ELSE was.spans]
      end == after[Len(timeline)]
  IN Merge(IF end.blocked THEN Append(end.spans, <<end.since, clock>>) ELSE end.spans)

\* What the route r takes from the user of its receiver
RouteCut(r) ==
  Intersect(EffectiveBlocked(r), Merge(Attended(r[2])))

\* buildDirectionalDownloadPlan: blockedIntervalsForReceiver
Cut(u) ==
  Merge(Gathered(RouteCut, {r \in {timeline[i].route : i \in DOMAIN timeline} :
                              UserOf[r[1]] # u /\ UserOf[r[2]] = u}))

\* resolveDownload: the authorized intervals without the cuts.  Where nothing is cut, the
\* whole file is passed on if they cover it, and else a clip of it; a user who is not in
\* the metadata gets nothing.
Download(u, spans) ==
  LET cut == Cut(u)
  IN IF Memberships(u) = {} THEN {}
     ELSE IF cut # <<>> THEN PersonalizedRecording(Subtract(spans, cut))
     ELSE IF CoversAll(spans) THEN Moments(<<<<0, clock>>>>)
     ELSE AuthorizedClip(spans)

\* The session ends, and its recording with it.  What is written to the timeline until
\* closeActiveRecordingSession is later than the end, and no download reads it.
Close ==
  /\ members # {}
  /\ members' = {} /\ cleanups' = cleanups + 1

\* finalizeSession without an event of the session: its longest duration, or shutdown.
Finalize == UNCHANGED <<members, cleanups>>

\* Either ends a recording; the files that a download reads change no more.
End ==
  /\ phase = "recording" /\ phase' = "ended"
  /\ downloads' = [u \in Users |->
       LET own == Own(u)
           spans == Authorized(own)
       IN [listed |-> Listed(own), offered |-> Moments(spans), found |-> Download(u, spans)]]
  /\ UNCHANGED <<changes, clock, connected, routeVars, intervals, timeline, registered,
                 controls, ghostVars>>
  /\ Close \/ Finalize

-----------------------------------------------------------------------------

\* Nothing after its end changes a recording's downloads: the model ends there.
Next ==
  \/ /\ phase # "ended"
     /\ \/ \E r \in Controlled, blocked \in BOOLEAN :
             SetBlocked(r, blocked) \/ ApplyChange(r, blocked)
        \/ \E c \in Connections : RemoveConnection(c) \/ Join(c) \/ Leave(c)
        \/ CleanupInactivePolicies \/ UpdateConsent
  \/ StartRecording \/ Register \/ End
  \/ Tick

Spec == Init /\ [][Next]_vars

-----------------------------------------------------------------------------
(* Properties *)

\* Moments of the recording after it was registered: a control that comes while the
\* recorder starts is known only by the state that it leaves.
Known == (registered + 1)..Len(history)

\* A moment at which a block of a sender or a mute of a receiver kept one voice from
\* another is in no download of the receiver's user.  Blocks and mutes are excepted from
\* the moment they change without a word to the timeline until the timeline is next told of
\* them: those held before the recording between two who were not both in it, those changed
\* while one of the two was away, and those that a removal or a cleanup opened.
BlocksAreCut ==
  phase = "ended" =>
    \A i \in Known : \A n \in history[i].held \ history[i].untold :
      LET r == n[2]
      IN Between(r, history[i].members) /\ UserOf[r[1]] # UserOf[r[2]] =>
           i - 1 \notin downloads[UserOf[r[2]]].found

\* A user finds every other moment: what is cut from the intervals is a moment at which a
\* route from another user was blocked or muted, or had changed without a word to the
\* timeline.  Muting everyone and turning the speaker off are never told, and cut nothing.
NothingElseIsCut ==
  phase = "ended" =>
    \A u \in {v \in Users : Memberships(v) # {}} : \A i \in Known :
      i - 1 \in downloads[u].offered \ downloads[u].found =>
        \E n \in history[i].held \cup history[i].untold :
          UserOf[n[2][1]] # u /\ UserOf[n[2][2]] = u

\* Both directions: what is cut from a user's download is what was blocked for the user at
\* each moment of the recording, but for what the timeline was not told
\* (buildDirectionalDownloadPlan).
CutsFollowBlocks == BlocksAreCut /\ NothingElseIsCut

\* A recording is listed for the users who were in it at some moment, and the download of
\* one for whom it is listed holds only moments at which a connection of that user was in
\* the session (listRecordings, resolveDownload).  The moments between the expiry or sudden
\* close of a connection, or of a peer that leaves it alone, and the next session that the
\* recorder is given count as well: its interval is still open then.
DownloadsAreAttended ==
  phase = "ended" =>
    \A u \in Users :
      LET attended == {i \in DOMAIN history :
                         \E c \in history[i].members : UserOf[c] = u}
          unnoticed == {i \in DOMAIN history : \E c \in history[i].gone : UserOf[c] = u}
      IN /\ attended # {} => downloads[u].listed
         /\ downloads[u].listed =>
              /\ attended \cup unnoticed # {}
              /\ \A t \in downloads[u].found : t + 1 \in attended \cup unnoticed
=============================================================================
