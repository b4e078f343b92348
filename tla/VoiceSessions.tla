---------------------------- MODULE VoiceSessions ----------------------------
(***************************************************************************)
(* The voice sessions of one dedicated server: the registry of sessions    *)
(* with its indexes (voiceSessionRegistry.js, voiceSessionRecord.js), the  *)
(* authoritative service before it, and the service that accepts numbered  *)
(* batches of session deltas from the dedicated server                     *)
(* (voiceDedicatedSessionDeltaService.js), called by an HTTP handler that  *)
(* does not put the batches of a server in line.                           *)
(*                                                                         *)
(* The loop over a batch runs to the await of its observer: `turn` is the  *)
(* batch whose loop runs, and nothing else happens before it waits or      *)
(* ends.  While it waits, other batches and the expiry of connections may  *)
(* run.  What an event says is chosen when it is applied: a sender that    *)
(* repeats a number need not repeat its content.                           *)
(*                                                                         *)
(* Abstracted: distances, times and reasons; and whether the participants  *)
(* of an event are verified (ready players with one active voice           *)
(* connection): an event may always be refused.  A closed record stays, so *)
(* that burnedSessionIds is the set of closed sessions.                    *)
(***************************************************************************)
EXTENDS Naturals, FiniteSetsExt

CONSTANTS
  Connections, SessionIds, Epochs,
  UserOf,       \* the user of a connection
  Batches,      \* bound: requests that are handled at the same time
  MaxSequence   \* bound: the events of an epoch

CONSTANTS NoSession, NoEpoch, NoBatch

ASSUME SessionsAssumption ==
  /\ IsFiniteSet(Connections)
  /\ DOMAIN UserOf = Connections
  /\ MaxSequence \in Nat
  /\ NoSession \notin SessionIds /\ NoEpoch \notin Epochs /\ NoBatch \notin Batches

VARIABLES
  status,        \* the state of a session's record
  members,       \* participants of a record
  pairIndex,     \* activeSessionIdByPairKey
  sessionIndex,  \* sessionIdsByConnectionId
  epoch,         \* currentEpochId
  accepted,      \* lastAcceptedSequence
  burnedEpochs,  \* burnedEpochIds
  batch,         \* the events of a request that are left, and the one observed
  turn,          \* the batch whose loop runs
  stopped,
  origin,        \* history: the epoch of the batch that created a session
  overlapped     \* history: did two batches ever wait at the same time?

registryVars == <<status, members, pairIndex, sessionIndex, origin>>
sequenceVars == <<epoch, accepted, burnedEpochs>>
batchVars == <<batch, turn, overlapped>>
vars == <<registryVars, sequenceVars, batchVars, stopped>>

Pairs == {p \in SUBSET Connections : Cardinality(p) = 2}
Idle == [epoch |-> NoEpoch, todo |-> {}, observed |-> 0]

TypeOK ==
  /\ status \in [SessionIds -> {"none", "active", "closed"}]
  /\ members \in [SessionIds -> SUBSET Connections]
  /\ pairIndex \in [Pairs -> SessionIds \cup {NoSession}]
  /\ sessionIndex \in [Connections -> SUBSET SessionIds]
  /\ epoch \in Epochs \cup {NoEpoch}
  /\ accepted \in 0..MaxSequence
  /\ burnedEpochs \subseteq Epochs
  /\ batch \in [Batches -> [epoch : Epochs \cup {NoEpoch},
                            todo : SUBSET (1..MaxSequence),
                            observed : 0..MaxSequence]]
  /\ turn \in Batches \cup {NoBatch}
  /\ stopped \in BOOLEAN /\ overlapped \in BOOLEAN
  /\ origin \in [SessionIds -> Epochs \cup {NoEpoch}]

Init ==
  /\ status = [s \in SessionIds |-> "none"]
  /\ members = [s \in SessionIds |-> {}]
  /\ pairIndex = [p \in Pairs |-> NoSession]
  /\ sessionIndex = [c \in Connections |-> {}]
  /\ epoch = NoEpoch /\ accepted = 0 /\ burnedEpochs = {}
  /\ batch = [b \in Batches |-> Idle] /\ turn = NoBatch
  /\ stopped = FALSE
  /\ origin = [s \in SessionIds |-> NoEpoch]
  /\ overlapped = FALSE

-----------------------------------------------------------------------------
(* The registry of sessions *)

Active == {s \in SessionIds : status[s] = "active"}

\* A session connects users, with one connection each.
OfAnotherUser(c, others) == \A d \in others : UserOf[c] # UserOf[d]

\* addConnectionSessionIndex and removeConnectionSessionIndex
WithSession(cs, s) ==
  [c \in Connections |-> IF c \in cs THEN sessionIndex[c] \cup {s} ELSE sessionIndex[c]]
WithoutSessions(gone, closed) ==
  [c \in Connections |->
     {s \in sessionIndex[c] : ~(s \in closed /\ c \in members[s]) /\ <<s, c>> \notin gone}]

\* The record of a new session.
Opened(s, S) ==
  /\ status' = [status EXCEPT ![s] = "active"]
  /\ members' = [members EXCEPT ![s] = S]

\* A mutant: a pair may have a second session.
CreatePairSession_AnyPair(s, c, d, e) ==
  /\ status[s] = "none"
  /\ OfAnotherUser(c, {d})
  /\ Opened(s, {c, d})
  /\ pairIndex' = [pairIndex EXCEPT ![{c, d}] = s]
  /\ sessionIndex' = WithSession({c, d}, s)
  /\ origin' = [origin EXCEPT ![s] = e]

\* createPairSession throws for an id that exists with other data and for a pair
\* that has an active session.
CreatePairSession(s, c, d, e) ==
  /\ status[s] = "none"
  /\ OfAnotherUser(c, {d}) /\ pairIndex[{c, d}] = NoSession
  /\ Opened(s, {c, d})
  /\ pairIndex' = [pairIndex EXCEPT ![{c, d}] = s]
  /\ sessionIndex' = WithSession({c, d}, s)
  /\ origin' = [origin EXCEPT ![s] = e]

\* The pairs that a new member makes.
NewPairs(s, c) == {{m, c} : m \in members[s]}

\* addParticipant throws while a new pair has a session of its own.
AddParticipant(s, c) ==
  /\ status[s] = "active"
  /\ OfAnotherUser(c, members[s])
  /\ \A p \in NewPairs(s, c) : pairIndex[p] \in {NoSession, s}
  /\ members' = [members EXCEPT ![s] = @ \cup {c}]
  /\ pairIndex' = [p \in Pairs |-> IF p \in NewPairs(s, c) THEN s ELSE pairIndex[p]]
  /\ sessionIndex' = WithSession({c}, s)
  /\ UNCHANGED <<status, origin>>

\* The record's removeParticipant.
Remaining(s, gone) == {c \in members[s] : <<s, c>> \notin gone}

\* A session of `closed` closes and keeps its participants; a pair <<s, c>> of
\* `gone` is a participant that leaves.  The pairs concerned are deleted where
\* they point to the session.
Shrink(gone, closed) ==
  /\ status' = [s \in SessionIds |-> IF s \in closed THEN "closed" ELSE status[s]]
  /\ members' = [s \in SessionIds |->
       IF s \in closed THEN members[s] ELSE Remaining(s, gone)]
  /\ pairIndex' = [p \in Pairs |->
       IF pairIndex[p] \in closed /\ p \subseteq members[pairIndex[p]] THEN NoSession
       ELSE IF \E c \in p : <<pairIndex[p], c>> \in gone THEN NoSession
       ELSE pairIndex[p]]
  /\ sessionIndex' = WithoutSessions(gone, closed)
  /\ UNCHANGED origin

CloseByServerId == Shrink({}, Active)

CloseSession(s) == status[s] = "active" /\ Shrink({}, {s})

\* removeParticipant: a session of two closes instead.
RemoveParticipant(ss, c) ==
  LET ends == {s \in ss : Cardinality(members[s]) = 2}
  IN Shrink((ss \ ends) \X {c}, ends)

-----------------------------------------------------------------------------
(* Batches of session deltas *)

\* The loop of b goes on with the events `todo`, or the request is answered.
Continue(b, todo) ==
  /\ batch' = [batch EXCEPT ![b] =
       IF todo = {} THEN Idle ELSE [@ EXCEPT !.todo = todo, !.observed = 0]]
  /\ turn' = IF todo = {} THEN NoBatch ELSE b
  /\ UNCHANGED overlapped

\* A mutant: the sessions of the old epoch stay.
Resolve_KeepsSessions(e, first) ==
  \/ e = epoch /\ UNCHANGED <<sequenceVars, registryVars>>
  \/ /\ e # epoch /\ e \notin burnedEpochs /\ first = 1
     /\ epoch' = e /\ accepted' = 0
     /\ burnedEpochs' = burnedEpochs \cup ({epoch} \ {NoEpoch})
     /\ UNCHANGED registryVars

\* resolveSequenceState: the current epoch goes on, a new one must start with
\* event one; then the server's sessions are closed and the old epoch is burned.
Resolve(e, first) ==
  \/ e = epoch /\ UNCHANGED <<sequenceVars, registryVars>>
  \/ /\ e # epoch /\ e \notin burnedEpochs /\ first = 1
     /\ epoch' = e /\ accepted' = 0
     /\ burnedEpochs' = burnedEpochs \cup ({epoch} \ {NoEpoch})
     /\ CloseByServerId

\* The events that one request may carry, which the service sorts; a number that
\* is there twice is skipped like one that was accepted before.
EventLists == (SUBSET (1..MaxSequence)) \ {{}}

\* acceptBatch up to its loop.  Refused batches change nothing.
AcceptBatch(b, e, events) ==
  /\ turn = NoBatch /\ ~stopped
  /\ batch[b] = Idle
  /\ Resolve(e, Min(events))
  /\ batch' = [batch EXCEPT ![b] = [epoch |-> e, todo |-> events, observed |-> 0]]
  /\ turn' = b
  /\ overlapped' = (overlapped \/ \E o \in Batches : batch[o] # Idle)
  /\ UNCHANGED stopped

Next1(b) == Min(batch[b].todo)

SkipDuplicate(b) ==
  /\ turn = b /\ Next1(b) <= accepted
  /\ Continue(b, batch[b].todo \ {Next1(b)})
  /\ UNCHANGED <<registryVars, sequenceVars, stopped>>

\* A mutant: gaps are accepted.
Expected_AnyLater(b) == Next1(b) > accepted

\* The first event that an epoch accepts may have any number.
Expected(b) ==
  Next1(b) > accepted /\ (accepted = 0 \/ Next1(b) = accepted + 1)

\* The request fails at its next event: the events before it stay accepted.
FailBatch(b) ==
  /\ turn = b /\ Next1(b) > accepted
  /\ Continue(b, {})
  /\ UNCHANGED <<registryVars, sequenceVars, stopped>>

SequenceGap(b) == turn = b /\ ~Expected(b) /\ FailBatch(b)

\* A participant is no ready player, or has not one active voice connection, or
\* the session is not as the event says.
RefuseEvent(b) == turn = b /\ Expected(b) /\ FailBatch(b)

\* The event changes nothing: its session is absent, or it was applied before.
IgnoreEvent(b) ==
  /\ turn = b /\ Expected(b)
  /\ accepted' = Next1(b)
  /\ Continue(b, batch[b].todo \ {Next1(b)})
  /\ UNCHANGED <<registryVars, epoch, burnedEpochs, stopped>>

\* Every event names two connections of two users: no other event is accepted.
Anchors == {a \in Connections \X Connections : a[1] # a[2] /\ OfAnotherUser(a[1], {a[2]})}

\* The kinds of an event, of a session s; a distance is recorded and nothing else.
SessionCreatedEvent(b, s) ==
  \E a \in Anchors : CreatePairSession(s, a[1], a[2], batch[b].epoch)
MemberJoinedEvent(s) == \E c \in Connections : AddParticipant(s, c)
MemberLeftEvent(s) ==
  status[s] = "active" /\ \E c \in members[s] : RemoveParticipant({s}, c)
SessionClosedEvent(s) == CloseSession(s)
DistanceUpdatedEvent(s) == status[s] = "active" /\ UNCHANGED registryVars

\* validateEventAgainstSession: the pair that an event names belongs to its session.
Anchored(s) == \E a \in Anchors : {a[1], a[2]} \subseteq members[s]

EventApplied(b, s) ==
  \/ SessionCreatedEvent(b, s)
  \/ Anchored(s) /\ \/ MemberJoinedEvent(s) \/ MemberLeftEvent(s)
                    \/ SessionClosedEvent(s) \/ DistanceUpdatedEvent(s)

\* The event is applied and its observer is awaited before it is accepted.
ApplyEvent(b) ==
  /\ turn = b /\ Expected(b)
  /\ \E s \in SessionIds : EventApplied(b, s)
  /\ batch' = [batch EXCEPT ![b].observed = Next1(b)]
  /\ turn' = NoBatch
  /\ UNCHANGED <<sequenceVars, overlapped, stopped>>

\* The observer has returned: only now the number of its event is accepted.
ObserverDone(b) ==
  /\ turn = NoBatch /\ batch[b].observed > 0
  /\ accepted' = batch[b].observed
  /\ Continue(b, batch[b].todo \ {batch[b].observed})
  /\ UNCHANGED <<registryVars, epoch, burnedEpochs, stopped>>

\* The reconnect coordinator closes the sessions of a connection that is gone.
CloseByConnectionId(c) ==
  /\ turn = NoBatch
  /\ LET ss == {s \in sessionIndex[c] : status[s] = "active" /\ c \in members[s]}
     IN ss # {} /\ RemoveParticipant(ss, c)
  /\ UNCHANGED <<sequenceVars, batchVars, stopped>>

\* The service keeps no state after it stops; the batches that wait go on.
Stop ==
  /\ turn = NoBatch /\ ~stopped
  /\ stopped' = TRUE
  /\ UNCHANGED <<registryVars, sequenceVars, batchVars>>

-----------------------------------------------------------------------------

Next ==
  \/ \E b \in Batches :
       \/ \E e \in Epochs, events \in EventLists :
            AcceptBatch(b, e, events)
       \/ SkipDuplicate(b) \/ SequenceGap(b) \/ RefuseEvent(b) \/ IgnoreEvent(b)
       \/ ApplyEvent(b) \/ ObserverDone(b)
  \/ \E c \in Connections : CloseByConnectionId(c)
  \/ Stop

Spec == Init /\ [][Next]_vars

-----------------------------------------------------------------------------
(* Properties *)

\* The index of pairs and the index of connections say what the active records
\* say: a lookup finds every session, and a left-over entry neither blocks a new
\* session of its pair nor shows a connection in a session it left.
IndexesAgree ==
  /\ \A s \in SessionIds, p \in Pairs :
       pairIndex[p] = s <=> s \in Active /\ p \subseteq members[s]
  /\ \A s \in SessionIds, c \in Connections :
       s \in sessionIndex[c] <=> s \in Active /\ c \in members[s]

\* Two participants share at most one active session, and a session has at least
\* two participants, all of different users, however sessions grew, shrank and
\* closed, and whichever batches waited (createPairSession, addParticipant), and the
\* indexes that decide about the next session know it.
OneSessionPerPair ==
  /\ IndexesAgree
  /\ \A s \in Active :
       /\ Cardinality(members[s]) >= 2
       /\ \A c, d \in members[s] : c # d => UserOf[c] # UserOf[d]
       /\ \A t \in Active \ {s} : Cardinality(members[s] \cap members[t]) <= 1

\* When the dedicated server starts again under a new epoch nothing of its former
\* life is left: every active session comes from the current epoch.  The handler
\* promises it only while batches do not overlap.
SessionsOfCurrentEpoch ==
  ~overlapped => \A s \in Active : origin[s] = epoch

\* Events take effect in the order of their numbers, each once: as long as no two
\* batches overlap the accepted number moves on by one, apart from the first event
\* of an epoch, and the registry changes by an event only beyond it.
AcceptedInOrder ==
  [][~overlapped' =>
       /\ (accepted' # accepted /\ epoch' = epoch /\ accepted # 0) =>
            accepted' = accepted + 1
       /\ \A b \in Batches :
            (batch[b].observed = 0 /\ batch'[b].observed # 0) =>
              \/ accepted = 0
              \/ batch'[b].observed = accepted + 1]_vars
=============================================================================
