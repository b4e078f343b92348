------------------------ MODULE VoiceSessions_proofs ------------------------
(***************************************************************************)
(* Proofs about VoiceSessions: the indexes of the session registry, that a *)
(* pair of participants shares one session, what is left of a former       *)
(* epoch, and the order of the accepted events.  The registry knows        *)
(* nothing of the batches, so its invariant is proved first and per        *)
(* registry operation; the invariant of the batches builds on it.          *)
(***************************************************************************)
EXTENDS VoiceSessions, FiniteSetTheorems, TLAPS

-----------------------------------------------------------------------------
(* Pairs, and the least number of a set *)

\* Two different connections are a pair.
LEMMA TwoArePair ==
  ASSUME NEW c \in Connections, NEW d \in Connections, c # d
  PROVE  {c, d} \in Pairs
<1>1. IsFiniteSet({c}) /\ Cardinality({c}) = 1
  BY FS_Singleton
<1>2. Cardinality({c} \cup {d}) = 2
  BY <1>1, FS_AddElement
<1>3. {c} \cup {d} = {c, d}
  OBVIOUS
<1> QED
  BY <1>2, <1>3 DEF Pairs

\* A finite set of two or more has two different elements.
LEMMA TwoElements ==
  ASSUME NEW S, IsFiniteSet(S), Cardinality(S) >= 2
  PROVE  \E c, d \in S : c # d
<1>1. Cardinality(S) # 0 /\ Cardinality(S) # 1
  BY FS_CardinalityType
<1>2. PICK c \in S : TRUE
  BY <1>1, FS_EmptySet
<1>3. S # {c}
  BY <1>1, FS_Singleton
<1> QED
  BY <1>2, <1>3

\* A pair has two elements and no other one.
LEMMA PairIsTwo ==
  ASSUME NEW p \in Pairs
  PROVE  \E c, d \in Connections : c # d /\ p = {c, d}
<1>1. p \subseteq Connections /\ Cardinality(p) = 2
  BY DEF Pairs
<1>2. IsFiniteSet(p)
  BY <1>1, SessionsAssumption, FS_Subset
<1>3. PICK c \in p, d \in p : c # d
  BY <1>1, <1>2, TwoElements
<1>4. IsFiniteSet(p \ {c}) /\ Cardinality(p \ {c}) = 1
  BY <1>1, <1>2, <1>3, FS_RemoveElement
<1>5. p \ {c} = {d}
  BY <1>3, <1>4, FS_Singleton
<1> QED
  BY <1>1, <1>3, <1>5

\* A set that is not empty and holds natural numbers only has a least one.
LEMMA LeastNumber ==
  ASSUME NEW S \in SUBSET Nat, S # {}
  PROVE  Min(S) \in S /\ \A n \in S : Min(S) <= n
<1>1. IsWellFoundedOn(OpToRel(<, Nat), Nat)
  BY NatLessThanWellFounded
<1>2. PICK m \in S : \A n \in S : ~(<<n, m>> \in OpToRel(<, Nat))
  BY <1>1, WFMin
<1>3. \A n \in S : ~(n < m)
  BY <1>2 DEF OpToRel
<1>4. \A n \in S : m =< n
  BY <1>3
<1> QED
  BY <1>4 DEF Min

-----------------------------------------------------------------------------
(* The registry of sessions *)

RegistryTypes ==
  /\ status \in [SessionIds -> {"none", "active", "closed"}]
  /\ members \in [SessionIds -> SUBSET Connections]
  /\ pairIndex \in [Pairs -> SessionIds \cup {NoSession}]
  /\ sessionIndex \in [Connections -> SUBSET SessionIds]
  /\ origin \in [SessionIds -> Epochs \cup {NoEpoch}]

\* A session has two participants or more, of different users.
SessionsConnectUsers ==
  \A s \in Active :
    /\ Cardinality(members[s]) >= 2
    /\ \A c, d \in members[s] : c # d => UserOf[c] # UserOf[d]

RegistryInv == RegistryTypes /\ IndexesAgree /\ SessionsConnectUsers

\* The participants of a session are finitely many.
LEMMA MembersFinite ==
  ASSUME RegistryTypes, NEW s \in SessionIds
  PROVE  IsFiniteSet(members[s]) /\ Cardinality(members[s]) \in Nat
BY SessionsAssumption, FS_Subset, FS_CardinalityType DEF RegistryTypes

\* The indexes tell apart two sessions that share a pair, so that no two do.
LEMMA IndexedPairsAreUnique ==
  ASSUME RegistryInv
  PROVE  OneSessionPerPair
<1> SUFFICES ASSUME NEW s \in Active, NEW t \in Active \ {s},
                    ~(Cardinality(members[s] \cap members[t]) <= 1)
             PROVE  FALSE
  BY DEF RegistryInv, SessionsConnectUsers, OneSessionPerPair
<1>1. /\ s \in SessionIds /\ t \in SessionIds
      /\ members[s] \subseteq Connections /\ members[t] \subseteq Connections
  BY DEF RegistryInv, RegistryTypes, Active
<1>2. IsFiniteSet(members[s] \cap members[t])
  BY <1>1, SessionsAssumption, FS_Subset
<1>3. Cardinality(members[s] \cap members[t]) >= 2
  BY <1>2, FS_CardinalityType
<1>4. PICK c \in members[s] \cap members[t], d \in members[s] \cap members[t] : c # d
  BY <1>2, <1>3, TwoElements
<1>5. {c, d} \in Pairs
  BY <1>1, <1>4, TwoArePair
<1>6. pairIndex[{c, d}] = s /\ pairIndex[{c, d}] = t
  BY <1>1, <1>4, <1>5 DEF RegistryInv, IndexesAgree
<1> QED
  BY <1>6

\* A new session of two connections whose pair has none.
LEMMA CreateKeepsRegistry ==
  ASSUME RegistryInv, NEW s \in SessionIds, NEW c \in Connections, NEW d \in Connections,
         c # d, NEW e \in Epochs \cup {NoEpoch}, CreatePairSession(s, c, d, e)
  PROVE  RegistryInv' /\ Active' = Active \cup {s}
<1>1. {c, d} \in Pairs
  BY TwoArePair
<1>2. UserOf[c] # UserOf[d] /\ status[s] = "none" /\ pairIndex[{c, d}] = NoSession
  BY DEF CreatePairSession, OfAnotherUser
<1>3. RegistryTypes'
  BY <1>1 DEF CreatePairSession, Opened, WithSession, RegistryInv, RegistryTypes
<1>4. Active' = Active \cup {s} /\ s \notin Active
  BY <1>2 DEF CreatePairSession, Opened, Active, RegistryInv, RegistryTypes
<1>5. /\ members'[s] = {c, d}
      /\ \A t \in SessionIds \ {s} : members'[t] = members[t]
  BY DEF CreatePairSession, Opened, RegistryInv, RegistryTypes
<1>6. ASSUME NEW t \in SessionIds, NEW p \in Pairs
      PROVE  pairIndex'[p] = t <=> t \in Active' /\ p \subseteq members'[t]
  <2>1. pairIndex'[p] = IF p = {c, d} THEN s ELSE pairIndex[p]
    BY DEF CreatePairSession, RegistryInv, RegistryTypes
  <2>2. pairIndex[p] = t <=> t \in Active /\ p \subseteq members[t]
    BY DEF RegistryInv, IndexesAgree
  <2>3. p \subseteq {c, d} => p = {c, d}
    BY PairIsTwo
  <2>4. NoSession # t
    BY SessionsAssumption
  <2> QED
    BY <1>2, <1>4, <1>5, <2>1, <2>2, <2>3, <2>4
<1>7. ASSUME NEW t \in SessionIds, NEW x \in Connections
      PROVE  t \in sessionIndex'[x] <=> t \in Active' /\ x \in members'[t]
  <2>1. sessionIndex'[x] = IF x \in {c, d} THEN sessionIndex[x] \cup {s} ELSE sessionIndex[x]
    BY DEF CreatePairSession, WithSession
  <2>2. t \in sessionIndex[x] <=> t \in Active /\ x \in members[t]
    BY DEF RegistryInv, IndexesAgree
  <2> QED
    BY <1>4, <1>5, <2>1, <2>2
<1>8. SessionsConnectUsers'
  <2> SUFFICES ASSUME NEW t \in Active'
               PROVE  /\ Cardinality(members'[t]) >= 2
                      /\ \A x, y \in members'[t] : x # y => UserOf[x] # UserOf[y]
    BY DEF SessionsConnectUsers
  <2>1. CASE t = s
    <3>1. Cardinality({c, d}) = 2
      BY <1>1 DEF Pairs
    <3>2. Cardinality(members'[t]) >= 2
      BY <1>5, <2>1, <3>1
    <3>3. \A x, y \in {c, d} : x # y => UserOf[x] # UserOf[y]
      BY <1>2
    <3> QED
      BY <1>5, <2>1, <3>2, <3>3
  <2>2. CASE t # s
    <3>1. t \in Active /\ members'[t] = members[t]
      BY <1>4, <1>5, <2>2 DEF Active
    <3> QED
      BY <3>1 DEF RegistryInv, SessionsConnectUsers
  <2> QED
    BY <2>1, <2>2
<1> QED
  BY <1>3, <1>4, <1>6, <1>7, <1>8 DEF RegistryInv, IndexesAgree

\* A connection of a user who is not in the session joins it; the pairs it makes had
\* no session, since only a session that it is in could have them.
LEMMA JoinKeepsRegistry ==
  ASSUME RegistryInv, NEW s \in SessionIds, NEW c \in Connections, AddParticipant(s, c)
  PROVE  RegistryInv' /\ Active' = Active /\ origin' = origin
<1>1. /\ s \in Active /\ status' = status /\ origin' = origin
      /\ OfAnotherUser(c, members[s])
      /\ \A p \in NewPairs(s, c) : pairIndex[p] \in {NoSession, s}
  BY DEF AddParticipant, Active
<1>2. Active' = Active
  BY <1>1 DEF Active
<1>3. c \notin members[s]
  BY <1>1 DEF OfAnotherUser
<1>4. /\ members'[s] = members[s] \cup {c}
      /\ \A t \in SessionIds \ {s} : members'[t] = members[t]
      /\ members' \in [SessionIds -> SUBSET Connections]
  BY DEF AddParticipant, RegistryInv, RegistryTypes
<1>5. \A p \in Pairs : pairIndex'[p] = IF p \in NewPairs(s, c) THEN s ELSE pairIndex[p]
  BY DEF AddParticipant
<1>6. RegistryTypes'
  <2>1. pairIndex' \in [Pairs -> SessionIds \cup {NoSession}]
    BY DEF AddParticipant, RegistryInv, RegistryTypes
  <2>2. sessionIndex' \in [Connections -> SUBSET SessionIds]
    BY DEF AddParticipant, WithSession, RegistryInv, RegistryTypes
  <2> QED
    BY <1>1, <1>4, <2>1, <2>2 DEF RegistryInv, RegistryTypes
<1>7. ASSUME NEW p \in Pairs
      PROVE  /\ p \in NewPairs(s, c) => c \in p /\ p \subseteq members[s] \cup {c}
             /\ p \subseteq members[s] \cup {c} =>
                  p \subseteq members[s] \/ p \in NewPairs(s, c)
  <2>1. PICK x \in Connections, y \in Connections : x # y /\ p = {x, y}
    BY PairIsTwo
  <2>2. CASE c \notin p
    BY <2>2 DEF NewPairs
  <2>3. CASE x = c
    <3>1. p = {y, c}
      BY <2>1, <2>3
    <3> QED
      BY <2>1, <2>3, <3>1 DEF NewPairs
  <2>4. CASE y = c
    BY <2>1, <2>4 DEF NewPairs
  <2> QED
    BY <2>1, <2>2, <2>3, <2>4
<1>8. ASSUME NEW t \in SessionIds, NEW p \in Pairs
      PROVE  pairIndex'[p] = t <=> t \in Active' /\ p \subseteq members'[t]
  <2>1. \A r \in SessionIds : pairIndex[p] = r <=> r \in Active /\ p \subseteq members[r]
    BY DEF RegistryInv, IndexesAgree
  <2>2. CASE p \in NewPairs(s, c)
    <3>1. pairIndex[p] \in {NoSession, s} /\ c \in p
      BY <1>1, <1>7, <2>2
    <3>2. pairIndex[p] # s
      BY <1>3, <2>1, <3>1
    <3>3. \A r \in SessionIds \ {s} : ~(r \in Active /\ p \subseteq members[r])
      BY <2>1, <3>1, SessionsAssumption
    <3> QED
      BY <1>1, <1>2, <1>4, <1>5, <1>7, <2>2, <3>3
  <2>3. CASE p \notin NewPairs(s, c)
    <3>1. p \subseteq members[s] \cup {c} <=> p \subseteq members[s]
      BY <1>7, <2>3
    <3> QED
      BY <1>2, <1>4, <1>5, <2>1, <2>3, <3>1
  <2> QED
    BY <2>2, <2>3
<1>9. ASSUME NEW t \in SessionIds, NEW x \in Connections
      PROVE  t \in sessionIndex'[x] <=> t \in Active' /\ x \in members'[t]
  <2>1. sessionIndex'[x] = IF x \in {c} THEN sessionIndex[x] \cup {s} ELSE sessionIndex[x]
    BY DEF AddParticipant, WithSession
  <2>2. t \in sessionIndex[x] <=> t \in Active /\ x \in members[t]
    BY DEF RegistryInv, IndexesAgree
  <2> QED
    BY <1>1, <1>2, <1>4, <2>1, <2>2
<1>10. ASSUME NEW t \in Active
       PROVE  /\ Cardinality(members'[t]) >= 2
              /\ \A x, y \in members'[t] : x # y => UserOf[x] # UserOf[y]
  <2>1. /\ Cardinality(members[t]) >= 2
        /\ \A x, y \in members[t] : x # y => UserOf[x] # UserOf[y]
    BY DEF RegistryInv, SessionsConnectUsers
  <2>2. CASE t = s
    <3>1. IsFiniteSet(members[s]) /\ Cardinality(members[s]) \in Nat
      BY MembersFinite DEF RegistryInv
    <3>2. Cardinality(members[s] \cup {c}) = Cardinality(members[s]) + 1
      BY <1>3, <3>1, FS_AddElement
    <3>3. Cardinality(members[s] \cup {c}) >= 2
      BY <2>1, <2>2, <3>1, <3>2
    <3>4. \A x, y \in members[s] \cup {c} : x # y => UserOf[x] # UserOf[y]
      BY <1>1, <2>1, <2>2 DEF OfAnotherUser
    <3> QED
      BY <1>4, <2>2, <3>3, <3>4
  <2>3. CASE t # s
    BY <1>4, <2>1, <2>3 DEF Active
  <2> QED
    BY <2>2, <2>3
<1> QED
  BY <1>1, <1>2, <1>6, <1>8, <1>9, <1>10
  DEF RegistryInv, IndexesAgree, SessionsConnectUsers

\* Sessions that close, and participants that leave, take their entries with them:
\* an entry of a pair points to the session that both are in, and to no other.
LEMMA ShrinkKeepsRegistry ==
  ASSUME RegistryInv, NEW closed \in SUBSET Active, NEW gone, Shrink(gone, closed),
         \A g \in gone : \E s \in Active \ closed, c \in Connections :
                            g = <<s, c>> /\ c \in members[s],
         \A s \in Active \ closed : Cardinality(Remaining(s, gone)) >= 2
  PROVE  RegistryInv' /\ Active' = Active \ closed /\ origin' = origin
<1>1. Active' = Active \ closed
  BY DEF Shrink, Active
<1>2. ASSUME NEW s \in SessionIds
      PROVE  members'[s] = IF s \in closed THEN members[s] ELSE Remaining(s, gone)
  BY DEF Shrink
<1>3. RegistryTypes'
  <2>1. status' \in [SessionIds -> {"none", "active", "closed"}]
    BY DEF Shrink, RegistryInv, RegistryTypes
  <2>2. members' \in [SessionIds -> SUBSET Connections]
    BY DEF Shrink, Remaining, RegistryInv, RegistryTypes
  <2>3. pairIndex' \in [Pairs -> SessionIds \cup {NoSession}]
    BY DEF Shrink, RegistryInv, RegistryTypes
  <2>4. sessionIndex' \in [Connections -> SUBSET SessionIds]
    BY DEF Shrink, WithoutSessions, RegistryInv, RegistryTypes
  <2>5. origin' = origin
    BY DEF Shrink
  <2> QED
    BY <2>1, <2>2, <2>3, <2>4, <2>5 DEF RegistryInv, RegistryTypes
<1>4. ASSUME NEW t \in SessionIds, NEW p \in Pairs
      PROVE  pairIndex'[p] = t <=> t \in Active' /\ p \subseteq members'[t]
  <2>1. pairIndex'[p] =
          IF pairIndex[p] \in closed /\ p \subseteq members[pairIndex[p]] THEN NoSession
          ELSE IF \E c \in p : <<pairIndex[p], c>> \in gone THEN NoSession
          ELSE pairIndex[p]
    BY DEF Shrink
  <2>2. pairIndex[p] = t <=> t \in Active /\ p \subseteq members[t]
    BY DEF RegistryInv, IndexesAgree
  <2>3. NoSession # t
    BY SessionsAssumption
  <2>4. CASE pairIndex[p] # t
    <3>1. pairIndex'[p] # t
      BY <2>1, <2>3, <2>4
    <3>2. members'[t] \subseteq members[t]
      BY <1>2 DEF Remaining
    <3> QED
      BY <1>1, <2>2, <2>4, <3>1, <3>2
  <2>5. CASE pairIndex[p] = t /\ t \in closed
    BY <1>1, <2>1, <2>2, <2>3, <2>5
  <2>6. CASE pairIndex[p] = t /\ t \notin closed
    <3>1. t \in Active' /\ p \subseteq members[t]
      BY <1>1, <2>2, <2>6
    <3>2. p \subseteq Remaining(t, gone) <=> ~\E c \in p : <<t, c>> \in gone
      BY <3>1 DEF Remaining
    <3> QED
      BY <1>2, <2>1, <2>3, <2>6, <3>1, <3>2
  <2> QED
    BY <2>4, <2>5, <2>6
<1>5. ASSUME NEW t \in SessionIds, NEW x \in Connections
      PROVE  t \in sessionIndex'[x] <=> t \in Active' /\ x \in members'[t]
  <2>1. t \in sessionIndex'[x] <=>
          /\ t \in sessionIndex[x] /\ ~(t \in closed /\ x \in members[t])
          /\ <<t, x>> \notin gone
    BY DEF Shrink, WithoutSessions
  <2>2. t \in sessionIndex[x] <=> t \in Active /\ x \in members[t]
    BY DEF RegistryInv, IndexesAgree
  <2> QED
    BY <1>1, <1>2, <2>1, <2>2 DEF Remaining
<1>6. ASSUME NEW t \in Active \ closed
      PROVE  /\ Cardinality(members'[t]) >= 2
             /\ \A x, y \in members'[t] : x # y => UserOf[x] # UserOf[y]
  <2>1. members'[t] = Remaining(t, gone) /\ Remaining(t, gone) \subseteq members[t]
    BY <1>2 DEF Active, Remaining
  <2> QED
    BY <2>1 DEF RegistryInv, SessionsConnectUsers
<1>7. origin' = origin
  BY DEF Shrink
<1> QED
  BY <1>1, <1>3, <1>4, <1>5, <1>6, <1>7
  DEF RegistryInv, IndexesAgree, SessionsConnectUsers

\* Every participant of the server's sessions stays where it is: they all close.
LEMMA CloseAllKeepsRegistry ==
  ASSUME RegistryInv, CloseByServerId
  PROVE  RegistryInv' /\ Active' = {} /\ origin' = origin
<1>1. Shrink({}, Active) /\ Active \in SUBSET Active
  BY DEF CloseByServerId
<1>2. \A s \in Active \ Active : Cardinality(Remaining(s, {})) >= 2
  OBVIOUS
<1>3. RegistryInv' /\ Active' = Active \ Active /\ origin' = origin
  BY <1>1, <1>2, ShrinkKeepsRegistry
<1> QED
  BY <1>3

\* Closing a session is shrinking it away.
LEMMA CloseKeepsRegistry ==
  ASSUME RegistryInv, NEW s \in SessionIds, CloseSession(s)
  PROVE  RegistryInv' /\ Active' = Active \ {s} /\ origin' = origin
<1>1. Shrink({}, {s}) /\ {s} \in SUBSET Active
  BY DEF CloseSession, Active
<1>2. \A t \in Active \ {s} : Cardinality(Remaining(t, {})) >= 2
  <2> SUFFICES ASSUME NEW t \in Active \ {s}
               PROVE  Cardinality(Remaining(t, {})) >= 2
    OBVIOUS
  <2>1. Remaining(t, {}) = members[t]
    BY DEF Remaining
  <2> QED
    BY <2>1 DEF RegistryInv, SessionsConnectUsers
<1> QED
  BY <1>1, <1>2, ShrinkKeepsRegistry

\* One connection leaves sessions that it is in: a session of two ends, a larger one
\* keeps two or more.
LEMMA LeaveKeepsRegistry ==
  ASSUME RegistryInv, NEW ss \in SUBSET Active, NEW c \in Connections,
         \A s \in ss : c \in members[s], RemoveParticipant(ss, c)
  PROVE  RegistryInv' /\ Active' \subseteq Active /\ origin' = origin
<1> DEFINE ends == {s \in ss : Cardinality(members[s]) = 2}
           gone == (ss \ ends) \X {c}
<1>1. Shrink(gone, ends) /\ ends \in SUBSET Active
  BY DEF RemoveParticipant
<1>2. \A g \in gone : \E s \in Active \ ends, x \in Connections :
                         g = <<s, x>> /\ x \in members[s]
  OBVIOUS
<1>3. ASSUME NEW s \in Active \ ends
      PROVE  Cardinality(Remaining(s, gone)) >= 2
  <2>1. s \in SessionIds
    BY DEF Active
  <2>2. IsFiniteSet(members[s]) /\ Cardinality(members[s]) \in Nat
    BY <2>1, MembersFinite DEF RegistryInv
  <2>3. Cardinality(members[s]) >= 2
    BY DEF RegistryInv, SessionsConnectUsers
  <2>4. CASE s \notin ss
    <3>1. Remaining(s, gone) = members[s]
      BY <2>4 DEF Remaining
    <3> QED
      BY <2>3, <3>1
  <2>5. CASE s \in ss
    <3>1. Remaining(s, gone) = members[s] \ {c}
      BY <2>5 DEF Remaining
    <3>2. c \in members[s] /\ Cardinality(members[s]) # 2
      BY <2>5
    <3>3. Cardinality(members[s] \ {c}) = Cardinality(members[s]) - 1
      BY <2>2, <3>2, FS_RemoveElement
    <3>4. Cardinality(members[s] \ {c}) >= 2
      BY <2>2, <2>3, <3>2, <3>3
    <3> QED
      BY <3>1, <3>4
  <2> QED
    BY <2>4, <2>5
<1> HIDE DEF ends, gone
<1>4. RegistryInv' /\ Active' = Active \ ends /\ origin' = origin
  BY <1>1, <1>2, <1>3, ShrinkKeepsRegistry
<1> QED
  BY <1>4

\* A step that leaves the registry alone.
LEMMA SameRegistry ==
  ASSUME UNCHANGED registryVars
  PROVE  (RegistryInv => RegistryInv') /\ Active' = Active /\ origin' = origin
<1>1. /\ status' = status /\ members' = members /\ pairIndex' = pairIndex
      /\ sessionIndex' = sessionIndex /\ origin' = origin
  BY DEF registryVars
<1>2. Active' = Active
  BY <1>1 DEF Active
<1> QED
  BY <1>1, <1>2 DEF RegistryInv, RegistryTypes, IndexesAgree, SessionsConnectUsers

\* What an event of batch b does: a session that becomes active is of b's epoch.
LEMMA EventKeepsRegistry ==
  ASSUME RegistryInv, NEW b \in Batches, NEW s \in SessionIds, EventApplied(b, s),
         batch[b].epoch \in Epochs \cup {NoEpoch}
  PROVE  /\ RegistryInv'
         /\ \A t \in Active' : \/ t \in Active /\ origin'[t] = origin[t]
                               \/ origin'[t] = batch[b].epoch
<1>1. CASE SessionCreatedEvent(b, s)
  <2>1. PICK a \in Anchors : CreatePairSession(s, a[1], a[2], batch[b].epoch)
    BY <1>1 DEF SessionCreatedEvent
  <2>2. a[1] \in Connections /\ a[2] \in Connections /\ a[1] # a[2]
    BY DEF Anchors
  <2>3. RegistryInv' /\ Active' = Active \cup {s}
    BY <2>1, <2>2, CreateKeepsRegistry
  <2>4. origin' = [origin EXCEPT ![s] = batch[b].epoch]
    BY <2>1 DEF CreatePairSession
  <2>5. \A t \in SessionIds : origin'[t] = IF t = s THEN batch[b].epoch ELSE origin[t]
    BY <2>4 DEF RegistryInv, RegistryTypes
  <2>6. Active' \subseteq SessionIds
    BY DEF Active
  <2> QED
    BY <2>3, <2>5, <2>6
<1>2. CASE MemberJoinedEvent(s)
  <2>1. PICK c \in Connections : AddParticipant(s, c)
    BY <1>2 DEF MemberJoinedEvent
  <2> QED
    BY <2>1, JoinKeepsRegistry
<1>3. CASE MemberLeftEvent(s)
  <2>1. PICK c \in members[s] : status[s] = "active" /\ RemoveParticipant({s}, c)
    BY <1>3 DEF MemberLeftEvent
  <2>2. {s} \in SUBSET Active /\ c \in Connections /\ \A t \in {s} : c \in members[t]
    BY <2>1 DEF Active, RegistryInv, RegistryTypes
  <2> QED
    BY <2>1, <2>2, LeaveKeepsRegistry
<1>4. CASE SessionClosedEvent(s)
  BY <1>4, CloseKeepsRegistry DEF SessionClosedEvent
<1>5. CASE DistanceUpdatedEvent(s)
  BY <1>5, SameRegistry DEF DistanceUpdatedEvent
<1> QED
  BY <1>1, <1>2, <1>3, <1>4, <1>5 DEF EventApplied

-----------------------------------------------------------------------------
(* Batches *)

BatchTypes ==
  /\ epoch \in Epochs \cup {NoEpoch}
  /\ accepted \in 0..MaxSequence
  /\ burnedEpochs \subseteq Epochs
  /\ batch \in [Batches -> [epoch : Epochs \cup {NoEpoch},
                            todo : SUBSET (1..MaxSequence),
                            observed : 0..MaxSequence]]
  /\ turn \in Batches \cup {NoBatch}
  /\ stopped \in BOOLEAN /\ overlapped \in BOOLEAN

\* A request that is handled has events left, and the one whose loop runs waits for
\* no observer.
BatchesWork ==
  /\ \A b \in Batches :
       batch[b] = Idle \/ (batch[b].epoch \in Epochs /\ batch[b].todo # {})
  /\ turn \in Batches => batch[turn] # Idle /\ batch[turn].observed = 0

\* While no two batches overlap, the one that waits is of the current epoch, its
\* observed event is the next one, and no session is left of another epoch.
InLine ==
  ~overlapped =>
    /\ \A b, o \in Batches : batch[b] # Idle /\ batch[o] # Idle => b = o
    /\ \A b \in Batches : batch[b] # Idle => batch[b].epoch = epoch
    /\ \A b \in Batches : batch[b].observed # 0 =>
         /\ batch[b].observed > accepted
         /\ accepted = 0 \/ batch[b].observed = accepted + 1
    /\ \A s \in Active : origin[s] = epoch

IInv == RegistryInv /\ BatchTypes /\ BatchesWork /\ InLine

\* The first event of a batch is one of its events.
LEMMA NextIsLeast ==
  ASSUME BatchTypes, BatchesWork, NEW b \in Batches, batch[b] # Idle
  PROVE  Next1(b) \in batch[b].todo /\ Next1(b) \in 1..MaxSequence
<1>1. batch[b].todo \in SUBSET (1..MaxSequence) /\ batch[b].todo # {}
  BY DEF BatchTypes, BatchesWork
<1>2. batch[b].todo \in SUBSET Nat
  BY <1>1, SessionsAssumption
<1> QED
  BY <1>1, <1>2, LeastNumber DEF Next1

\* The batch whose turn it is, or that waits, goes on or is answered.
LEMMA ContinueKeepsBatches ==
  ASSUME BatchTypes, BatchesWork, NEW b \in Batches, batch[b] # Idle,
         turn \in {b, NoBatch}, NEW todo \in SUBSET (1..MaxSequence), Continue(b, todo),
         UNCHANGED <<epoch, burnedEpochs, stopped>>, accepted' \in 0..MaxSequence
  PROVE  /\ BatchTypes' /\ BatchesWork' /\ overlapped' = overlapped
         /\ \A o \in Batches \ {b} : batch'[o] = batch[o]
         /\ batch'[b] = Idle \/ batch'[b].epoch = batch[b].epoch
         /\ batch'[b].observed = 0
<1>1. /\ batch' = [batch EXCEPT ![b] =
            IF todo = {} THEN Idle ELSE [@ EXCEPT !.todo = todo, !.observed = 0]]
      /\ turn' = IF todo = {} THEN NoBatch ELSE b
      /\ overlapped' = overlapped
  BY DEF Continue
<1>2. /\ batch[b] \in [epoch : Epochs \cup {NoEpoch}, todo : SUBSET (1..MaxSequence),
                      observed : 0..MaxSequence]
      /\ batch[b].epoch \in Epochs
      /\ 0 \in 0..MaxSequence
  BY SessionsAssumption DEF BatchTypes, BatchesWork
<1>3. \A o \in Batches \ {b} : batch'[o] = batch[o]
  BY <1>1 DEF BatchTypes
<1>4. CASE todo = {}
  <2>1. batch'[b] = Idle /\ turn' = NoBatch
    BY <1>1, <1>4 DEF BatchTypes
  <2>2. Idle \in [epoch : Epochs \cup {NoEpoch}, todo : SUBSET (1..MaxSequence),
                  observed : 0..MaxSequence]
    BY <1>2 DEF Idle
  <2>3. BatchTypes'
    BY <1>1, <1>4, <2>1, <2>2 DEF BatchTypes
  <2>4. BatchesWork'
    BY <1>3, <2>1, SessionsAssumption DEF BatchesWork
  <2> QED
    BY <1>1, <1>3, <2>1, <2>3, <2>4 DEF Idle
<1>5. CASE todo # {}
  <2>1. /\ batch'[b] = [batch[b] EXCEPT !.todo = todo, !.observed = 0] /\ turn' = b
    BY <1>1, <1>5 DEF BatchTypes
  <2>2. /\ batch'[b].todo = todo /\ batch'[b].observed = 0
        /\ batch'[b].epoch = batch[b].epoch
        /\ batch'[b] \in [epoch : Epochs \cup {NoEpoch}, todo : SUBSET (1..MaxSequence),
                          observed : 0..MaxSequence]
    BY <1>2, <2>1
  <2>3. batch'[b] # Idle
    BY <1>5, <2>2 DEF Idle
  <2>4. batch' \in [Batches -> [epoch : Epochs \cup {NoEpoch},
                               todo : SUBSET (1..MaxSequence), observed : 0..MaxSequence]]
    BY <1>1, <1>3, <2>2 DEF BatchTypes
  <2>5. BatchTypes'
    BY <1>1, <2>1, <2>4 DEF BatchTypes
  <2>6. BatchesWork'
    BY <1>2, <1>3, <1>5, <2>1, <2>2, <2>3 DEF BatchesWork
  <2> QED
    BY <1>1, <1>3, <2>2, <2>5, <2>6
<1> QED
  BY <1>4, <1>5

\* And nothing of what holds without overlaps is lost, where no session becomes active.
LEMMA ContinueStaysInLine ==
  ASSUME BatchTypes, BatchesWork, InLine, NEW b \in Batches, batch[b] # Idle,
         turn \in {b, NoBatch}, NEW todo \in SUBSET (1..MaxSequence), Continue(b, todo),
         UNCHANGED <<epoch, burnedEpochs, stopped>>, accepted' \in 0..MaxSequence,
         UNCHANGED registryVars
  PROVE  BatchTypes' /\ BatchesWork' /\ InLine'
<1>1. /\ BatchTypes' /\ BatchesWork' /\ overlapped' = overlapped
      /\ \A o \in Batches \ {b} : batch'[o] = batch[o]
      /\ batch'[b] = Idle \/ batch'[b].epoch = batch[b].epoch
      /\ batch'[b].observed = 0
  BY ContinueKeepsBatches
<1>2. ASSUME ~overlapped, NEW o \in Batches \ {b}
      PROVE  batch[o] = Idle /\ batch'[o] = Idle
  BY <1>1, <1>2 DEF InLine
<1>3. Active' = Active /\ origin' = origin /\ epoch' = epoch
  BY SameRegistry
<1>4. Idle.observed = 0
  BY DEF Idle
<1> QED
  BY <1>1, <1>2, <1>3, <1>4 DEF InLine

\* A batch is accepted: when others wait it overlaps them, and otherwise it is the
\* only one and no session is left of an epoch before its own.
LEMMA AcceptKeepsInv ==
  ASSUME IInv, NEW b \in Batches, NEW e \in Epochs, NEW events \in EventLists,
         AcceptBatch(b, e, events)
  PROVE  IInv'
<1>1. /\ Resolve(e, Min(events)) /\ batch[b] = Idle /\ turn = NoBatch
      /\ batch' = [batch EXCEPT ![b] = [epoch |-> e, todo |-> events, observed |-> 0]]
      /\ turn' = b /\ stopped' = stopped
      /\ overlapped' = (overlapped \/ \E o \in Batches : batch[o] # Idle)
  BY DEF AcceptBatch
<1>2. events \in SUBSET (1..MaxSequence) /\ events # {} /\ 0 \in 0..MaxSequence
  <2>1. events \in SUBSET (1..MaxSequence) /\ events # {}
    BY DEF EventLists
  <2>2. 0 \in 0..MaxSequence
    BY SessionsAssumption
  <2> QED
    BY <2>1, <2>2
<1>3. /\ RegistryInv' /\ origin' = origin /\ epoch' = e
      /\ accepted' \in 0..MaxSequence /\ burnedEpochs' \subseteq Epochs
      /\ Active' = {} \/ (Active' = Active /\ epoch' = epoch)
  <2>1. CASE e = epoch /\ UNCHANGED <<sequenceVars, registryVars>>
    <3>1. UNCHANGED registryVars /\ UNCHANGED sequenceVars
      BY <2>1
    <3>2. epoch' = e /\ epoch' = epoch /\ accepted' = accepted /\ burnedEpochs' = burnedEpochs
      BY <2>1, <3>1 DEF sequenceVars
    <3> QED
      BY <3>1, <3>2, SameRegistry DEF IInv, BatchTypes
  <2>2. CASE /\ epoch' = e /\ accepted' = 0
             /\ burnedEpochs' = burnedEpochs \cup ({epoch} \ {NoEpoch})
             /\ CloseByServerId
    <3>1. RegistryInv' /\ Active' = {} /\ origin' = origin
      BY <2>2, CloseAllKeepsRegistry DEF IInv
    <3> QED
      BY <1>2, <2>2, <3>1 DEF IInv, BatchTypes
  <2> QED
    BY <1>1, <2>1, <2>2 DEF Resolve
<1>4. /\ batch'[b] = [epoch |-> e, todo |-> events, observed |-> 0]
      /\ \A o \in Batches \ {b} : batch'[o] = batch[o]
  BY <1>1 DEF IInv, BatchTypes
<1>5. BatchTypes'
  <2>1. [epoch |-> e, todo |-> events, observed |-> 0] \in
          [epoch : Epochs \cup {NoEpoch}, todo : SUBSET (1..MaxSequence),
           observed : 0..MaxSequence]
    BY <1>2
  <2>2. batch' \in [Batches -> [epoch : Epochs \cup {NoEpoch},
                               todo : SUBSET (1..MaxSequence), observed : 0..MaxSequence]]
    BY <1>1, <2>1 DEF IInv, BatchTypes
  <2>3. /\ epoch' \in Epochs \cup {NoEpoch} /\ accepted' \in 0..MaxSequence
        /\ burnedEpochs' \subseteq Epochs
    BY <1>3
  <2>4. turn' \in Batches \cup {NoBatch} /\ stopped' \in BOOLEAN
    BY <1>1 DEF IInv, BatchTypes
  <2>5. overlapped' \in BOOLEAN
    BY <1>1 DEF IInv, BatchTypes
  <2> QED
    BY <2>2, <2>3, <2>4, <2>5 DEF BatchTypes
<1>6. BatchesWork'
  <2>1. batch'[b].epoch = e /\ batch'[b].todo = events /\ batch'[b].observed = 0
    BY <1>4
  <2>2. batch'[b] # Idle
    BY <1>2, <2>1 DEF Idle
  <2> QED
    BY <1>1, <1>2, <1>4, <2>1, <2>2 DEF IInv, BatchesWork
<1>7. InLine'
  <2> SUFFICES ASSUME ~overlapped'
               PROVE  /\ \A o \in Batches \ {b} : batch'[o] = Idle
                      /\ batch'[b].epoch = epoch' /\ batch'[b].observed = 0
                      /\ \A s \in Active' : origin'[s] = epoch'
    <3>1. Idle.observed = 0
      BY DEF Idle
    <3> QED
      BY <3>1 DEF InLine
  <2>1. ~overlapped /\ \A o \in Batches : batch[o] = Idle
    BY <1>1
  <2>2. \A o \in Batches \ {b} : batch'[o] = Idle
    BY <1>4, <2>1
  <2>3. batch'[b].epoch = e /\ batch'[b].observed = 0
    BY <1>4
  <2>4. \A s \in Active' : origin'[s] = epoch'
    BY <1>3, <2>1 DEF IInv, InLine
  <2> QED
    BY <1>3, <2>2, <2>3, <2>4
<1> QED
  BY <1>3, <1>5, <1>6, <1>7 DEF IInv

\* The loop applies an event and waits for its observer: the event is the next one,
\* and the sessions it leaves are of the batch's epoch.
LEMMA ApplyKeepsInv ==
  ASSUME IInv, NEW b \in Batches, ApplyEvent(b)
  PROVE  /\ IInv'
         /\ \A o \in Batches \ {b} : batch'[o] = batch[o]
         /\ batch'[b].observed = Next1(b) /\ accepted' = accepted /\ Expected(b)
<1>1. /\ turn = b /\ Expected(b) /\ turn' = NoBatch
      /\ batch' = [batch EXCEPT ![b].observed = Next1(b)]
      /\ UNCHANGED <<sequenceVars, overlapped, stopped>>
  BY DEF ApplyEvent
<1>2. /\ epoch' = epoch /\ accepted' = accepted /\ burnedEpochs' = burnedEpochs
      /\ overlapped' = overlapped /\ stopped' = stopped
  BY <1>1 DEF sequenceVars
<1>3. batch[b] # Idle /\ batch[b].epoch \in Epochs /\ batch[b].todo # {}
  BY <1>1 DEF IInv, BatchesWork
<1>4. Next1(b) \in batch[b].todo /\ Next1(b) \in 1..MaxSequence
  BY <1>3, NextIsLeast DEF IInv
<1>5. PICK s \in SessionIds : EventApplied(b, s)
  BY DEF ApplyEvent
<1>6. /\ RegistryInv'
      /\ \A t \in Active' : \/ t \in Active /\ origin'[t] = origin[t]
                            \/ origin'[t] = batch[b].epoch
  BY <1>3, <1>5, EventKeepsRegistry DEF IInv
<1>7. /\ batch[b] \in [epoch : Epochs \cup {NoEpoch}, todo : SUBSET (1..MaxSequence),
                      observed : 0..MaxSequence]
      /\ Next1(b) \in 0..MaxSequence
  BY <1>4 DEF IInv, BatchTypes
<1>8. /\ batch'[b] = [batch[b] EXCEPT !.observed = Next1(b)]
      /\ \A o \in Batches \ {b} : batch'[o] = batch[o]
  BY <1>1 DEF IInv, BatchTypes
<1>9. /\ batch'[b] \in [epoch : Epochs \cup {NoEpoch}, todo : SUBSET (1..MaxSequence),
                       observed : 0..MaxSequence]
      /\ batch'[b].epoch = batch[b].epoch /\ batch'[b].todo = batch[b].todo
      /\ batch'[b].observed = Next1(b)
  BY <1>7, <1>8
<1>10. BatchTypes'
  <2>1. batch' \in [Batches -> [epoch : Epochs \cup {NoEpoch},
                               todo : SUBSET (1..MaxSequence), observed : 0..MaxSequence]]
    BY <1>1, <1>8, <1>9 DEF IInv, BatchTypes
  <2> QED
    BY <1>1, <1>2, <2>1 DEF IInv, BatchTypes
<1>11. BatchesWork'
  <2>1. turn' \notin Batches
    BY <1>1, SessionsAssumption
  <2> QED
    BY <1>3, <1>8, <1>9, <2>1 DEF IInv, BatchesWork
<1>12. InLine'
  <2> SUFFICES ASSUME ~overlapped'
               PROVE  /\ \A o \in Batches \ {b} : batch'[o] = Idle
                      /\ batch'[b].epoch = epoch'
                      /\ batch'[b].observed > accepted'
                      /\ accepted' = 0 \/ batch'[b].observed = accepted' + 1
                      /\ \A t \in Active' : origin'[t] = epoch'
    <3>1. Idle.observed = 0
      BY DEF Idle
    <3> QED
      BY <3>1 DEF InLine
  <2>1. ~overlapped /\ batch[b].epoch = epoch
    BY <1>2, <1>3 DEF IInv, InLine
  <2>2. \A o \in Batches \ {b} : batch'[o] = Idle
    BY <1>3, <1>8, <2>1 DEF IInv, InLine
  <2>3. /\ batch'[b].observed > accepted'
        /\ accepted' = 0 \/ batch'[b].observed = accepted' + 1
    BY <1>1, <1>2, <1>9 DEF Expected
  <2>4. \A t \in Active' : origin'[t] = epoch'
    BY <1>2, <1>6, <2>1 DEF IInv, InLine
  <2> QED
    BY <1>2, <1>9, <2>1, <2>2, <2>3, <2>4
<1> QED
  BY <1>1, <1>2, <1>6, <1>8, <1>9, <1>10, <1>11, <1>12 DEF IInv

\* What the loop does with an event that it does not apply.
LEMMA LoopKeepsInv ==
  ASSUME IInv, NEW b \in Batches,
         \/ SkipDuplicate(b) \/ SequenceGap(b) \/ RefuseEvent(b) \/ IgnoreEvent(b)
  PROVE  /\ IInv'
         /\ \A o \in Batches \ {b} : batch'[o] = batch[o]
         /\ batch'[b].observed = 0
         /\ accepted' = accepted \/ (accepted' = Next1(b) /\ Expected(b))
<1>1. turn = b
  BY DEF SkipDuplicate, SequenceGap, RefuseEvent, IgnoreEvent
<1>2. batch[b] # Idle
  BY <1>1 DEF IInv, BatchesWork
<1>3. Next1(b) \in 1..MaxSequence
  BY <1>2, NextIsLeast DEF IInv
<1>4. PICK todo \in SUBSET (1..MaxSequence) : Continue(b, todo)
  <2>1. batch[b].todo \in SUBSET (1..MaxSequence)
    BY DEF IInv, BatchTypes
  <2>2. CASE SkipDuplicate(b) \/ IgnoreEvent(b)
    <3>1. Continue(b, batch[b].todo \ {Next1(b)})
      BY <2>2 DEF SkipDuplicate, IgnoreEvent
    <3> QED
      BY <2>1, <3>1
  <2>3. CASE SequenceGap(b) \/ RefuseEvent(b)
    BY <2>3 DEF SequenceGap, RefuseEvent, FailBatch
  <2> QED
    BY <2>2, <2>3
<1>5. /\ UNCHANGED registryVars /\ epoch' = epoch /\ burnedEpochs' = burnedEpochs
      /\ stopped' = stopped
      /\ accepted' = accepted \/ (accepted' = Next1(b) /\ Expected(b))
  BY DEF SkipDuplicate, SequenceGap, RefuseEvent, FailBatch, IgnoreEvent, sequenceVars
<1>6. accepted' \in 0..MaxSequence
  BY <1>3, <1>5 DEF IInv, BatchTypes
<1>7. UNCHANGED <<epoch, burnedEpochs, stopped>>
  BY <1>5
<1>8. /\ \A o \in Batches \ {b} : batch'[o] = batch[o]
      /\ batch'[b].observed = 0
  BY <1>1, <1>2, <1>4, <1>6, <1>7, ContinueKeepsBatches DEF IInv
<1>9. BatchTypes' /\ BatchesWork' /\ InLine'
  BY <1>1, <1>2, <1>4, <1>5, <1>6, <1>7, ContinueStaysInLine DEF IInv
<1>10. RegistryInv'
  BY <1>5, SameRegistry DEF IInv
<1> QED
  BY <1>5, <1>8, <1>9, <1>10 DEF IInv

\* The observer has returned: its event is accepted and the loop goes on.
LEMMA ObservedKeepsInv ==
  ASSUME IInv, NEW b \in Batches, ObserverDone(b)
  PROVE  /\ IInv'
         /\ \A o \in Batches \ {b} : batch'[o] = batch[o]
         /\ batch'[b].observed = 0
         /\ accepted' = batch[b].observed /\ overlapped' = overlapped
<1>1. /\ turn = NoBatch /\ batch[b].observed > 0 /\ accepted' = batch[b].observed
      /\ Continue(b, batch[b].todo \ {batch[b].observed})
      /\ UNCHANGED registryVars /\ UNCHANGED <<epoch, burnedEpochs, stopped>>
  BY DEF ObserverDone
<1>2. batch[b] # Idle
  BY <1>1 DEF Idle
<1>3. /\ batch[b].todo \ {batch[b].observed} \in SUBSET (1..MaxSequence)
      /\ batch[b].observed \in 0..MaxSequence
  BY DEF IInv, BatchTypes
<1>4. /\ \A o \in Batches \ {b} : batch'[o] = batch[o]
      /\ batch'[b].observed = 0 /\ overlapped' = overlapped
  BY <1>1, <1>2, <1>3, ContinueKeepsBatches DEF IInv
<1>5. BatchTypes' /\ BatchesWork' /\ InLine'
  BY <1>1, <1>2, <1>3, ContinueStaysInLine DEF IInv
<1>6. RegistryInv'
  BY <1>1, SameRegistry DEF IInv
<1> QED
  BY <1>1, <1>4, <1>5, <1>6 DEF IInv

\* A connection that is gone leaves its sessions; nothing of a batch changes.
LEMMA LeaveServerKeepsInv ==
  ASSUME IInv, NEW c \in Connections, CloseByConnectionId(c)
  PROVE  IInv' /\ UNCHANGED <<sequenceVars, batchVars>>
<1> DEFINE ss == {s \in sessionIndex[c] : status[s] = "active" /\ c \in members[s]}
<1>1. RemoveParticipant(ss, c) /\ UNCHANGED <<sequenceVars, batchVars, stopped>>
  BY DEF CloseByConnectionId
<1>2. ss \in SUBSET Active /\ \A s \in ss : c \in members[s]
  BY DEF Active, IInv, RegistryInv, RegistryTypes
<1> HIDE DEF ss
<1>3. RegistryInv' /\ Active' \subseteq Active /\ origin' = origin
  BY <1>1, <1>2, LeaveKeepsRegistry DEF IInv
<1>4. /\ epoch' = epoch /\ accepted' = accepted /\ burnedEpochs' = burnedEpochs
      /\ batch' = batch /\ turn' = turn /\ overlapped' = overlapped /\ stopped' = stopped
  BY <1>1 DEF sequenceVars, batchVars
<1>5. BatchTypes' /\ BatchesWork'
  BY <1>4 DEF IInv, BatchTypes, BatchesWork
<1>6. InLine'
  BY <1>3, <1>4 DEF IInv, InLine
<1> QED
  BY <1>1, <1>3, <1>5, <1>6 DEF IInv

\* Stopping, and steps that change nothing.
LEMMA OtherStepsKeepInv ==
  ASSUME IInv, Stop \/ UNCHANGED vars
  PROVE  IInv' /\ UNCHANGED <<registryVars, sequenceVars, batchVars>>
<1>1. /\ UNCHANGED registryVars /\ UNCHANGED sequenceVars /\ UNCHANGED batchVars
      /\ stopped' \in BOOLEAN
  BY DEF Stop, vars, IInv, BatchTypes
<1>2. RegistryInv' /\ Active' = Active /\ origin' = origin
  BY <1>1, SameRegistry DEF IInv
<1>3. /\ epoch' = epoch /\ accepted' = accepted /\ burnedEpochs' = burnedEpochs
      /\ batch' = batch /\ turn' = turn /\ overlapped' = overlapped
  BY <1>1 DEF sequenceVars, batchVars
<1>4. BatchTypes' /\ BatchesWork'
  BY <1>1, <1>3 DEF IInv, BatchTypes, BatchesWork
<1>5. InLine'
  BY <1>2, <1>3 DEF IInv, InLine
<1> QED
  BY <1>1, <1>2, <1>4, <1>5 DEF IInv

\* It holds in the initial state.
LEMMA InitInv == Init => IInv
<1> SUFFICES ASSUME Init PROVE IInv
  OBVIOUS
<1>1. /\ status = [s \in SessionIds |-> "none"] /\ members = [s \in SessionIds |-> {}]
      /\ pairIndex = [p \in Pairs |-> NoSession]
      /\ sessionIndex = [c \in Connections |-> {}]
      /\ origin = [s \in SessionIds |-> NoEpoch]
      /\ epoch = NoEpoch /\ accepted = 0 /\ burnedEpochs = {}
      /\ batch = [b \in Batches |-> Idle] /\ turn = NoBatch
      /\ stopped = FALSE /\ overlapped = FALSE
  BY DEF Init
<1>2. Active = {}
  BY <1>1 DEF Active
<1>3. RegistryTypes
  BY <1>1 DEF RegistryTypes
<1>4. IndexesAgree
  BY <1>1, <1>2, SessionsAssumption DEF IndexesAgree
<1>5. SessionsConnectUsers
  BY <1>2 DEF SessionsConnectUsers
<1>6. 0 \in 0..MaxSequence
  BY SessionsAssumption
<1>7. Idle \in [epoch : Epochs \cup {NoEpoch}, todo : SUBSET (1..MaxSequence),
               observed : 0..MaxSequence]
  BY <1>6 DEF Idle
<1>8. BatchTypes
  BY <1>1, <1>6, <1>7 DEF BatchTypes
<1>9. BatchesWork
  BY <1>1, SessionsAssumption DEF BatchesWork
<1>10. InLine
  BY <1>1, <1>2 DEF InLine, Idle
<1> QED
  BY <1>3, <1>4, <1>5, <1>8, <1>9, <1>10 DEF IInv, RegistryInv

\* Every step keeps it.
LEMMA NextKeepsInv == IInv /\ [Next]_vars => IInv'
<1> SUFFICES ASSUME IInv, [Next]_vars PROVE IInv'
  OBVIOUS
<1>1. ASSUME NEW b \in Batches, NEW e \in Epochs, NEW events \in EventLists,
             AcceptBatch(b, e, events)
      PROVE  IInv'
  BY <1>1, AcceptKeepsInv
<1>2. ASSUME NEW b \in Batches,
             \/ SkipDuplicate(b) \/ SequenceGap(b) \/ RefuseEvent(b) \/ IgnoreEvent(b)
      PROVE  IInv'
  BY <1>2, LoopKeepsInv
<1>3. ASSUME NEW b \in Batches, ApplyEvent(b)
      PROVE  IInv'
  BY <1>3, ApplyKeepsInv
<1>4. ASSUME NEW b \in Batches, ObserverDone(b)
      PROVE  IInv'
  BY <1>4, ObservedKeepsInv
<1>5. ASSUME NEW c \in Connections, CloseByConnectionId(c)
      PROVE  IInv'
  BY <1>5, LeaveServerKeepsInv
<1>6. CASE Stop \/ UNCHANGED vars
  BY <1>6, OtherStepsKeepInv
<1> QED
  BY <1>1, <1>2, <1>3, <1>4, <1>5, <1>6 DEF Next

-----------------------------------------------------------------------------
(* The theorems *)

\* The inductive invariant holds in every reachable state.
LEMMA Invariant == Spec => []IInv
<1> QED
  BY InitInv, NextKeepsInv, PTL DEF Spec

\* Every variable keeps its type: the numbers of events stay within those of an epoch,
\* and what waits is a batch (voiceSessionRegistry.js, voiceDedicatedSessionDeltaService.js).
THEOREM TypeCorrect == Spec => []TypeOK
<1>1. IInv => TypeOK
  BY DEF IInv, RegistryInv, RegistryTypes, BatchTypes, TypeOK
<1> QED
  BY <1>1, Invariant, PTL

\* However sessions grow, shrink and close, and however many batches wait: two
\* participants share one active session at most, and the indexes know every session
\* (createPairSession, addParticipant, removeParticipant, closeSession).
THEOREM PairsShareOneSession == Spec => []OneSessionPerPair
<1>1. IInv => OneSessionPerPair
  BY IndexedPairsAreUnique DEF IInv
<1> QED
  BY <1>1, Invariant, PTL

\* While batches do not overlap, no session of a former epoch is left
\* (resolveSequenceState closes them all before the first event of the new one).
THEOREM NoSessionOutlivesItsEpoch == Spec => []SessionsOfCurrentEpoch
<1>1. IInv => SessionsOfCurrentEpoch
  BY DEF IInv, InLine, SessionsOfCurrentEpoch
<1> QED
  BY <1>1, Invariant, PTL

\* While batches do not overlap, events are accepted in the order of their numbers and
\* each once (acceptBatch).
THEOREM EventsInOrder == Spec => AcceptedInOrder
<1> DEFINE InOrder ==
      ~overlapped' =>
        /\ (accepted' # accepted /\ epoch' = epoch /\ accepted # 0) =>
             accepted' = accepted + 1
        /\ \A b \in Batches :
             (batch[b].observed = 0 /\ batch'[b].observed # 0) =>
               \/ accepted = 0
               \/ batch'[b].observed = accepted + 1
<1>1. ASSUME IInv, NEW b \in Batches, NEW e \in Epochs, NEW events \in EventLists,
             AcceptBatch(b, e, events)
      PROVE  InOrder
  <2>1. accepted' = accepted \/ epoch' # epoch
    BY <1>1 DEF AcceptBatch, Resolve, sequenceVars
  <2>2. \A o \in Batches : batch'[o].observed = 0 \/ batch'[o] = batch[o]
    BY <1>1 DEF AcceptBatch, IInv, BatchTypes
  <2> QED
    BY <2>1, <2>2
<1>2. ASSUME IInv, NEW b \in Batches,
             \/ SkipDuplicate(b) \/ SequenceGap(b) \/ RefuseEvent(b) \/ IgnoreEvent(b)
      PROVE  InOrder
  <2>1. /\ \A o \in Batches : batch'[o].observed = 0 \/ batch'[o] = batch[o]
        /\ accepted' = accepted \/ (accepted' = Next1(b) /\ Expected(b))
    BY <1>2, LoopKeepsInv
  <2> QED
    BY <2>1 DEF Expected
<1>3. ASSUME IInv, NEW b \in Batches, ApplyEvent(b)
      PROVE  InOrder
  <2>1. /\ \A o \in Batches \ {b} : batch'[o] = batch[o]
        /\ batch'[b].observed = Next1(b) /\ accepted' = accepted /\ Expected(b)
    BY <1>3, ApplyKeepsInv
  <2> QED
    BY <2>1 DEF Expected
<1>4. ASSUME IInv, NEW b \in Batches, ObserverDone(b)
      PROVE  InOrder
  <2>1. /\ \A o \in Batches : batch'[o].observed = 0 \/ batch'[o] = batch[o]
        /\ accepted' = batch[b].observed /\ overlapped' = overlapped
    BY <1>4, ObservedKeepsInv
  <2>2. batch[b].observed # 0
    BY <1>4 DEF ObserverDone
  <2>3. ~overlapped => accepted = 0 \/ batch[b].observed = accepted + 1
    BY <1>4, <2>2 DEF IInv, InLine
  <2> QED
    BY <2>1, <2>3
<1>5. ASSUME IInv, NEW c \in Connections, CloseByConnectionId(c)
      PROVE  InOrder
  <2>1. UNCHANGED <<sequenceVars, batchVars>>
    BY <1>5, LeaveServerKeepsInv
  <2> QED
    BY <2>1 DEF sequenceVars, batchVars
<1>6. ASSUME IInv, Stop \/ UNCHANGED vars
      PROVE  InOrder
  <2>1. UNCHANGED <<sequenceVars, batchVars>>
    BY <1>6, OtherStepsKeepInv
  <2> QED
    BY <2>1 DEF sequenceVars, batchVars
<1>7. IInv /\ [Next]_vars => [InOrder]_vars
  BY <1>1, <1>2, <1>3, <1>4, <1>5, <1>6 DEF Next
<1>8. Spec => [][InOrder]_vars
  BY <1>7, Invariant, PTL DEF Spec
<1> QED
  BY <1>8 DEF AcceptedInOrder

=============================================================================
