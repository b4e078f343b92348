------------------------- MODULE GameTickets_proofs -------------------------
(***************************************************************************)
(* Proofs about GameTickets, for every number of tickets, every size of    *)
(* the store and every limit of a TTL: the types, the bound of the store,  *)
(* and that each ticket behaves as SingleUseTicket says.  And about        *)
(* ServiceTokens, which MCGameTickets puts beside it: the property that    *)
(* it states of them, for every secret, setting, name and TTL.             *)
(***************************************************************************)
EXTENDS MCGameTickets, FiniteSetTheorems, TLAPS

\* The TTL of an issued ticket is positive and within the limit.
LEMMA TtlRange ==
  ASSUME NEW ttl \in RequestedTtls
  PROVE  Ttl(ttl) \in 1 .. MaxTtl
BY TtlAssumption DEF Ttl, Clamp

\* Removing what has expired yields records or nothing, and adds none.
LEMMA UnexpiredType ==
  ASSUME TypeOK
  PROVE  /\ Unexpired \in [TicketIds -> Ticket \cup {Missing}]
         /\ \A t \in TicketIds : Unexpired[t] # Missing => t \in Stored /\ Unexpired[t] = tickets[t]
BY DEF TypeOK, Unexpired, Stored

\* A record that moves on with the clock changes only in the time it has left.
LEMMA OlderType ==
  ASSUME TypeOK
  PROVE  /\ Older(tickets) \in [TicketIds -> Ticket \cup {Missing}]
         /\ \A t \in TicketIds :
              /\ Older(tickets)[t] = Missing <=> tickets[t] = Missing
              /\ tickets[t] # Missing =>
                   /\ Older(tickets)[t].consumed = tickets[t].consumed
                   /\ Older(tickets)[t].revoked = tickets[t].revoked
                   /\ tickets[t].left = 0 => Older(tickets)[t].left = 0
<1>1. ASSUME NEW t \in TicketIds, tickets[t] # Missing, tickets[t].left # 0
      PROVE  /\ [tickets[t] EXCEPT !.left = @ - 1] \in Ticket
             /\ [tickets[t] EXCEPT !.left = @ - 1] # Missing
             /\ [tickets[t] EXCEPT !.left = @ - 1].consumed = tickets[t].consumed
             /\ [tickets[t] EXCEPT !.left = @ - 1].revoked = tickets[t].revoked
  <2>1. tickets[t] \in Ticket
    BY <1>1 DEF TypeOK
  <2>2. tickets[t].left - 1 \in 0 .. MaxTtl
    BY <1>1, <2>1, TtlAssumption DEF Ticket
  <2>3. [tickets[t] EXCEPT !.left = @ - 1] \in Ticket
    BY <2>1, <2>2 DEF Ticket
  <2>4. Ticket \subseteq [left : Nat, consumed : BOOLEAN, revoked : BOOLEAN]
    BY TtlAssumption DEF Ticket
  <2> QED
    BY <2>1, <2>3, <2>4, StoreAssumption DEF Ticket
<1> QED
  BY <1>1 DEF Older, TypeOK

\* Consuming or revoking leaves a record a record, and changes nothing else.
LEMMA RecordUpdates ==
  ASSUME TypeOK, NEW t \in Stored
  PROVE  /\ t \in TicketIds
         /\ [tickets[t] EXCEPT !.consumed = TRUE] \in Ticket
         /\ [tickets[t] EXCEPT !.consumed = TRUE] # Missing
         /\ [tickets[t] EXCEPT !.revoked = TRUE] \in Ticket
         /\ [tickets[t] EXCEPT !.revoked = TRUE] # Missing
         /\ [tickets[t] EXCEPT !.revoked = TRUE].consumed = tickets[t].consumed
<1>1. tickets[t] \in Ticket
  BY DEF TypeOK, Stored
<1>2. Ticket \subseteq [left : Nat, consumed : BOOLEAN, revoked : BOOLEAN]
  BY TtlAssumption DEF Ticket
<1>3. /\ [tickets[t] EXCEPT !.consumed = TRUE] \in Ticket
      /\ [tickets[t] EXCEPT !.revoked = TRUE] \in Ticket
      /\ [tickets[t] EXCEPT !.revoked = TRUE].consumed = tickets[t].consumed
  BY <1>1 DEF Ticket
<1> QED
  BY <1>2, <1>3, StoreAssumption DEF Stored

\* The type invariant is inductive.
LEMMA TypeStep == TypeOK /\ [Next]_vars => TypeOK'
<1> SUFFICES ASSUME TypeOK, [Next]_vars
             PROVE  TypeOK'
  OBVIOUS
<1>1. ASSUME NEW t \in TicketIds, NEW ttl \in RequestedTtls, IssueTicket(t, ttl)
      PROVE  TypeOK'
  <2>1. [left |-> Ttl(ttl), consumed |-> FALSE, revoked |-> FALSE] \in Ticket
    BY TtlRange, TtlAssumption DEF Ticket
  <2> QED
    BY <1>1, <2>1, UnexpiredType DEF IssueTicket, TypeOK
<1>2. CASE IssueTicketRefused
  BY <1>2, UnexpiredType DEF IssueTicketRefused, TypeOK
<1>3. ASSUME NEW t \in TicketIds, VerifyAndConsumeTicket(t)
      PROVE  TypeOK'
  <2>1. t \in Stored /\ tickets' = [tickets EXCEPT ![t] = [tickets[t] EXCEPT !.consumed = TRUE]]
    BY <1>3 DEF VerifyAndConsumeTicket, IsValid
  <2>2. tickets' \in [TicketIds -> Ticket \cup {Missing}]
    BY <2>1, RecordUpdates DEF TypeOK
  <2>3. admissions' \in [TicketIds -> Nat]
    BY <1>3 DEF VerifyAndConsumeTicket, TypeOK
  <2> QED
    BY <2>2, <2>3 DEF TypeOK
<1>4. ASSUME NEW t \in TicketIds, VerifyAndConsumeTicketTooLate(t)
      PROVE  TypeOK'
  BY <1>4, OlderType DEF VerifyAndConsumeTicketTooLate, TypeOK
<1>5. ASSUME NEW t \in TicketIds, ConsumeExpiredTicket(t)
      PROVE  TypeOK'
  BY <1>5 DEF ConsumeExpiredTicket, TypeOK
<1>6. ASSUME NEW t \in TicketIds, RevokeTicket(t)
      PROVE  TypeOK'
  <2>1. t \in Stored /\ tickets' = [tickets EXCEPT ![t] = [tickets[t] EXCEPT !.revoked = TRUE]]
    BY <1>6 DEF RevokeTicket
  <2>2. tickets' \in [TicketIds -> Ticket \cup {Missing}]
    BY <2>1, RecordUpdates DEF TypeOK
  <2> QED
    BY <1>6, <2>2 DEF RevokeTicket, TypeOK
<1>7. ASSUME NEW t \in TicketIds, DeleteTicket(t)
      PROVE  TypeOK'
  BY <1>7 DEF DeleteTicket, TypeOK
<1>8. CASE CleanupExpiredTickets
  BY <1>8, UnexpiredType DEF CleanupExpiredTickets, TypeOK
<1>9. CASE Clear
  BY <1>9 DEF Clear, TypeOK
<1>10. CASE Tick
  BY <1>10, OlderType DEF Tick, TypeOK
<1>11. CASE UNCHANGED vars
  BY <1>11 DEF vars, TypeOK
<1> QED
  BY <1>1, <1>2, <1>3, <1>4, <1>5, <1>6, <1>7, <1>8, <1>9, <1>10, <1>11 DEF Next

\* Every variable always has its type.
THEOREM TypeCorrect == Spec => []TypeOK
<1>1. Init => TypeOK
  BY DEF Init, TypeOK
<1> QED
  BY <1>1, TypeStep, PTL DEF Spec

-----------------------------------------------------------------------------
\* The store does not grow, but by one ticket when there is room after the
\* cleanup that issueTicket makes.
LEMMA StoreStep ==
  ASSUME TypeOK, StoreIsBounded, [Next]_vars
  PROVE  StoreIsBounded'
<1> DEFINE Kept == {t \in TicketIds : Unexpired[t] # Missing}
<1>1. /\ IsFiniteSet(Stored)
      /\ Cardinality(Stored) \in Nat
      /\ Cardinality(Stored) <= MaxTickets
  BY StoreAssumption, FS_Subset, FS_CardinalityType DEF Stored, StoreIsBounded
<1>2. \A S : S \subseteq Stored => Cardinality(S) <= MaxTickets
  BY <1>1, FS_Subset, FS_CardinalityType, StoreAssumption
<1>3. Stored' \subseteq Stored => StoreIsBounded'
  BY <1>2 DEF StoreIsBounded
<1>4. ASSUME NEW t \in TicketIds, NEW ttl \in RequestedTtls, IssueTicket(t, ttl)
      PROVE  StoreIsBounded'
  <2>1. Stored' \subseteq Kept \cup {t}
    BY <1>4, UnexpiredType DEF IssueTicket, Stored
  <2>2. IsFiniteSet(Kept) /\ Cardinality(Kept) \in Nat /\ Cardinality(Kept) < MaxTickets
    BY <1>4, StoreAssumption, FS_Subset, FS_CardinalityType DEF IssueTicket, HasRoom
  <2>3. /\ IsFiniteSet(Kept \cup {t})
        /\ Cardinality(Kept \cup {t}) \in Nat
        /\ Cardinality(Kept \cup {t}) <= Cardinality(Kept) + 1
    <3> HIDE DEF Kept
    <3>1. IsFiniteSet(Kept \cup {t}) /\ Cardinality(Kept \cup {t}) \in {Cardinality(Kept), Cardinality(Kept) + 1}
      BY <2>2, FS_AddElement
    <3> QED
      BY <2>2, <3>1
  <2>4. Cardinality(Stored') <= Cardinality(Kept \cup {t}) /\ Cardinality(Stored') \in Nat
    <3> HIDE DEF Kept
    <3> QED
      BY <2>1, <2>3, FS_Subset, FS_CardinalityType
  <2> HIDE DEF Kept
  <2> QED
    BY <2>2, <2>3, <2>4, StoreAssumption DEF StoreIsBounded
<1>5. CASE IssueTicketRefused \/ CleanupExpiredTickets
  <2>1. Stored' \subseteq Stored
    BY <1>5, UnexpiredType DEF IssueTicketRefused, CleanupExpiredTickets, Stored
  <2> QED
    BY <1>3, <2>1
<1>6. ASSUME NEW t \in TicketIds,
             VerifyAndConsumeTicket(t) \/ ConsumeExpiredTicket(t) \/ RevokeTicket(t) \/ DeleteTicket(t)
      PROVE  StoreIsBounded'
  <2>1. Stored' \subseteq Stored
    BY <1>6 DEF VerifyAndConsumeTicket, ConsumeExpiredTicket, RevokeTicket, DeleteTicket,
                IsValid, Stored, TypeOK
  <2> QED
    BY <1>3, <2>1
<1>7. ASSUME NEW t \in TicketIds, VerifyAndConsumeTicketTooLate(t)
      PROVE  StoreIsBounded'
  <2>1. Stored' \subseteq Stored
    BY <1>7, OlderType DEF VerifyAndConsumeTicketTooLate, Stored
  <2> QED
    BY <1>3, <2>1
<1>8. CASE Clear \/ Tick \/ UNCHANGED vars
  <2>1. Stored' \subseteq Stored
    BY <1>8, OlderType DEF Clear, Tick, vars, Stored
  <2> QED
    BY <1>3, <2>1
<1> QED
  BY <1>4, <1>5, <1>6, <1>7, <1>8 DEF Next

\* The store never holds more than MaxTickets records.
THEOREM StoreBounded == Spec => []StoreIsBounded
<1>1. Init => StoreIsBounded
  <2> SUFFICES ASSUME Init PROVE StoreIsBounded
    OBVIOUS
  <2>1. Stored = {}
    BY DEF Init, Stored
  <2> QED
    BY <2>1, FS_EmptySet, StoreAssumption DEF StoreIsBounded
<1>2. StoreIsBounded /\ TypeOK /\ [Next]_vars => StoreIsBounded'
  BY StoreStep
<1> QED
  BY <1>1, <1>2, TypeCorrect, PTL DEF Spec

-----------------------------------------------------------------------------
(* The refinement of SingleUseTicket. *)

\* What a step may do to one ticket, as seen from outside.
StepOf(t) == SU!Issue(t) \/ SU!Admit(t) \/ SU!Close(t) \/ SU!Forget(t) \/ SU!Keep(t)

\* The phase of a ticket, before and after a step.
LEMMA PhaseOf ==
  ASSUME NEW t \in TicketIds
  PROVE  /\ tickets[t] = Missing => Phase[t] = "unknown"
         /\ tickets[t] # Missing /\ tickets[t].consumed => Phase[t] = "spent"
         /\ tickets[t] # Missing /\ ~tickets[t].consumed =>
              Phase[t] = IF ~tickets[t].revoked /\ ~(tickets[t].left = 0) THEN "open" ELSE "void"
         /\ tickets'[t] = Missing => Phase'[t] = "unknown"
         /\ tickets'[t] # Missing /\ tickets'[t].consumed => Phase'[t] = "spent"
         /\ tickets'[t] # Missing /\ ~tickets'[t].consumed =>
              Phase'[t] = IF ~tickets'[t].revoked /\ ~(tickets'[t].left = 0) THEN "open" ELSE "void"
<1>1. /\ t \in Stored <=> tickets[t] # Missing
      /\ t \in Stored' <=> tickets'[t] # Missing
  BY DEF Stored
<1>2. /\ IsValid(t) <=> /\ t \in Stored /\ ~tickets[t].revoked
                       /\ ~tickets[t].consumed /\ ~(tickets[t].left = 0)
      /\ IsValid(t)' <=> /\ t \in Stored' /\ ~tickets'[t].revoked
                        /\ ~tickets'[t].consumed /\ ~(tickets'[t].left = 0)
  BY DEF IsValid, IsExpired
<1>3. /\ Phase[t] = CASE t \notin Stored -> "unknown"
                      [] t \in Stored /\ tickets[t].consumed -> "spent"
                      [] IsValid(t) -> "open"
                      [] OTHER -> "void"
      /\ Phase'[t] = CASE t \notin Stored' -> "unknown"
                       [] t \in Stored' /\ tickets'[t].consumed -> "spent"
                       [] IsValid(t)' -> "open"
                       [] OTHER -> "void"
  BY DEF Phase
<1> QED
  BY <1>1, <1>2, <1>3

\* A phase is one of the four.
LEMMA PhaseType == Phase \in [TicketIds -> SU!Phases]
BY DEF Phase, SU!Phases

\* A ticket whose record stays as it is, or goes, keeps its phase or is forgotten.
LEMMA RecordKept ==
  ASSUME NEW t \in TicketIds,
         tickets'[t] = tickets[t] \/ tickets'[t] = Missing,
         admissions'[t] = admissions[t]
  PROVE  StepOf(t)
<1>1. CASE tickets'[t] = tickets[t]
  <2>1. Phase'[t] = Phase[t]
    BY <1>1 DEF Phase, Stored, IsValid, IsExpired
  <2> QED
    BY <2>1 DEF StepOf, SU!Keep
<1>2. CASE tickets'[t] = Missing
  <2>1. Phase'[t] = "unknown"
    BY <1>2, PhaseOf
  <2> QED
    BY <2>1 DEF StepOf, SU!Forget
<1> QED
  BY <1>1, <1>2

\* The clock closes a ticket, or leaves it as it is.
LEMMA RecordAges ==
  ASSUME TypeOK, NEW t \in TicketIds,
         tickets'[t] = Older(tickets)[t],
         admissions'[t] = admissions[t]
  PROVE  StepOf(t)
<1>1. CASE tickets[t] = Missing
  BY <1>1, OlderType, RecordKept
<1>2. CASE tickets[t] # Missing
  <2>1. /\ tickets'[t] # Missing
        /\ tickets'[t].consumed = tickets[t].consumed
        /\ tickets'[t].revoked = tickets[t].revoked
        /\ tickets[t].left = 0 => tickets'[t].left = 0
    BY <1>2, OlderType
  <2>2. CASE Phase'[t] = Phase[t]
    BY <2>2 DEF StepOf, SU!Keep
  <2>3. CASE Phase'[t] # Phase[t]
    <3>1. Phase[t] = "open" /\ Phase'[t] = "void"
      BY <1>2, <2>1, <2>3 DEF Phase, Stored, IsValid, IsExpired
    <3> QED
      BY <3>1 DEF StepOf, SU!Close
  <2> QED
    BY <2>2, <2>3
<1> QED
  BY <1>1, <1>2

\* Every step takes each ticket one abstract step further, or leaves it alone.
LEMMA TicketStep ==
  ASSUME TypeOK, Next, NEW u \in TicketIds
  PROVE  StepOf(u)
<1>1. ASSUME NEW t \in TicketIds, NEW ttl \in RequestedTtls, IssueTicket(t, ttl)
      PROVE  StepOf(u)
  <2>1. CASE u = t
    <3>1. tickets'[u] = [left |-> Ttl(ttl), consumed |-> FALSE, revoked |-> FALSE]
      BY <1>1, <2>1, UnexpiredType DEF IssueTicket
    <3>2. Phase[u] = "unknown"
      BY <1>1, <2>1, PhaseOf DEF IssueTicket, Stored
    <3>3. tickets'[u] # Missing /\ tickets'[u].left # 0
      <4> DEFINE record == [left |-> Ttl(ttl), consumed |-> FALSE, revoked |-> FALSE]
      <4>1. Ttl(ttl) \in Nat /\ Ttl(ttl) # 0
        BY TtlRange, TtlAssumption
      <4>2. record \in [left : Nat, consumed : BOOLEAN, revoked : BOOLEAN] /\ record.left # 0
        BY <4>1
      <4> QED
        BY <3>1, <4>2, StoreAssumption
    <3>4. Phase'[u] = "open"
      <4>1. ~tickets'[u].consumed /\ ~tickets'[u].revoked
        BY <3>1
      <4> QED
        BY <3>3, <4>1, PhaseOf
    <3>5. admissions'[u] = 0
      BY <1>1, <2>1 DEF IssueTicket, TypeOK
    <3> QED
      BY <3>2, <3>4, <3>5 DEF StepOf, SU!Issue
  <2>2. CASE u # t
    <3>1. tickets'[u] = Unexpired[u] /\ admissions'[u] = admissions[u]
      BY <1>1, <2>2, UnexpiredType DEF IssueTicket, TypeOK
    <3> QED
      BY <3>1, UnexpiredType, RecordKept
  <2> QED
    BY <2>1, <2>2
<1>2. CASE IssueTicketRefused \/ CleanupExpiredTickets
  <2>1. tickets'[u] = Unexpired[u] /\ admissions'[u] = admissions[u]
    BY <1>2 DEF IssueTicketRefused, CleanupExpiredTickets
  <2> QED
    BY <2>1, UnexpiredType, RecordKept
<1>3. ASSUME NEW t \in TicketIds, VerifyAndConsumeTicket(t)
      PROVE  StepOf(u)
  <2>1. CASE u = t
    <3>1. u \in Stored /\ tickets'[u] = [tickets[u] EXCEPT !.consumed = TRUE]
      BY <1>3, <2>1 DEF VerifyAndConsumeTicket, IsValid, TypeOK
    <3>2. Phase[u] = "open"
      BY <1>3, <2>1 DEF VerifyAndConsumeTicket, Phase, IsValid
    <3>3. tickets'[u] # Missing /\ tickets[u] \in Ticket
      BY <3>1, RecordUpdates DEF TypeOK, Stored
    <3>4. tickets'[u].consumed
      BY <3>1, <3>3 DEF Ticket
    <3>5. Phase'[u] = "spent"
      BY <3>3, <3>4, PhaseOf
    <3>6. admissions'[u] = admissions[u] + 1
      BY <1>3, <2>1 DEF VerifyAndConsumeTicket, TypeOK
    <3> QED
      BY <3>2, <3>5, <3>6 DEF StepOf, SU!Admit
  <2>2. CASE u # t
    <3>1. tickets'[u] = tickets[u] /\ admissions'[u] = admissions[u]
      BY <1>3, <2>2 DEF VerifyAndConsumeTicket, TypeOK
    <3> QED
      BY <3>1, RecordKept
  <2> QED
    BY <2>1, <2>2
<1>4. ASSUME NEW t \in TicketIds, VerifyAndConsumeTicketTooLate(t)
      PROVE  StepOf(u)
  <2>1. admissions'[u] = admissions[u]
    BY <1>4 DEF VerifyAndConsumeTicketTooLate
  <2>2. CASE u = t
    <3>1. tickets'[u] = Missing
      BY <1>4, <2>2, OlderType DEF VerifyAndConsumeTicketTooLate
    <3> QED
      BY <2>1, <3>1, RecordKept
  <2>3. CASE u # t
    <3>1. tickets'[u] = Older(tickets)[u]
      BY <1>4, <2>3, OlderType DEF VerifyAndConsumeTicketTooLate
    <3> QED
      BY <2>1, <3>1, RecordAges
  <2> QED
    BY <2>2, <2>3
<1>5. ASSUME NEW t \in TicketIds, ConsumeExpiredTicket(t) \/ DeleteTicket(t)
      PROVE  StepOf(u)
  <2>1. /\ tickets'[u] = tickets[u] \/ tickets'[u] = Missing
        /\ admissions'[u] = admissions[u]
    BY <1>5 DEF ConsumeExpiredTicket, DeleteTicket, TypeOK
  <2> QED
    BY <2>1, RecordKept
<1>6. ASSUME NEW t \in TicketIds, RevokeTicket(t)
      PROVE  StepOf(u)
  <2>1. admissions'[u] = admissions[u]
    BY <1>6 DEF RevokeTicket
  <2>2. CASE u = t
    <3>1. u \in Stored /\ tickets'[u] = [tickets[u] EXCEPT !.revoked = TRUE]
      BY <1>6, <2>2 DEF RevokeTicket, TypeOK
    <3>2. tickets'[u] # Missing /\ tickets'[u].consumed = tickets[u].consumed /\ tickets[u] \in Ticket
      BY <3>1, RecordUpdates DEF TypeOK, Stored
    <3>3. tickets'[u].revoked
      BY <3>1, <3>2 DEF Ticket
    <3>4. CASE tickets[u].consumed
      <4>1. Phase[u] = "spent" /\ Phase'[u] = "spent"
        BY <3>1, <3>2, <3>4, PhaseOf DEF Stored
      <4> QED
        BY <2>1, <4>1 DEF StepOf, SU!Keep
    <3>5. CASE ~tickets[u].consumed
      <4>1. Phase[u] \in {"open", "void"}
        BY <3>1, <3>5 DEF Phase
      <4>2. Phase'[u] = "void"
        BY <3>2, <3>3, <3>5 DEF Phase, Stored, IsValid
      <4> QED
        BY <2>1, <4>1, <4>2 DEF StepOf, SU!Keep, SU!Close
    <3> QED
      BY <3>4, <3>5
  <2>3. CASE u # t
    <3>1. tickets'[u] = tickets[u]
      BY <1>6, <2>3 DEF RevokeTicket, TypeOK
    <3> QED
      BY <2>1, <3>1, RecordKept
  <2> QED
    BY <2>2, <2>3
<1>7. CASE Clear
  <2>1. tickets'[u] = Missing /\ admissions'[u] = admissions[u]
    BY <1>7 DEF Clear
  <2> QED
    BY <2>1, RecordKept
<1>8. CASE Tick
  <2>1. tickets'[u] = Older(tickets)[u] /\ admissions'[u] = admissions[u]
    BY <1>8 DEF Tick
  <2> QED
    BY <2>1, RecordAges
<1> QED
  BY <1>1, <1>2, <1>3, <1>4, <1>5, <1>6, <1>7, <1>8 DEF Next

\* The ticket service implements the single-use ticket: a ticket admits at most
\* once, only while it is open, and never comes back.
THEOREM SingleUse == Spec => ImplementsSingleUse
<1>1. Init => SU!Init
  <2> SUFFICES ASSUME Init PROVE SU!Init
    OBVIOUS
  <2>1. \A t \in TicketIds : Phase[t] = "unknown"
    BY PhaseOf DEF Init
  <2> QED
    BY <2>1 DEF Init, SU!Init, Phase
<1>2. TypeOK /\ TypeOK' /\ [Next]_vars => [SU!Next]_(SU!vars)
  <2> SUFFICES ASSUME TypeOK, TypeOK', [Next]_vars
               PROVE  [SU!Next]_(SU!vars)
    OBVIOUS
  <2>1. CASE UNCHANGED vars
    BY <2>1 DEF vars, SU!vars, Phase, Stored, IsValid, IsExpired
  <2>2. CASE Next
    <3>1. \A u \in TicketIds : StepOf(u)
      BY <2>2, TicketStep
    <3>2. Phase' \in [TicketIds -> SU!Phases]
      BY PhaseType DEF Phase, SU!Phases
    <3> QED
      BY <3>1, <3>2 DEF StepOf, SU!Next, TypeOK
  <2> QED
    BY <2>1, <2>2
<1> QED
  BY <1>1, <1>2, TypeCorrect, PTL DEF Spec, SU!Spec, ImplementsSingleUse

-----------------------------------------------------------------------------
(* The service tokens.  They are values, and what holds of them follows    *)
(* from the limits that their time to live is clamped to.                  *)

\* The settings of a service: its limit and its default.
LEMMA SettingsRange ==
  ASSUME NEW s \in AllSettings
  PROVE  /\ s.maxTtl \in Int /\ 5 <= s.maxTtl
         /\ s.defaultTtl \in 5 .. s.maxTtl
         /\ s.skew = 5
<1>1. PICK max \in TtlSettings, ttl \in TtlSettings \ {Absent} : s = Settings(max, ttl)
  BY DEF AllSettings
<1>2. max \in Int \cup {Absent} /\ ttl \in Int /\ ttl # Absent
  BY TokenAssumption
<1> DEFINE maxTtl == ClampInteger(max, 300, 5, 86400)
           defaultTtl == ClampInteger(ttl, 60, 5, maxTtl)
<1>3. maxTtl \in Int /\ 5 <= maxTtl
  BY <1>2, SMT DEF ClampInteger
<1>4. s.maxTtl = maxTtl /\ s.defaultTtl = defaultTtl /\ s.skew = 5
  BY <1>1 DEF Settings
<1> HIDE DEF maxTtl
<1>5. defaultTtl \in 5 .. maxTtl
  BY <1>2, <1>3 DEF ClampInteger
<1> HIDE DEF defaultTtl
<1> QED BY <1>3, <1>4, <1>5

\* The token that createToken makes lives for a time within the limit.
LEMMA Created ==
  ASSUME NEW k, NEW s \in AllSettings, NEW v, NEW p, NEW ttl \in Int \cup {Absent},
         NEW now \in Int
  PROVE  LET token == CreateToken(k, s, v, p, ttl, now)
             lives == ClampInteger(ttl, s.defaultTtl, 5, s.maxTtl)
         IN  /\ lives \in 5 .. s.maxTtl
             /\ token.version = "mgst1"
             /\ token.signature = Signature(k, token.payload)
             /\ token.payload = [server |-> v, purpose |-> p, issuedAt |-> now,
                                 expiresAt |-> now + 1000 * lives]
<1> DEFINE lives == ClampInteger(ttl, s.defaultTtl, 5, s.maxTtl)
           payload == [server |-> v, purpose |-> p, issuedAt |-> now,
                       expiresAt |-> now + 1000 * lives]
           token == CreateToken(k, s, v, p, ttl, now)
<1>1. lives \in 5 .. s.maxTtl
  <2>1. s.maxTtl \in Int /\ s.defaultTtl \in 5 .. s.maxTtl
    BY SettingsRange
  <2> QED BY <2>1 DEF ClampInteger
<1>2. token = [version |-> "mgst1", payload |-> payload, signature |-> Signature(k, payload)]
  BY DEF CreateToken
<1> HIDE DEF token, payload
<1>3. /\ token.version = "mgst1" /\ token.payload = payload
      /\ token.signature = Signature(k, payload)
  BY <1>2
<1> QED BY <1>1, <1>3 DEF token, payload

\* The times at which validateTokenTime accepts a token that lives so long.
LEMMA AcceptedTimes ==
  ASSUME NEW s \in AllSettings, NEW payload, payload.issuedAt \in Int,
         NEW lives \in 5 .. s.maxTtl, payload.expiresAt = payload.issuedAt + 1000 * lives,
         NEW now \in Int
  PROVE  TimeReason(s, payload, now) = "token_valid" <=>
           now >= payload.issuedAt - 5000 /\ now < payload.expiresAt + 5000
<1>1. s.maxTtl \in Int /\ 5 <= s.maxTtl /\ s.skew = 5
  BY SettingsRange
<1>2. TtlOf(payload) = lives
  BY <1>1 DEF TtlOf
<1> QED BY <1>1, <1>2 DEF TimeReason

\* When verifyToken accepts a token that is made with the same secret.
LEMMA AcceptedTokens ==
  ASSUME NEW k, NEW s \in AllSettings, NEW v, NEW p, NEW ttl \in Int \cup {Absent},
         NEW start \in Int, NEW now \in Int, NEW w, NEW q
  PROVE  LET token == CreateToken(k, s, v, p, ttl, start)
         IN  Verify(k, s, token, w, q, now) = "token_valid" <=>
               /\ v \notin BadNames /\ w \in {v, Absent} /\ q \in {p, Absent}
               /\ now >= start - 5000 /\ now < token.payload.expiresAt + 5000
<1> DEFINE token == CreateToken(k, s, v, p, ttl, start)
           lives == ClampInteger(ttl, s.defaultTtl, 5, s.maxTtl)
<1>1. /\ lives \in 5 .. s.maxTtl
      /\ token.version = "mgst1"
      /\ token.signature = Signature(k, token.payload)
      /\ token.payload = [server |-> v, purpose |-> p, issuedAt |-> start,
                          expiresAt |-> start + 1000 * lives]
  BY Created
<1> HIDE DEF token, lives
<1>2. TimeReason(s, token.payload, now) = "token_valid" <=>
        now >= start - 5000 /\ now < token.payload.expiresAt + 5000
  BY <1>1, AcceptedTimes
<1>3. /\ token.payload.server = v /\ token.payload.purpose = p
  BY <1>1
<1>4. ShapeReason(token.payload) = "token_valid" <=> v \notin BadNames
  BY <1>3 DEF ShapeReason
<1>5. ExpectedReason(token.payload, w, q) = "token_valid" <=>
        w \in {v, Absent} /\ q \in {p, Absent}
  BY <1>3 DEF ExpectedReason
<1>6. Verify(k, s, token, w, q, now) = "token_valid" <=>
        /\ v \notin BadNames /\ w \in {v, Absent} /\ q \in {p, Absent}
        /\ now >= start - 5000 /\ now < token.payload.expiresAt + 5000
  BY <1>1, <1>2, <1>4, <1>5 DEF Verify
<1> QED BY <1>6 DEF token

\* The clocks that the properties try are integers.
LEMMA ClocksAreIntegers ==
  ASSUME NEW token, token.payload.issuedAt \in Int, token.payload.expiresAt \in Int
  PROVE  Clocks(token) \subseteq Int
BY TokenAssumption DEF Clocks

\* A token is accepted while it is good, and for what it names only.
LEMMA AlwaysAccepted == AcceptedWhileValid
<1> SUFFICES ASSUME NEW k \in Strong, NEW s \in AllSettings, NEW v \in Servers,
                    NEW p \in Purposes, NEW r \in TtlRequests,
                    NEW now \in Clocks(CreateToken(k, s, v, p, r, Start)),
                    NEW w \in Servers \cup {Absent}, NEW q \in Purposes \cup {Absent}
             PROVE  LET token == CreateToken(k, s, v, p, r, Start)
                    IN  Verify(k, s, token, w, q, now) = "token_valid" <=>
                          /\ v \notin BadNames /\ w \in {v, Absent} /\ q \in {p, Absent}
                          /\ now >= Start - 1000 * s.skew
                          /\ now < token.payload.expiresAt + 1000 * s.skew
  BY DEF AcceptedWhileValid
<1> DEFINE token == CreateToken(k, s, v, p, r, Start)
           lives == ClampInteger(r, s.defaultTtl, 5, s.maxTtl)
<1>1. r \in Int \cup {Absent} /\ Start \in Int /\ s.skew = 5
  BY TokenAssumption, SettingsRange DEF Start
<1>2. /\ lives \in 5 .. s.maxTtl
      /\ token.payload = [server |-> v, purpose |-> p, issuedAt |-> Start,
                          expiresAt |-> Start + 1000 * lives]
  BY <1>1, Created
<1>3. s.maxTtl \in Int
  BY SettingsRange
<1> HIDE DEF token, lives
<1>4. token.payload.issuedAt \in Int /\ token.payload.expiresAt \in Int
  BY <1>1, <1>2, <1>3
<1>5. now \in Int
  BY <1>4, ClocksAreIntegers DEF token
<1> QED BY <1>1, <1>5, AcceptedTokens

\* What no one signed with the secret is refused.
LEMMA AlwaysRefused == AlteredIsRefused
<1> SUFFICES ASSUME NEW k \in Strong, NEW s \in AllSettings, NEW v \in Servers,
                    NEW p \in Purposes, NEW x,
                    LET token == CreateToken(k, s, v, p, Absent, Start)
                    IN  x \in {[token EXCEPT !.payload.server = w] : w \in Servers \ {v}}
                          \cup {[token EXCEPT !.payload.expiresAt = @ + d] : d \in Offsets \ {0}}
                          \cup {[token EXCEPT !.payload.issuedAt = @ + d] : d \in Offsets \ {0}}
                          \cup {CreateToken(j, s, v, p, Absent, Start) : j \in Secrets \ {k}},
                    NEW now
             PROVE  Verify(k, s, x, Absent, Absent, now) # "token_valid"
  BY DEF AlteredIsRefused
<1> DEFINE token == CreateToken(k, s, v, p, Absent, Start)
           lives == ClampInteger(Absent, s.defaultTtl, 5, s.maxTtl)
           payload == [server |-> v, purpose |-> p, issuedAt |-> Start,
                       expiresAt |-> Start + 1000 * lives]
<1>1. lives \in Int
  <2>1. s.defaultTtl \in 5 .. s.maxTtl /\ s.maxTtl \in Int
    BY SettingsRange
  <2> QED BY <2>1 DEF ClampInteger
<1>2. token = [version |-> "mgst1", payload |-> payload, signature |-> <<k, payload>>]
  BY DEF CreateToken, Signature
<1>3. ASSUME NEW other, other # payload, x = [token EXCEPT !.payload = other]
      PROVE  x.signature # Signature(k, x.payload)
  BY <1>2, <1>3 DEF Signature
<1>4. CASE x \in {[token EXCEPT !.payload.server = w] : w \in Servers \ {v}}
  <2> PICK w \in Servers \ {v} : x = [token EXCEPT !.payload.server = w]
    BY <1>4
  <2> DEFINE other == [payload EXCEPT !.server = w]
  <2>1. other.server # payload.server
    OBVIOUS
  <2>2. x = [token EXCEPT !.payload = other]
    BY <1>2
  <2> HIDE DEF token, other, payload
  <2> QED BY <1>3, <2>1, <2>2 DEF Verify
<1>5. CASE x \in {[token EXCEPT !.payload.expiresAt = @ + d] : d \in Offsets \ {0}}
  <2> PICK d \in Offsets \ {0} : x = [token EXCEPT !.payload.expiresAt = @ + d]
    BY <1>5
  <2> DEFINE other == [payload EXCEPT !.expiresAt = @ + d]
  <2>1. other.expiresAt # payload.expiresAt
    BY <1>1, TokenAssumption DEF Start
  <2>2. x = [token EXCEPT !.payload = other]
    BY <1>2
  <2> HIDE DEF token, other, payload
  <2> QED BY <1>3, <2>1, <2>2 DEF Verify
<1>6. CASE x \in {[token EXCEPT !.payload.issuedAt = @ + d] : d \in Offsets \ {0}}
  <2> PICK d \in Offsets \ {0} : x = [token EXCEPT !.payload.issuedAt = @ + d]
    BY <1>6
  <2> DEFINE other == [payload EXCEPT !.issuedAt = @ + d]
  <2>1. other.issuedAt # payload.issuedAt
    BY TokenAssumption DEF Start
  <2>2. x = [token EXCEPT !.payload = other]
    BY <1>2
  <2> HIDE DEF token, other, payload
  <2> QED BY <1>3, <2>1, <2>2 DEF Verify
<1>7. CASE x \in {CreateToken(j, s, v, p, Absent, Start) : j \in Secrets \ {k}}
  <2> PICK j \in Secrets \ {k} : x = CreateToken(j, s, v, p, Absent, Start)
    BY <1>7
  <2>1. x.signature = <<j, x.payload>>
    BY DEF CreateToken, Signature
  <2> QED BY <2>1 DEF Verify, Signature
<1> QED BY <1>4, <1>5, <1>6, <1>7

\* When renewDedicatedServerToken renews, and what the new token is.
LEMMA Renewed ==
  ASSUME NEW k, NEW s \in AllSettings, NEW v \in Servers \ BadNames, NEW p,
         NEW ttl \in Int \cup {Absent}, NEW r \in Int \cup {Absent},
         NEW start \in Int, NEW now \in Int,
         now >= start, now < start + 1000 * ClampInteger(ttl, s.defaultTtl, 5, s.maxTtl) + 5000
  PROVE  Renew(k, s, CreateToken(k, s, v, p, ttl, start), v, r, now)
           = CreateToken(k, s, v, "game_server_control", RenewalTtl(r), now)
<1> DEFINE token == CreateToken(k, s, v, p, ttl, start)
           renewed == CreateToken(k, s, v, "game_server_control", RenewalTtl(r), now)
           lives == ClampInteger(ttl, s.defaultTtl, 5, s.maxTtl)
           renewedLives == ClampInteger(RenewalTtl(r), s.defaultTtl, 5, s.maxTtl)
<1>1. RenewalTtl(r) \in Int
  BY DEF RenewalTtl
<1>2. token.payload.expiresAt = start + 1000 * lives
  <2>1. token.payload = [server |-> v, purpose |-> p, issuedAt |-> start,
                         expiresAt |-> start + 1000 * lives]
    BY Created
  <2> HIDE DEF token, lives
  <2> QED BY <2>1
<1>3. renewedLives \in 5 .. s.maxTtl /\ renewed.payload.expiresAt = now + 1000 * renewedLives
  <2>1. /\ renewedLives \in 5 .. s.maxTtl
        /\ renewed.payload = [server |-> v, purpose |-> "game_server_control", issuedAt |-> now,
                              expiresAt |-> now + 1000 * renewedLives]
    BY <1>1, Created
  <2> HIDE DEF renewed, renewedLives
  <2> QED BY <2>1
<1>4. s.maxTtl \in Int
  BY SettingsRange
<1>5. Admitted(k, s, token, v, now)
  <2>1. now < token.payload.expiresAt + 5000 /\ now >= start - 5000
    <3>1. now < start + 1000 * lives + 5000
      OBVIOUS
    <3> HIDE DEF token, lives
    <3> QED BY <1>2, <3>1
  <2> QED BY <2>1, AcceptedTokens DEF Admitted
<1>6. Admitted(k, s, renewed, v, now)
  <2>1. now < renewed.payload.expiresAt + 5000 /\ now >= now - 5000
    <3> HIDE DEF renewed, renewedLives
    <3>1. renewedLives \in Int /\ renewedLives >= 0
      BY <1>3, <1>4
    <3> QED BY <1>3, <3>1, SMT
  <2> QED BY <1>1, <2>1, AcceptedTokens DEF Admitted
<1> QED BY <1>5, <1>6 DEF Renew

\* A renewed token lives until the server is told to renew it, and longer.
LEMMA RenewedLives ==
  ASSUME NEW k, NEW s \in AllSettings, s.maxTtl >= 30, NEW v \in Servers \ BadNames, NEW p,
         NEW r \in Int \cup {Absent}, NEW start \in Int
  PROVE  LET token == CreateToken(k, s, v, p, RenewalTtl(r), start)
             later == start + 1000 * RenewAfter(token)
         IN  /\ RenewAfter(token) \in Nat
             /\ later < start + 1000 * ClampInteger(RenewalTtl(r), s.defaultTtl, 5, s.maxTtl) + 5000
             /\ Admitted(k, s, token, v, later)
<1> DEFINE token == CreateToken(k, s, v, p, RenewalTtl(r), start)
           lives == ClampInteger(RenewalTtl(r), s.defaultTtl, 5, s.maxTtl)
           later == start + 1000 * RenewAfter(token)
<1>1. RenewalTtl(r) \in Int /\ 30 <= RenewalTtl(r) /\ RenewalTtl(r) # Absent
  BY TokenAssumption DEF RenewalTtl
<1>2. lives \in Int /\ 30 <= lives
  <2>1. s.maxTtl \in Int /\ 30 <= s.maxTtl
    BY SettingsRange
  <2> HIDE DEF lives
  <2> QED BY <1>1, <2>1 DEF ClampInteger, lives
<1>3. /\ token.payload.issuedAt = start /\ token.payload.expiresAt = start + 1000 * lives
  <2>1. token.payload = [server |-> v, purpose |-> p, issuedAt |-> start,
                         expiresAt |-> start + 1000 * lives]
    BY <1>1, Created
  <2> HIDE DEF token, lives
  <2> QED BY <2>1
<1> HIDE DEF lives, token
<1>4. (token.payload.expiresAt - token.payload.issuedAt) \div 1000 = lives
  BY <1>2, <1>3
<1>5. RenewAfter(token) \in 0 .. lives
  BY <1>2, <1>4 DEF RenewAfter
<1> DEFINE after == RenewAfter(token)
<1> HIDE DEF after
<1>6. /\ later = start + 1000 * after /\ after \in 0 .. lives
  BY <1>5 DEF after
<1> HIDE DEF later
<1>7. /\ later \in Int /\ later >= start - 5000 /\ later < start + 1000 * lives + 5000
  BY <1>2, <1>6
<1>8. Admitted(k, s, token, v, later)
  BY <1>1, <1>3, <1>7, AcceptedTokens DEF Admitted, token
<1> QED BY <1>5, <1>7, <1>8 DEF later, lives, token

\* Renewals in time never end in a refusal.
LEMMA AlwaysRenewed == RenewedInTime
<1> SUFFICES ASSUME NEW k \in Strong, NEW s \in AllSettings, NEW v \in Servers \ BadNames,
                    NEW p \in Purposes, NEW r \in TtlRequests, s.maxTtl >= 30
             PROVE  LET first == Renew(k, s, CreateToken(k, s, v, p, r, Start), v, r, Start)
                        later == Start + 1000 * RenewAfter(first)
                        second == Renew(k, s, first, v, r, later)
                    IN /\ Admitted(k, s, first, v, later)
                       /\ second.payload.issuedAt = later
                       /\ Admitted(k, s, second, v, later + 1000 * RenewAfter(second))
  BY DEF RenewedInTime
<1> DEFINE first == Renew(k, s, CreateToken(k, s, v, p, r, Start), v, r, Start)
           later == Start + 1000 * RenewAfter(first)
           second == Renew(k, s, first, v, r, later)
           control == "game_server_control"
<1>1. r \in Int \cup {Absent} /\ Start \in Int /\ RenewalTtl(r) \in Int
  BY TokenAssumption DEF Start, RenewalTtl
<1>2. first = CreateToken(k, s, v, control, RenewalTtl(r), Start)
  <2>1. ClampInteger(r, s.defaultTtl, 5, s.maxTtl) \in 5 .. s.maxTtl /\ s.maxTtl \in Int
    <3>1. s.maxTtl \in Int /\ s.defaultTtl \in 5 .. s.maxTtl /\ 5 <= s.maxTtl
      BY SettingsRange
    <3> QED BY <1>1, <3>1 DEF ClampInteger
  <2>2. Start < Start + 1000 * ClampInteger(r, s.defaultTtl, 5, s.maxTtl) + 5000
    BY <1>1, <2>1
  <2> QED BY <1>1, <2>2, Renewed
<1> HIDE DEF first
<1>3. /\ RenewAfter(first) \in Nat
      /\ later < Start + 1000 * ClampInteger(RenewalTtl(r), s.defaultTtl, 5, s.maxTtl) + 5000
      /\ Admitted(k, s, first, v, later)
  BY <1>1, <1>2, RenewedLives
<1>4. later \in Int /\ later >= Start
  BY <1>1, <1>3
<1> HIDE DEF later
<1>5. second = CreateToken(k, s, v, control, RenewalTtl(r), later)
  BY <1>1, <1>2, <1>3, <1>4, Renewed
<1> HIDE DEF second
<1>6. Admitted(k, s, second, v, later + 1000 * RenewAfter(second))
  BY <1>1, <1>4, <1>5, RenewedLives
<1>7. second.payload.issuedAt = later
  <2>1. /\ second.payload = [server |-> v, purpose |-> control, issuedAt |-> later,
                             expiresAt |-> later + 1000 *
                               ClampInteger(RenewalTtl(r), s.defaultTtl, 5, s.maxTtl)]
    BY <1>1, <1>4, <1>5, Created
  <2> QED BY <2>1
<1> QED BY <1>3, <1>6, <1>7 DEF first, later, second

\* A service token is accepted exactly while it is good, a forged one never, and a
\* server that renews when it is told to is not locked out, for every setting, TTL,
\* name and secret (gameServerServiceToken.js, createToken and verifyToken;
\* dedicatedServerHandler.js, renewDedicatedServerToken).
THEOREM TokensAreGood == Spec => []TokensHold
<1>1. TokensHold
  BY AlwaysAccepted, AlwaysRefused, AlwaysRenewed DEF TokensHold, ServiceTokensHold
<1> QED BY <1>1, PTL
=============================================================================
