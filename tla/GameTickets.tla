----------------------------- MODULE GameTickets -----------------------------
(***************************************************************************)
(* The game tickets and their lifetime: the ticket service                 *)
(* (gameTicketService.js) over its bounded in-memory store                 *)
(* (gameTicketStore.js), with the clock that module GameSessions hides.    *)
(* Each operation is one action, as Node runs it to completion, but the    *)
(* clock it reads twice moves on meanwhile: verifyAndConsumeTicket may     *)
(* find a ticket valid and then expired.                                   *)
(*                                                                         *)
(* Abstracted: the user, room and server of a ticket (module GameSessions  *)
(* checks them) and its signature; expiresAt, to the ticks left until it,  *)
(* with a tick and the limits 5 and 3600 of a TTL scaled to the constants. *)
(* A ticket id is random: it returns only after its ticket has gone.       *)
(***************************************************************************)
EXTENDS Naturals, FiniteSets

CONSTANTS
  TicketIds,
  MaxTickets,     \* the size of the store
  MinTtl, MaxTtl, \* the limits of a ticket's TTL
  RequestedTtls,  \* the ticketTtlSeconds of clients
  Missing         \* no record

ASSUME TtlAssumption ==
  /\ MinTtl \in Nat \ {0}
  /\ MaxTtl \in Nat
  /\ MinTtl <= MaxTtl
  /\ RequestedTtls \subseteq Nat

ASSUME StoreAssumption ==
  /\ IsFiniteSet(TicketIds)
  /\ MaxTickets \in Nat \ {0}
  /\ Missing \notin [left : Nat, consumed : BOOLEAN, revoked : BOOLEAN]

VARIABLES
  tickets,    \* ticketsById
  admissions  \* history: how often each ticket was verified and consumed

vars == <<tickets, admissions>>

Ticket == [left : 0 .. MaxTtl, consumed : BOOLEAN, revoked : BOOLEAN]

-----------------------------------------------------------------------------
(* The store *)

Stored == {t \in TicketIds : tickets[t] # Missing}

\* A mutant: expiresAt is compared in another unit.
IsExpired_Never(t) == FALSE

IsExpired(t) == tickets[t].left = 0

\* A mutant: consumption is not looked at.
IsValid_Consumed(t) == t \in Stored /\ ~tickets[t].revoked /\ ~IsExpired(t)

\* isTicketRecordValid
IsValid(t) == t \in Stored /\ ~tickets[t].revoked /\ ~tickets[t].consumed /\ ~IsExpired(t)

\* cleanupExpiredTickets
Unexpired ==
  [t \in TicketIds |-> IF t \in Stored /\ IsExpired(t) THEN Missing ELSE tickets[t]]

Clamp(ttl) == CASE ttl < MinTtl -> MinTtl
                [] ttl > MaxTtl -> MaxTtl
                [] OTHER -> ttl

\* The TTL of a ticket: requestGameServerTicket always passes the client's
\* number, so the configured TTL is never used.
Ttl(requested) == Clamp(requested)

\* The clock moves on for every stored ticket.
Older(records) ==
  [t \in TicketIds |-> IF records[t] = Missing \/ records[t].left = 0 THEN records[t]
                       ELSE [records[t] EXCEPT !.left = @ - 1]]

-----------------------------------------------------------------------------
(* The operations *)

Init ==
  /\ tickets = [t \in TicketIds |-> Missing]
  /\ admissions = [t \in TicketIds |-> 0]

HasRoom == Cardinality({t \in TicketIds : Unexpired[t] # Missing}) < MaxTickets

\* issueTicket: saveTicket first removes what has expired.
IssueTicket(t, requested) ==
  /\ t \notin Stored
  /\ HasRoom
  /\ tickets' = [Unexpired EXCEPT ![t] = [left |-> Ttl(requested),
                                          consumed |-> FALSE, revoked |-> FALSE]]
  /\ admissions' = [admissions EXCEPT ![t] = 0]

\* issueTicket with a full store: it throws, after the cleanup.
IssueTicketRefused ==
  /\ ~HasRoom
  /\ tickets' = Unexpired
  /\ UNCHANGED admissions

\* verifyAndConsumeTicket; a ticket that is not valid changes nothing.
VerifyAndConsumeTicket(t) ==
  /\ IsValid(t)
  /\ tickets' = [tickets EXCEPT ![t].consumed = TRUE]
  /\ admissions' = [admissions EXCEPT ![t] = @ + 1]

\* verifyAndConsumeTicket of a ticket that expires between its verification
\* and its consumption: consumeTicket deletes the record and fails.
VerifyAndConsumeTicketTooLate(t) ==
  /\ IsValid(t)
  /\ tickets[t].left = 1
  /\ tickets' = [Older(tickets) EXCEPT ![t] = Missing]
  /\ UNCHANGED admissions

\* consumeTicket by id: of one that has expired unused, the record is deleted.
ConsumeExpiredTicket(t) ==
  /\ t \in Stored
  /\ ~tickets[t].revoked /\ ~tickets[t].consumed
  /\ IsExpired(t)
  /\ tickets' = [tickets EXCEPT ![t] = Missing]
  /\ UNCHANGED admissions

RevokeTicket(t) ==
  /\ t \in Stored
  /\ tickets' = [tickets EXCEPT ![t].revoked = TRUE]
  /\ UNCHANGED admissions

DeleteTicket(t) ==
  /\ t \in Stored
  /\ tickets' = [tickets EXCEPT ![t] = Missing]
  /\ UNCHANGED admissions

CleanupExpiredTickets == tickets' = Unexpired /\ UNCHANGED admissions

\* clear, or a restart of the Node process: the store is in memory.
Clear ==
  /\ tickets' = [t \in TicketIds |-> Missing]
  /\ UNCHANGED admissions

Tick == tickets' = Older(tickets) /\ UNCHANGED admissions

Next ==
  \/ \E t \in TicketIds, ttl \in RequestedTtls : IssueTicket(t, ttl)
  \/ IssueTicketRefused
  \/ \E t \in TicketIds : VerifyAndConsumeTicket(t)
  \/ \E t \in TicketIds : VerifyAndConsumeTicketTooLate(t)
  \/ \E t \in TicketIds : ConsumeExpiredTicket(t)
  \/ \E t \in TicketIds : RevokeTicket(t)
  \/ \E t \in TicketIds : DeleteTicket(t)
  \/ CleanupExpiredTickets
  \/ Clear
  \/ Tick

Spec == Init /\ [][Next]_vars

\* Time passes, and the interval timer of GameServerControl.start cleans up.
FairSpec == Spec /\ WF_vars(Tick) /\ WF_vars(CleanupExpiredTickets)
-----------------------------------------------------------------------------
(* Properties *)

\* Every variable has its type.
TypeOK ==
  /\ tickets \in [TicketIds -> Ticket \cup {Missing}]
  /\ admissions \in [TicketIds -> Nat]

\* The store keeps within its size, though it makes room by its own cleanup
\* while a ticket is issued.
StoreIsBounded == Cardinality(Stored) <= MaxTickets

\* The tickets seen from outside.
Phase ==
  [t \in TicketIds |->
     CASE t \notin Stored -> "unknown"
       [] t \in Stored /\ tickets[t].consumed -> "spent"
       [] IsValid(t) -> "open"
       [] OTHER -> "void"]

SU == INSTANCE SingleUseTicket WITH phase <- Phase, admitted <- admissions

\* A ticket is open from its issue until it admits, lapses or is revoked, and
\* admits one player at most: verify, consume, cleanup and the clock interleave
\* as the abstract ticket does.
ImplementsSingleUse == SU!Spec

\* A ticket does not stay open: a client that never connects, in whatever
\* order the clock, the cleanup and other requests come.
TicketsClose == \A t \in TicketIds : Phase[t] = "open" ~> Phase[t] # "open"
=============================================================================
