-------------------------- MODULE SingleUseTicket --------------------------
(***************************************************************************)
(* What the ticket service promises of each ticket, whatever happens to    *)
(* the others: it is issued, then it admits at most one player, and only   *)
(* while it is open; it does not stay open for ever.                       *)
(***************************************************************************)
EXTENDS Naturals

CONSTANTS TicketIds

VARIABLES
  phase,    \* unknown, open, spent (it admitted) or void (lapsed or revoked)
  admitted  \* how many players each ticket has admitted

vars == <<phase, admitted>>

Phases == {"unknown", "open", "spent", "void"}

Init ==
  /\ phase = [t \in TicketIds |-> "unknown"]
  /\ admitted = [t \in TicketIds |-> 0]

Issue(t) == phase[t] = "unknown" /\ phase'[t] = "open" /\ admitted'[t] = 0

Admit(t) == phase[t] = "open" /\ phase'[t] = "spent" /\ admitted'[t] = admitted[t] + 1

Close(t) == phase[t] = "open" /\ phase'[t] = "void" /\ admitted'[t] = admitted[t]

\* The service forgets a ticket; its id then means nothing.
Forget(t) == phase'[t] = "unknown" /\ admitted'[t] = admitted[t]

Keep(t) == phase'[t] = phase[t] /\ admitted'[t] = admitted[t]

\* Tickets go their own ways, several in one step where the clock moves.
Next ==
  /\ phase' \in [TicketIds -> Phases]
  /\ admitted' \in [TicketIds -> Nat]
  /\ \A t \in TicketIds : Issue(t) \/ Admit(t) \/ Close(t) \/ Forget(t) \/ Keep(t)

Spec == Init /\ [][Next]_vars
=============================================================================
