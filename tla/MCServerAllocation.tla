------------------------- MODULE MCServerAllocation -------------------------
(***************************************************************************)
(* The instance of ServerAllocation that TLC checks: one process, launched *)
(* for the lobby or warm, that two rooms share.                           *)
(***************************************************************************)
EXTENDS ServerAllocation

CONSTANT lobby

WarmOrLaunched == [s \in Servers |-> {NoRoom, lobby}]
SizeOne == [s \in Servers |-> 1]
=============================================================================
