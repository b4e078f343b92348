------------------------- MODULE MCServerProcesses -------------------------
(* The instances of ServerProcesses that TLC checks. *)
EXTENDS ServerProcesses
=============================================================================
