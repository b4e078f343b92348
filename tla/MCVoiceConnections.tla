-------------------------- MODULE MCVoiceConnections --------------------------
(* The instance of VoiceConnections that TLC checks.                           *)
EXTENDS VoiceConnections, TLC

CONSTANTS c1, c2, u1

\* The first user connects to the dedicated server twice.
Owners == (c1 :> u1) @@ (c2 :> u1)
==============================================================================
