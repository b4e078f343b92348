--------------------------- MODULE MCRealtimeRooms ---------------------------
(* The instances of RealtimeRooms that TLC checks. *)
EXTENDS RealtimeRooms, TLC
=============================================================================
