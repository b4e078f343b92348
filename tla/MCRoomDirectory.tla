--------------------------- MODULE MCRoomDirectory ---------------------------
(* One room, of a user or the lobby; two users, one of them connected by gRPC; two *)
(* handlers at a time.                                                             *)
EXTENDS RoomDirectory

CONSTANTS room, u1, u2, c1, c2

Places == {room}
People == {u1, u2}
Browsers == {u1}
Handlers == {c1, c2}
=============================================================================
