--------------------------- MODULE MCGameSessions ---------------------------
(* A small instance of GameSessions. *)
EXTENDS GameSessions, TLC

CONSTANTS u1, u2, room, lobby, s1, s2, c1, c2, id1, id2, id3, t1, t2, t3

Symmetry == Permutations(Users) \cup Permutations(Connections)
              \cup Permutations(SessionIds) \cup Permutations(TicketIds)
              \cup Permutations(Servers)
=============================================================================
