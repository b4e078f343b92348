--------------------------- MODULE MCVoiceSessions ---------------------------
(* The instances of VoiceSessions that TLC checks. *)
EXTENDS VoiceSessions, TLC

CONSTANTS c1, c2, c3, c4, u1, u2, u3

\* c4 is a later connection of the user of c1.
TwoOfOneUser == (c1 :> u1) @@ (c2 :> u2) @@ (c3 :> u3) @@ (c4 :> u1)

Symmetry == Permutations(SessionIds) \cup Permutations(Batches)
              \cup Permutations({c2, c3}) \cup Permutations({c1, c4})
=============================================================================
