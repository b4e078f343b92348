-------------------------- MODULE MCVoiceDirectional --------------------------
(* Two users, one of them with two connections, in a short recording.          *)
EXTENDS VoiceDirectional, TLC

CONSTANTS c1, c2, c3

Owners == (c1 :> "a") @@ (c2 :> "b") @@ (c3 :> "b")

FromFirst == {<<c1, c2>>, <<c1, c3>>}

Alike == Permutations({c2, c3})
=============================================================================
