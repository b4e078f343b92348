---------------------------- MODULE MCGameTickets ----------------------------
(* The instance of GameTickets that TLC checks, without symmetry as it checks   *)
(* liveness, and that of ServiceTokens.                                         *)
EXTENDS GameTickets, ServiceTokens

\* One usable secret that another may be mistaken for, and a weak one.
SampleSecrets ==
  {[id |-> i, configured |-> TRUE, long |-> TRUE, strong |-> i # 3] : i \in 1 .. 3}
SampleSettings == {Absent, 1, 29, 30, 31, 60, 121, 300, 86401}
SampleRequests == {Absent, 1, 30, 119, 120, 121, 300, 4000}
SampleOffsets == {-5001, -5000, -4999, -1, 0, 1, 4999, 5000, 5001}

\* ServiceTokensHold speaks of no state: the initial one is enough to evaluate it
\* (createToken, verifyToken, renewDedicatedServerToken).
TokensHold == Init => ServiceTokensHold
=============================================================================
