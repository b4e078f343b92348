---------------------------- MODULE ServiceTokens ----------------------------
(***************************************************************************)
(* The service tokens that dedicated servers show with every request: how  *)
(* they are created, verified and renewed (gameServerServiceToken.js, and  *)
(* dedicatedServerHandler.js).  A token is signed and kept by nobody: what *)
(* it carries and the clock decide, so a server that renews too late is    *)
(* out for good, and a removed server keeps its token until it expires.    *)
(*                                                                         *)
(* Abstracted: the encoding of the payload; the signature, to the pair of  *)
(* the secret and what was signed with it; the secret, to the checks that  *)
(* it passes; names, to whether their characters and length are allowed;   *)
(* the size of the metadata, to whether it is within its limit; the nonce. *)
(***************************************************************************)
EXTENDS Integers

CONSTANTS
  Servers, Purposes,  \* names of servers and purposes
  BadNames,           \* the names of servers that are not as /^[a-zA-Z0-9_-]+$/
  Secrets,            \* the configured secrets, and how strong they are
  Absent,             \* a setting or an argument that is not there
  TtlSettings,        \* bound: GAME_SERVER_SERVICE_TOKEN_MAX_TTL_SECONDS, and the default
  TtlRequests,        \* bound: the ttlSeconds that is asked for
  Offsets             \* bound: milliseconds between an instant and a clock

ASSUME TokenAssumption ==
  /\ Absent \notin Int /\ BadNames \subseteq Servers
  /\ TtlSettings \subseteq Int \cup {Absent} /\ TtlRequests \subseteq Int \cup {Absent}
  /\ Offsets \subseteq Int

ClampInteger(v, default, low, high) ==
  IF v = Absent THEN default
  ELSE IF v < low THEN low
  ELSE IF v > high THEN high
  ELSE v

\* The constructor; GameServerControl gives it no skew and always a TTL, without
\* which the default of 60 might exceed maxTtl.
Settings(max, ttl) ==
  LET maxTtl == ClampInteger(max, 300, 5, 86400)
  IN  [maxTtl |-> maxTtl, defaultTtl |-> ClampInteger(ttl, 60, 5, maxTtl), skew |-> 5]

\* validateServiceSecret, which throws.
Usable(secret, requireStrong) ==
  secret.configured /\ secret.long /\ (requireStrong => secret.strong)

-----------------------------------------------------------------------------
(* createToken and verifyToken *)

Signature(secret, payload) == <<secret, payload>>

CreateToken(secret, s, server, purpose, ttl, now) ==
  LET payload ==
        [server |-> server, purpose |-> purpose, issuedAt |-> now,
         expiresAt |-> now + 1000 * ClampInteger(ttl, s.defaultTtl, 5, s.maxTtl)]
  IN  [version |-> "mgst1", payload |-> payload, signature |-> Signature(secret, payload)]

\* Rounded up to seconds.
TtlOf(payload) == (payload.expiresAt - payload.issuedAt + 999) \div 1000

\* A mutant: the skew is forgotten where a token expires.
TimeReason_Strict(s, payload, now) ==
  IF payload.issuedAt > now + 1000 * s.skew THEN "token_not_yet_valid"
  ELSE IF payload.expiresAt <= now THEN "token_expired"
  ELSE IF payload.expiresAt <= payload.issuedAt THEN "token_time_range_invalid"
  ELSE IF TtlOf(payload) > s.maxTtl + s.skew THEN "token_ttl_too_long"
  ELSE "token_valid"

\* validateTokenTime
TimeReason(s, payload, now) ==
  IF payload.issuedAt > now + 1000 * s.skew THEN "token_not_yet_valid"
  ELSE IF payload.expiresAt <= now - 1000 * s.skew THEN "token_expired"
  ELSE IF payload.expiresAt <= payload.issuedAt THEN "token_time_range_invalid"
  ELSE IF TtlOf(payload) > s.maxTtl + s.skew THEN "token_ttl_too_long"
  ELSE "token_valid"

\* validatePayloadShape: createToken sees to all of it but the name of the server.
ShapeReason(payload) ==
  IF payload.server \in BadNames THEN "token_server_id_invalid" ELSE "token_valid"

\* validateExpectedPayload: what is not expected is not compared.
ExpectedReason(payload, server, purpose) ==
  IF server # Absent /\ payload.server # server THEN "token_server_mismatch"
  ELSE IF purpose # Absent /\ payload.purpose # purpose THEN "token_purpose_mismatch"
  ELSE "token_valid"

\* verifyToken: the first check that fails gives the reason.
Verify(secret, s, token, server, purpose, now) ==
  IF token.version # "mgst1" THEN "token_version_invalid"
  ELSE IF token.signature # Signature(secret, token.payload) THEN "token_signature_invalid"
  ELSE IF ShapeReason(token.payload) # "token_valid" THEN ShapeReason(token.payload)
  ELSE IF TimeReason(s, token.payload, now) # "token_valid" THEN TimeReason(s, token.payload, now)
  ELSE ExpectedReason(token.payload, server, purpose)

-----------------------------------------------------------------------------
(* renewDedicatedServerToken *)

\* What the renewal asks createToken for.
RenewalTtl(requested) ==
  IF requested = Absent THEN 300
  ELSE IF requested < 30 THEN 30
  ELSE IF requested > 3600 THEN 3600
  ELSE requested

\* verifyDedicatedServerToken, before every operation of a dedicated server: the
\* purpose is never compared.
Admitted(secret, s, token, server, now) ==
  Verify(secret, s, token, server, Absent, now) = "token_valid"

\* The renewed token, or the old one where it is refused; the purpose becomes that of
\* game server control.
Renew(secret, s, token, server, requested, now) ==
  LET renewed ==
        CreateToken(secret, s, server, "game_server_control", RenewalTtl(requested), now)
  IN  IF Admitted(secret, s, token, server, now) /\ Admitted(secret, s, renewed, server, now)
      THEN renewed ELSE token

\* Seconds after which the server is told to renew.
RenewAfter(token) ==
  LET ttl == (token.payload.expiresAt - token.payload.issuedAt) \div 1000
  IN  IF ttl - 90 > 30 THEN ttl - 90 ELSE 30

-----------------------------------------------------------------------------
(* Properties *)

\* The instants are counted from this one.
Start == 100000

AllSettings == {Settings(max, ttl) : max \in TtlSettings, ttl \in TtlSettings \ {Absent}}
Strong == {k \in Secrets : Usable(k, TRUE)}

\* Times at which a token may show what its limits are worth.
Clocks(token) ==
  {token.payload.issuedAt + d : d \in Offsets} \cup {token.payload.expiresAt + d : d \in Offsets}

\* A token is accepted from the skew before its issue until the skew after its
\* expiry, and only for the server and purpose that it names.
AcceptedWhileValid ==
  \A k \in Strong, s \in AllSettings, v \in Servers, p \in Purposes, r \in TtlRequests :
    LET token == CreateToken(k, s, v, p, r, Start)
    IN \A now \in Clocks(token), w \in Servers \cup {Absent}, q \in Purposes \cup {Absent} :
         Verify(k, s, token, w, q, now) = "token_valid" <=>
           /\ v \notin BadNames /\ w \in {v, Absent} /\ q \in {p, Absent}
           /\ now >= Start - 1000 * s.skew
           /\ now < token.payload.expiresAt + 1000 * s.skew

\* Nothing but the secret makes a token: other payloads, servers or times and
\* tokens of another secret are refused at every time.
AlteredIsRefused ==
  \A k \in Strong, s \in AllSettings, v \in Servers, p \in Purposes :
    LET token == CreateToken(k, s, v, p, Absent, Start)
        altered == {[token EXCEPT !.payload.server = w] : w \in Servers \ {v}}
          \cup {[token EXCEPT !.payload.expiresAt = @ + d] : d \in Offsets \ {0}}
          \cup {[token EXCEPT !.payload.issuedAt = @ + d] : d \in Offsets \ {0}}
          \cup {CreateToken(j, s, v, p, Absent, Start) : j \in Secrets \ {k}}
    IN \A x \in altered : \A now \in Clocks(x) :
         Verify(k, s, x, Absent, Absent, now) # "token_valid"

\* A server that renews when it was told to keeps a token that is accepted, as
\* often as it renews.
RenewedInTime ==
  \A k \in Strong, s \in AllSettings, v \in Servers \ BadNames, p \in Purposes,
     r \in TtlRequests :
    s.maxTtl >= 30 =>
      LET first == Renew(k, s, CreateToken(k, s, v, p, r, Start), v, r, Start)
          later == Start + 1000 * RenewAfter(first)
          second == Renew(k, s, first, v, r, later)
      IN /\ Admitted(k, s, first, v, later)
         /\ second.payload.issuedAt = later
         /\ Admitted(k, s, second, v, later + 1000 * RenewAfter(second))

\* A token of a server is accepted exactly while it is good, and a server that
\* renews when it is told to is never locked out: the TTLs are clamped by the
\* setting, by the renewal and by its minimum of 30 seconds, one after the other
\* (createToken, verifyToken, renewDedicatedServerToken).
ServiceTokensHold ==
  /\ AcceptedWhileValid
  /\ AlteredIsRefused
  /\ RenewedInTime

=============================================================================
