------------------------------- MODULE Accounts -------------------------------
(***************************************************************************)
(* Accounts and refresh tokens: registration, login, token rotation and    *)
(* logout (core/auth/auth.service.js, core/auth/token.service.js and their *)
(* MongoDB repositories), the login through the external microservice      *)
(* (domain/auth/microserviceAuth.usecase.js) and the gRPC handlers that    *)
(* call them.                                                              *)
(*                                                                         *)
(* A call is one request with its awaits: every step of it is one database *)
(* operation, or one request to the microservice, and calls interleave     *)
(* between them.  Any step can fail; what was done before stays done.      *)
(*                                                                         *)
(* Abstracted: the content and the hashes of tokens and passwords (a token *)
(* is a number, a password one of two), access tokens, which no store      *)
(* keeps, user ids (an account is known by its email, which never changes),*)
(* the last-login time, client data and the texts of errors.               *)
(***************************************************************************)
EXTENDS Naturals, FiniteSets

CONSTANTS
  Emails, Names,
  Calls,         \* the requests that may run at a time (a bound)
  MaxTokens,     \* the refresh tokens ever created (a bound)
  MaxLogouts     \* the logouts of all devices per account (a bound)

ASSUME AccountsAssumption ==
  MaxTokens \in Nat /\ MaxLogouts \in Nat

VARIABLES
  accounts,  \* the user collection: email -> name and password, or NoAccount
  tokens,    \* the refresh token collection, by order of creation
  linked,    \* the emails with a stored microservice token set
  profiled,  \* the emails with a stored microservice profile
  calls,
  held,      \* the tokens that a client has been given
  logouts    \* how often all devices of an account were logged out

vars == <<accounts, tokens, linked, profiled, calls, held, logouts>>
micro == <<linked, profiled>>

NoAccount == [name |-> "none", password |-> "none"]
DefaultName == "default"    \* made of the email and the user id: unique by itself
\* The password that the microservice has for the email, which it does not
\* change here, and another one.
Passwords == {"external", "other"}
Tokens == 1..MaxTokens
Unused == [state |-> "unused"]
Idle == [phase |-> "idle"]

Registered == {e \in Emails : accounts[e] # NoAccount}
Created == {t \in Tokens : tokens[t] # Unused}
Live == {t \in Created : tokens[t].state = "live"}

\* A token record: whether it can be used (it was not revoked, its lifetime is
\* not over), its owner, the token it replaced (0 if it began a session),
\* whether an external login began its session
\* and, for OldSessionsEnd only, the logouts that came before its session
\* and whether its rotation had read the old record before the last of them.
TokenRecord ==
  [state : {"live", "dead"}, email : Emails, parent : 0..MaxTokens,
   external : BOOLEAN, epoch : 0..MaxLogouts, raced : BOOLEAN]

TypeOK ==
  /\ \A e \in Emails : accounts[e] = NoAccount \/ accounts[e] \in
       [name : Names \cup {DefaultName}, password : Passwords]
  /\ \A t \in Tokens : tokens[t] = Unused \/ tokens[t] \in TokenRecord
  /\ linked \subseteq Emails /\ profiled \subseteq Emails
  /\ held \subseteq Created
  /\ logouts \in [Emails -> 0..MaxLogouts]

Init ==
  /\ accounts = [e \in Emails |-> NoAccount]
  /\ tokens = [t \in Tokens |-> Unused]
  /\ linked = {} /\ profiled = {}
  /\ calls = [c \in Calls |-> Idle]
  /\ held = {}
  /\ logouts = [e \in Emails |-> 0]

-----------------------------------------------------------------------------

Begin(c, call) ==
  /\ calls[c] = Idle
  /\ calls' = [calls EXCEPT ![c] = call]

Goes(c, call) == calls' = [calls EXCEPT ![c] = call]
Ends(c) == Goes(c, Idle)

NameTaken(n) == n # DefaultName /\ \E e \in Registered : accounts[e].name = n

\* Register: findByEmail finds nothing, so the name is checked next.  (The
\* first read of a call is its beginning: nothing came before it.)
RequestRegister(c, e, n, p) ==
  /\ e \notin Registered
  /\ Begin(c, [phase |-> "findName", email |-> e, name |-> n, password |-> p,
               external |-> FALSE])
  /\ UNCHANGED <<accounts, tokens, micro, held, logouts>>

\* findByUserName, for a name that was asked for.
FindName(c) ==
  /\ calls[c].phase = "findName"
  /\ IF NameTaken(calls[c].name) THEN Ends(c) ELSE Goes(c, [calls[c] EXCEPT !.phase = "create"])
  /\ UNCHANGED <<accounts, tokens, micro, held, logouts>>

PasswordMatches(e, p) == e \in Registered /\ accounts[e].password = p

\* The tokens of a register or login come next.
Issuing(e, ext) == [phase |-> "issue", email |-> e, external |-> ext]

\* Login: findByEmail and the password (updateLastLogin changes nothing here).
RequestLogin(c, e, p) ==
  /\ PasswordMatches(e, p)
  /\ Begin(c, Issuing(e, FALSE))
  /\ UNCHANGED <<accounts, tokens, micro, held, logouts>>

\* LoginWithMicroservice (Login and Register too, if they are replaced by it):
\* the microservice accepts the password, or refuses it (invalid_grant).  Then
\* an account that exists logs in with the same password, else it is
\* registered with the default name.
RequestExternalLogin(c, e) ==
  /\ Begin(c, [phase |-> IF e \in Registered THEN "verify" ELSE "findEmail",
               email |-> e, name |-> DefaultName, password |-> "external", external |-> TRUE])
  /\ UNCHANGED <<accounts, tokens, micro, held, logouts>>

\* login, inside the external login.
VerifyPassword(c) ==
  /\ calls[c].phase = "verify"
  /\ IF PasswordMatches(calls[c].email, calls[c].password)
     THEN Goes(c, Issuing(calls[c].email, TRUE)) ELSE Ends(c)
  /\ UNCHANGED <<accounts, tokens, micro, held, logouts>>

\* register, inside the external login.
FindEmail(c) ==
  /\ calls[c].phase = "findEmail"
  /\ IF calls[c].email \in Registered THEN Ends(c)
     ELSE Goes(c, [calls[c] EXCEPT !.phase = "create"])
  /\ UNCHANGED <<accounts, tokens, micro, held, logouts>>

\* The unique indexes on email and userNameKey.
DuplicateKey(e, n) == e \in Registered \/ NameTaken(n)

\* userRepository.create, after the password was hashed: the unique indexes
\* decide between registrations that passed the same checks.
CreateAccount(c) ==
  LET e == calls[c].email  n == calls[c].name IN
  /\ calls[c].phase = "create"
  /\ IF DuplicateKey(e, n)
     THEN Ends(c) /\ UNCHANGED accounts
     ELSE /\ accounts' = [accounts EXCEPT ![e] = [name |-> n, password |-> calls[c].password]]
          /\ Goes(c, Issuing(e, calls[c].external))
  /\ UNCHANGED <<tokens, micro, held, logouts>>

\* createRefreshToken: a new record with an id of its own.
NewToken(e, parent, ext, epoch, raced) ==
  LET t == Cardinality(Created) + 1 IN
  /\ t \in Tokens
  /\ tokens' = [tokens EXCEPT ![t] =
       [state |-> "live", email |-> e, parent |-> parent, external |-> ext,
        epoch |-> epoch, raced |-> raced]]

\* The tokens of a local register or login are the answer; the external login
\* goes on with its own records.
IssueTokens(c) ==
  LET e == calls[c].email IN
  /\ calls[c].phase = "issue"
  /\ NewToken(e, 0, calls[c].external, logouts[e], FALSE)
  /\ IF calls[c].external
     THEN /\ Goes(c, [phase |-> "link", email |-> e, token |-> Cardinality(Created) + 1])
          /\ UNCHANGED held
     ELSE Ends(c) /\ held' = held \cup {Cardinality(Created) + 1}
  /\ UNCHANGED <<accounts, micro, logouts>>

\* upsertTokenSet, for the account of the internal result.
SaveTokenSet(c) ==
  /\ calls[c].phase = "link"
  /\ linked' = linked \cup {calls[c].email}
  /\ Goes(c, [calls[c] EXCEPT !.phase = "profile"])
  /\ UNCHANGED <<accounts, tokens, profiled, held, logouts>>

\* A mutant: the profile is fetched but not stored.
StoresProfile_Not(c) == {}
StoresProfile(c) == {calls[c].email}

\* getMicroserviceMe and upsertFromMePayload, then the answer.
SaveProfile(c) ==
  /\ calls[c].phase = "profile"
  /\ profiled' = profiled \cup StoresProfile(c)
  /\ held' = held \cup {calls[c].token}
  /\ Ends(c)
  /\ UNCHANGED <<accounts, tokens, linked, logouts>>

-----------------------------------------------------------------------------

\* A mutant: a record that exists is good.
Usable_Known(t) == t \in Created
\* The signature with its expiry, the record and its isRevoked.
Usable(t) == tokens[t].state = "live"

\* Refresh, with a token that some client holds: findByTokenId.
RequestRefresh(c, t) ==
  /\ t \in held /\ Usable(t)
  /\ Begin(c, [phase |-> "revokeOld", token |-> t, epoch |-> logouts[tokens[t].email]])
  /\ UNCHANGED <<accounts, tokens, micro, held, logouts>>

Revoked(ts) ==
  [t \in Tokens |-> IF t \in ts THEN [tokens[t] EXCEPT !.state = "dead"] ELSE tokens[t]]

\* A mutant: the old token is revoked after the new one exists.
RevokeOld_Later(c) ==
  /\ calls[c].phase = "revokeOld"
  /\ Goes(c, [calls[c] EXCEPT !.phase = "replace"])
  /\ UNCHANGED <<accounts, tokens, micro, held, logouts>>

RevokeOld(c) ==
  /\ calls[c].phase = "revokeOld"
  /\ tokens' = Revoked({calls[c].token})
  /\ Goes(c, [calls[c] EXCEPT !.phase = "replace"])
  /\ UNCHANGED <<accounts, micro, held, logouts>>

\* refresh: it finds the user, whom nothing deletes, and answers with the token.
AnswerRefresh(c, t) == held' = held \cup {t} /\ Ends(c)

\* rotateRefreshToken's createRefreshToken, for the owner named in the old token.
ReplaceToken(c) ==
  LET old == tokens[calls[c].token] IN
  /\ calls[c].phase = "replace"
  /\ NewToken(old.email, calls[c].token, old.external, old.epoch,
              old.raced \/ calls[c].epoch < logouts[old.email])
  /\ AnswerRefresh(c, Cardinality(Created) + 1)
  /\ UNCHANGED <<accounts, micro, logouts>>

\* Logout of the current session, by the owner of the token: findByTokenId.
RequestLogout(c, t) ==
  /\ t \in held /\ Usable(t)
  /\ Begin(c, [phase |-> "revoke", token |-> t])
  /\ UNCHANGED <<accounts, tokens, micro, held, logouts>>

RevokeSession(c) ==
  /\ calls[c].phase = "revoke"
  /\ tokens' = Revoked({calls[c].token})
  /\ Ends(c)
  /\ UNCHANGED <<accounts, micro, held, logouts>>

\* LogoutAllDevices: one updateMany and the answer.
LogoutAllDevices(e) ==
  /\ e \in Registered /\ logouts[e] < MaxLogouts
  /\ tokens' = Revoked({t \in Created : tokens[t].email = e})
  /\ logouts' = [logouts EXCEPT ![e] = @ + 1]
  /\ UNCHANGED <<accounts, micro, calls, held>>

\* The lifetime of a token ends: its signature is refused and the TTL index
\* drops its record.
Expire(t) ==
  /\ t \in Live
  /\ tokens' = Revoked({t})
  /\ UNCHANGED <<accounts, micro, calls, held, logouts>>

\* A database operation or a request to the microservice fails: an error is
\* the answer, and the rest of the call does not happen.
StepFails(c) ==
  /\ calls[c] # Idle
  /\ Ends(c)
  /\ UNCHANGED <<accounts, tokens, micro, held, logouts>>

CallStep(c) ==
  \/ FindName(c) \/ VerifyPassword(c) \/ FindEmail(c) \/ CreateAccount(c)
  \/ IssueTokens(c) \/ SaveTokenSet(c) \/ SaveProfile(c)
  \/ RevokeOld(c) \/ ReplaceToken(c) \/ RevokeSession(c)

Next ==
  \/ \E c \in Calls, e \in Emails, p \in Passwords :
       \/ \E n \in Names \cup {DefaultName} : RequestRegister(c, e, n, p)
       \/ RequestLogin(c, e, p)
  \/ \E c \in Calls, e \in Emails : RequestExternalLogin(c, e)
  \/ \E c \in Calls : CallStep(c) \/ StepFails(c)
  \/ \E c \in Calls, t \in Tokens : RequestRefresh(c, t) \/ RequestLogout(c, t)
  \/ \E e \in Emails : LogoutAllDevices(e)
  \/ \E t \in Tokens : Expire(t)

Spec == Init /\ [][Next]_vars

-----------------------------------------------------------------------------

\* A token that replaced another one never lives beside it: a rotation that
\* fails half-way costs the session, it does not double it
\* (token.service.js:219-243).
ReplacedTokensAreDead ==
  \A t \in Created : tokens[t].parent # 0 => tokens[tokens[t].parent].state # "live"

\* After a logout of all devices no earlier session is alive, but one whose
\* rotation had read its record before the logout and wrote the new token
\* after it (token.service.js:200-243, :317-321).
OldSessionsEnd ==
  \A t \in Live : tokens[t].epoch < logouts[tokens[t].email] => tokens[t].raced

\* A client that was given tokens by the external login has an account whose
\* microservice tokens and profile are stored, whatever failed in other calls
\* (microserviceAuth.usecase.js:57-147).
ExternalLoginsAreComplete ==
  \A t \in held : tokens[t].external => tokens[t].email \in Registered \cap linked \cap profiled
=============================================================================
