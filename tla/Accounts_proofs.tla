--------------------------- MODULE Accounts_proofs ---------------------------
(***************************************************************************)
(* Proofs about Accounts: rotation never leaves an old token alive, a      *)
(* logout of all devices ends the sessions before it, and an external      *)
(* login answers only when its records are complete.  The collections are  *)
(* taken first, by the operations on tokens; what a call in progress knows *)
(* of them stays true while other calls run, for what it knows of only     *)
(* grows.                                                                  *)
(***************************************************************************)
EXTENDS Accounts, FiniteSetTheorems, TLAPS

-----------------------------------------------------------------------------
(* The collections *)

AccountRecord == [name : Names \cup {DefaultName}, password : Passwords]

StoreTypes ==
  /\ accounts \in [Emails -> AccountRecord \cup {NoAccount}]
  /\ tokens \in [Tokens -> TokenRecord \cup {Unused}]
  /\ linked \subseteq Emails /\ profiled \subseteq Emails
  /\ logouts \in [Emails -> 0..MaxLogouts]

\* Tokens are created one after the other, each after the one it replaces and in an
\* epoch that has come.
TokensInOrder ==
  /\ \E n \in 0..MaxTokens : Created = 1..n
  /\ held \subseteq Created
  /\ \A t \in Created : /\ tokens[t].parent < t
                        /\ tokens[t].epoch <= logouts[tokens[t].email]

StoreInv ==
  /\ StoreTypes /\ TokensInOrder
  /\ ReplacedTokensAreDead /\ OldSessionsEnd /\ ExternalLoginsAreComplete

\* What a step keeps of the collections: nothing is forgotten, and a token changes
\* only by dying.
Grows ==
  /\ Registered \subseteq Registered' /\ linked \subseteq linked'
  /\ held \subseteq held' /\ Created \subseteq Created'
  /\ \A e \in Emails : logouts[e] <= logouts'[e]
  /\ \A t \in Created :
       /\ tokens'[t].email = tokens[t].email
       /\ tokens'[t].external = tokens[t].external
       /\ tokens'[t].epoch = tokens[t].epoch
       /\ tokens'[t].raced = tokens[t].raced
       /\ tokens[t].state = "dead" => tokens'[t].state = "dead"

\* The two states of a slot for a token.
LEMMA CreatedTokens ==
  ASSUME StoreTypes, NEW t \in Tokens
  PROVE  /\ t \in Created => tokens[t] \in TokenRecord
         /\ t \notin Created => tokens[t] = Unused
         /\ tokens[t] \in TokenRecord => t \in Created
<1>1. tokens[t] \in TokenRecord => tokens[t] # Unused
  <2> SUFFICES ASSUME Unused \in TokenRecord PROVE FALSE
    OBVIOUS
  <2>1. Unused.state \in {"live", "dead"}
    BY DEF TokenRecord
  <2> QED
    BY <2>1 DEF Unused
<1> QED
  BY <1>1 DEF StoreTypes, Created

\* The tokens `ts` die.
LEMMA RevokedRecords ==
  ASSUME StoreTypes, NEW ts \in SUBSET Created, tokens' = Revoked(ts)
  PROVE  /\ tokens' \in [Tokens -> TokenRecord \cup {Unused}]
         /\ Created' = Created
         /\ \A t \in Created :
              /\ tokens'[t] \in TokenRecord
              /\ tokens'[t].email = tokens[t].email
              /\ tokens'[t].external = tokens[t].external
              /\ tokens'[t].parent = tokens[t].parent
              /\ tokens'[t].epoch = tokens[t].epoch
              /\ tokens'[t].raced = tokens[t].raced
              /\ tokens'[t].state = IF t \in ts THEN "dead" ELSE tokens[t].state
<1>1. \A t \in Tokens :
        tokens'[t] = IF t \in ts THEN [tokens[t] EXCEPT !.state = "dead"] ELSE tokens[t]
  BY DEF Revoked
<1>2. DOMAIN tokens' = Tokens /\ tokens' = [t \in Tokens |-> tokens'[t]]
  BY DEF Revoked
<1>3. ASSUME NEW t \in Created
      PROVE  /\ tokens'[t] \in TokenRecord
             /\ tokens'[t].email = tokens[t].email
             /\ tokens'[t].external = tokens[t].external
             /\ tokens'[t].parent = tokens[t].parent
             /\ tokens'[t].epoch = tokens[t].epoch
             /\ tokens'[t].raced = tokens[t].raced
             /\ tokens'[t].state = IF t \in ts THEN "dead" ELSE tokens[t].state
  <2>1. tokens[t] \in TokenRecord /\ t \in Tokens
    BY CreatedTokens DEF Created
  <2>2. CASE t \in ts
    <3>1. tokens'[t] = [tokens[t] EXCEPT !.state = "dead"]
      BY <1>1, <2>1, <2>2
    <3> QED
      BY <2>1, <2>2, <3>1 DEF TokenRecord
  <2>3. CASE t \notin ts
    BY <1>1, <2>1, <2>3
  <2> QED
    BY <2>2, <2>3
<1>4. \A t \in Tokens \ Created : tokens'[t] = Unused
  BY <1>1, CreatedTokens
<1>5. tokens' \in [Tokens -> TokenRecord \cup {Unused}]
  BY <1>2, <1>3, <1>4
<1>6. \A t \in Tokens : tokens'[t] \in TokenRecord => tokens'[t] # Unused
  <2> SUFFICES ASSUME Unused \in TokenRecord PROVE FALSE
    OBVIOUS
  <2>1. Unused.state \in {"live", "dead"}
    BY DEF TokenRecord
  <2> QED
    BY <2>1 DEF Unused
<1>7. Created' = Created
  BY <1>3, <1>4, <1>6 DEF Created
<1> QED
  BY <1>3, <1>5, <1>7

\* Tokens die: of one session, or all of an account, whose logouts are counted then.
LEMMA RevocationKeepsStore ==
  ASSUME StoreInv, NEW ts \in SUBSET Created, tokens' = Revoked(ts),
         logouts' \in [Emails -> 0..MaxLogouts],
         \A e \in Emails : logouts[e] <= logouts'[e],
         \A t \in Created \ ts : logouts'[tokens[t].email] = logouts[tokens[t].email],
         UNCHANGED <<accounts, linked, profiled, held>>
  PROVE  /\ StoreInv' /\ Grows
         /\ \A t \in ts : tokens'[t].state = "dead"
<1>1. /\ tokens' \in [Tokens -> TokenRecord \cup {Unused}]
      /\ Created' = Created
      /\ \A t \in Created :
           /\ tokens'[t] \in TokenRecord
           /\ tokens'[t].email = tokens[t].email
           /\ tokens'[t].external = tokens[t].external
           /\ tokens'[t].parent = tokens[t].parent
           /\ tokens'[t].epoch = tokens[t].epoch
           /\ tokens'[t].raced = tokens[t].raced
           /\ tokens'[t].state = IF t \in ts THEN "dead" ELSE tokens[t].state
  BY RevokedRecords DEF StoreInv
<1>2. /\ accounts' = accounts /\ linked' = linked /\ profiled' = profiled /\ held' = held
      /\ Registered' = Registered
  BY DEF Registered
<1>3. StoreTypes'
  BY <1>1, <1>2 DEF StoreInv, StoreTypes
<1>4. \A t \in Created : tokens[t] \in TokenRecord /\ tokens[t].email \in Emails
  BY CreatedTokens DEF StoreInv, Created, TokenRecord
<1>5. TokensInOrder'
  <2>1. \A t \in Created : /\ tokens'[t].parent < t
                           /\ tokens'[t].epoch <= logouts'[tokens'[t].email]
    <3> SUFFICES ASSUME NEW t \in Created
                 PROVE  /\ tokens'[t].parent < t
                        /\ tokens'[t].epoch <= logouts'[tokens'[t].email]
      OBVIOUS
    <3>1. /\ tokens[t].parent < t /\ tokens[t].epoch <= logouts[tokens[t].email]
          /\ tokens[t].email \in Emails /\ tokens[t].epoch \in 0..MaxLogouts
      BY <1>4 DEF StoreInv, TokensInOrder, TokenRecord
    <3>2. /\ logouts[tokens[t].email] <= logouts'[tokens[t].email]
          /\ logouts[tokens[t].email] \in Nat /\ logouts'[tokens[t].email] \in Nat
      BY <3>1, AccountsAssumption DEF StoreInv, StoreTypes
    <3> QED
      BY <1>1, <3>1, <3>2, AccountsAssumption
  <2> QED
    BY <1>1, <1>2, <2>1 DEF StoreInv, TokensInOrder
<1>6. ReplacedTokensAreDead'
  <2> SUFFICES ASSUME NEW t \in Created, tokens'[t].parent # 0
               PROVE  tokens'[tokens'[t].parent].state # "live"
    BY <1>1 DEF ReplacedTokensAreDead
  <2>1. /\ tokens'[t].parent = tokens[t].parent
        /\ tokens[tokens[t].parent].state # "live"
    BY <1>1 DEF StoreInv, ReplacedTokensAreDead
  <2>2. tokens[t].parent \in Created
    <3>1. PICK n \in 0..MaxTokens : Created = 1..n
      BY DEF StoreInv, TokensInOrder
    <3>2. tokens[t].parent < t /\ tokens[t].parent \in 0..MaxTokens
      BY <1>4 DEF StoreInv, TokensInOrder, TokenRecord
    <3> QED
      BY <2>1, <3>1, <3>2, AccountsAssumption
  <2> QED
    BY <1>1, <2>1, <2>2
<1>7. OldSessionsEnd'
  <2> SUFFICES ASSUME NEW t \in Created, tokens'[t].state = "live",
                      tokens'[t].epoch < logouts'[tokens'[t].email]
               PROVE  tokens'[t].raced
    BY <1>1 DEF OldSessionsEnd, Live
  <2>1. t \notin ts /\ tokens[t].state = "live"
    BY <1>1
  <2>2. tokens[t].epoch < logouts[tokens[t].email]
    BY <1>1, <2>1
  <2>3. tokens[t].raced
    BY <2>1, <2>2 DEF StoreInv, OldSessionsEnd, Live
  <2> QED
    BY <1>1, <2>3
<1>8. ExternalLoginsAreComplete'
  <2>1. held \subseteq Created
    BY DEF StoreInv, TokensInOrder
  <2> QED
    BY <1>1, <1>2, <2>1 DEF StoreInv, ExternalLoginsAreComplete
<1>9. Grows
  BY <1>1, <1>2 DEF Grows
<1> QED
  BY <1>1, <1>3, <1>5, <1>6, <1>7, <1>8, <1>9 DEF StoreInv

\* The number of a new token.
Fresh == Cardinality(Created) + 1

\* Tokens are numbered without gaps, so that a new one has the next number.
LEMMA FreshIsNext ==
  ASSUME TokensInOrder
  PROVE  /\ Fresh \notin Created /\ Fresh \in Nat \ {0}
         /\ \A t \in Created : t < Fresh
         /\ Created \cup {Fresh} = 1..Fresh
<1>1. PICK n \in 0..MaxTokens : Created = 1..n
  BY DEF TokensInOrder
<1>2. n \in Nat
  BY <1>1, AccountsAssumption
<1>3. Cardinality(Created) = n
  BY <1>1, <1>2, FS_Interval
<1> QED
  BY <1>1, <1>2, <1>3 DEF Fresh

\* A new token: it replaces none or a dead one, and its session began in this epoch, or
\* before it with a rotation that raced with a logout.
LEMMA NewTokenKeepsStore ==
  ASSUME StoreInv, NEW e \in Emails, NEW p \in 0..MaxTokens, NEW ext \in BOOLEAN,
         NEW ep \in 0..MaxLogouts, NEW raced \in BOOLEAN,
         NewToken(e, p, ext, ep, raced),
         p = 0 \/ (p \in Created /\ tokens[p].state = "dead"),
         ep <= logouts[e], ep < logouts[e] => raced,
         held' = held \/
           (held' = held \cup {Fresh} /\ (ext => e \in Registered \cap linked \cap profiled)),
         UNCHANGED <<accounts, linked, profiled, logouts>>
  PROVE  /\ StoreInv' /\ Grows
         /\ Fresh \in Tokens /\ Fresh \in Created' /\ tokens'[Fresh].email = e
         /\ tokens'[Fresh].external = ext
<1> DEFINE new == [state |-> "live", email |-> e, parent |-> p, external |-> ext,
                   epoch |-> ep, raced |-> raced]
<1>1. PICK f \in Tokens : f = Fresh /\ tokens' = [tokens EXCEPT ![f] = new]
  BY DEF NewToken, Fresh
<1>2. /\ f \notin Created /\ f \in Nat \ {0} /\ \A t \in Created : t < f
      /\ Created \cup {f} = 1..f
  BY <1>1, FreshIsNext DEF StoreInv
<1>3. new \in TokenRecord
  BY DEF TokenRecord
<1> HIDE DEF new
<1>4. /\ tokens' \in [Tokens -> TokenRecord \cup {Unused}]
      /\ tokens'[f] = new
      /\ \A t \in Tokens \ {f} : tokens'[t] = tokens[t]
  BY <1>1, <1>3 DEF StoreInv, StoreTypes
<1>5. Created' = Created \cup {f}
  <2>1. new # Unused
    <3>1. new.state = "live"
      BY DEF new
    <3> QED
      BY <1>1, <1>3, CreatedTokens DEF TokenRecord, Unused
  <2> QED
    BY <1>1, <1>4, <2>1 DEF Created
<1>6. /\ new.state = "live" /\ new.email = e /\ new.parent = p /\ new.external = ext
      /\ new.epoch = ep /\ new.raced = raced
  BY DEF new
<1>7. /\ accounts' = accounts /\ linked' = linked /\ profiled' = profiled
      /\ logouts' = logouts /\ Registered' = Registered
  BY DEF Registered
<1>8. StoreTypes'
  BY <1>4, <1>7 DEF StoreInv, StoreTypes
<1>9. \A t \in Created : /\ tokens[t] \in TokenRecord /\ t \in Tokens \ {f}
                         /\ tokens'[t] = tokens[t]
  BY <1>2, <1>4, CreatedTokens DEF StoreInv, Created
<1>10. TokensInOrder'
  <2>1. Created' = 1..f /\ f \in 0..MaxTokens
    BY <1>1, <1>2, <1>5, AccountsAssumption DEF Tokens
  <2>2. held' \subseteq Created'
    BY <1>1, <1>5 DEF StoreInv, TokensInOrder
  <2>3. p < f
    BY <1>2
  <2>4. \A t \in Created : /\ tokens'[t].parent < t
                           /\ tokens'[t].epoch <= logouts'[tokens'[t].email]
    BY <1>7, <1>9 DEF StoreInv, TokensInOrder
  <2>5. tokens'[f].parent < f /\ tokens'[f].epoch <= logouts'[tokens'[f].email]
    BY <1>4, <1>6, <1>7, <2>3
  <2> QED
    BY <1>5, <2>1, <2>2, <2>4, <2>5 DEF TokensInOrder
<1>11. ReplacedTokensAreDead'
  <2> SUFFICES ASSUME NEW t \in Created', tokens'[t].parent # 0
               PROVE  tokens'[tokens'[t].parent].state # "live"
    BY DEF ReplacedTokensAreDead
  <2>1. CASE t = f
    BY <1>4, <1>6, <1>9, <2>1
  <2>2. CASE t \in Created
    <3>1. tokens'[t] = tokens[t] /\ tokens[tokens[t].parent].state # "live"
      BY <1>9, <2>2 DEF StoreInv, ReplacedTokensAreDead
    <3>2. tokens[t].parent \in Created
      <4>1. PICK n \in 0..MaxTokens : Created = 1..n
        BY DEF StoreInv, TokensInOrder
      <4>2. tokens[t].parent < t /\ tokens[t].parent \in 0..MaxTokens
        BY <1>9, <2>2 DEF StoreInv, TokensInOrder, TokenRecord
      <4> QED
        BY <2>2, <3>1, <4>1, <4>2, AccountsAssumption
    <3> QED
      BY <1>9, <3>1, <3>2
  <2> QED
    BY <1>5, <2>1, <2>2
<1>12. OldSessionsEnd'
  <2> SUFFICES ASSUME NEW t \in Created', tokens'[t].state = "live",
                      tokens'[t].epoch < logouts'[tokens'[t].email]
               PROVE  tokens'[t].raced
    BY DEF OldSessionsEnd, Live
  <2>1. CASE t = f
    <3>1. ep < logouts[e]
      BY <1>4, <1>6, <1>7, <2>1
    <3>2. raced
      BY <3>1
    <3> QED
      BY <1>4, <1>6, <2>1, <3>2
  <2>2. CASE t \in Created
    <3>1. tokens'[t] = tokens[t] /\ t \in Live /\ tokens[t].epoch < logouts[tokens[t].email]
      BY <1>7, <1>9, <2>2 DEF Live
    <3>2. tokens[t].raced
      BY <3>1 DEF StoreInv, OldSessionsEnd
    <3> QED
      BY <3>1, <3>2
  <2> QED
    BY <1>5, <2>1, <2>2
<1>13. ExternalLoginsAreComplete'
  <2>1. held \subseteq Created
    BY DEF StoreInv, TokensInOrder
  <2>2. \A t \in held : tokens'[t] = tokens[t]
    BY <1>9, <2>1
  <2>3. \A t \in held : tokens'[t].external =>
          tokens'[t].email \in Registered' \cap linked' \cap profiled'
    BY <1>7, <2>2 DEF StoreInv, ExternalLoginsAreComplete
  <2>4. f \in held' /\ tokens'[f].external =>
          tokens'[f].email \in Registered' \cap linked' \cap profiled'
    BY <1>1, <1>2, <1>4, <1>6, <1>7, <2>1
  <2> QED
    BY <1>1, <2>3, <2>4 DEF ExternalLoginsAreComplete
<1>14. Grows
  <2>1. \A x \in Emails : logouts[x] <= logouts'[x]
    BY <1>7, AccountsAssumption DEF StoreInv, StoreTypes
  <2> QED
    BY <1>5, <1>7, <1>9, <2>1 DEF Grows
<1> QED
  BY <1>1, <1>4, <1>5, <1>6, <1>8, <1>10, <1>11, <1>12, <1>13, <1>14 DEF StoreInv

\* The records of an account are added, or tokens are given to a client; no token
\* changes.
LEMMA RecordsKeepStore ==
  ASSUME StoreInv, accounts' \in [Emails -> AccountRecord \cup {NoAccount}],
         Registered \subseteq Registered',
         linked' \in SUBSET Emails, linked \subseteq linked',
         profiled' \in SUBSET Emails, profiled \subseteq profiled',
         held' \in SUBSET Created, held \subseteq held',
         \A t \in held' \ held : tokens[t].external =>
           tokens[t].email \in Registered' \cap linked' \cap profiled',
         UNCHANGED <<tokens, logouts>>
  PROVE  StoreInv' /\ Grows
<1>1. tokens' = tokens /\ logouts' = logouts /\ Created' = Created /\ Live' = Live
  BY DEF Created, Live
<1>2. StoreTypes'
  BY <1>1 DEF StoreInv, StoreTypes
<1>3. TokensInOrder'
  BY <1>1 DEF StoreInv, TokensInOrder
<1>4. ReplacedTokensAreDead' /\ OldSessionsEnd'
  BY <1>1 DEF StoreInv, ReplacedTokensAreDead, OldSessionsEnd
<1>5. ExternalLoginsAreComplete'
  BY <1>1 DEF StoreInv, ExternalLoginsAreComplete
<1>6. \A e \in Emails : logouts[e] <= logouts'[e]
  BY <1>1, AccountsAssumption DEF StoreInv, StoreTypes
<1>7. Grows
  BY <1>1, <1>6 DEF Grows
<1> QED
  BY <1>2, <1>3, <1>4, <1>5, <1>7 DEF StoreInv

-----------------------------------------------------------------------------
(* Calls *)

\* What a call in progress knows: an external login, of its account and of its token;
\* a rotation, of its old token and of the logouts when it read it.
Deciding ==
  [phase : {"findName", "create", "verify", "findEmail"}, email : Emails,
   name : Names \cup {DefaultName}, password : Passwords, external : BOOLEAN]

IssuingCalls ==
  {k \in [phase : {"issue"}, email : Emails, external : BOOLEAN] : k.email \in Registered}

Linking ==
  {k \in [phase : {"link", "profile"}, email : Emails, token : Tokens] :
     /\ k.token \in Created /\ tokens[k.token].email = k.email
     /\ k.email \in Registered
     /\ k.phase = "profile" => k.email \in linked}

Rotating ==
  {k \in [phase : {"revokeOld", "replace"}, token : Tokens, epoch : 0..MaxLogouts] :
     /\ k.token \in held /\ k.epoch <= logouts[tokens[k.token].email]
     /\ tokens[k.token].epoch < k.epoch => tokens[k.token].raced
     /\ k.phase = "replace" => tokens[k.token].state = "dead"}

LoggingOut == {k \in [phase : {"revoke"}, token : Tokens] : k.token \in held}

Sound == {Idle} \cup Deciding \cup IssuingCalls \cup Linking \cup Rotating \cup LoggingOut

IInv == StoreInv /\ calls \in [Calls -> Sound]

\* What a call knows stays true.
LEMMA KnowledgeStays ==
  ASSUME StoreInv, StoreInv', Grows
  PROVE  Sound \subseteq Sound'
<1>1. IssuingCalls \subseteq IssuingCalls'
  BY DEF IssuingCalls, Grows
<1>2. Linking \subseteq Linking'
  BY DEF Linking, Grows
<1>3. ASSUME NEW k \in Rotating
      PROVE  k \in Rotating'
  <2>1. /\ k \in [phase : {"revokeOld", "replace"}, token : Tokens, epoch : 0..MaxLogouts]
        /\ k.token \in held /\ k.epoch <= logouts[tokens[k.token].email]
        /\ tokens[k.token].epoch < k.epoch => tokens[k.token].raced
        /\ k.phase = "replace" => tokens[k.token].state = "dead"
    BY DEF Rotating
  <2>2. k.token \in Created /\ k.token \in held'
    BY <2>1 DEF Grows, StoreInv, TokensInOrder
  <2>3. tokens[k.token].email \in Emails /\ k.epoch \in Nat
    BY <2>1, <2>2, CreatedTokens, AccountsAssumption DEF StoreInv, Created, TokenRecord
  <2>4. /\ logouts[tokens[k.token].email] \in Nat /\ logouts'[tokens[k.token].email] \in Nat
        /\ logouts[tokens[k.token].email] <= logouts'[tokens[k.token].email]
    BY <2>3, AccountsAssumption DEF StoreInv, StoreTypes, Grows
  <2>5. k.epoch <= logouts'[tokens[k.token].email]
    BY <2>1, <2>3, <2>4
  <2>6. /\ tokens'[k.token].email = tokens[k.token].email
        /\ tokens'[k.token].epoch = tokens[k.token].epoch
        /\ tokens'[k.token].raced = tokens[k.token].raced
        /\ tokens[k.token].state = "dead" => tokens'[k.token].state = "dead"
    BY <2>2 DEF Grows
  <2> QED
    BY <2>1, <2>2, <2>5, <2>6 DEF Rotating
<1>4. LoggingOut \subseteq LoggingOut'
  BY DEF LoggingOut, Grows
<1> QED
  BY <1>1, <1>2, <1>3, <1>4 DEF Sound, Deciding

\* One call goes on, the others know what they knew.
LEMMA CallGoesOn ==
  ASSUME IInv, StoreInv', Grows, NEW c \in Calls, NEW k \in Sound',
         calls' = [calls EXCEPT ![c] = k]
  PROVE  IInv'
<1>1. Sound \subseteq Sound'
  BY KnowledgeStays DEF IInv
<1> QED
  BY <1>1 DEF IInv

\* Which calls are in which phase.
LEMMA Phases ==
  ASSUME NEW k \in Sound
  PROVE  /\ k.phase \in {"findName", "create", "verify", "findEmail"} => k \in Deciding
         /\ k.phase = "issue" => k \in IssuingCalls
         /\ k.phase \in {"link", "profile"} => k \in Linking
         /\ k.phase \in {"revokeOld", "replace"} => k \in Rotating
         /\ k.phase = "revoke" => k \in LoggingOut
<1>1. Idle.phase = "idle"
  BY DEF Idle
<1>2. /\ \A x \in Deciding : x.phase \in {"findName", "create", "verify", "findEmail"}
      /\ \A x \in IssuingCalls : x.phase = "issue"
      /\ \A x \in Linking : x.phase \in {"link", "profile"}
      /\ \A x \in Rotating : x.phase \in {"revokeOld", "replace"}
      /\ \A x \in LoggingOut : x.phase = "revoke"
  BY DEF Deciding, IssuingCalls, Linking, Rotating, LoggingOut
<1> QED
  BY <1>1, <1>2 DEF Sound

\* A step of a call, or its beginning, that leaves the collections alone.
LEMMA StoreStays ==
  ASSUME IInv, NEW c \in Calls, NEW k \in Sound, calls' = [calls EXCEPT ![c] = k],
         UNCHANGED <<accounts, tokens, linked, profiled, held, logouts>>
  PROVE  IInv'
<1>1. UNCHANGED <<Created, Registered, Live>>
  BY DEF Created, Registered, Live
<1>2. StoreInv'
  BY <1>1 DEF IInv, StoreInv, StoreTypes, TokensInOrder, ReplacedTokensAreDead,
              OldSessionsEnd, ExternalLoginsAreComplete
<1>3. \A e \in Emails : logouts[e] <= logouts'[e]
  BY AccountsAssumption DEF IInv, StoreInv, StoreTypes
<1>4. Grows
  BY <1>1, <1>3 DEF Grows
<1>5. k \in Sound'
  BY <1>2, <1>4, KnowledgeStays DEF IInv
<1> QED
  BY <1>2, <1>4, <1>5, CallGoesOn

\* The beginnings of calls: what each of them has read is what it knows.
LEMMA BeginningsKeepInv ==
  ASSUME IInv, NEW c \in Calls,
         \/ \E e \in Emails, p \in Passwords :
              \/ \E n \in Names \cup {DefaultName} : RequestRegister(c, e, n, p)
              \/ RequestLogin(c, e, p)
         \/ \E e \in Emails : RequestExternalLogin(c, e)
         \/ \E t \in Tokens : RequestRefresh(c, t) \/ RequestLogout(c, t)
  PROVE  IInv'
<1>1. UNCHANGED <<accounts, tokens, linked, profiled, held, logouts>>
  BY DEF RequestRegister, RequestLogin, RequestExternalLogin, RequestRefresh, RequestLogout,
         micro
<1>2. CASE \E e \in Emails, p \in Passwords, n \in Names \cup {DefaultName} :
             RequestRegister(c, e, n, p)
  <2>1. PICK e \in Emails, p \in Passwords, n \in Names \cup {DefaultName} :
          RequestRegister(c, e, n, p)
    BY <1>2
  <2> DEFINE k == [phase |-> "findName", email |-> e, name |-> n, password |-> p,
                   external |-> FALSE]
  <2>2. k \in Sound
    BY DEF Sound, Deciding
  <2>3. calls' = [calls EXCEPT ![c] = k]
    BY <2>1 DEF RequestRegister, Begin
  <2> QED
    BY <1>1, <2>2, <2>3, StoreStays
<1>3. CASE \E e \in Emails, p \in Passwords : RequestLogin(c, e, p)
  <2>1. PICK e \in Emails, p \in Passwords : RequestLogin(c, e, p)
    BY <1>3
  <2>2. Issuing(e, FALSE) \in Sound
    BY <2>1 DEF Issuing, RequestLogin, PasswordMatches, Sound, IssuingCalls
  <2>3. calls' = [calls EXCEPT ![c] = Issuing(e, FALSE)]
    BY <2>1 DEF RequestLogin, Begin
  <2> QED
    BY <1>1, <2>2, <2>3, StoreStays
<1>4. CASE \E e \in Emails : RequestExternalLogin(c, e)
  <2>1. PICK e \in Emails : RequestExternalLogin(c, e)
    BY <1>4
  <2> DEFINE k == [phase |-> IF e \in Registered THEN "verify" ELSE "findEmail", email |-> e,
                   name |-> DefaultName, password |-> "external", external |-> TRUE]
  <2>2. k \in Sound
    BY DEF Sound, Deciding, Passwords
  <2>3. calls' = [calls EXCEPT ![c] = k]
    BY <2>1 DEF RequestExternalLogin, Begin
  <2> HIDE DEF k
  <2> QED
    BY <1>1, <2>2, <2>3, StoreStays
<1>5. CASE \E t \in Tokens : RequestRefresh(c, t)
  <2>1. PICK t \in Tokens : RequestRefresh(c, t)
    BY <1>5
  <2> DEFINE k == [phase |-> "revokeOld", token |-> t, epoch |-> logouts[tokens[t].email]]
  <2>2. /\ t \in held /\ tokens[t].state = "live" /\ calls' = [calls EXCEPT ![c] = k]
    BY <2>1 DEF RequestRefresh, Usable, Begin
  <2>3. t \in Created /\ tokens[t] \in TokenRecord
    BY <2>2, CreatedTokens DEF IInv, StoreInv, TokensInOrder
  <2>4. tokens[t].email \in Emails
    BY <2>3 DEF TokenRecord
  <2>5. logouts[tokens[t].email] \in 0..MaxLogouts
    BY <2>4 DEF IInv, StoreInv, StoreTypes
  <2>6. t \in Live
    BY <2>2, <2>3 DEF Live
  <2>7. tokens[t].epoch < logouts[tokens[t].email] => tokens[t].raced
    BY <2>6 DEF IInv, StoreInv, OldSessionsEnd
  <2>8. logouts[tokens[t].email] <= logouts[tokens[t].email]
    BY <2>5, AccountsAssumption
  <2>9. k \in Rotating
    BY <2>2, <2>5, <2>7, <2>8 DEF Rotating
  <2>10. k \in Sound
    BY <2>9 DEF Sound
  <2> HIDE DEF k
  <2> QED
    BY <1>1, <2>2, <2>10, StoreStays
<1>6. CASE \E t \in Tokens : RequestLogout(c, t)
  <2>1. PICK t \in Tokens : RequestLogout(c, t)
    BY <1>6
  <2> DEFINE k == [phase |-> "revoke", token |-> t]
  <2>2. k \in Sound
    BY <2>1 DEF RequestLogout, Sound, LoggingOut
  <2>3. calls' = [calls EXCEPT ![c] = k]
    BY <2>1 DEF RequestLogout, Begin
  <2> QED
    BY <1>1, <2>2, <2>3, StoreStays
<1> QED
  BY <1>2, <1>3, <1>4, <1>5, <1>6

\* A check of a call, or its failure.
LEMMA ChecksKeepInv ==
  ASSUME IInv, NEW c \in Calls,
         FindName(c) \/ VerifyPassword(c) \/ FindEmail(c) \/ StepFails(c)
  PROVE  IInv'
<1>1. UNCHANGED <<accounts, tokens, linked, profiled, held, logouts>>
  BY DEF FindName, VerifyPassword, FindEmail, StepFails, micro
<1>2. Idle \in Sound /\ calls[c] \in Sound
  BY DEF Sound, IInv
<1>3. CASE Ends(c)
  BY <1>1, <1>2, <1>3, StoreStays DEF Ends, Goes
<1>4. CASE ~Ends(c) /\ (FindName(c) \/ FindEmail(c))
  <2>1. calls[c].phase \in {"findName", "findEmail"}
    BY <1>4 DEF FindName, FindEmail
  <2>2. calls[c] \in Deciding
    BY <1>2, <2>1, Phases
  <2>3. [calls[c] EXCEPT !.phase = "create"] \in Deciding
    BY <2>2 DEF Deciding
  <2>4. [calls[c] EXCEPT !.phase = "create"] \in Sound
    BY <2>3 DEF Sound
  <2>5. calls' = [calls EXCEPT ![c] = [calls[c] EXCEPT !.phase = "create"]]
    BY <1>4 DEF FindName, FindEmail, Goes
  <2> QED
    BY <1>1, <2>4, <2>5, StoreStays
<1>5. CASE ~Ends(c) /\ VerifyPassword(c)
  <2>1. /\ calls[c].phase = "verify" /\ PasswordMatches(calls[c].email, calls[c].password)
        /\ calls' = [calls EXCEPT ![c] = Issuing(calls[c].email, TRUE)]
    BY <1>5 DEF VerifyPassword, Goes
  <2>2. calls[c] \in Deciding
    BY <1>2, <2>1, Phases
  <2>3. calls[c].email \in Emails /\ calls[c].email \in Registered
    BY <2>1, <2>2 DEF Deciding, PasswordMatches
  <2>4. Issuing(calls[c].email, TRUE) \in Sound
    BY <2>3 DEF Issuing, Sound, IssuingCalls
  <2> QED
    BY <1>1, <2>1, <2>4, StoreStays
<1> QED
  BY <1>3, <1>4, <1>5 DEF StepFails

\* An account is created where there is none.
LEMMA CreateAccountKeepsInv ==
  ASSUME IInv, NEW c \in Calls, CreateAccount(c)
  PROVE  IInv'
<1>1. /\ calls[c].phase = "create"
      /\ UNCHANGED <<tokens, linked, profiled, held, logouts>>
  BY DEF CreateAccount, micro
<1>2. calls[c] \in Deciding
  BY <1>1, Phases DEF IInv
<1>3. PICK e \in Emails, n \in Names \cup {DefaultName}, p \in Passwords, x \in BOOLEAN :
        e = calls[c].email /\ n = calls[c].name /\ p = calls[c].password /\ x = calls[c].external
  BY <1>2 DEF Deciding
<1>4. CASE DuplicateKey(e, n)
  <2>1. accounts' = accounts /\ calls' = [calls EXCEPT ![c] = Idle]
    BY <1>3, <1>4 DEF CreateAccount, Ends, Goes
  <2>2. Idle \in Sound
    BY DEF Sound
  <2> QED
    BY <1>1, <2>1, <2>2, StoreStays
<1>5. CASE ~DuplicateKey(e, n)
  <2>1. /\ accounts' = [accounts EXCEPT ![e] = [name |-> n, password |-> p]]
        /\ calls' = [calls EXCEPT ![c] = Issuing(e, x)]
    BY <1>3, <1>5 DEF CreateAccount, Goes
  <2>2. [name |-> n, password |-> p] \in AccountRecord
    BY DEF AccountRecord
  <2>3. [name |-> n, password |-> p] # NoAccount
    BY DEF NoAccount, Passwords
  <2>4. accounts' \in [Emails -> AccountRecord \cup {NoAccount}]
    BY <2>1, <2>2 DEF IInv, StoreInv, StoreTypes
  <2>5. Registered' = Registered \cup {e}
    BY <2>1, <2>3 DEF Registered, IInv, StoreInv, StoreTypes
  <2>6. linked \in SUBSET Emails /\ profiled \in SUBSET Emails /\ held \in SUBSET Created
    BY DEF IInv, StoreInv, StoreTypes, TokensInOrder
  <2>7. StoreInv' /\ Grows
    BY <1>1, <2>4, <2>5, <2>6, RecordsKeepStore DEF IInv
  <2>8. Issuing(e, x) \in Sound'
    BY <2>5 DEF Issuing, Sound, IssuingCalls
  <2> QED
    BY <2>1, <2>7, <2>8, CallGoesOn
<1> QED
  BY <1>4, <1>5

\* A session begins: a local login gives its token away, an external one goes on.
LEMMA IssueTokensKeepsInv ==
  ASSUME IInv, NEW c \in Calls, IssueTokens(c)
  PROVE  IInv'
<1>1. /\ calls[c].phase = "issue"
      /\ UNCHANGED <<accounts, linked, profiled, logouts>>
  BY DEF IssueTokens, micro
<1>2. calls[c] \in IssuingCalls
  BY <1>1, Phases DEF IInv
<1>3. PICK e \in Emails, x \in BOOLEAN :
        e = calls[c].email /\ x = calls[c].external /\ e \in Registered
  BY <1>2 DEF IssuingCalls
<1>4. NewToken(e, 0, x, logouts[e], FALSE)
  BY <1>3 DEF IssueTokens
<1>5. /\ logouts[e] \in 0..MaxLogouts /\ logouts[e] <= logouts[e]
      /\ ~(logouts[e] < logouts[e]) /\ 0 \in 0..MaxTokens
  BY AccountsAssumption DEF IInv, StoreInv, StoreTypes
<1>6. \/ held' = held
      \/ held' = held \cup {Fresh} /\ ~x
  BY <1>3 DEF IssueTokens, Fresh
<1>7. /\ StoreInv' /\ Grows
      /\ Fresh \in Tokens /\ Fresh \in Created' /\ tokens'[Fresh].email = e
  BY <1>1, <1>4, <1>5, <1>6, NewTokenKeepsStore DEF IInv
<1>8. CASE ~x
  <2>1. calls' = [calls EXCEPT ![c] = Idle]
    BY <1>3, <1>8 DEF IssueTokens, Ends, Goes
  <2>2. Idle \in Sound'
    BY DEF Sound
  <2> QED
    BY <1>7, <2>1, <2>2, CallGoesOn
<1>9. CASE x
  <2>1. PICK f : f = Fresh
    OBVIOUS
  <2> DEFINE k == [phase |-> "link", email |-> e, token |-> f]
  <2>2. calls' = [calls EXCEPT ![c] = k]
    BY <1>3, <1>9, <2>1 DEF IssueTokens, Goes, Fresh
  <2>3. k \in Linking'
    BY <1>3, <1>7, <2>1 DEF Linking, Grows
  <2>4. k \in Sound'
    BY <2>3 DEF Sound
  <2> HIDE DEF k
  <2> QED
    BY <1>7, <2>2, <2>4, CallGoesOn
<1> QED
  BY <1>8, <1>9

\* The token set of the microservice is stored.
LEMMA SaveTokenSetKeepsInv ==
  ASSUME IInv, NEW c \in Calls, SaveTokenSet(c)
  PROVE  IInv'
<1>1. /\ calls[c].phase = "link"
      /\ UNCHANGED <<accounts, tokens, profiled, held, logouts>>
  BY DEF SaveTokenSet
<1>2. calls[c] \in Linking
  BY <1>1, Phases DEF IInv
<1>3. PICK k : k = [calls[c] EXCEPT !.phase = "profile"]
  OBVIOUS
<1>4. linked' = linked \cup {calls[c].email} /\ calls' = [calls EXCEPT ![c] = k]
  BY <1>3 DEF SaveTokenSet, Goes
<1>5. /\ linked \in SUBSET Emails /\ profiled \in SUBSET Emails /\ held \in SUBSET Created
      /\ accounts \in [Emails -> AccountRecord \cup {NoAccount}]
      /\ calls[c].email \in Emails
  BY <1>2 DEF IInv, StoreInv, StoreTypes, TokensInOrder, Linking
<1>6. Registered' = Registered /\ Created' = Created
  BY <1>1 DEF Registered, Created
<1>7. StoreInv' /\ Grows
  BY <1>1, <1>4, <1>5, <1>6, RecordsKeepStore DEF IInv
<1>8. /\ k \in [phase : {"link", "profile"}, email : Emails, token : Tokens]
      /\ k.email = calls[c].email /\ k.token = calls[c].token
  BY <1>2, <1>3 DEF Linking
<1>9. k \in Linking'
  BY <1>1, <1>2, <1>4, <1>6, <1>8 DEF Linking
<1>10. k \in Sound'
  BY <1>9 DEF Sound
<1> QED
  BY <1>4, <1>7, <1>10, CallGoesOn

\* The profile is stored, and the client gets the token.
LEMMA SaveProfileKeepsInv ==
  ASSUME IInv, NEW c \in Calls, SaveProfile(c)
  PROVE  IInv'
<1>1. /\ calls[c].phase = "profile"
      /\ UNCHANGED <<accounts, tokens, linked, logouts>>
      /\ profiled' = profiled \cup {calls[c].email}
      /\ held' = held \cup {calls[c].token}
      /\ calls' = [calls EXCEPT ![c] = Idle]
  BY DEF SaveProfile, StoresProfile, Ends, Goes
<1>2. calls[c] \in Linking
  BY <1>1, Phases DEF IInv
<1>3. /\ linked \in SUBSET Emails /\ profiled \in SUBSET Emails /\ held \in SUBSET Created
      /\ accounts \in [Emails -> AccountRecord \cup {NoAccount}]
      /\ calls[c].email \in Emails /\ calls[c].token \in Created
      /\ tokens[calls[c].token].email = calls[c].email
      /\ calls[c].email \in Registered \cap linked
  BY <1>1, <1>2 DEF IInv, StoreInv, StoreTypes, TokensInOrder, Linking
<1>4. Registered' = Registered /\ Created' = Created
  BY <1>1 DEF Registered, Created
<1>5. \A t \in held' \ held : tokens[t].email \in Registered' \cap linked' \cap profiled'
  BY <1>1, <1>3, <1>4
<1>6. held' \in SUBSET Created /\ profiled' \in SUBSET Emails
  BY <1>1, <1>3
<1>7. StoreInv' /\ Grows
  BY <1>1, <1>3, <1>4, <1>5, <1>6, RecordsKeepStore DEF IInv
<1>8. Idle \in Sound'
  BY DEF Sound
<1> QED
  BY <1>1, <1>7, <1>8, CallGoesOn

\* The first half of a rotation, and the end of a session.
LEMMA RevokeKeepsInv ==
  ASSUME IInv, NEW c \in Calls, RevokeOld(c) \/ RevokeSession(c)
  PROVE  IInv'
<1>1. /\ UNCHANGED <<accounts, linked, profiled, held, logouts>>
      /\ tokens' = Revoked({calls[c].token})
  BY DEF RevokeOld, RevokeSession, micro
<1>2. calls[c].token \in held
  BY Phases DEF RevokeOld, RevokeSession, IInv, Rotating, LoggingOut
<1>3. {calls[c].token} \in SUBSET Created
  BY <1>2 DEF IInv, StoreInv, TokensInOrder
<1>4. /\ logouts \in [Emails -> 0..MaxLogouts]
      /\ \A e \in Emails : logouts[e] <= logouts[e]
  BY AccountsAssumption DEF IInv, StoreInv, StoreTypes
<1>5. StoreInv' /\ Grows /\ tokens'[calls[c].token].state = "dead"
  BY <1>1, <1>3, <1>4, RevocationKeepsStore DEF IInv
<1>6. CASE RevokeSession(c)
  <2>1. calls' = [calls EXCEPT ![c] = Idle]
    BY <1>6 DEF RevokeSession, Ends, Goes
  <2>2. Idle \in Sound'
    BY DEF Sound
  <2> QED
    BY <1>5, <2>1, <2>2, CallGoesOn
<1>7. CASE RevokeOld(c)
  <2>1. PICK k : k = [calls[c] EXCEPT !.phase = "replace"]
    OBVIOUS
  <2>2. calls' = [calls EXCEPT ![c] = k] /\ calls[c].phase = "revokeOld"
    BY <1>7, <2>1 DEF RevokeOld, Goes
  <2>3. calls[c] \in Rotating
    BY <2>2, Phases DEF IInv
  <2>4. calls[c] \in Rotating'
    <3>1. calls[c] \in Sound'
      BY <1>5, KnowledgeStays DEF IInv
    <3>2. PICK old : old = calls[c]
      OBVIOUS
    <3>3. old \in Sound' /\ old.phase = "revokeOld"
      BY <2>2, <3>1, <3>2
    <3>4. old \in Rotating'
      BY <2>3, <3>2, <3>3 DEF Sound, Idle, Deciding, IssuingCalls, Linking, LoggingOut
    <3> QED
      BY <3>2, <3>4
  <2>5. /\ k \in [phase : {"revokeOld", "replace"}, token : Tokens, epoch : 0..MaxLogouts]
        /\ k.token = calls[c].token /\ k.epoch = calls[c].epoch
    BY <2>1, <2>3 DEF Rotating
  <2>6. k \in Rotating'
    BY <1>5, <2>4, <2>5 DEF Rotating
  <2>7. k \in Sound'
    BY <2>6 DEF Sound
  <2> QED
    BY <1>5, <2>2, <2>7, CallGoesOn
<1> QED
  BY <1>6, <1>7

\* The second half of a rotation: the token it replaces is dead by now.
LEMMA ReplaceTokenKeepsInv ==
  ASSUME IInv, NEW c \in Calls, ReplaceToken(c)
  PROVE  IInv'
<1>1. /\ calls[c].phase = "replace"
      /\ UNCHANGED <<accounts, linked, profiled, logouts>>
      /\ held' = held \cup {Fresh} /\ calls' = [calls EXCEPT ![c] = Idle]
  BY DEF ReplaceToken, AnswerRefresh, Ends, Goes, micro, Fresh
<1>2. calls[c] \in Rotating
  BY <1>1, Phases DEF IInv
<1>3. PICK o \in held, n \in 0..MaxLogouts :
        /\ o = calls[c].token /\ n = calls[c].epoch
        /\ n <= logouts[tokens[o].email] /\ tokens[o].state = "dead"
        /\ tokens[o].epoch < n => tokens[o].raced
  BY <1>1, <1>2 DEF Rotating
<1>4. /\ o \in Created /\ tokens[o] \in TokenRecord
      /\ tokens[o].epoch <= logouts[tokens[o].email]
      /\ o \in 0..MaxTokens
  BY CreatedTokens, AccountsAssumption DEF IInv, StoreInv, TokensInOrder, Created, Tokens
<1>5. /\ tokens[o].email \in Emails /\ tokens[o].external \in BOOLEAN
      /\ tokens[o].epoch \in 0..MaxLogouts /\ tokens[o].raced \in BOOLEAN
  BY <1>4 DEF TokenRecord
<1>6. PICK raced \in BOOLEAN : raced = (tokens[o].raced \/ n < logouts[tokens[o].email])
  OBVIOUS
<1>7. NewToken(tokens[o].email, o, tokens[o].external, tokens[o].epoch, raced)
  BY <1>3, <1>6 DEF ReplaceToken
<1>8. logouts[tokens[o].email] \in 0..MaxLogouts
  BY <1>5 DEF IInv, StoreInv, StoreTypes
<1>9. tokens[o].epoch < logouts[tokens[o].email] => raced
  <2>1. CASE n < logouts[tokens[o].email]
    BY <1>6, <2>1
  <2>2. CASE ~(n < logouts[tokens[o].email])
    <3>1. n = logouts[tokens[o].email]
      BY <1>3, <1>8, <2>2, AccountsAssumption
    <3> QED
      BY <1>3, <1>6, <3>1
  <2> QED
    BY <2>1, <2>2
<1>10. tokens[o].external => tokens[o].email \in Registered \cap linked \cap profiled
  BY DEF IInv, StoreInv, ExternalLoginsAreComplete
<1>11. StoreInv' /\ Grows
  BY <1>1, <1>3, <1>4, <1>5, <1>7, <1>9, <1>10, NewTokenKeepsStore DEF IInv
<1>12. Idle \in Sound'
  BY DEF Sound
<1> QED
  BY <1>1, <1>11, <1>12, CallGoesOn

\* A logout of all devices, and the end of a token's lifetime, are no steps of a call.
LEMMA OthersKeepInv ==
  ASSUME IInv, \/ \E e \in Emails : LogoutAllDevices(e)
               \/ \E t \in Tokens : Expire(t)
               \/ UNCHANGED vars
  PROVE  IInv'
<1>1. /\ UNCHANGED <<accounts, linked, profiled, held>>
      /\ calls' = calls
  BY DEF LogoutAllDevices, Expire, vars, micro
<1>2. logouts \in [Emails -> 0..MaxLogouts] /\ \A e \in Emails : logouts[e] <= logouts[e]
  BY AccountsAssumption DEF IInv, StoreInv, StoreTypes
<1>3. CASE \E e \in Emails : LogoutAllDevices(e)
  <2>1. PICK e \in Emails : LogoutAllDevices(e)
    BY <1>3
  <2> DEFINE ts == {t \in Created : tokens[t].email = e}
  <2>2. /\ logouts[e] < MaxLogouts /\ tokens' = Revoked(ts)
        /\ logouts' = [logouts EXCEPT ![e] = logouts[e] + 1]
    BY <2>1 DEF LogoutAllDevices
  <2>3. /\ logouts' \in [Emails -> 0..MaxLogouts]
        /\ \A x \in Emails : logouts[x] <= logouts'[x]
    BY <1>2, <2>2, AccountsAssumption
  <2>4. \A t \in Created \ ts : tokens[t].email \in Emails
    BY CreatedTokens DEF IInv, StoreInv, Created, TokenRecord
  <2>5. \A t \in Created \ ts : logouts'[tokens[t].email] = logouts[tokens[t].email]
    BY <1>2, <2>2, <2>4
  <2>6. ts \in SUBSET Created
    OBVIOUS
  <2> HIDE DEF ts
  <2>7. StoreInv' /\ Grows
    BY <1>1, <2>2, <2>3, <2>5, <2>6, RevocationKeepsStore DEF IInv
  <2> QED
    BY <1>1, <2>7, KnowledgeStays DEF IInv
<1>4. CASE \E t \in Tokens : Expire(t)
  <2>1. PICK t \in Tokens : Expire(t)
    BY <1>4
  <2>2. {t} \in SUBSET Created /\ tokens' = Revoked({t}) /\ logouts' = logouts
    BY <2>1 DEF Expire, Live
  <2>3. StoreInv' /\ Grows
    BY <1>1, <1>2, <2>2, RevocationKeepsStore DEF IInv
  <2> QED
    BY <1>1, <2>3, KnowledgeStays DEF IInv
<1>5. CASE UNCHANGED vars
  <2>1. UNCHANGED <<accounts, linked, profiled, held, logouts, tokens>>
    BY <1>5 DEF vars, micro
  <2>2. Registered' = Registered /\ Created' = Created
    BY <2>1 DEF Registered, Created
  <2>3. /\ linked \in SUBSET Emails /\ profiled \in SUBSET Emails /\ held \in SUBSET Created
        /\ accounts \in [Emails -> AccountRecord \cup {NoAccount}]
    BY DEF IInv, StoreInv, StoreTypes, TokensInOrder
  <2>4. StoreInv' /\ Grows
    BY <2>1, <2>2, <2>3, RecordsKeepStore DEF IInv
  <2> QED
    BY <1>1, <2>4, KnowledgeStays DEF IInv
<1> QED
  BY <1>3, <1>4, <1>5

\* It holds in the initial state.
LEMMA InitInv == Init => IInv
<1> SUFFICES ASSUME Init PROVE IInv
  OBVIOUS
<1>1. /\ accounts = [e \in Emails |-> NoAccount] /\ tokens = [t \in Tokens |-> Unused]
      /\ linked = {} /\ profiled = {} /\ held = {}
      /\ calls = [c \in Calls |-> Idle] /\ logouts = [e \in Emails |-> 0]
  BY DEF Init
<1>2. Created = {} /\ Live = {}
  BY <1>1 DEF Created, Live
<1>3. StoreTypes
  BY <1>1, AccountsAssumption DEF StoreTypes
<1>4. 0 \in 0..MaxTokens /\ 1..0 = {}
  BY AccountsAssumption
<1>5. TokensInOrder
  BY <1>1, <1>2, <1>4 DEF TokensInOrder
<1>6. ReplacedTokensAreDead /\ OldSessionsEnd /\ ExternalLoginsAreComplete
  BY <1>1, <1>2 DEF ReplacedTokensAreDead, OldSessionsEnd, ExternalLoginsAreComplete
<1>7. calls \in [Calls -> Sound]
  BY <1>1 DEF Sound
<1> QED
  BY <1>3, <1>5, <1>6, <1>7 DEF IInv, StoreInv

\* Every step keeps it.
LEMMA NextKeepsInv == IInv /\ [Next]_vars => IInv'
<1> SUFFICES ASSUME IInv, [Next]_vars PROVE IInv'
  OBVIOUS
<1>1. ASSUME NEW c \in Calls,
             \/ \E e \in Emails, p \in Passwords :
                  \/ \E n \in Names \cup {DefaultName} : RequestRegister(c, e, n, p)
                  \/ RequestLogin(c, e, p)
             \/ \E e \in Emails : RequestExternalLogin(c, e)
             \/ \E t \in Tokens : RequestRefresh(c, t) \/ RequestLogout(c, t)
      PROVE  IInv'
  BY <1>1, BeginningsKeepInv
<1>2. ASSUME NEW c \in Calls, CallStep(c) \/ StepFails(c)
      PROVE  IInv'
  <2>1. CASE FindName(c) \/ VerifyPassword(c) \/ FindEmail(c) \/ StepFails(c)
    BY <2>1, ChecksKeepInv
  <2>2. CASE CreateAccount(c)
    BY <2>2, CreateAccountKeepsInv
  <2>3. CASE IssueTokens(c)
    BY <2>3, IssueTokensKeepsInv
  <2>4. CASE SaveTokenSet(c)
    BY <2>4, SaveTokenSetKeepsInv
  <2>5. CASE SaveProfile(c)
    BY <2>5, SaveProfileKeepsInv
  <2>6. CASE RevokeOld(c) \/ RevokeSession(c)
    BY <2>6, RevokeKeepsInv
  <2>7. CASE ReplaceToken(c)
    BY <2>7, ReplaceTokenKeepsInv
  <2> QED
    BY <1>2, <2>1, <2>2, <2>3, <2>4, <2>5, <2>6, <2>7 DEF CallStep
<1>3. CASE \/ \E e \in Emails : LogoutAllDevices(e)
           \/ \E t \in Tokens : Expire(t)
           \/ UNCHANGED vars
  BY <1>3, OthersKeepInv
<1> QED
  BY <1>1, <1>2, <1>3 DEF Next

-----------------------------------------------------------------------------
(* The theorems *)

\* The inductive invariant holds in every reachable state.
LEMMA Invariant == Spec => []IInv
<1> QED
  BY InitInv, NextKeepsInv, PTL DEF Spec

\* The collections keep their types: every token is a record of its own, or not created
\* (the models of users and refresh tokens).
THEOREM TypeCorrect == Spec => []TypeOK
<1>1. IInv => TypeOK
  BY DEF IInv, StoreInv, StoreTypes, TokensInOrder, AccountRecord, TypeOK
<1> QED
  BY <1>1, Invariant, PTL

\* However rotations, logouts and failures interleave, a token that was replaced is dead:
\* rotateRefreshToken revokes before it creates, and nothing revives a token.
THEOREM RotationIsSingle == Spec => []ReplacedTokensAreDead
<1>1. IInv => ReplacedTokensAreDead
  BY DEF IInv, StoreInv
<1> QED
  BY <1>1, Invariant, PTL

\* After a logout of all devices the sessions before it are over, but those whose rotation
\* raced with it (revokeAllForUser, rotateRefreshToken).
THEOREM LogoutEndsSessions == Spec => []OldSessionsEnd
<1>1. IInv => OldSessionsEnd
  BY DEF IInv, StoreInv
<1> QED
  BY <1>1, Invariant, PTL

\* Who holds a token of an external login, or of its rotations, has an account with the
\* records of the microservice (loginWithMicroservice).
THEOREM ExternalLoginsCorrect == Spec => []ExternalLoginsAreComplete
<1>1. IInv => ExternalLoginsAreComplete
  BY DEF IInv, StoreInv
<1> QED
  BY <1>1, Invariant, PTL

=============================================================================
