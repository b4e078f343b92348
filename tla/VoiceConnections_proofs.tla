----------------------- MODULE VoiceConnections_proofs -----------------------
(***************************************************************************)
(* Proofs about VoiceConnections: the indexes of the connection registry,  *)
(* that no record is kept without a transport or a retention timer, and    *)
(* that the eligibility follows the local controls.  The registry, the     *)
(* timers and the controls are taken first, operation by operation; what   *)
(* transports hold builds on that.  The last part is about VoiceRouting,   *)
(* what is sent over the transport of such a connection.                   *)
(***************************************************************************)
EXTENDS VoiceConnections, Sequences, TLAPS

-----------------------------------------------------------------------------
(* The registry, the retention and the controls *)

RegistryTypes ==
  /\ record \in [Connections -> ConnectionRecords]
  /\ byClient \in [Clients -> Connections \cup {NoConnection}]
  /\ byUser \in [Users -> Connections \cup {NoConnection}]
  /\ eligibility \in [Connections -> {"none", "initial", "eligible", "ineligible"}]

ControlTypes ==
  /\ retention \subseteq Connections
  /\ speakerOff \subseteq Connections /\ publishing \subseteq Connections

\* An eligibility that was computed is that of the controls.
StoredEligibility ==
  \A c \in Connections : eligibility[c] \in {"eligible", "ineligible"} =>
    (eligibility[c] = "eligible" <=> c \in publishing \/ c \notin speakerOff)

RegistryInv == RegistryTypes /\ ControlTypes /\ IndexesAgree /\ StoredEligibility

\* The registered connection of a user is the only one.
LEMMA OneConnectionPerUser ==
  ASSUME RegistryInv, NEW c \in Connections, NEW d \in Connections,
         Registered(c), Registered(d), UserOf[c] = UserOf[d]
  PROVE  c = d
<1>1. UserOf[c] \in Users /\ UserOf[d] \in Users
  BY ConnectionsAssumption
<1>2. byUser[UserOf[c]] = c /\ byUser[UserOf[d]] = d
  BY <1>1 DEF RegistryInv, IndexesAgree
<1> QED
  BY <1>2

\* And so is that of a client.
LEMMA OneConnectionPerClient ==
  ASSUME RegistryInv, NEW c \in Connections, NEW d \in Connections, NEW i \in Clients,
         Registered(c), Registered(d), record[c].client = i, record[d].client = i
  PROVE  c = d
<1>1. byClient[i] = c /\ byClient[i] = d
  BY DEF RegistryInv, IndexesAgree
<1> QED
  BY <1>1

\* A record and an eligibility after a step of the registry.
LEMMA RegistryRecords ==
  ASSUME NEW gone, NEW c, NEW i, NEW t, Registry(gone, c, i, t), NEW d \in Connections
  PROVE  /\ record'[d] = IF d = c THEN Activated(i, t)
                         ELSE IF d = gone THEN NoRecord ELSE record[d]
         /\ eligibility'[d] = IF d = c THEN "initial"
                              ELSE IF d = gone THEN "none" ELSE eligibility[d]
BY DEF Registry

\* A registered connection is removed.
LEMMA RemovalKeepsIndexes ==
  ASSUME RegistryInv, NEW gone \in Connections, Registered(gone),
         Registry(gone, NoConnection, NoClient, NoTransport)
  PROVE  RegistryTypes' /\ IndexesAgree'
<1>1. \A d \in Connections :
        /\ record'[d] = IF d = gone THEN NoRecord ELSE record[d]
        /\ eligibility'[d] = IF d = gone THEN "none" ELSE eligibility[d]
  BY RegistryRecords, ConnectionsAssumption
<1>2. \A j \in Clients :
        byClient'[j] = IF j = record[gone].client THEN NoConnection ELSE byClient[j]
  BY ConnectionsAssumption DEF Registry
<1>3. \A u \in Users :
        byUser'[u] = IF u = UserOf[gone] THEN NoConnection ELSE byUser[u]
  BY ConnectionsAssumption DEF Registry
<1>4. RegistryTypes'
  <2>1. NoRecord \in ConnectionRecords
    BY DEF NoRecord, ConnectionRecords
  <2>2. record' \in [Connections -> ConnectionRecords]
    BY <1>1, <2>1 DEF Registry, RegistryInv, RegistryTypes
  <2>3. byClient' \in [Clients -> Connections \cup {NoConnection}]
    BY <1>2 DEF Registry, RegistryInv, RegistryTypes
  <2>4. byUser' \in [Users -> Connections \cup {NoConnection}]
    BY <1>3 DEF Registry, RegistryInv, RegistryTypes
  <2>5. eligibility' \in [Connections -> {"none", "initial", "eligible", "ineligible"}]
    BY <1>1 DEF Registry, RegistryInv, RegistryTypes
  <2> QED
    BY <2>2, <2>3, <2>4, <2>5 DEF RegistryTypes
<1>5. ASSUME NEW j \in Clients, NEW d \in Connections
      PROVE  byClient'[j] = d <=> Registered(d)' /\ record'[d].client = j
  <2>1. byClient[j] = d <=> Registered(d) /\ record[d].client = j
    BY DEF RegistryInv, IndexesAgree
  <2>2. CASE d = gone
    <3>1. ~Registered(d)'
      BY <1>1, <2>2 DEF Registered, NoRecord
    <3>2. byClient'[j] # d
      BY <1>2, <2>1, <2>2, ConnectionsAssumption
    <3> QED
      BY <3>1, <3>2
  <2>3. CASE d # gone
    <3>1. record'[d] = record[d]
      BY <1>1, <2>3
    <3>2. Registered(d) /\ record[d].client = j => j # record[gone].client
      BY <2>3, OneConnectionPerClient
    <3> QED
      BY <1>2, <2>1, <3>1, <3>2, ConnectionsAssumption DEF Registered
  <2> QED
    BY <2>2, <2>3
<1>6. ASSUME NEW u \in Users, NEW d \in Connections
      PROVE  byUser'[u] = d <=> Registered(d)' /\ UserOf[d] = u
  <2>1. byUser[u] = d <=> Registered(d) /\ UserOf[d] = u
    BY DEF RegistryInv, IndexesAgree
  <2>2. CASE d = gone
    <3>1. ~Registered(d)'
      BY <1>1, <2>2 DEF Registered, NoRecord
    <3>2. byUser'[u] # d
      BY <1>3, <2>1, <2>2, ConnectionsAssumption
    <3> QED
      BY <3>1, <3>2
  <2>3. CASE d # gone
    <3>1. record'[d] = record[d]
      BY <1>1, <2>3
    <3>2. Registered(d) /\ UserOf[d] = u => u # UserOf[gone]
      BY <2>3, OneConnectionPerUser
    <3> QED
      BY <1>3, <2>1, <3>1, <3>2, ConnectionsAssumption DEF Registered
  <2> QED
    BY <2>2, <2>3
<1>7. \A d \in Connections : Registered(d)' <=> eligibility'[d] # "none"
  BY <1>1 DEF Registered, NoRecord, RegistryInv, IndexesAgree
<1> QED
  BY <1>4, <1>5, <1>6, <1>7 DEF IndexesAgree

\* A new connection is registered whose client has none, and whose user has none or
\* the one that is removed with this step.
LEMMA RegistrationKeepsIndexes ==
  ASSUME RegistryInv, NEW gone \in Connections \cup {NoConnection},
         NEW c \in Connections, NEW i \in Clients, NEW t \in Transports,
         ~Registered(c), byClient[i] = NoConnection, byUser[UserOf[c]] = gone,
         Registry(gone, c, i, t)
  PROVE  RegistryTypes' /\ IndexesAgree'
<1>1. \A d \in Connections :
        /\ record'[d] = IF d = c THEN Activated(i, t)
                        ELSE IF d = gone THEN NoRecord ELSE record[d]
        /\ eligibility'[d] = IF d = c THEN "initial"
                             ELSE IF d = gone THEN "none" ELSE eligibility[d]
  BY RegistryRecords
<1>2. c # NoConnection /\ UserOf[c] \in Users
  BY ConnectionsAssumption
<1>3. \A j \in Clients :
        byClient'[j] = IF j = i THEN c
                       ELSE IF gone # NoConnection /\ j = record[gone].client
                            THEN NoConnection ELSE byClient[j]
  BY <1>2 DEF Registry
<1>4. gone # NoConnection => /\ gone \in Connections /\ Registered(gone)
                             /\ UserOf[gone] = UserOf[c] /\ gone # c
  BY <1>2 DEF RegistryInv, IndexesAgree
<1>5. \A u \in Users : byUser'[u] = IF u = UserOf[c] THEN c ELSE byUser[u]
  BY <1>2, <1>4 DEF Registry
<1>6. Activated(i, t).state = "active" /\ Activated(i, t).client = i
  BY DEF Activated
<1>7. RegistryTypes'
  <2>1. NoRecord \in ConnectionRecords /\ Activated(i, t) \in ConnectionRecords
    BY DEF NoRecord, Activated, ConnectionRecords
  <2>2. record' \in [Connections -> ConnectionRecords]
    BY <1>1, <2>1 DEF Registry, RegistryInv, RegistryTypes
  <2>3. byClient' \in [Clients -> Connections \cup {NoConnection}]
    BY <1>3 DEF Registry, RegistryInv, RegistryTypes
  <2>4. byUser' \in [Users -> Connections \cup {NoConnection}]
    BY <1>5 DEF Registry, RegistryInv, RegistryTypes
  <2>5. eligibility' \in [Connections -> {"none", "initial", "eligible", "ineligible"}]
    BY <1>1 DEF Registry, RegistryInv, RegistryTypes
  <2> QED
    BY <2>2, <2>3, <2>4, <2>5 DEF RegistryTypes
<1>8. ASSUME NEW j \in Clients, NEW d \in Connections
      PROVE  byClient'[j] = d <=> Registered(d)' /\ record'[d].client = j
  <2>1. byClient[j] = d <=> Registered(d) /\ record[d].client = j
    BY DEF RegistryInv, IndexesAgree
  <2>2. CASE d = c
    <3>1. record'[d] = Activated(i, t) /\ Registered(d)'
      BY <1>1, <1>6, <2>2 DEF Registered
    <3>2. byClient[j] # d
      BY <2>1, <2>2
    <3> QED
      BY <1>2, <1>3, <1>6, <2>2, <3>1, <3>2
  <2>3. CASE d = gone
    <3>1. ~Registered(d)'
      BY <1>1, <1>4, <2>3, ConnectionsAssumption DEF Registered, NoRecord
    <3>2. byClient'[j] # d
      BY <1>3, <1>4, <2>1, <2>3, ConnectionsAssumption
    <3> QED
      BY <3>1, <3>2
  <2>4. CASE d # c /\ d # gone
    <3>1. record'[d] = record[d]
      BY <1>1, <2>4
    <3>2. gone # NoConnection /\ Registered(d) /\ record[d].client = j
            => j # record[gone].client
      BY <1>4, <2>4, OneConnectionPerClient
    <3>3. j = i => byClient[j] # d
      BY ConnectionsAssumption
    <3> QED
      BY <1>3, <2>1, <2>4, <3>1, <3>2, <3>3, ConnectionsAssumption DEF Registered
  <2> QED
    BY <2>2, <2>3, <2>4
<1>9. ASSUME NEW u \in Users, NEW d \in Connections
      PROVE  byUser'[u] = d <=> Registered(d)' /\ UserOf[d] = u
  <2>1. byUser[u] = d <=> Registered(d) /\ UserOf[d] = u
    BY DEF RegistryInv, IndexesAgree
  <2>2. CASE d = c
    <3>1. Registered(d)' /\ byUser[u] # d
      BY <1>1, <1>6, <2>1, <2>2 DEF Registered
    <3> QED
      BY <1>5, <2>2, <3>1
  <2>3. CASE d = gone
    <3>1. ~Registered(d)'
      BY <1>1, <1>4, <2>3, ConnectionsAssumption DEF Registered, NoRecord
    <3>2. byUser'[u] # d
      BY <1>4, <1>5, <2>1, <2>3, ConnectionsAssumption
    <3> QED
      BY <3>1, <3>2
  <2>4. CASE d # c /\ d # gone
    <3>1. record'[d] = record[d]
      BY <1>1, <2>4
    <3>2. u = UserOf[c] => byUser[u] # d
      BY <2>4
    <3> QED
      BY <1>5, <2>1, <2>4, <3>1, <3>2 DEF Registered
  <2> QED
    BY <2>2, <2>3, <2>4
<1>10. \A d \in Connections : Registered(d)' <=> eligibility'[d] # "none"
  BY <1>1, <1>6 DEF Registered, NoRecord, RegistryInv, IndexesAgree
<1> QED
  BY <1>7, <1>8, <1>9, <1>10 DEF IndexesAgree

\* What a removed connection leaves: no record, and the others as they are.
LEMMA RemoveKeepsRegistry ==
  ASSUME RegistryInv, NEW c \in Connections, Remove(c), retention' \subseteq Connections
  PROVE  /\ RegistryInv' /\ ~Registered(c)'
         /\ \A d \in Connections \ {c} : record'[d] = record[d]
<1>1. speakerOff' = speakerOff \ {c} /\ publishing' = publishing
  BY DEF Remove
<1>2. CASE Registered(c)
  <2>1. Registry(c, NoConnection, NoClient, NoTransport)
    BY <1>2 DEF Remove
  <2>2. RegistryTypes' /\ IndexesAgree'
    BY <1>2, <2>1, RemovalKeepsIndexes
  <2>3. \A d \in Connections :
          /\ record'[d] = IF d = c THEN NoRecord ELSE record[d]
          /\ eligibility'[d] = IF d = c THEN "none" ELSE eligibility[d]
    BY <2>1, RegistryRecords, ConnectionsAssumption
  <2>4. StoredEligibility'
    BY <1>1, <2>3 DEF RegistryInv, StoredEligibility
  <2>5. ~Registered(c)'
    BY <2>3 DEF Registered, NoRecord
  <2> QED
    BY <1>1, <2>2, <2>3, <2>4, <2>5 DEF RegistryInv, ControlTypes
<1>3. CASE ~Registered(c)
  <2>1. UNCHANGED <<record, byClient, byUser, eligibility>>
    BY <1>3 DEF Remove, registryVars
  <2>2. eligibility[c] = "none"
    BY <1>3 DEF RegistryInv, IndexesAgree
  <2>3. StoredEligibility'
    BY <1>1, <2>1, <2>2 DEF RegistryInv, StoredEligibility
  <2>4. RegistryTypes' /\ IndexesAgree'
    BY <2>1 DEF RegistryInv, RegistryTypes, IndexesAgree, Registered
  <2> QED
    BY <1>1, <1>3, <2>1, <2>3, <2>4 DEF RegistryInv, ControlTypes, Registered
<1> QED
  BY <1>2, <1>3

\* A record changes its state and its transport only.
LEMMA RecordKeepsRegistry ==
  ASSUME RegistryInv, NEW c \in Connections, NEW r \in ConnectionRecords,
         record' = [record EXCEPT ![c] = r],
         Registered(c), r.state # "none", r.client = record[c].client,
         UNCHANGED <<byClient, byUser, eligibility, controlVars>>,
         retention' \subseteq Connections
  PROVE  /\ RegistryInv' /\ record'[c] = r
         /\ \A d \in Connections \ {c} : record'[d] = record[d]
<1>1. /\ record'[c] = r
      /\ \A d \in Connections \ {c} : record'[d] = record[d]
  BY DEF RegistryInv, RegistryTypes
<1>2. /\ byClient' = byClient /\ byUser' = byUser /\ eligibility' = eligibility
      /\ speakerOff' = speakerOff /\ publishing' = publishing
  BY DEF controlVars
<1>3. RegistryTypes'
  BY <1>2 DEF RegistryInv, RegistryTypes
<1>4. \A d \in Connections : /\ Registered(d)' <=> Registered(d)
                             /\ record'[d].client = record[d].client
  BY <1>1 DEF Registered
<1>5. IndexesAgree'
  BY <1>2, <1>4 DEF RegistryInv, IndexesAgree
<1>6. StoredEligibility' /\ ControlTypes'
  BY <1>2 DEF RegistryInv, StoredEligibility, ControlTypes
<1> QED
  BY <1>1, <1>3, <1>5, <1>6 DEF RegistryInv

\* A connection whose transport is gone is retained and no longer active.
LEMMA SuspendKeepsRegistry ==
  ASSUME RegistryInv, NEW c \in Connections, Suspend(c)
  PROVE  /\ RegistryInv' /\ retention \subseteq retention'
         /\ Registered(c)' => c \in retention' /\ record'[c].state = "suspended"
         /\ \A d \in Connections \ {c} : record'[d] = record[d]
<1>1. CASE Registered(c)
  <2>1. /\ record' = [record EXCEPT ![c] = Suspended(record[c])]
        /\ retention' = retention \cup {c}
        /\ UNCHANGED <<byClient, byUser, eligibility, controlVars>>
    BY <1>1 DEF Suspend
  <2>2. record[c] \in ConnectionRecords
    BY DEF RegistryInv, RegistryTypes
  <2>3. /\ Suspended(record[c]) \in ConnectionRecords
        /\ Suspended(record[c]).state = "suspended"
        /\ Suspended(record[c]).client = record[c].client
    BY <2>2 DEF Suspended, ConnectionRecords
  <2>4. retention' \subseteq Connections
    BY <2>1 DEF RegistryInv, ControlTypes
  <2>5. /\ RegistryInv' /\ record'[c] = Suspended(record[c])
        /\ \A d \in Connections \ {c} : record'[d] = record[d]
    BY <1>1, <2>1, <2>3, <2>4, RecordKeepsRegistry
  <2> QED
    BY <2>1, <2>3, <2>5
<1>2. CASE ~Registered(c)
  <2>1. UNCHANGED <<record, byClient, byUser, eligibility, retention, speakerOff, publishing>>
    BY <1>2 DEF Suspend, controlVars
  <2> QED
    BY <1>2, <2>1 DEF RegistryInv, RegistryTypes, ControlTypes, IndexesAgree,
                      StoredEligibility, Registered
<1> QED
  BY <1>1, <1>2

\* What becomes of the connection of a closed transport: it is gone, or it is suspended
\* and retained; of other connections, nothing.
LEMMA ClosedTransportKeepsRegistry ==
  ASSUME RegistryInv, NEW c \in Connections \cup {NoConnection}, NEW reason,
         HandleTransportClosed(c, reason)
  PROVE  /\ RegistryInv'
         /\ c \in Connections => /\ record'[c].state # "active"
                                 /\ Registered(c)' => c \in retention'
         /\ \A d \in Connections \ {c} :
              record'[d] = record[d] /\ (d \in retention => d \in retention')
<1>1. CASE c = NoConnection
  <2>1. /\ UNCHANGED <<record, byClient, byUser, eligibility, retention, speakerOff,
                      publishing>>
        /\ c \notin Connections
    BY <1>1, ConnectionsAssumption DEF HandleTransportClosed, registryVars, controlVars
  <2> QED
    BY <2>1 DEF RegistryInv, RegistryTypes, ControlTypes, IndexesAgree, StoredEligibility,
                Registered
<1>2. CASE c # NoConnection /\ reason = "client_disconnected"
  <2>1. c \in Connections /\ Remove(c) /\ retention' = retention \ {c}
    BY <1>2 DEF HandleTransportClosed, CloseImmediately, CancelRetention
  <2>2. retention' \subseteq Connections
    BY <2>1 DEF RegistryInv, ControlTypes
  <2>3. /\ RegistryInv' /\ ~Registered(c)'
        /\ \A d \in Connections \ {c} : record'[d] = record[d]
    BY <2>1, <2>2, RemoveKeepsRegistry
  <2> QED
    BY <2>1, <2>3 DEF Registered
<1>3. CASE c # NoConnection /\ reason # "client_disconnected"
  <2>1. c \in Connections /\ Suspend(c)
    BY <1>3 DEF HandleTransportClosed
  <2>2. /\ RegistryInv' /\ retention \subseteq retention'
        /\ Registered(c)' => c \in retention' /\ record'[c].state = "suspended"
        /\ \A d \in Connections \ {c} : record'[d] = record[d]
    BY <2>1, SuspendKeepsRegistry
  <2> QED
    BY <2>2 DEF Registered
<1> QED
  BY <1>1, <1>2, <1>3

\* A control is stored with the eligibility it leads to.
LEMMA ControlsKeepRegistry ==
  ASSUME RegistryInv, NEW c \in Connections, NEW P \in SUBSET Connections,
         NEW off \in SUBSET Connections, SetControls(c, P, off),
         \A d \in Connections \ {c} : /\ d \in P <=> d \in publishing
                                      /\ d \in off <=> d \in speakerOff,
         UNCHANGED <<record, byClient, byUser, retention>>
  PROVE  RegistryInv'
<1>1. publishing' = P /\ speakerOff' = off
  BY DEF SetControls
<1>2. ControlTypes'
  BY <1>1 DEF RegistryInv, ControlTypes
<1>3. CASE ~Registered(c)
  <2>1. eligibility' = eligibility /\ eligibility[c] = "none"
    BY <1>3 DEF SetControls, RegistryInv, IndexesAgree
  <2>2. StoredEligibility'
    BY <1>1, <2>1 DEF RegistryInv, StoredEligibility
  <2>3. RegistryTypes' /\ IndexesAgree'
    BY <2>1 DEF RegistryInv, RegistryTypes, IndexesAgree, Registered
  <2> QED
    BY <1>2, <2>2, <2>3 DEF RegistryInv
<1>4. CASE Registered(c)
  <2>1. eligibility' = [eligibility EXCEPT ![c] = Eligible(c, P, off)]
    BY <1>4 DEF SetControls
  <2>2. /\ Eligible(c, P, off) \in {"eligible", "ineligible"}
        /\ Eligible(c, P, off) = "eligible" <=> c \in P \/ c \notin off
    BY DEF Eligible
  <2>3. \A d \in Connections :
          eligibility'[d] = IF d = c THEN Eligible(c, P, off) ELSE eligibility[d]
    BY <2>1 DEF RegistryInv, RegistryTypes
  <2>4. RegistryTypes'
    BY <2>1, <2>2 DEF RegistryInv, RegistryTypes
  <2>5. StoredEligibility'
    BY <1>1, <2>2, <2>3 DEF RegistryInv, StoredEligibility
  <2>6. \A d \in Connections : eligibility'[d] # "none" <=> eligibility[d] # "none"
    BY <1>4, <2>2, <2>3 DEF RegistryInv, IndexesAgree
  <2>7. IndexesAgree'
    BY <2>6 DEF RegistryInv, IndexesAgree, Registered
  <2> QED
    BY <1>2, <2>4, <2>5, <2>7 DEF RegistryInv
<1> QED
  BY <1>3, <1>4

-----------------------------------------------------------------------------
(* Transports *)

TransportRecords ==
  [state : {"unused", "waiting_auth", "active", "closing", "closed"},
   connection : Connections \cup {NoConnection}]

TransportTypes ==
  /\ player \in [Users -> Connections \cup {NoConnection}]
  /\ met \subseteq Connections
  /\ transport \in [Transports -> TransportRecords]
  /\ closer \in [Transports -> {"none", "begun", "done"}]
  /\ sending \in [Transports -> {"none", "success", "failure"}]

\* A transport gets a connection only by the answer that it waits to send.
UnansweredHoldsNothing ==
  \A t \in Transports :
    /\ transport[t].state = "unused" => sending[t] = "none"
    /\ transport[t].state \in {"unused", "waiting_auth"} => closer[t] = "none"
    /\ transport[t].state \in {"unused", "waiting_auth"} /\ sending[t] = "none" =>
         transport[t].connection = NoConnection

IInv == RegistryInv /\ TransportTypes /\ UnansweredHoldsNothing /\ HeldOrRetained

\* What may happen to a connection in a step, so that it stays held or retained.
LEMMA StaysHeldOrRetained ==
  ASSUME HeldOrRetained,
         \A d \in Connections :
           \/ ~Registered(d)'
           \/ /\ record'[d] = record[d] /\ Holders(d) \subseteq Holders(d)'
              /\ d \in retention => d \in retention' \/ Holders(d)' # {}
           \/ record'[d].transport \in Holders(d)'
           \/ record'[d].state # "active" /\ d \in retention'
  PROVE  HeldOrRetained'
<1> SUFFICES ASSUME NEW d \in Connections
             PROVE  /\ Registered(d)' => Holders(d)' # {} \/ d \in retention'
                    /\ record'[d].state = "active" => record'[d].transport \in Holders(d)'
  BY DEF HeldOrRetained
<1>1. CASE ~Registered(d)'
  BY <1>1 DEF Registered
<1>2. CASE /\ record'[d] = record[d] /\ Holders(d) \subseteq Holders(d)'
           /\ d \in retention => d \in retention' \/ Holders(d)' # {}
  BY <1>2 DEF HeldOrRetained, Registered
<1>3. CASE record'[d].transport \in Holders(d)'
  BY <1>3
<1>4. CASE record'[d].state # "active" /\ d \in retention'
  BY <1>4
<1> QED
  BY <1>1, <1>2, <1>3, <1>4

\* What a transport's request does to the connections, whatever it asks for: each is
\* gone, or as it was, or the one that the transport now holds.
Answered(t) ==
  /\ RegistryInv'
  /\ \A d \in Connections :
       \/ ~Registered(d)'
       \/ record'[d] = record[d] /\ (d \in retention => d \in retention')
       \/ record'[d].transport = t /\ transport'[t].connection = d
  /\ \/ transport' = transport
     \/ \E c \in Connections : transport' = [transport EXCEPT ![t].connection = c]
  /\ \/ sending' = [sending EXCEPT ![t] = "success"]
     \/ sending' = [sending EXCEPT ![t] = "failure"]

\* A refusal changes nothing but the answer that waits to be sent.
LEMMA RejectAnswers ==
  ASSUME RegistryInv, NEW t \in Transports, Reject(t)
  PROVE  Answered(t)
<1>1. /\ UNCHANGED <<record, byClient, byUser, eligibility, retention, speakerOff, publishing>>
      /\ transport' = transport /\ sending' = [sending EXCEPT ![t] = "failure"]
  BY DEF Reject, registryVars, controlVars
<1>2. RegistryInv'
  BY <1>1 DEF RegistryInv, RegistryTypes, ControlTypes, IndexesAgree, StoredEligibility,
              Registered
<1> QED
  BY <1>1, <1>2 DEF Answered

\* A resumption moves a suspended connection to the transport that asked for it.
LEMMA ResumeAnswers ==
  ASSUME RegistryInv, transport \in [Transports -> TransportRecords],
         NEW t \in Transports, NEW c \in Connections, NEW i \in Clients,
         Registered(c), Resume(t, c, i)
  PROVE  Answered(t)
<1>1. CASE ~(record[c].client = i /\ record[c].state = "suspended")
  BY <1>1, RejectAnswers DEF Resume
<1>2. CASE record[c].client = i /\ record[c].state = "suspended"
  <2>1. /\ record' = [record EXCEPT ![c] = Resumed(record[c], t)]
        /\ transport' = [transport EXCEPT ![t].connection = c]
        /\ sending' = [sending EXCEPT ![t] = "success"]
        /\ UNCHANGED <<byClient, byUser, eligibility, retention, controlVars>>
    BY <1>2 DEF Resume, ResumeConnection, Answer
  <2>2. record[c] \in ConnectionRecords
    BY DEF RegistryInv, RegistryTypes
  <2>3. /\ Resumed(record[c], t) \in ConnectionRecords
        /\ Resumed(record[c], t).state = "active" /\ Resumed(record[c], t).transport = t
        /\ Resumed(record[c], t).client = record[c].client
    BY <2>2 DEF Resumed, ConnectionRecords
  <2>4. retention' \subseteq Connections /\ retention' = retention
    BY <2>1 DEF RegistryInv, ControlTypes
  <2>5. UNCHANGED <<byClient, byUser, eligibility, controlVars>>
    BY <2>1
  <2>6. /\ RegistryInv' /\ record'[c] = Resumed(record[c], t)
        /\ \A d \in Connections \ {c} : record'[d] = record[d]
    BY <2>1, <2>3, <2>4, <2>5, RecordKeepsRegistry
  <2>7. transport'[t].connection = c
    BY <2>1 DEF TransportRecords
  <2> QED
    BY <2>1, <2>3, <2>4, <2>6, <2>7 DEF Answered
<1> QED
  BY <1>1, <1>2

\* The connection that is handed over is gone at the end, whether or not the new one
\* could be registered.
LEMMA HandoffAnswers ==
  ASSUME RegistryInv, transport \in [Transports -> TransportRecords],
         NEW t \in Transports, NEW c \in Connections, NEW i \in Clients,
         ~Registered(c), NEW old \in Connections, byUser[UserOf[c]] = old,
         Handoff(old, t, c, i)
  PROVE  Answered(t)
<1>1. /\ retention' = retention \ {old} /\ speakerOff' = speakerOff \ {old}
      /\ publishing' = publishing
  BY DEF Handoff, CancelRetention
<1>2. ControlTypes'
  BY <1>1 DEF RegistryInv, ControlTypes
<1>3. UserOf[c] \in Users /\ Registered(old) /\ old # c /\ old # NoConnection
  BY ConnectionsAssumption DEF RegistryInv, IndexesAgree
<1>4. CASE byClient[i] = NoConnection
  <2>1. /\ Registry(old, c, i, t)
        /\ transport' = [transport EXCEPT ![t].connection = c]
        /\ sending' = [sending EXCEPT ![t] = "success"]
    BY <1>4 DEF Handoff, Answer
  <2>2. RegistryTypes' /\ IndexesAgree'
    BY <1>4, <2>1, RegistrationKeepsIndexes
  <2>3. \A d \in Connections :
          /\ record'[d] = IF d = c THEN Activated(i, t)
                          ELSE IF d = old THEN NoRecord ELSE record[d]
          /\ eligibility'[d] = IF d = c THEN "initial"
                               ELSE IF d = old THEN "none" ELSE eligibility[d]
    BY <2>1, RegistryRecords
  <2>4. StoredEligibility'
    BY <1>1, <2>3 DEF RegistryInv, StoredEligibility
  <2>5. ~Registered(old)' /\ record'[c].transport = t
    BY <1>3, <2>3 DEF Registered, NoRecord, Activated
  <2>6. transport'[t].connection = c
    BY <2>1 DEF TransportRecords
  <2> QED
    BY <1>1, <1>2, <2>1, <2>2, <2>3, <2>4, <2>5, <2>6 DEF Answered, RegistryInv
<1>5. CASE byClient[i] # NoConnection
  <2>1. /\ Registry(old, NoConnection, NoClient, NoTransport)
        /\ transport' = transport
        /\ sending' = [sending EXCEPT ![t] = "failure"]
    BY <1>5 DEF Handoff
  <2>2. RegistryTypes' /\ IndexesAgree'
    BY <1>3, <2>1, RemovalKeepsIndexes
  <2>3. \A d \in Connections :
          /\ record'[d] = IF d = old THEN NoRecord ELSE record[d]
          /\ eligibility'[d] = IF d = old THEN "none" ELSE eligibility[d]
    BY <2>1, RegistryRecords, ConnectionsAssumption
  <2>4. StoredEligibility'
    BY <1>1, <2>3 DEF RegistryInv, StoredEligibility
  <2>5. ~Registered(old)'
    BY <2>3 DEF Registered, NoRecord
  <2> QED
    BY <1>1, <1>2, <2>1, <2>2, <2>3, <2>4, <2>5 DEF Answered, RegistryInv
<1> QED
  BY <1>4, <1>5

\* A registration gives the transport its connection, and takes those of the user and the client.
LEMMA RegisterAnswers ==
  ASSUME RegistryInv, transport \in [Transports -> TransportRecords],
         NEW t \in Transports, NEW c \in Connections, NEW i \in Clients,
         ~Registered(c), Register(t, c, i)
  PROVE  Answered(t)
<1>1. UserOf[c] \in Users
  BY ConnectionsAssumption
<1>2. CASE byClient[i] = NoConnection /\ byUser[UserOf[c]] = NoConnection
  <2>1. /\ Registry(NoConnection, c, i, t)
        /\ transport' = [transport EXCEPT ![t].connection = c]
        /\ sending' = [sending EXCEPT ![t] = "success"]
        /\ UNCHANGED <<retention, controlVars>>
    BY <1>2 DEF Register, Answer
  <2>2. retention' = retention /\ speakerOff' = speakerOff /\ publishing' = publishing
    BY <2>1 DEF controlVars
  <2>3. RegistryTypes' /\ IndexesAgree'
    BY <1>2, <2>1, RegistrationKeepsIndexes
  <2>4. \A d \in Connections :
          /\ record'[d] = IF d = c THEN Activated(i, t) ELSE record[d]
          /\ eligibility'[d] = IF d = c THEN "initial" ELSE eligibility[d]
    BY <2>1, RegistryRecords, ConnectionsAssumption
  <2>5. StoredEligibility'
    BY <2>2, <2>4 DEF RegistryInv, StoredEligibility
  <2>6. ControlTypes'
    BY <2>2 DEF RegistryInv, ControlTypes
  <2>7. record'[c].transport = t /\ transport'[t].connection = c
    BY <2>1, <2>4 DEF Activated, TransportRecords
  <2> QED
    BY <2>1, <2>2, <2>3, <2>4, <2>5, <2>6, <2>7 DEF Answered, RegistryInv
<1>3. CASE /\ ~(byClient[i] = NoConnection /\ byUser[UserOf[c]] = NoConnection)
           /\ Conflict(c, i)
  <2>1. Handoff(byUser[UserOf[c]], t, c, i) /\ byUser[UserOf[c]] # NoConnection
    BY <1>3 DEF Register, Conflict
  <2>2. byUser[UserOf[c]] \in Connections
    BY <1>1, <2>1 DEF RegistryInv, RegistryTypes
  <2> QED
    BY <2>1, <2>2, HandoffAnswers
<1>4. CASE /\ ~(byClient[i] = NoConnection /\ byUser[UserOf[c]] = NoConnection)
           /\ ~Conflict(c, i)
  BY <1>4, RejectAnswers DEF Register
<1> QED
  BY <1>2, <1>3, <1>4

\* A request is answered by a transport that holds nothing yet.
LEMMA AuthKeepsInv ==
  ASSUME IInv, NEW t \in Transports, NEW u \in Users, NEW i \in Clients,
         HandleAuthRequest(t, u, i)
  PROVE  IInv'
<1>1. /\ transport[t].state = "waiting_auth" /\ sending[t] = "none" /\ closer[t] = "none"
      /\ player' = player /\ met' = met /\ closer' = closer
  BY DEF HandleAuthRequest, playerVars
<1>2. Answered(t)
  <2>1. transport \in [Transports -> TransportRecords] /\ RegistryInv
    BY DEF IInv, TransportTypes
  <2>2. CASE Reject(t)
    BY <2>1, <2>2, RejectAnswers
  <2>3. CASE Prepared(u) /\ IF Registered(ConnectionIdOf(u))
                            THEN Resume(t, ConnectionIdOf(u), i)
                            ELSE Register(t, ConnectionIdOf(u), i)
    <3>1. ConnectionIdOf(u) \in Connections
      BY <2>3 DEF Prepared, ConnectionIdOf, IInv, TransportTypes
    <3> QED
      BY <2>1, <2>3, <3>1, ResumeAnswers, RegisterAnswers
  <2> QED
    BY <2>2, <2>3 DEF HandleAuthRequest, Refused
<1>3. transport[t].connection = NoConnection
  BY <1>1 DEF IInv, UnansweredHoldsNothing
<1>4. /\ transport[t] \in TransportRecords
      /\ transport' = transport \/
           \E c \in Connections : transport' = [transport EXCEPT ![t].connection = c]
  BY <1>2 DEF Answered, IInv, TransportTypes
<1>5. /\ transport' \in [Transports -> TransportRecords]
      /\ transport'[t].state = "waiting_auth"
      /\ \A s \in Transports \ {t} : transport'[s] = transport[s]
  BY <1>1, <1>4 DEF IInv, TransportTypes, TransportRecords
<1>6. /\ sending' \in [Transports -> {"none", "success", "failure"}]
      /\ sending'[t] # "none"
      /\ \A s \in Transports \ {t} : sending'[s] = sending[s]
  BY <1>2 DEF Answered, IInv, TransportTypes
<1>7. TransportTypes'
  BY <1>1, <1>5, <1>6 DEF IInv, TransportTypes
<1>8. UnansweredHoldsNothing'
  BY <1>1, <1>5, <1>6 DEF IInv, UnansweredHoldsNothing
<1>9. \A d \in Connections : Holders(d) \subseteq Holders(d)'
  BY <1>3, <1>5, ConnectionsAssumption DEF Holders
<1>10. HeldOrRetained'
  <2> SUFFICES ASSUME NEW d \in Connections
               PROVE  \/ ~Registered(d)'
                      \/ /\ record'[d] = record[d] /\ Holders(d) \subseteq Holders(d)'
                         /\ d \in retention => d \in retention' \/ Holders(d)' # {}
                      \/ record'[d].transport \in Holders(d)'
                      \/ record'[d].state # "active" /\ d \in retention'
    BY StaysHeldOrRetained DEF IInv
  <2>1. \/ ~Registered(d)'
        \/ record'[d] = record[d] /\ (d \in retention => d \in retention')
        \/ record'[d].transport = t /\ transport'[t].connection = d
    BY <1>2 DEF Answered
  <2>2. transport'[t].connection = d => t \in Holders(d)'
    BY DEF Holders
  <2> QED
    BY <1>9, <2>1, <2>2
<1> QED
  BY <1>2, <1>7, <1>8, <1>10 DEF IInv, Answered

\* A success is sent: what ends is the retention of a connection that is held.
LEMMA ResultSentKeepsInv ==
  ASSUME IInv, NEW t \in Transports, AuthResultSent(t)
  PROVE  IInv'
<1>1. /\ sending' = [sending EXCEPT ![t] = "none"]
      /\ transport' = [transport EXCEPT ![t].state = "active"]
      /\ retention' = retention \ {transport[t].connection}
      /\ UNCHANGED <<player, met, record, byClient, byUser, eligibility, speakerOff,
                    publishing, closer>>
  BY DEF AuthResultSent, CancelRetention, playerVars, registryVars, controlVars
<1>2. transport[t] \in TransportRecords
  BY DEF IInv, TransportTypes
<1>3. /\ transport' \in [Transports -> TransportRecords]
      /\ transport'[t].state = "active"
      /\ \A s \in Transports : transport'[s].connection = transport[s].connection
      /\ \A s \in Transports \ {t} : transport'[s] = transport[s]
  BY <1>1, <1>2 DEF IInv, TransportTypes, TransportRecords
<1>4. /\ sending' \in [Transports -> {"none", "success", "failure"}]
      /\ \A s \in Transports \ {t} : sending'[s] = sending[s]
  BY <1>1 DEF IInv, TransportTypes
<1>5. TransportTypes'
  BY <1>1, <1>3, <1>4 DEF IInv, TransportTypes
<1>6. UnansweredHoldsNothing'
  BY <1>1, <1>3, <1>4 DEF IInv, UnansweredHoldsNothing
<1>7. RegistryInv'
  BY <1>1 DEF IInv, RegistryInv, RegistryTypes, ControlTypes, IndexesAgree,
              StoredEligibility, Registered
<1>8. \A d \in Connections : Holders(d)' = Holders(d)
  BY <1>3 DEF Holders
<1>9. \A d \in Connections : d \in retention /\ d \notin retention' => t \in Holders(d)
  BY <1>1 DEF Holders
<1>10. HeldOrRetained'
  BY <1>1, <1>8, <1>9, StaysHeldOrRetained DEF IInv
<1> QED
  BY <1>5, <1>6, <1>7, <1>10 DEF IInv

\* A transport that begins to close releases its connection, and no other one.
LEMMA BeginCloseKeepsInv ==
  ASSUME IInv, NEW t \in Transports, NEW reason, BeginClose(t, reason),
         sending' = sending \/ sending' = [sending EXCEPT ![t] = "none"],
         UNCHANGED playerVars
  PROVE  IInv'
<1>1. transport[t] \in TransportRecords
  BY DEF IInv, TransportTypes
<1>2. PICK c \in Connections \cup {NoConnection} : c = transport[t].connection
  BY <1>1 DEF TransportRecords
<1>3. /\ closer' = [closer EXCEPT ![t] = "begun"]
      /\ transport' = [transport EXCEPT ![t].state = "closing",
                                       ![t].connection = NoConnection]
      /\ HandleTransportClosed(c, reason)
      /\ player' = player /\ met' = met
  BY <1>2 DEF BeginClose, playerVars
<1>4. /\ transport' \in [Transports -> TransportRecords]
      /\ transport'[t].state = "closing"
      /\ \A s \in Transports \ {t} : transport'[s] = transport[s]
  BY <1>1, <1>3 DEF IInv, TransportTypes, TransportRecords
<1>5. /\ sending' \in [Transports -> {"none", "success", "failure"}]
      /\ \A s \in Transports \ {t} : sending'[s] = sending[s]
  BY DEF IInv, TransportTypes
<1>6. /\ closer' \in [Transports -> {"none", "begun", "done"}]
      /\ \A s \in Transports \ {t} : closer'[s] = closer[s]
  BY <1>3 DEF IInv, TransportTypes
<1>7. TransportTypes'
  BY <1>3, <1>4, <1>5, <1>6 DEF IInv, TransportTypes
<1>8. UnansweredHoldsNothing'
  BY <1>4, <1>5, <1>6 DEF IInv, UnansweredHoldsNothing
<1>9. /\ RegistryInv'
      /\ c \in Connections => /\ record'[c].state # "active"
                              /\ Registered(c)' => c \in retention'
      /\ \A d \in Connections \ {c} :
           record'[d] = record[d] /\ (d \in retention => d \in retention')
  BY <1>2, <1>3, ClosedTransportKeepsRegistry DEF IInv
<1>10. \A d \in Connections \ {c} : Holders(d) \subseteq Holders(d)'
  BY <1>2, <1>4 DEF Holders
<1>11. HeldOrRetained'
  <2>1. \A d \in Connections \ {c} :
          record'[d] = record[d] /\ (d \in retention => d \in retention')
    BY <1>9
  <2>2. c \in Connections => /\ record'[c].state # "active"
                             /\ Registered(c)' => c \in retention'
    BY <1>9
  <2> QED
    BY <1>10, <2>1, <2>2, StaysHeldOrRetained DEF IInv
<1> QED
  BY <1>7, <1>8, <1>9, <1>11 DEF IInv

\* A retention ends: its connection is gone, be it held again or not.
LEMMA ExpiryKeepsInv ==
  ASSUME IInv, NEW c \in Connections, ExpireConnection(c)
  PROVE  IInv'
<1>1. /\ Remove(c) /\ retention' = retention \ {c}
      /\ UNCHANGED <<player, met, transport, closer, sending>>
  BY DEF ExpireConnection, CancelRetention, playerVars
<1>2. retention' \subseteq Connections
  BY <1>1 DEF IInv, RegistryInv, ControlTypes
<1>3. /\ RegistryInv' /\ ~Registered(c)'
      /\ \A d \in Connections \ {c} : record'[d] = record[d]
  BY <1>1, <1>2, RemoveKeepsRegistry DEF IInv
<1>4. \A d \in Connections : Holders(d)' = Holders(d)
  BY <1>1 DEF Holders
<1>5. HeldOrRetained'
  BY <1>1, <1>3, <1>4, StaysHeldOrRetained DEF IInv
<1>6. TransportTypes' /\ UnansweredHoldsNothing'
  BY <1>1 DEF IInv, TransportTypes, UnansweredHoldsNothing
<1> QED
  BY <1>3, <1>5, <1>6 DEF IInv

\* A packet of an authenticated transport sets a control of its connection.
LEMMA ControlKeepsInv ==
  ASSUME IInv, NEW t \in Transports, LocalControl(t)
  PROVE  IInv'
<1> DEFINE c == transport[t].connection
<1>1. /\ c # NoConnection
      /\ UNCHANGED <<player, met, record, byClient, byUser, retention, transport, closer,
                    sending>>
  BY DEF LocalControl, Receives, playerVars
<1>2. c \in Connections
  BY <1>1 DEF IInv, TransportTypes, TransportRecords
<1>3. \/ SetControls(c, publishing \cup {c}, speakerOff)
      \/ SetControls(c, publishing \ {c}, speakerOff)
      \/ SetControls(c, publishing, speakerOff \cup {c})
      \/ SetControls(c, publishing, speakerOff \ {c})
  BY DEF LocalControl
<1> HIDE DEF c
<1>4. PICK P \in SUBSET Connections, off \in SUBSET Connections :
        /\ SetControls(c, P, off)
        /\ \A d \in Connections \ {c} : /\ d \in P <=> d \in publishing
                                        /\ d \in off <=> d \in speakerOff
  <2>1. publishing \subseteq Connections /\ speakerOff \subseteq Connections
    BY DEF IInv, RegistryInv, ControlTypes
  <2>2. CASE SetControls(c, publishing \cup {c}, speakerOff)
    BY <1>2, <2>1, <2>2
  <2>3. CASE SetControls(c, publishing \ {c}, speakerOff)
    BY <1>2, <2>1, <2>3
  <2>4. CASE SetControls(c, publishing, speakerOff \cup {c})
    BY <1>2, <2>1, <2>4
  <2>5. CASE SetControls(c, publishing, speakerOff \ {c})
    BY <1>2, <2>1, <2>5
  <2> QED
    BY <1>3, <2>2, <2>3, <2>4, <2>5
<1>5. RegistryInv'
  BY <1>1, <1>2, <1>4, ControlsKeepRegistry DEF IInv
<1>6. TransportTypes' /\ UnansweredHoldsNothing'
  BY <1>1 DEF IInv, TransportTypes, UnansweredHoldsNothing
<1>7. HeldOrRetained'
  BY <1>1 DEF IInv, HeldOrRetained, Holders, Registered
<1> QED
  BY <1>5, <1>6, <1>7 DEF IInv

\* The steps of players, a new transport, the end of a close, and no step at all.
LEMMA OtherStepsKeepInv ==
  ASSUME IInv,
         \/ \E u \in Users : PlayerLeft(u) \/ \E c \in Connections : PlayerReady(u, c)
         \/ \E t \in Transports : AcceptConnection(t) \/ CloseEnds(t)
         \/ UNCHANGED vars
  PROVE  IInv'
<1>1. UNCHANGED <<record, byClient, byUser, eligibility, retention, speakerOff, publishing>>
  BY DEF PlayerLeft, PlayerReady, AcceptConnection, CloseEnds, vars, registryVars, controlVars
<1>2. RegistryInv'
  BY <1>1 DEF IInv, RegistryInv, RegistryTypes, ControlTypes, IndexesAgree,
              StoredEligibility, Registered
<1>3. CASE \E u \in Users : PlayerLeft(u) \/ \E c \in Connections : PlayerReady(u, c)
  <2>1. UNCHANGED <<transport, closer, sending>>
    BY <1>3 DEF PlayerLeft, PlayerReady
  <2>2. player' \in [Users -> Connections \cup {NoConnection}] /\ met' \subseteq Connections
    BY <1>3 DEF PlayerLeft, PlayerReady, IInv, TransportTypes
  <2>3. TransportTypes' /\ UnansweredHoldsNothing'
    BY <2>1, <2>2 DEF IInv, TransportTypes, UnansweredHoldsNothing
  <2>4. HeldOrRetained'
    BY <1>1, <2>1 DEF IInv, HeldOrRetained, Holders, Registered
  <2> QED
    BY <1>2, <2>3, <2>4 DEF IInv
<1>4. ASSUME NEW t \in Transports, AcceptConnection(t) \/ CloseEnds(t)
      PROVE  IInv'
  <2>1. transport[t] \in TransportRecords
    BY DEF IInv, TransportTypes
  <2>2. PICK st \in {"waiting_auth", "closed"} :
          /\ transport' = [transport EXCEPT ![t].state = st]
          /\ st = "waiting_auth" => transport[t].state = "unused" /\ closer' = closer
    BY <1>4 DEF AcceptConnection, CloseEnds
  <2>3. /\ transport' \in [Transports -> TransportRecords]
        /\ transport'[t].state = st
        /\ \A s \in Transports : transport'[s].connection = transport[s].connection
        /\ \A s \in Transports \ {t} : transport'[s] = transport[s]
    BY <2>1, <2>2 DEF IInv, TransportTypes, TransportRecords
  <2>4. /\ player' = player /\ met' = met /\ sending' = sending
        /\ closer' \in [Transports -> {"none", "begun", "done"}]
        /\ \A s \in Transports \ {t} : closer'[s] = closer[s]
    BY <1>4 DEF AcceptConnection, CloseEnds, playerVars, IInv, TransportTypes
  <2>5. TransportTypes'
    BY <2>3, <2>4 DEF IInv, TransportTypes
  <2>6. UnansweredHoldsNothing'
    BY <2>2, <2>3, <2>4 DEF IInv, UnansweredHoldsNothing
  <2>7. \A d \in Connections : Holders(d)' = Holders(d)
    BY <2>3 DEF Holders
  <2>8. HeldOrRetained'
    BY <1>1, <2>7 DEF IInv, HeldOrRetained, Registered
  <2> QED
    BY <1>2, <2>5, <2>6, <2>8 DEF IInv
<1>5. CASE UNCHANGED vars
  <2>1. UNCHANGED <<player, met, transport, closer, sending>>
    BY <1>5 DEF vars, playerVars
  <2>2. TransportTypes' /\ UnansweredHoldsNothing' /\ HeldOrRetained'
    BY <1>1, <2>1 DEF IInv, TransportTypes, UnansweredHoldsNothing, HeldOrRetained, Holders,
                      Registered
  <2> QED
    BY <1>2, <2>2 DEF IInv
<1> QED
  BY <1>3, <1>4, <1>5

\* It holds in the initial state.
LEMMA InitInv == Init => IInv
<1> SUFFICES ASSUME Init PROVE IInv
  OBVIOUS
<1>1. NoRecord \in ConnectionRecords /\ NoRecord.state = "none"
  BY DEF NoRecord, ConnectionRecords
<1>2. /\ Unopened \in TransportRecords /\ Unopened.connection = NoConnection
      /\ Unopened.state = "unused"
  BY DEF Unopened, TransportRecords
<1>3. RegistryTypes /\ ControlTypes /\ StoredEligibility
  BY <1>1 DEF Init, RegistryTypes, ControlTypes, StoredEligibility
<1>4. \A c \in Connections : ~Registered(c) /\ record[c].state = "none"
  BY <1>1 DEF Init, Registered
<1>5. IndexesAgree
  BY <1>4, ConnectionsAssumption DEF Init, IndexesAgree
<1>6. TransportTypes
  BY <1>2 DEF Init, TransportTypes
<1>7. UnansweredHoldsNothing
  BY <1>2 DEF Init, UnansweredHoldsNothing
<1>8. HeldOrRetained
  BY <1>4 DEF HeldOrRetained
<1> QED
  BY <1>3, <1>5, <1>6, <1>7, <1>8 DEF IInv, RegistryInv

\* Every step keeps it.
LEMMA NextKeepsInv == IInv /\ [Next]_vars => IInv'
<1> SUFFICES ASSUME IInv, [Next]_vars PROVE IInv'
  OBVIOUS
<1>1. ASSUME NEW t \in Transports, NEW u \in Users, NEW i \in Clients,
             HandleAuthRequest(t, u, i)
      PROVE  IInv'
  BY <1>1, AuthKeepsInv
<1>2. ASSUME NEW t \in Transports, AuthResultSent(t)
      PROVE  IInv'
  BY <1>2, ResultSentKeepsInv
<1>3. ASSUME NEW t \in Transports, AuthEnds(t)
      PROVE  IInv'
  <2>1. sending' = [sending EXCEPT ![t] = "none"] /\ UNCHANGED playerVars
    BY <1>3 DEF AuthEnds
  <2>2. CASE closer[t] = "none"
    BY <1>3, <2>1, <2>2, BeginCloseKeepsInv DEF AuthEnds
  <2>3. CASE closer[t] # "none"
    <3>1. UNCHANGED <<player, met, record, byClient, byUser, eligibility, retention,
                      speakerOff, publishing, transport, closer>>
      BY <1>3, <2>1, <2>3 DEF AuthEnds, playerVars, registryVars, controlVars
    <3>2. RegistryInv' /\ HeldOrRetained'
      BY <3>1 DEF IInv, RegistryInv, RegistryTypes, ControlTypes, IndexesAgree,
                  StoredEligibility, Registered, HeldOrRetained, Holders
    <3>3. TransportTypes'
      BY <2>1, <3>1 DEF IInv, TransportTypes
    <3>4. UnansweredHoldsNothing'
      BY <2>1, <2>3, <3>1 DEF IInv, UnansweredHoldsNothing, TransportTypes
    <3> QED
      BY <3>2, <3>3, <3>4 DEF IInv
  <2> QED
    BY <2>2, <2>3
<1>4. ASSUME NEW t \in Transports, TransportCloses(t) \/ Disconnect(t)
      PROVE  IInv'
  <2>1. sending' = sending /\ UNCHANGED playerVars
    BY <1>4 DEF TransportCloses, Disconnect
  <2>2. BeginClose(t, "transport_closed") \/ BeginClose(t, "client_disconnected")
    BY <1>4 DEF TransportCloses, Disconnect
  <2> QED
    BY <2>1, <2>2, BeginCloseKeepsInv
<1>5. ASSUME NEW t \in Transports, LocalControl(t)
      PROVE  IInv'
  BY <1>5, ControlKeepsInv
<1>6. ASSUME NEW c \in Connections, ExpireConnection(c)
      PROVE  IInv'
  BY <1>6, ExpiryKeepsInv
<1>7. CASE \/ \E u \in Users : PlayerLeft(u) \/ \E c \in Connections : PlayerReady(u, c)
           \/ \E t \in Transports : AcceptConnection(t) \/ CloseEnds(t)
           \/ UNCHANGED vars
  BY <1>7, OtherStepsKeepInv
<1> QED
  BY <1>1, <1>2, <1>3, <1>4, <1>5, <1>6, <1>7 DEF Next

-----------------------------------------------------------------------------
(* The theorems *)

\* The inductive invariant holds in every reachable state.
LEMMA Invariant == Spec => []IInv
<1> QED
  BY InitInv, NextKeepsInv, PTL DEF Spec

\* Every variable keeps its type: a record goes through the states of registration,
\* suspension and resumption only (voiceConnectionRecord.js, voiceConnectionRegistry.js).
THEOREM TypeCorrect == Spec => []TypeOK
<1>1. IInv => TypeOK
  BY DEF IInv, RegistryInv, RegistryTypes, ControlTypes, TransportTypes, TransportRecords,
         TypeOK
<1> QED
  BY <1>1, Invariant, PTL

\* A user and a client instance have one voice connection at most, and the indexes find
\* exactly the records, after every handoff, resumption and removal
\* (registerAuthenticatedConnection, removeConnection).
THEOREM IndexesCorrect == Spec => []IndexesAgree
<1>1. IInv => IndexesAgree
  BY DEF IInv, RegistryInv
<1> QED
  BY <1>1, Invariant, PTL

\* No connection is kept for ever: a transport holds it or its retention runs, and the
\* transport of an active one holds it (voiceReconnectCoordinator.js).
THEOREM NoConnectionIsForgotten == Spec => []HeldOrRetained
<1>1. IInv => HeldOrRetained
  BY DEF IInv
<1> QED
  BY <1>1, Invariant, PTL

\* The eligibility that a dedicated server reads is that of the controls that were set
\* last (synchronizeSessionEligibilityFromLocalControls, getSnapshot).
THEOREM SnapshotFollowsControls == Spec => []EligibilityFollowsControls
<1>1. ASSUME IInv, NEW p \in Snapshot
      PROVE  p.eligible <=> p.connection \in publishing \/ p.connection \notin speakerOff
  <2>1. PICK c \in Connections :
          /\ Registered(c) /\ eligibility[c] # "initial"
          /\ p = [connection |-> c, eligible |-> eligibility[c] = "eligible"]
    BY <1>1 DEF Snapshot
  <2>2. eligibility[c] \in {"eligible", "ineligible"}
    BY <1>1, <2>1 DEF IInv, RegistryInv, RegistryTypes, IndexesAgree
  <2>3. p.connection = c /\ (p.eligible <=> eligibility[c] = "eligible")
    BY <2>1
  <2> QED
    BY <1>1, <2>2, <2>3 DEF IInv, RegistryInv, StoredEligibility
<1>2. IInv => EligibilityFollowsControls
  BY <1>1 DEF EligibilityFollowsControls
<1> QED
  BY <1>2, Invariant, PTL

-----------------------------------------------------------------------------
(* The frames and the news of a client (VoiceRouting): what is in the chain  *)
(* of a transport and in the media queue behind it, and what the client      *)
(* knows when it comes to each envelope.                                     *)

CONSTANTS Sessions, Unknown, Publishers, Mutes, Requesting, Capacity, MaxFanOut,
          MaxChain, MaxPackets, MaxFrames
VARIABLES members, untold, removed, open, muted, received, accepted, published, busy, queue,
          drain, outbox, heard, view

Route == INSTANCE VoiceRouting

\* A frame of p
On(e, p) == e.kind = "frame" /\ e.from = p

\* The frames of p in a chain a and in the media queue b behind it: they ascend, and are
\* later than lo, which was heard, and not later than hi, which was published.
Ascends(q, p) ==
  \A i, j \in 1..Len(q) : i < j /\ On(q[i], p) /\ On(q[j], p) => q[i].id < q[j].id

Between(q, p, lo, hi) == \A i \in 1..Len(q) : On(q[i], p) => lo < q[i].id /\ q[i].id <= hi

Precedes(a, b, p) ==
  \A i \in 1..Len(a), j \in 1..Len(b) : On(a[i], p) /\ On(b[j], p) => a[i].id < b[j].id

Line(a, b, p, lo, hi) ==
  /\ Ascends(a, p) /\ Ascends(b, p) /\ Precedes(a, b, p)
  /\ Between(a, p, lo, hi) /\ Between(b, p, lo, hi)
  /\ lo <= hi

\* Of what an envelope is made, by its kind.
LEMMA KindsOfEnvelopes ==
  ASSUME NEW e \in Route!Envelopes
  PROVE  /\ e.kind = "frame" => /\ e \in Route!Frames /\ e.from \in Connections
                                /\ e.id \in 1..(MaxFrames + MaxPackets)
         /\ e.kind = "session" => e.session \in Sessions
         /\ e.kind \in {"snapshot", "result"} => e.view \in SUBSET Sessions
         /\ e.kind \in {"frame", "stop", "ack", "session", "result", "snapshot"}
BY DEF Route!Envelopes, Route!Frames, Route!Frame, Route!Stop, Route!Ack,
   Route!Joined, Route!Left, Route!Result, Route!Snapshot

\* The envelopes that the handlers build, and their kinds.
LEMMA EnvelopesAre ==
  /\ Route!Frames \subseteq Route!Envelopes
  /\ \A p \in Connections : Route!Stop(p) \in Route!Envelopes /\ Route!Stop(p).kind = "stop"
  /\ Route!Ack \in Route!Envelopes /\ Route!Ack.kind = "ack"
  /\ \A s \in Sessions : Route!Joined(s) \in Route!Envelopes /\ Route!Joined(s).kind = "session"
  /\ \A s \in Sessions : Route!Left(s) \in Route!Envelopes /\ Route!Left(s).kind = "session"
  /\ \A S \in SUBSET Sessions :
       Route!Result(S) \in Route!Envelopes /\ Route!Result(S).kind = "result"
  /\ \A S \in SUBSET Sessions :
       Route!Snapshot(S) \in Route!Envelopes /\ Route!Snapshot(S).kind = "snapshot"
BY DEF Route!Envelopes, Route!Stop, Route!Ack, Route!Joined, Route!Left,
   Route!Result, Route!Snapshot

\* Sequences of envelopes
LEMMA Appended ==
  ASSUME NEW X, NEW q \in Seq(X), NEW e \in X
  PROVE  /\ Append(q, e) \in Seq(X) /\ Len(Append(q, e)) = Len(q) + 1 /\ Len(q) \in Nat
         /\ \A i \in 1..Len(q) : Append(q, e)[i] = q[i]
         /\ Append(q, e)[Len(q) + 1] = e
OBVIOUS

\* A sequence without its first element
LEMMA Shortened ==
  ASSUME NEW X, NEW q \in Seq(X), q # <<>>
  PROVE  /\ Tail(q) \in Seq(X) /\ Len(Tail(q)) = Len(q) - 1 /\ Len(q) \in Nat \ {0}
         /\ \A i \in 1..Len(Tail(q)) : Tail(q)[i] = q[i + 1]
         /\ Head(q) = q[1] /\ Head(q) \in X
OBVIOUS

-----------------------------------------------------------------------------
(* What may happen to a line *)

\* An envelope that is no frame of p may join the chain.
LEMMA OthersJoin ==
  ASSUME NEW X, NEW a \in Seq(X), NEW b, NEW p, NEW lo, NEW hi, Line(a, b, p, lo, hi),
         NEW e \in X, ~On(e, p)
  PROVE  Line(Append(a, e), b, p, lo, hi)
<1>1. \A i \in 1..Len(Append(a, e)) : On(Append(a, e)[i], p) =>
         i \in 1..Len(a) /\ Append(a, e)[i] = a[i]
  BY Appended
<1> QED BY <1>1, Zenon DEF Line, Ascends, Between, Precedes

\* A frame of another publisher may join the queue.
LEMMA OthersWait ==
  ASSUME NEW X, NEW a, NEW b \in Seq(X), NEW p, NEW lo, NEW hi, Line(a, b, p, lo, hi),
         NEW e \in X, ~On(e, p)
  PROVE  Line(a, Append(b, e), p, lo, hi)
<1>1. \A i \in 1..Len(Append(b, e)) : On(Append(b, e)[i], p) =>
         i \in 1..Len(b) /\ Append(b, e)[i] = b[i]
  BY Appended
<1> QED BY <1>1, Zenon DEF Line, Ascends, Between, Precedes

\* A frame of p that is later than all may be sent past an empty queue.
LEMMA NewFrameIsSent ==
  ASSUME Route!RoutingAssumption,
         NEW a \in Seq(Route!Envelopes), NEW p, NEW lo \in Nat, NEW hi \in Nat,
         Line(a, <<>>, p, lo, hi), NEW e \in Route!Frames, hi < e.id
  PROVE  Line(Append(a, e), <<>>, p, lo, e.id)
<1>1. e.id \in Nat /\ e \in Route!Envelopes
  BY DEF Route!RoutingAssumption, Route!Frames, Route!Frame, Route!Envelopes
<1>2. /\ Len(Append(a, e)) = Len(a) + 1 /\ Len(a) \in Nat
      /\ \A i \in 1..Len(a) : Append(a, e)[i] = a[i] /\ a[i] \in Route!Envelopes
      /\ Append(a, e)[Len(a) + 1] = e
  BY <1>1, Appended
<1>3. \A i \in 1..Len(a) : On(a[i], p) => a[i].id \in Nat /\ a[i].id < e.id
  BY <1>1, <1>2, KindsOfEnvelopes DEF Route!RoutingAssumption, Line, Between, On
<1>4. \A i \in 1..(Len(a) + 1) : i \in 1..Len(a) \/ i = Len(a) + 1
  BY <1>2
<1>5. Ascends(Append(a, e), p)
  BY <1>2, <1>3, <1>4 DEF Line, Ascends
<1>6. Between(Append(a, e), p, lo, e.id)
  BY <1>1, <1>2, <1>3, <1>4 DEF Line, Between
<1> QED BY <1>1, <1>5, <1>6 DEF Line, Ascends, Between, Precedes

\* A frame of p that is later than all may join the queue.
LEMMA NewFrameWaits ==
  ASSUME Route!RoutingAssumption,
         NEW a \in Seq(Route!Envelopes), NEW b \in Seq(Route!Frames), NEW p, NEW lo \in Nat,
         NEW hi \in Nat,
         Line(a, b, p, lo, hi), NEW e \in Route!Frames, hi < e.id
  PROVE  Line(a, Append(b, e), p, lo, e.id)
<1>1. e.id \in Nat /\ e \in Route!Envelopes /\ \A f \in Route!Frames : f.id \in Nat
  BY DEF Route!RoutingAssumption, Route!Frames, Route!Frame, Route!Envelopes
<1>2. /\ Len(Append(b, e)) = Len(b) + 1 /\ Len(b) \in Nat
      /\ \A i \in 1..Len(b) : Append(b, e)[i] = b[i] /\ b[i] \in Route!Frames
      /\ Append(b, e)[Len(b) + 1] = e
  BY <1>1, Appended
<1>3. \A i \in 1..Len(b) : On(b[i], p) => b[i].id \in Nat /\ b[i].id < e.id
  BY <1>1, <1>2 DEF Line, Between
<1>4. \A i \in 1..(Len(b) + 1) : i \in 1..Len(b) \/ i = Len(b) + 1
  BY <1>2
<1>5. Ascends(Append(b, e), p)
  BY <1>2, <1>3, <1>4 DEF Line, Ascends
<1>6. Between(Append(b, e), p, lo, e.id)
  BY <1>1, <1>2, <1>3, <1>4 DEF Line, Between
<1>7. \A i \in 1..Len(a) : On(a[i], p) => a[i].id \in Nat /\ a[i].id < e.id
  BY <1>1, KindsOfEnvelopes DEF Route!RoutingAssumption, Line, Between, On
<1>8. Between(a, p, lo, e.id)
  BY <1>1, <1>7 DEF Line, Between
<1>9. Precedes(a, Append(b, e), p)
  BY <1>2, <1>4, <1>7 DEF Line, Precedes
<1> QED BY <1>1, <1>5, <1>6, <1>8, <1>9 DEF Line

\* The oldest frame of the queue may be dropped.
LEMMA OldestGoes ==
  ASSUME NEW a, NEW b \in Seq(Route!Frames), b # <<>>, NEW p, NEW lo, NEW hi, Line(a, b, p, lo,
         hi)
  PROVE  Line(a, Tail(b), p, lo, hi)
<1>1. /\ Len(Tail(b)) = Len(b) - 1 /\ Len(b) \in Nat \ {0}
      /\ \A i \in 1..Len(Tail(b)) : Tail(b)[i] = b[i + 1]
  BY Shortened
<1>2. \A i \in 1..Len(Tail(b)) : i + 1 \in 1..Len(b)
  BY <1>1
<1>3. \A i, j \in 1..Len(Tail(b)) : i < j => i + 1 < j + 1
  BY <1>1
<1> QED BY <1>1, <1>2, <1>3, Zenon DEF Line, Ascends, Between, Precedes

\* The head of the chain may be sent, and heard if it is a frame of p.
LEMMA HeadGoes ==
  ASSUME NEW a \in Seq(Route!Envelopes), a # <<>>, NEW b \in Seq(Route!Frames), NEW p,
         NEW lo \in Nat,
         NEW hi \in Nat, Line(a, b, p, lo, hi)
  PROVE  /\ Line(Tail(a), b, p, lo, hi)
         /\ On(Head(a), p) => Line(Tail(a), b, p, Head(a).id, hi)
<1>1. /\ Len(Tail(a)) = Len(a) - 1 /\ Len(a) \in Nat \ {0}
      /\ \A i \in 1..Len(Tail(a)) : Tail(a)[i] = a[i + 1]
      /\ Head(a) = a[1]
  BY Shortened
<1>2. \A i \in 1..Len(Tail(a)) : i + 1 \in 1..Len(a) /\ 1 < i + 1
  BY <1>1
<1>3. \A i, j \in 1..Len(Tail(a)) : i < j => i + 1 < j + 1
  BY <1>1
<1>4. 1 \in 1..Len(a)
  BY <1>1
<1>5. Line(Tail(a), b, p, lo, hi)
  BY <1>1, <1>2, <1>3, Zenon DEF Line, Ascends, Between, Precedes
<1>6. ASSUME On(Head(a), p) PROVE Line(Tail(a), b, p, Head(a).id, hi)
  <2>1. Between(Tail(a), p, Head(a).id, hi)
    BY <1>1, <1>2, <1>4, <1>6, Zenon DEF Line, Ascends, Between
  <2>2. Between(b, p, Head(a).id, hi)
    BY <1>1, <1>4, <1>6, Zenon DEF Line, Precedes, Between
  <2>3. Head(a).id <= hi
    BY <1>1, <1>4, <1>6, Zenon DEF Line, Between
  <2> QED BY <1>5, <2>1, <2>2, <2>3 DEF Line
<1> QED BY <1>5, <1>6

\* The oldest frame of the queue may join the chain.
LEMMA NextIsSent ==
  ASSUME NEW a \in Seq(Route!Envelopes), NEW b \in Seq(Route!Frames), b # <<>>, NEW p,
         NEW lo \in Nat,
         NEW hi \in Nat, Line(a, b, p, lo, hi)
  PROVE  Line(Append(a, Head(b)), Tail(b), p, lo, hi)
<1>1. /\ Len(Tail(b)) = Len(b) - 1 /\ Len(b) \in Nat \ {0}
      /\ \A i \in 1..Len(Tail(b)) : Tail(b)[i] = b[i + 1]
      /\ Head(b) = b[1] /\ Head(b) \in Route!Frames
  BY Shortened
<1>2. Head(b) \in Route!Envelopes
  BY <1>1, EnvelopesAre
<1>3. /\ Len(Append(a, Head(b))) = Len(a) + 1 /\ Len(a) \in Nat
      /\ \A i \in 1..Len(a) : Append(a, Head(b))[i] = a[i]
      /\ Append(a, Head(b))[Len(a) + 1] = b[1]
  BY <1>1, <1>2, Appended
<1>4. \A i \in 1..(Len(a) + 1) : i \in 1..Len(a) \/ i = Len(a) + 1
  BY <1>3
<1>5. \A i \in 1..Len(Tail(b)) : i + 1 \in 1..Len(b) /\ 1 < i + 1
  BY <1>1
<1>6. 1 \in 1..Len(b)
  BY <1>1
<1>7. Line(a, Tail(b), p, lo, hi)
  BY OldestGoes
<1>8. Ascends(Append(a, Head(b)), p)
  BY <1>3, <1>4, <1>6 DEF Line, Ascends, Precedes
<1>9. Between(Append(a, Head(b)), p, lo, hi)
  BY <1>3, <1>4, <1>6 DEF Line, Between
<1>10. Precedes(Append(a, Head(b)), Tail(b), p)
  <2>1. \A j \in 1..Len(Tail(b)) : On(b[1], p) /\ On(Tail(b)[j], p) => b[1].id < Tail(b)[j].id
    BY <1>1, <1>5, <1>6, Zenon DEF Line, Ascends
  <2>2. \A i \in 1..Len(a), j \in 1..Len(Tail(b)) :
          On(a[i], p) /\ On(Tail(b)[j], p) => a[i].id < Tail(b)[j].id
    BY <1>7 DEF Line, Precedes
  <2> QED BY <1>3, <1>4, <2>1, <2>2 DEF Precedes
<1> QED BY <1>7, <1>8, <1>9, <1>10 DEF Line

\* Nothing is in order.
LEMMA NothingLeft ==
  ASSUME NEW a, NEW b, NEW p, NEW lo, NEW hi, Line(a, b, p, lo, hi)
  PROVE  Line(a, <<>>, p, lo, hi) /\ Line(<<>>, <<>>, p, lo, hi)
BY DEF Line, Ascends, Between, Precedes

\* The publisher may have published more.
LEMMA LaterPublished ==
  ASSUME Route!RoutingAssumption,
         NEW a \in Seq(Route!Envelopes), NEW b \in Seq(Route!Frames), NEW p, NEW lo \in Nat,
         NEW hi \in Nat,
         Line(a, b, p, lo, hi), NEW n \in Nat, hi <= n
  PROVE  Line(a, b, p, lo, n)
<1>1. \A i \in 1..Len(a) : On(a[i], p) => a[i].id \in Nat
  BY KindsOfEnvelopes DEF Route!RoutingAssumption, On
<1>2. \A i \in 1..Len(b) : b[i].id \in Nat
  BY DEF Route!RoutingAssumption, Route!Frames, Route!Frame
<1> QED BY <1>1, <1>2 DEF Line, Between

-----------------------------------------------------------------------------
(* What a client knows of its sessions when it has had what is in q *)

\* What the client will believe once a snapshot at the head of q has arrived.
Base(q, v) == IF q # <<>> /\ Head(q).kind = "snapshot" THEN Head(q).view ELSE v

AfterEvent(S, e) == IF e.in THEN S \cup {e.session} ELSE S \ {e.session}

\* A snapshot is at the head only, one session message is under way at most, and
\* with it the client knows S, if it knows anything.
SnapshotFirst(q) ==
  \A i \in 1..Len(q) : q[i].kind # "result" /\ (q[i].kind = "snapshot" => i = 1)

OneEvent(q) ==
  \A i, j \in 1..Len(q) : q[i].kind = "session" /\ q[j].kind = "session" => i = j

NoEvent(q) == \A i \in 1..Len(q) : q[i].kind # "session"

EventsTell(q, v, S) ==
  \A i \in 1..Len(q) : q[i].kind = "session" => AfterEvent(v, q[i]) = S

Knowing(q, v, S) ==
  /\ SnapshotFirst(q) /\ OneEvent(q)
  /\ Base(q, v) # Unknown =>
       (NoEvent(q) => Base(q, v) = S) /\ EventsTell(q, Base(q, v), S)

\* An envelope that is no snapshot leaves the last snapshot the last.
LEMMA BaseStays ==
  ASSUME NEW q \in Seq(Route!Envelopes), NEW v, NEW e \in Route!Envelopes, e.kind # "snapshot"
  PROVE  Base(Append(q, e), v) = Base(q, v)
<1>1. CASE q = <<>>
  <2>1. Head(Append(q, e)) = e /\ Append(q, e) # <<>>
    BY <1>1
  <2> QED BY <1>1, <2>1 DEF Base
<1>2. CASE q # <<>>
  <2>1. Head(Append(q, e)) = Head(q) /\ Append(q, e) # <<>>
    BY <1>2
  <2> QED BY <1>2, <2>1 DEF Base
<1> QED BY <1>1, <1>2

\* A message that is about no session
LEMMA OthersTellNothing ==
  ASSUME NEW q \in Seq(Route!Envelopes), NEW v, NEW S, Knowing(q, v, S),
         NEW e \in Route!Envelopes, e.kind \in {"frame", "stop", "ack"}
  PROVE  Knowing(Append(q, e), v, S)
<1>1. /\ Len(Append(q, e)) = Len(q) + 1 /\ Len(q) \in Nat
      /\ \A i \in 1..Len(q) : Append(q, e)[i] = q[i]
      /\ Append(q, e)[Len(q) + 1] = e
  BY Appended
<1>2. \A i \in 1..(Len(q) + 1) : i \in 1..Len(q) \/ i = Len(q) + 1
  BY <1>1
<1>3. Base(Append(q, e), v) = Base(q, v)
  BY BaseStays
<1>4. \A i \in 1..Len(Append(q, e)) : Append(q, e)[i].kind \notin {"frame", "stop", "ack"} =>
         i \in 1..Len(q) /\ Append(q, e)[i] = q[i]
  BY <1>1, <1>2
<1>5. \A i \in 1..Len(q) : i \in 1..Len(Append(q, e))
  BY <1>1
<1>6. SnapshotFirst(Append(q, e))
  BY <1>1, <1>4 DEF Knowing, SnapshotFirst
<1>7. OneEvent(Append(q, e))
  BY <1>4 DEF Knowing, OneEvent
<1>8. NoEvent(Append(q, e)) => NoEvent(q)
  BY <1>1, <1>5 DEF NoEvent
<1>9. EventsTell(q, Base(q, v), S) => EventsTell(Append(q, e), Base(q, v), S)
  BY <1>4 DEF EventsTell
<1> QED BY <1>3, <1>6, <1>7, <1>8, <1>9 DEF Knowing

\* A message about a session, when there is no other
LEMMA EventTells ==
  ASSUME NEW q \in Seq(Route!Envelopes), NEW v, NEW S, Knowing(q, v, S), NoEvent(q),
         NEW e \in Route!Envelopes, e.kind = "session", NEW T, T = AfterEvent(S, e)
  PROVE  Knowing(Append(q, e), v, T)
<1>1. /\ Len(Append(q, e)) = Len(q) + 1 /\ Len(q) \in Nat
      /\ \A i \in 1..Len(q) : Append(q, e)[i] = q[i]
      /\ Append(q, e)[Len(q) + 1] = e
  BY Appended
<1>2. \A i \in 1..(Len(q) + 1) : i \in 1..Len(q) \/ i = Len(q) + 1
  BY <1>1
<1>3. Base(Append(q, e), v) = Base(q, v)
  BY BaseStays
<1>4. \A i \in 1..Len(Append(q, e)) : Append(q, e)[i].kind = "session" =>
         i = Len(q) + 1 /\ Append(q, e)[i] = e
  BY <1>1, <1>2 DEF NoEvent
<1>5. SnapshotFirst(Append(q, e))
  BY <1>1, <1>2 DEF Knowing, SnapshotFirst
<1>6. OneEvent(Append(q, e))
  BY <1>4 DEF OneEvent
<1>7. ~NoEvent(Append(q, e))
  BY <1>1 DEF NoEvent
<1>8. Base(q, v) # Unknown => Base(q, v) = S
  BY DEF Knowing
<1>9. Base(q, v) = S => EventsTell(Append(q, e), Base(q, v), T)
  BY <1>4 DEF EventsTell
<1> QED BY <1>3, <1>5, <1>6, <1>7, <1>8, <1>9 DEF Knowing

\* The head is gone; when it was a snapshot the client believes it.
LEMMA HeadIsHeard ==
  ASSUME NEW q \in Seq(Route!Envelopes), q # <<>>, NEW v, NEW S, Knowing(q, v, S)
  PROVE  /\ SnapshotFirst(Tail(q)) /\ OneEvent(Tail(q))
         /\ \A w : Base(Tail(q), w) = w
         /\ Head(q).kind \notin {"session", "snapshot"} => Knowing(Tail(q), v, S)
         /\ Head(q).kind = "snapshot" => Knowing(Tail(q), Head(q).view, S)
         /\ Head(q).kind = "session" =>
              /\ Knowing(Tail(q), Unknown, S)
              /\ v # Unknown => Knowing(Tail(q), AfterEvent(v, Head(q)), S)
<1>1. /\ Tail(q) \in Seq(Route!Envelopes) /\ Len(Tail(q)) = Len(q) - 1 /\ Len(q) \in Nat \ {0}
      /\ \A i \in 1..Len(Tail(q)) : Tail(q)[i] = q[i + 1]
      /\ Head(q) = q[1]
  BY Shortened
<1>2. \A i \in 1..Len(Tail(q)) : i + 1 \in 1..Len(q) /\ i + 1 # 1 /\ 1 \in 1..Len(q)
  BY <1>1
<1>3. \A i, j \in 1..Len(Tail(q)) : i + 1 = j + 1 => i = j
  BY <1>1
<1>4. \A i \in 1..Len(Tail(q)) : Tail(q)[i].kind \notin {"result", "snapshot"}
  BY <1>1, <1>2 DEF Knowing, SnapshotFirst
<1>5. SnapshotFirst(Tail(q))
  BY <1>4 DEF SnapshotFirst
<1>6. OneEvent(Tail(q))
  BY <1>1, <1>2, <1>3 DEF Knowing, OneEvent
<1>7. ASSUME NEW w PROVE Base(Tail(q), w) = w
  <2>1. CASE Tail(q) = <<>>
    BY <2>1 DEF Base
  <2>2. CASE Tail(q) # <<>>
    <3>1. Head(Tail(q)) = Tail(q)[1] /\ 1 \in 1..Len(Tail(q))
      BY <1>1, <2>2
    <3>2. Head(Tail(q)).kind # "snapshot"
      BY <1>4, <3>1
    <3> QED BY <3>2 DEF Base
  <2> QED BY <2>1, <2>2
<1>8. \A w : EventsTell(q, w, S) => EventsTell(Tail(q), w, S)
  BY <1>1, <1>2 DEF EventsTell
<1>9. 1 \in 1..Len(q) /\ \A i \in 1..Len(q) : i = 1 \/ i - 1 \in 1..Len(Tail(q))
  BY <1>1
<1>10. \A i \in 1..Len(q) : i - 1 \in 1..Len(Tail(q)) => Tail(q)[i - 1] = q[i]
  BY <1>1
<1>11. Head(q).kind # "session" => (NoEvent(Tail(q)) => NoEvent(q))
  BY <1>1, <1>9, <1>10 DEF NoEvent
<1>12. ASSUME Head(q).kind \notin {"session", "snapshot"} PROVE Knowing(Tail(q), v, S)
  <2>1. Base(q, v) = v
    BY <1>12 DEF Base
  <2> QED BY <1>5, <1>6, <1>7, <1>8, <1>11, <1>12, <2>1 DEF Knowing
<1>13. ASSUME Head(q).kind = "snapshot" PROVE Knowing(Tail(q), Head(q).view, S)
  <2>1. Base(q, v) = Head(q).view
    BY <1>13 DEF Base
  <2> QED BY <1>5, <1>6, <1>7, <1>8, <1>11, <1>13, <2>1 DEF Knowing
<1>14. ASSUME Head(q).kind = "session" PROVE Knowing(Tail(q), Unknown, S)
  BY <1>5, <1>6, <1>7 DEF Knowing
<1>15. ASSUME Head(q).kind = "session", v # Unknown
       PROVE  Knowing(Tail(q), AfterEvent(v, Head(q)), S)
  <2>1. Base(q, v) = v
    BY <1>15 DEF Base
  <2>2. AfterEvent(v, Head(q)) = S
    BY <1>1, <1>9, <1>15, <2>1 DEF Knowing, EventsTell
  <2>3. NoEvent(Tail(q))
    BY <1>1, <1>2, <1>9, <1>15 DEF Knowing, OneEvent, NoEvent
  <2>4. EventsTell(Tail(q), AfterEvent(v, Head(q)), S)
    BY <2>3 DEF EventsTell, NoEvent
  <2> QED BY <1>5, <1>6, <1>7, <2>2, <2>4 DEF Knowing
<1> QED BY <1>5, <1>6, <1>7, <1>12, <1>13, <1>14, <1>15

\* Behind a snapshot of its sessions the client knows them.
LEMMA SnapshotTells ==
  ASSUME NEW v, NEW S \in SUBSET Sessions
  PROVE  Knowing(<<Route!Snapshot(S)>>, v, S)
<1>1. /\ Len(<<Route!Snapshot(S)>>) = 1 /\ <<Route!Snapshot(S)>>[1] = Route!Snapshot(S)
      /\ Head(<<Route!Snapshot(S)>>) = Route!Snapshot(S) /\ <<Route!Snapshot(S)>> # <<>>
  OBVIOUS
<1>2. Route!Snapshot(S).kind = "snapshot" /\ Route!Snapshot(S).view = S
  BY DEF Route!Snapshot
<1>3. \A i \in 1..1 : i = 1
  OBVIOUS
<1> HIDE DEF Route!Snapshot
<1>4. Base(<<Route!Snapshot(S)>>, v) = S
  BY <1>1, <1>2 DEF Base
<1> QED
  BY <1>1, <1>2, <1>3, <1>4 DEF Knowing, SnapshotFirst, OneEvent, NoEvent, EventsTell

-----------------------------------------------------------------------------
(* The invariant *)

LineOf(c, p) == Line(outbox[c], queue[c], p, heard[c][p], published[p])

\* The sequences of a transport and of its publisher are bounded.
Bounded ==
  \A c \in Connections : received[c] <= MaxPackets /\ published[c] <= MaxFrames + MaxPackets

\* A drain is idle only over an empty queue: a frame that it takes at once overtakes none.
OrderInv ==
  /\ \A c \in Connections : drain[c] = "idle" => queue[c] = <<>>
  /\ \A c, p \in Connections : LineOf(c, p)

\* The sessions of a followed client, and those whose end it was not told
Believed(c) == Route!SessionsOf(c) \cup untold[c]

KnowInv == \A c \in open \ Requesting : Knowing(outbox[c], view[c], Believed(c))

RoutingInv == Route!TypeOK /\ Bounded /\ OrderInv /\ KnowInv

\* Every connection of C is sent an envelope.
Added(C, E) ==
  outbox' = [c \in Connections |-> IF c \in C THEN Append(outbox[c], E[c]) ELSE outbox[c]]

\* The chains have their type when some of them get an envelope.
LEMMA AddedTypes ==
  ASSUME Route!TypeOK, NEW C, NEW E \in [Connections -> Route!Envelopes], Added(C, E)
  PROVE  outbox' \in [Connections -> Seq(Route!Envelopes)]
<1>1. \A c \in Connections : /\ Append(outbox[c], E[c]) \in Seq(Route!Envelopes)
                             /\ outbox[c] \in Seq(Route!Envelopes)
  BY DEF Route!TypeOK
<1> QED BY <1>1 DEF Added

\* The lines stay in order when chains get envelopes that are no frames.
LEMMA AddedKeepsOrder ==
  ASSUME Route!TypeOK, OrderInv, NEW C, NEW E \in [Connections -> Route!Envelopes], Added(C, E),
         \A c \in C \cap Connections : E[c].kind # "frame",
         UNCHANGED <<queue, drain, heard, published>>
  PROVE  OrderInv'
<1>1. ASSUME NEW c \in Connections, NEW p \in Connections
      PROVE  LineOf(c, p)'
  <2>1. Line(outbox[c], queue[c], p, heard[c][p], published[p])
    BY DEF OrderInv, LineOf
  <2>2. CASE c \notin C
    BY <2>1, <2>2 DEF Added, LineOf
  <2>3. CASE c \in C
    <3>1. outbox[c] \in Seq(Route!Envelopes) /\ E[c] \in Route!Envelopes /\ ~On(E[c], p)
      BY <2>3 DEF Route!TypeOK, On
    <3>2. Line(Append(outbox[c], E[c]), queue[c], p, heard[c][p], published[p])
      BY <2>1, <3>1, OthersJoin
    <3>3. outbox'[c] = Append(outbox[c], E[c])
      BY <2>3 DEF Added
    <3> QED BY <3>2, <3>3 DEF LineOf
  <2> QED BY <2>2, <2>3
<1> QED BY <1>1 DEF OrderInv

\* What the clients will know when chains get envelopes that tell nothing
LEMMA AddedKeepsKnown ==
  ASSUME Route!TypeOK, KnowInv, NEW C, NEW E \in [Connections -> Route!Envelopes], Added(C, E),
         \A c \in C \cap Connections : c \in Requesting \/ E[c].kind \in {"frame", "stop", "ack"},
         UNCHANGED <<members, untold, removed, open, view>>
  PROVE  KnowInv'
<1>1. ASSUME NEW c \in open \ Requesting
      PROVE  Knowing(outbox[c], view[c], Believed(c))'
  <2>1. c \in Connections /\ outbox[c] \in Seq(Route!Envelopes) /\ E[c] \in Route!Envelopes
    BY DEF Route!TypeOK
  <2>2. Knowing(outbox[c], view[c], Believed(c))
    BY DEF KnowInv
  <2>3. Believed(c)' = Believed(c)
    BY DEF Believed, Route!SessionsOf
  <2>4. CASE c \notin C
    BY <2>1, <2>2, <2>3, <2>4 DEF Added
  <2>5. CASE c \in C
    <3>1. Knowing(Append(outbox[c], E[c]), view[c], Believed(c))
      BY <2>1, <2>2, <2>5, OthersTellNothing
    <3>2. outbox'[c] = Append(outbox[c], E[c])
      BY <2>1, <2>5 DEF Added
    <3> QED BY <2>3, <3>1, <3>2
  <2> QED BY <2>4, <2>5
<1> QED BY <1>1 DEF KnowInv

\* What is not touched stays.
LEMMA SameLines ==
  ASSUME OrderInv, UNCHANGED <<outbox, queue, drain, heard, published>>
  PROVE  OrderInv'
BY DEF OrderInv, LineOf

\* What the clients know depends on their chains, their views and the sessions only.
LEMMA SameKnowledge ==
  ASSUME Route!TypeOK, KnowInv, UNCHANGED <<open, outbox, view>>,
         \A d \in Connections \ Requesting : Believed(d)' = Believed(d)
  PROVE  KnowInv'
BY DEF KnowInv, Route!TypeOK

\* No belief changes with the rest.
LEMMA SameBeliefs ==
  ASSUME UNCHANGED <<members, untold>>
  PROVE  \A d \in Connections \ Requesting : Believed(d)' = Believed(d)
BY DEF Believed, Route!SessionsOf

\* Who is not told that its session ended goes on believing to be in it.
LEMMA SilenceKeepsBeliefs ==
  ASSUME Route!TypeOK, NEW M, Route!ChangeSilently(M),
         \A s \in Sessions : M[s] \subseteq members[s]
  PROVE  \A d \in Connections \ Requesting : Believed(d)' = Believed(d)
<1> SUFFICES ASSUME NEW d \in Connections \ Requesting
             PROVE  Believed(d)' = Believed(d)
  OBVIOUS
<1>1. members' = M
      /\ untold'[d] = untold[d] \cup {s \in Sessions : d \in members[s] \ M[s]}
  BY DEF Route!ChangeSilently, Route!Followed
<1>2. Route!SessionsOf(d)' = {s \in Sessions : d \in M[s]}
  BY <1>1 DEF Route!SessionsOf
<1>3. Route!SessionsOf(d) = {s \in Sessions : d \in members[s]}
  BY DEF Route!SessionsOf
<1> QED BY <1>1, <1>2, <1>3 DEF Believed

\* What changes silently has the types.
LEMMA SilenceTypes ==
  ASSUME Route!TypeOK, NEW M \in [Sessions -> SUBSET Connections], Route!ChangeSilently(M)
  PROVE  /\ members' \in [Sessions -> SUBSET Connections]
         /\ untold' \in [Route!Followed -> SUBSET Sessions]
BY DEF Route!TypeOK, Route!ChangeSilently

\* A transport that closes takes what was on its way with it.
LEMMA CloseKeeps ==
  ASSUME Route!TypeOK, OrderInv, KnowInv, NEW c \in Connections, Route!Close(c),
         UNCHANGED <<heard, published>>,
         \A d \in Connections \ Requesting : Believed(d)' = Believed(d)
  PROVE  OrderInv' /\ KnowInv'
<1>1. ASSUME NEW d \in Connections, NEW p \in Connections PROVE LineOf(d, p)'
  <2>1. Line(outbox[d], queue[d], p, heard[d][p], published[p])
    BY DEF OrderInv, LineOf
  <2>2. CASE d # c
    BY <2>1, <2>2 DEF Route!Close, LineOf, Route!TypeOK
  <2>3. CASE d = c
    <3>1. Line(<<>>, <<>>, p, heard[d][p], published[p])
      BY <2>1, NothingLeft
    <3>2. outbox'[d] = <<>> /\ queue'[d] = <<>>
      BY <2>3 DEF Route!Close, Route!TypeOK
    <3> QED BY <3>1, <3>2 DEF LineOf
  <2> QED BY <2>2, <2>3
<1>2. \A d \in Connections : drain'[d] = "idle" => queue'[d] = <<>>
  BY DEF OrderInv, Route!Close, Route!TypeOK
<1>3. ASSUME NEW d \in open' \ Requesting
      PROVE  Knowing(outbox[d], view[d], Believed(d))'
  <2>1. d \in open \ Requesting /\ d # c /\ d \in Connections
    BY DEF Route!Close, Route!TypeOK
  <2>2. Knowing(outbox[d], view[d], Believed(d))
        /\ Believed(d)' = Believed(d)
    BY <2>1 DEF KnowInv
  <2>3. outbox'[d] = outbox[d] /\ view'[d] = view[d]
    BY <2>1 DEF Route!Close, Route!Believing, Route!Followed, Route!TypeOK
  <2> QED BY <2>2, <2>3
<1>4. OrderInv'
  BY <1>1, <1>2 DEF OrderInv
<1> QED BY <1>3, <1>4 DEF KnowInv

\* A closed transport has the types.
LEMMA CloseTypes ==
  ASSUME Route!RoutingAssumption,
         Route!TypeOK, NEW c \in Connections, Route!Close(c)
  PROVE  /\ open' \subseteq Connections
         /\ busy' \in [Connections -> {"no", "answer", "stopping"}]
         /\ queue' \in [Connections -> Seq(Route!Frames)]
         /\ \A d \in Connections : Len(queue'[d]) <= Capacity
         /\ drain' \in [Connections -> {"idle", "sending", "sent", "failed", "ending"}]
         /\ outbox' \in [Connections -> Seq(Route!Envelopes)]
         /\ view' \in [Route!Followed -> (SUBSET Sessions) \cup {Unknown}]
<1>1. <<>> \in Seq(Route!Frames) /\ <<>> \in Seq(Route!Envelopes) /\ Len(<<>>) <= Capacity
  BY DEF Route!RoutingAssumption
<1>2. \A d \in Connections : queue'[d] = IF d = c THEN <<>> ELSE queue[d]
  BY DEF Route!Close, Route!TypeOK
<1>3. \A d \in Connections : Len(queue'[d]) <= Capacity
  BY <1>1, <1>2 DEF Route!TypeOK
<1>4. /\ queue' \in [Connections -> Seq(Route!Frames)]
      /\ outbox' \in [Connections -> Seq(Route!Envelopes)]
  BY <1>1 DEF Route!Close, Route!TypeOK
<1>5. view' \in [Route!Followed -> (SUBSET Sessions) \cup {Unknown}]
  <2> DEFINE X == (SUBSET Sessions) \cup {Unknown}
  <2>1. view' = [d \in Route!Followed |-> IF d = c THEN Unknown ELSE view[d]] /\ Unknown \in X
    BY DEF Route!Close, Route!Believing
  <2>2. view \in [Route!Followed -> X]
    BY DEF Route!TypeOK
  <2> HIDE DEF X
  <2>3. view' \in [Route!Followed -> X]
    BY <2>1, <2>2
  <2> QED BY <2>3 DEF X
<1>6. /\ open' \subseteq Connections
      /\ busy' \in [Connections -> {"no", "answer", "stopping"}]
      /\ drain' \in [Connections -> {"idle", "sending", "sent", "failed", "ending"}]
  BY DEF Route!Close, Route!TypeOK
<1> QED BY <1>3, <1>4, <1>5, <1>6

\* The sequence of a transport counts to its bound.
LEMMA ReceivedTypes ==
  ASSUME Route!RoutingAssumption,
         Route!TypeOK, Bounded, NEW c \in Connections, Route!Receive(c)
  PROVE  /\ received' \in [Connections -> Nat]
         /\ \A d \in Connections : received'[d] <= MaxPackets
         /\ c \in open
BY DEF Route!RoutingAssumption, Route!TypeOK, Bounded, Route!Receive

\* The invariant across an answer.
LEMMA AnswerKeeps ==
  ASSUME Route!TypeOK, OrderInv, KnowInv, NEW c \in Connections, NEW e \in Route!Envelopes,
         Route!Answer(c, e),
         e.kind = "ack" \/ (e.kind = "result" /\ c \in Requesting),
         UNCHANGED <<members, untold, removed, heard, view, published>>
  PROVE  /\ OrderInv' /\ KnowInv'
         /\ busy' \in [Connections -> {"no", "answer", "stopping"}]
         /\ outbox' \in [Connections -> Seq(Route!Envelopes)]
<1> DEFINE E == [d \in Connections |-> e]
<1>1. E \in [Connections -> Route!Envelopes]
  OBVIOUS
<1>2. Added({c}, E)
  BY DEF Route!Answer, Added, Route!TypeOK
<1>3. \A d \in {c} \cap Connections : E[d].kind # "frame"
  OBVIOUS
<1>4. \A d \in {c} \cap Connections : d \in Requesting \/ E[d].kind \in {"frame", "stop", "ack"}
  OBVIOUS
<1>5. UNCHANGED <<queue, drain, open>>
  BY DEF Route!Answer
<1> HIDE DEF E
<1>6. OrderInv'
  BY <1>1, <1>2, <1>3, <1>5, AddedKeepsOrder
<1>7. KnowInv'
  BY <1>1, <1>2, <1>4, <1>5, AddedKeepsKnown
<1>8. outbox' \in [Connections -> Seq(Route!Envelopes)]
  BY <1>1, <1>2, AddedTypes
<1>9. busy' \in [Connections -> {"no", "answer", "stopping"}]
  BY DEF Route!Answer, Route!TypeOK
<1> QED BY <1>6, <1>7, <1>8, <1>9

-----------------------------------------------------------------------------
(* The steps *)

\* The invariant across the changes of sessions.
LEMMA SessionChangesKeeps ==
  ASSUME RoutingInv, NEW s \in Sessions, NEW M \in SUBSET Connections, Route!SessionChanges(s, M)
  PROVE  RoutingInv'
<1> DEFINE E == [c \in Connections |-> IF c \in M THEN Route!Joined(s) ELSE Route!Left(s)]
           C == (members[s] \cup M) \cap open
<1>1. /\ E \in [Connections -> Route!Envelopes]
      /\ \A c \in Connections :
           E[c].kind = "session" /\ E[c] = IF c \in M THEN Route!Joined(s) ELSE Route!Left(s)
  BY EnvelopesAre
<1>2. Added(C, E)
  BY DEF Route!SessionChanges, Route!Sent, Added
<1>3. /\ members' = [members EXCEPT ![s] = M]
      /\ untold' = [c \in Route!Followed |->
           IF c \in members[s] \cup M THEN untold[c] \ {s} ELSE untold[c]]
      /\ UNCHANGED <<removed, open, Route!controlVars, Route!sequenceVars, busy, queue, drain,
                     Route!clientVars>>
      /\ \A c \in Connections : NoEvent(outbox[c])
  BY DEF Route!SessionChanges, NoEvent, RoutingInv, Route!TypeOK
<1>4. \A c \in C \cap Connections : E[c].kind # "frame"
  BY <1>1
<1> HIDE DEF E
<1>5. Route!TypeOK /\ OrderInv /\ Bounded /\ KnowInv
  BY DEF RoutingInv
<1>6. outbox' \in [Connections -> Seq(Route!Envelopes)]
  BY <1>1, <1>2, <1>5, AddedTypes
<1>7. members' \in [Sessions -> SUBSET Connections]
      /\ untold' \in [Route!Followed -> SUBSET Sessions]
  BY <1>3, <1>5 DEF Route!TypeOK
<1>8. Route!TypeOK' /\ Bounded'
  BY <1>3, <1>5, <1>6, <1>7 DEF Route!TypeOK, Bounded, Route!controlVars,
     Route!sequenceVars, Route!clientVars
<1>9. OrderInv'
  <2>1. UNCHANGED <<queue, drain, heard, published>>
    BY <1>3 DEF Route!sequenceVars, Route!clientVars
  <2> HIDE DEF C
  <2> QED BY <1>1, <1>2, <1>4, <1>5, <2>1, AddedKeepsOrder
<1>10. ASSUME NEW c \in open' \ Requesting
       PROVE  Knowing(outbox[c], view[c], Believed(c))'
  <2>1. c \in Connections /\ c \in open /\ outbox[c] \in Seq(Route!Envelopes)
        /\ view'[c] = view[c]
    BY <1>3, <1>5 DEF Route!TypeOK, Route!clientVars
  <2>2. Knowing(outbox[c], view[c], Believed(c))
    BY <1>3, <1>5 DEF KnowInv
  <2>3. Route!SessionsOf(c)' = IF c \in M THEN Route!SessionsOf(c) \cup {s}
                                        ELSE Route!SessionsOf(c) \ {s}
    BY <1>3, <1>5 DEF Route!SessionsOf, Route!TypeOK
  <2>6. untold'[c] = IF c \in members[s] \cup M THEN untold[c] \ {s} ELSE untold[c]
    BY <1>3, <2>1 DEF Route!Followed
  <2>4. CASE c \notin C
    <3>1. c \notin M /\ c \notin members[s] /\ s \notin Route!SessionsOf(c)
      BY <2>1, <2>4 DEF Route!SessionsOf
    <3>2. Believed(c)' = Believed(c)
      BY <2>3, <2>6, <3>1 DEF Believed
    <3>3. outbox'[c] = outbox[c]
      BY <1>2, <2>1, <2>4 DEF Added
    <3> QED BY <2>1, <2>2, <3>2, <3>3
  <2>5. CASE c \in C
    <3>1. outbox'[c] = Append(outbox[c], E[c]) /\ E[c] \in Route!Envelopes
      BY <1>1, <1>2, <2>1, <2>5 DEF Added
    <3>2. Believed(c)' = AfterEvent(Believed(c), E[c])
      <4>1. CASE c \in M
        <5>1. E[c].session = s /\ E[c].in = TRUE
          BY <1>1, <2>1, <4>1 DEF Route!Joined
        <5> QED BY <2>3, <2>6, <4>1, <5>1 DEF AfterEvent, Believed
      <4>2. CASE c \notin M
        <5>1. E[c].session = s /\ E[c].in = FALSE
          BY <1>1, <2>1, <4>2 DEF Route!Left
        <5>2. c \in members[s]
          BY <2>5, <4>2
        <5> QED BY <2>3, <2>6, <4>2, <5>1, <5>2 DEF AfterEvent, Believed
      <4> QED BY <4>1, <4>2
    <3>3. Knowing(Append(outbox[c], E[c]), view[c], Believed(c)')
      BY <1>1, <1>3, <2>1, <2>2, <3>1, <3>2, EventTells
    <3> QED BY <2>1, <3>1, <3>3
  <2> QED BY <2>4, <2>5
<1>11. KnowInv'
  BY <1>10 DEF KnowInv
<1> QED BY <1>8, <1>9, <1>11 DEF RoutingInv

\* The invariant across a transport that closes.
LEMMA TransportClosesKeeps ==
  ASSUME Route!RoutingAssumption,
         RoutingInv, NEW c \in Connections, Route!TransportCloses(c)
  PROVE  RoutingInv'
<1>1. /\ Route!Close(c) /\ Route!TypeOK /\ Bounded /\ OrderInv /\ KnowInv
      /\ UNCHANGED <<members, untold, removed, publishing, muted, received, accepted,
                     published, heard>>
  BY DEF RoutingInv, Route!TransportCloses, Route!envVars, Route!controlVars,
     Route!sequenceVars
<1>2. Route!TypeOK'
  BY <1>1, CloseTypes DEF Route!TypeOK
<1>3. Bounded'
  BY <1>1 DEF Bounded
<1> QED BY <1>1, <1>2, <1>3, CloseKeeps, SameBeliefs DEF RoutingInv

\* What removeParticipant leaves of the sessions
LEMMA WithoutIsLess ==
  ASSUME Route!TypeOK, NEW c \in Connections
  PROVE  /\ Route!Without(c) \in [Sessions -> SUBSET Connections]
         /\ \A s \in Sessions : Route!Without(c)[s] \subseteq members[s]
BY DEF Route!TypeOK, Route!Without

\* The invariant across a connection that is removed.
LEMMA RemoveConnectionKeeps ==
  ASSUME Route!RoutingAssumption,
         RoutingInv, NEW c \in Connections, Route!RemoveConnection(c)
  PROVE  RoutingInv'
<1>1. /\ Route!TypeOK /\ Bounded /\ OrderInv /\ KnowInv
      /\ Route!ChangeSilently(Route!Without(c)) /\ removed' = removed \cup {c}
      /\ muted' = [l \in Connections |-> IF l = c THEN {} ELSE muted[l] \ {c}]
      /\ accepted' = [accepted EXCEPT ![c] = 0]
      /\ UNCHANGED <<publishing, received, published, heard>>
      /\ \/ Route!Close(c)
         \/ UNCHANGED <<open, busy, queue, drain, outbox, view>>
  BY DEF RoutingInv, Route!RemoveConnection, Route!sendVars
<1>2. /\ members' \in [Sessions -> SUBSET Connections]
      /\ untold' \in [Route!Followed -> SUBSET Sessions]
      /\ removed' \subseteq Connections
  BY <1>1, WithoutIsLess, SilenceTypes DEF Route!TypeOK
<1>3. \A d \in Connections \ Requesting : Believed(d)' = Believed(d)
  BY <1>1, WithoutIsLess, SilenceKeepsBeliefs
<1>4. /\ muted' \in [Connections -> SUBSET (Connections \cup Route!Everything)]
      /\ accepted' \in [Connections -> Nat]
  BY <1>1 DEF Route!TypeOK
<1>5. Bounded'
  BY <1>1 DEF Bounded
<1>6. CASE Route!Close(c)
  <2>1. Route!TypeOK'
    BY <1>1, <1>2, <1>4, <1>6, CloseTypes DEF Route!TypeOK
  <2>2. OrderInv' /\ KnowInv'
    BY <1>1, <1>3, <1>6, CloseKeeps
  <2> QED BY <1>5, <2>1, <2>2 DEF RoutingInv
<1>7. CASE UNCHANGED <<open, busy, queue, drain, outbox, view>>
  <2>1. Route!TypeOK'
    BY <1>1, <1>2, <1>4, <1>7 DEF Route!TypeOK
  <2>2. OrderInv' /\ KnowInv'
    BY <1>1, <1>3, <1>7, SameLines, SameKnowledge
  <2> QED BY <1>5, <2>1, <2>2 DEF RoutingInv
<1> QED BY <1>1, <1>6, <1>7

\* The invariant across the sessions that end with their server.
LEMMA SessionsEndKeeps ==
  ASSUME RoutingInv, NEW S \in SUBSET Sessions, Route!SessionsEnd(S)
  PROVE  RoutingInv'
<1> DEFINE M == [s \in Sessions |-> IF s \in S THEN {} ELSE members[s]]
<1>1. /\ Route!TypeOK /\ Bounded /\ OrderInv /\ KnowInv
      /\ Route!ChangeSilently(M)
      /\ UNCHANGED <<removed, open, publishing, muted, received, accepted, published, busy,
                     queue, drain, outbox, heard, view>>
  BY DEF RoutingInv, Route!SessionsEnd, Route!controlVars, Route!sequenceVars,
     Route!sendVars, Route!clientVars
<1>2. /\ M \in [Sessions -> SUBSET Connections]
      /\ \A s \in Sessions : M[s] \subseteq members[s]
  BY <1>1 DEF Route!TypeOK
<1> HIDE DEF M
<1>3. /\ members' \in [Sessions -> SUBSET Connections]
      /\ untold' \in [Route!Followed -> SUBSET Sessions]
  BY <1>1, <1>2, SilenceTypes
<1>4. Route!TypeOK' /\ Bounded'
  BY <1>1, <1>3 DEF Route!TypeOK, Bounded
<1>5. OrderInv' /\ KnowInv'
  BY <1>1, <1>2, SilenceKeepsBeliefs, SameLines, SameKnowledge
<1> QED BY <1>4, <1>5 DEF RoutingInv

\* The invariant across a client that resumes.
LEMMA ResumeKeeps ==
  ASSUME Route!RoutingAssumption,
         RoutingInv, NEW c \in Connections, Route!Resume(c)
  PROVE  RoutingInv'
<1>1. Route!TypeOK /\ Bounded /\ OrderInv /\ KnowInv
  BY DEF RoutingInv
<1>2. Route!SessionsOf(c) \in SUBSET Sessions
  BY DEF Route!SessionsOf
<1>3. Route!Snapshot(Route!SessionsOf(c)) \in Route!Envelopes
      /\ Route!Snapshot(Route!SessionsOf(c)).kind = "snapshot"
  BY <1>2, EnvelopesAre
<1>4. /\ outbox' = [outbox EXCEPT ![c] = <<Route!Snapshot(Route!SessionsOf(c))>>]
      /\ open' = open \cup {c}
      /\ received' = [received EXCEPT ![c] = 0] /\ accepted' = [accepted EXCEPT ![c] = 0]
      /\ busy' = [busy EXCEPT ![c] = "answer"]
      /\ untold' = [d \in Route!Followed |-> IF d = c THEN {} ELSE untold[d]]
      /\ UNCHANGED <<members, removed, publishing, muted, published, queue, drain, heard, view>>
  BY DEF Route!Resume, Route!controlVars, Route!clientVars
<1>5. outbox' \in [Connections -> Seq(Route!Envelopes)]
  BY <1>1, <1>3, <1>4 DEF Route!TypeOK
<1>6. Route!TypeOK'
  BY <1>1, <1>4, <1>5 DEF Route!TypeOK
<1>7. Bounded'
  BY <1>1, <1>4 DEF Route!RoutingAssumption, Bounded, Route!TypeOK
<1>8. ASSUME NEW d \in Connections, NEW p \in Connections PROVE LineOf(d, p)'
  <2>1. Line(outbox[d], queue[d], p, heard[d][p], published[p])
    BY <1>1 DEF OrderInv, LineOf
  <2>2. CASE d # c
    BY <1>1, <1>4, <2>1, <2>2 DEF LineOf, Route!TypeOK
  <2>3. CASE d = c
    <3>1. Line(<<>>, queue[d], p, heard[d][p], published[p])
      BY <2>1 DEF Line, Ascends, Between, Precedes
    <3>2. <<>> \in Seq(Route!Envelopes) /\ ~On(Route!Snapshot(Route!SessionsOf(c)), p)
      BY <1>3 DEF On
    <3>3. Line(Append(<<>>, Route!Snapshot(Route!SessionsOf(c))), queue[d], p, heard[d][p],
               published[p])
      BY <1>3, <3>1, <3>2, OthersJoin
    <3>4. outbox'[d] = Append(<<>>, Route!Snapshot(Route!SessionsOf(c)))
      BY <1>1, <1>4, <2>3 DEF Route!TypeOK
    <3> QED BY <1>4, <3>3, <3>4 DEF LineOf
  <2> QED BY <2>2, <2>3
<1>9. OrderInv'
  BY <1>1, <1>4, <1>8 DEF OrderInv
<1>10. ASSUME NEW d \in open' \ Requesting
       PROVE  Knowing(outbox[d], view[d], Believed(d))'
  <2>1. /\ Route!SessionsOf(d)' = Route!SessionsOf(d) /\ view'[d] = view[d]
        /\ d \in Route!Followed /\ d \in Connections
    BY <1>1, <1>4 DEF Route!SessionsOf, Route!Followed, Route!TypeOK
  <2>2. CASE d # c
    <3>1. Believed(d)' = Believed(d)
      BY <1>4, <2>1, <2>2 DEF Believed
    <3> QED BY <1>1, <1>4, <2>1, <2>2, <3>1 DEF KnowInv, Route!TypeOK
  <2>3. CASE d = c
    <3>1. outbox'[d] = <<Route!Snapshot(Route!SessionsOf(d))>>
      BY <1>1, <1>4, <2>3 DEF Route!TypeOK
    <3>2. Believed(d)' = Route!SessionsOf(d)
      BY <1>4, <2>1, <2>3 DEF Believed
    <3> QED BY <1>2, <2>1, <2>3, <3>1, <3>2, SnapshotTells
  <2> QED BY <2>2, <2>3
<1>11. KnowInv'
  BY <1>10 DEF KnowInv
<1> QED BY <1>6, <1>7, <1>9, <1>11 DEF RoutingInv

\* A packet whose answer is all that it sends
LEMMA AnsweredKeeps ==
  ASSUME Route!RoutingAssumption,
         RoutingInv, NEW c \in Connections, Route!Receive(c) \/ UNCHANGED received,
         NEW e \in Route!Envelopes, Route!Answer(c, e),
         e.kind = "ack" \/ (e.kind = "result" /\ c \in Requesting),
         UNCHANGED <<members, untold, removed, accepted, published, heard, view>>,
         publishing' \subseteq Connections,
         muted' \in [Connections -> SUBSET (Connections \cup Route!Everything)]
  PROVE  RoutingInv'
<1>1. Route!TypeOK /\ Bounded /\ OrderInv /\ KnowInv /\ UNCHANGED <<open, queue, drain>>
  BY DEF RoutingInv, Route!Answer
<1>2. received' \in [Connections -> Nat] /\ \A d \in Connections : received'[d] <= MaxPackets
  BY <1>1, ReceivedTypes DEF Route!TypeOK, Bounded
<1>3. /\ OrderInv' /\ KnowInv'
      /\ busy' \in [Connections -> {"no", "answer", "stopping"}]
      /\ outbox' \in [Connections -> Seq(Route!Envelopes)]
  BY <1>1, AnswerKeeps
<1>4. Route!TypeOK'
  BY <1>1, <1>2, <1>3 DEF Route!TypeOK
<1>5. Bounded'
  BY <1>1, <1>2 DEF Bounded
<1> QED BY <1>3, <1>4, <1>5 DEF RoutingInv

\* The invariant across PUBLISH_START.
LEMMA PublishStartKeeps ==
  ASSUME Route!RoutingAssumption,
         RoutingInv, NEW c \in Connections, Route!PublishStart(c)
  PROVE  RoutingInv'
<1>1. /\ Route!Receive(c) /\ Route!Answer(c, Route!Ack)
      /\ UNCHANGED <<members, untold, removed, accepted, published, heard, view, muted>>
      /\ publishing' \subseteq Connections
      /\ muted \in [Connections -> SUBSET (Connections \cup Route!Everything)]
  BY DEF Route!PublishStart, Route!envVars, Route!clientVars, RoutingInv,
     Route!TypeOK
<1> QED BY <1>1, EnvelopesAre, AnsweredKeeps

\* The invariant across a stop that is passed on.
LEMMA StopForwardedKeeps ==
  ASSUME Route!RoutingAssumption,
         RoutingInv, NEW c \in Connections, Route!StopForwarded(c)
  PROVE  RoutingInv'
<1>1. /\ UNCHANGED received /\ Route!Answer(c, Route!Ack)
      /\ UNCHANGED <<members, untold, removed, accepted, published, heard, view, muted,
                     publishing>>
      /\ publishing \subseteq Connections
      /\ muted \in [Connections -> SUBSET (Connections \cup Route!Everything)]
  BY DEF Route!StopForwarded, Route!envVars, Route!clientVars, Route!sequenceVars,
     Route!controlVars, RoutingInv, Route!TypeOK
<1> QED BY <1>1, EnvelopesAre, AnsweredKeeps

\* The invariant across RECONNECT_REQUEST.
LEMMA ReconnectRequestKeeps ==
  ASSUME Route!RoutingAssumption,
         RoutingInv, NEW c \in Connections, Route!ReconnectRequest(c)
  PROVE  RoutingInv'
<1>1. /\ Route!Receive(c) /\ Route!Answer(c, Route!Result(Route!SessionsOf(c)))
         /\ c \in Requesting
      /\ UNCHANGED <<members, untold, removed, accepted, published, heard, view, muted,
                     publishing>>
      /\ publishing \subseteq Connections
      /\ muted \in [Connections -> SUBSET (Connections \cup Route!Everything)]
  BY DEF Route!ReconnectRequest, Route!envVars, Route!clientVars,
     Route!sequenceVars, Route!controlVars, RoutingInv, Route!TypeOK
<1>2. Route!SessionsOf(c) \in SUBSET Sessions
  BY DEF Route!SessionsOf
<1>3. Route!Result(Route!SessionsOf(c)) \in Route!Envelopes
      /\ Route!Result(Route!SessionsOf(c)).kind = "result"
  BY <1>2, EnvelopesAre
<1> QED BY <1>1, <1>3, AnsweredKeeps

\* The invariant across the mutes.
LEMMA MuteKeeps ==
  ASSUME Route!RoutingAssumption,
         RoutingInv, NEW m \in Mutes, NEW on \in BOOLEAN, Route!Mute(m[1], m[2], on)
  PROVE  RoutingInv'
<1>1. m[1] \in Connections /\ m[2] \in Connections \cup Route!Everything
  BY DEF Route!RoutingAssumption, Route!Everything
<1>2. /\ Route!Receive(m[1])
      /\ UNCHANGED <<members, untold, removed, publishing, accepted, published, heard>>
      /\ Route!TypeOK /\ Bounded /\ OrderInv /\ KnowInv
  BY DEF Route!Mute, Route!envVars, RoutingInv
<1>3. CASE m[2] \in Route!Everything \cup Route!Peers(m[1])
  <2>1. Route!ApplyChange(m[1], m[2], on) /\ Route!Answer(m[1], Route!Ack) /\ UNCHANGED view
    BY <1>3 DEF Route!Mute
  <2>2. muted' \in [Connections -> SUBSET (Connections \cup Route!Everything)]
    BY <1>1, <1>2, <2>1 DEF Route!ApplyChange, Route!TypeOK
  <2>3. publishing' \subseteq Connections
    BY <1>2 DEF Route!TypeOK
  <2> QED BY <1>1, <1>2, <2>1, <2>2, <2>3, EnvelopesAre, AnsweredKeeps
<1>4. CASE m[2] \notin Route!Everything \cup Route!Peers(m[1])
  <2>1. Route!Close(m[1]) /\ UNCHANGED muted
    BY <1>4 DEF Route!Mute
  <2>2. received' \in [Connections -> Nat] /\ \A d \in Connections : received'[d] <= MaxPackets
    BY <1>1, <1>2, ReceivedTypes
  <2>3. Route!TypeOK'
    BY <1>1, <1>2, <2>1, <2>2, CloseTypes DEF Route!TypeOK
  <2>4. Bounded'
    BY <1>2, <2>2 DEF Bounded
  <2> QED BY <1>1, <1>2, <2>1, <2>3, <2>4, CloseKeeps, SameBeliefs DEF RoutingInv
<1> QED BY <1>3, <1>4

\* The invariant across a frame of no publisher.
LEMMA UnexpectedFrameKeeps ==
  ASSUME Route!RoutingAssumption,
         RoutingInv, NEW c \in Connections, Route!UnexpectedFrame(c)
  PROVE  RoutingInv'
<1>1. /\ Route!Receive(c) /\ Route!Close(c) /\ Route!TypeOK /\ Bounded /\ OrderInv /\ KnowInv
      /\ UNCHANGED <<members, untold, removed, publishing, muted, accepted, published, heard>>
  BY DEF RoutingInv, Route!UnexpectedFrame, Route!envVars, Route!controlVars
<1>2. received' \in [Connections -> Nat] /\ \A d \in Connections : received'[d] <= MaxPackets
  BY <1>1, ReceivedTypes
<1>3. Route!TypeOK'
  BY <1>1, <1>2, CloseTypes DEF Route!TypeOK
<1>4. Bounded'
  BY <1>1, <1>2 DEF Bounded
<1> QED BY <1>1, <1>3, <1>4, CloseKeeps, SameBeliefs DEF RoutingInv

\* The invariant across a frame that the flow guard refuses.
LEMMA FrameRefusedKeeps ==
  ASSUME Route!RoutingAssumption,
         RoutingInv, NEW c \in Connections, Route!FrameRefused(c)
  PROVE  RoutingInv'
<1>1. /\ Route!Receive(c) /\ Route!TypeOK /\ Bounded /\ OrderInv /\ KnowInv
      /\ UNCHANGED <<members, untold, removed, open, publishing, muted, accepted, published,
                     busy, queue, drain, outbox, heard, view>>
  BY DEF RoutingInv, Route!FrameRefused, Route!envVars, Route!controlVars,
     Route!sendVars, Route!clientVars
<1>2. received' \in [Connections -> Nat] /\ \A d \in Connections : received'[d] <= MaxPackets
  BY <1>1, ReceivedTypes
<1>3. Route!TypeOK' /\ Bounded'
  BY <1>1, <1>2 DEF Route!TypeOK, Bounded
<1> QED BY <1>1, <1>3, SameLines, SameKnowledge, SameBeliefs DEF RoutingInv

\* The invariant across PUBLISH_STOP.
LEMMA PublishStopKeeps ==
  ASSUME Route!RoutingAssumption,
         RoutingInv, NEW c \in Connections, Route!PublishStop(c)
  PROVE  RoutingInv'
<1> DEFINE E == [l \in Connections |-> Route!Stop(c)]
           C == Route!Peers(c) \cap open
<1>1. /\ Route!Receive(c) /\ Route!TypeOK /\ Bounded /\ OrderInv /\ KnowInv
      /\ publishing' = publishing \ {c}
      /\ busy' = [busy EXCEPT ![c] = "stopping"]
      /\ UNCHANGED <<members, untold, removed, open, muted, accepted, published, queue, drain,
                     heard, view>>
  BY DEF RoutingInv, Route!PublishStop, Route!envVars, Route!clientVars
<1>2. E \in [Connections -> Route!Envelopes] /\ \A l \in Connections : E[l].kind = "stop"
  BY EnvelopesAre
<1>3. Added(C, E)
  BY DEF Route!PublishStop, Route!Sent, Added
<1> HIDE DEF E, C
<1>4. received' \in [Connections -> Nat] /\ \A d \in Connections : received'[d] <= MaxPackets
  BY <1>1, ReceivedTypes
<1>5. outbox' \in [Connections -> Seq(Route!Envelopes)]
  BY <1>1, <1>2, <1>3, AddedTypes
<1>6. Route!TypeOK' /\ Bounded'
  BY <1>1, <1>4, <1>5 DEF Route!TypeOK, Bounded
<1>7. OrderInv'
  BY <1>1, <1>2, <1>3, AddedKeepsOrder
<1>8. KnowInv'
  BY <1>1, <1>2, <1>3, AddedKeepsKnown
<1> QED BY <1>6, <1>7, <1>8 DEF RoutingInv


\* The bounded push: the frame is last, and only the oldest may have gone.
LEMMA PushedIs ==
  ASSUME Route!RoutingAssumption,
         NEW q \in Seq(Route!Frames), Len(q) <= Capacity, NEW f \in Route!Frames
  PROVE  Route!Pushed(q, f) \in Seq(Route!Frames) /\ Len(Route!Pushed(q, f)) <= Capacity
<1>1. CASE Len(q) < Capacity
  BY <1>1 DEF Route!RoutingAssumption, Route!Pushed
<1>2. CASE ~(Len(q) < Capacity)
  <2>1. q # <<>> /\ Len(q) \in Nat
    BY <1>2 DEF Route!RoutingAssumption
  <2>2. Tail(q) \in Seq(Route!Frames) /\ Len(Tail(q)) = Len(q) - 1
    BY <2>1, Shortened
  <2>3. Route!Pushed(q, f) = Append(Tail(q), f)
    BY <1>2 DEF Route!Pushed
  <2>4. Append(Tail(q), f) \in Seq(Route!Frames) /\ Len(Append(Tail(q), f)) = Len(q) - 1 + 1
    BY <2>2, Appended
  <2> QED BY <2>1, <2>3, <2>4 DEF Route!RoutingAssumption
<1> QED BY <1>1, <1>2

\* A new frame, for whoever listens: at once, or behind what waits for the drain.
LEMMA EnqueueKeeps ==
  ASSUME Route!RoutingAssumption,
         Route!TypeOK, OrderInv, KnowInv, NEW c \in Connections, NEW L \in SUBSET Connections,
         NEW n \in 1..(MaxFrames + MaxPackets), published[c] < n,
         Route!Enqueue(L, Route!Frame(c, n)), published' = [published EXCEPT ![c] = n],
         L \subseteq open, UNCHANGED <<members, untold, removed, open, heard, view>>
  PROVE  /\ OrderInv' /\ KnowInv'
         /\ queue' \in [Connections -> Seq(Route!Frames)]
         /\ \A l \in Connections : Len(queue'[l]) <= Capacity
         /\ drain' \in [Connections -> {"idle", "sending", "sent", "failed", "ending"}]
         /\ outbox' \in [Connections -> Seq(Route!Envelopes)]
<1> DEFINE f == Route!Frame(c, n)
           E == [l \in Connections |-> f]
           C == {l \in L : drain[l] = "idle"} \cap open
<1>1. f \in Route!Frames /\ f \in Route!Envelopes /\ f.kind = "frame" /\ f.from = c /\ f.id = n
  BY EnvelopesAre DEF Route!Frames, Route!Frame
<1>2. E \in [Connections -> Route!Envelopes] /\ \A l \in Connections : E[l] = f
  BY <1>1
<1>3. Added(C, E)
  BY DEF Route!Enqueue, Route!Sent, Added
<1>4. /\ queue' = [l \in Connections |->
            IF l \in L /\ drain[l] # "idle" THEN Route!Pushed(queue[l], f) ELSE queue[l]]
      /\ drain' = [l \in Connections |->
            IF l \in L /\ drain[l] = "idle" THEN "sending" ELSE drain[l]]
  BY DEF Route!Enqueue
<1> HIDE DEF f, E
<1>5. ASSUME NEW l \in Connections, NEW p \in Connections
      PROVE  LineOf(l, p)'
  <2>1. /\ Line(outbox[l], queue[l], p, heard[l][p], published[p])
        /\ outbox[l] \in Seq(Route!Envelopes) /\ queue[l] \in Seq(Route!Frames)
        /\ heard[l][p] \in Nat /\ published[p] \in Nat /\ published'[p] \in Nat
        /\ published[p] <= published'[p] /\ heard'[l][p] = heard[l][p]
        /\ p = c => published'[p] = n /\ published[p] < n
        /\ p # c => published'[p] = published[p]
    <3>1. Line(outbox[l], queue[l], p, heard[l][p], published[p])
      BY DEF OrderInv, LineOf
    <3>2. /\ outbox[l] \in Seq(Route!Envelopes) /\ queue[l] \in Seq(Route!Frames)
          /\ heard[l][p] \in Nat /\ heard'[l][p] = heard[l][p]
      BY DEF Route!TypeOK
    <3>3. published \in [Connections -> Nat] /\ n \in Nat
      BY DEF Route!RoutingAssumption, Route!TypeOK
    <3>4. published'[p] = IF p = c THEN n ELSE published[p]
      BY <3>3
    <3> QED BY <3>1, <3>2, <3>3, <3>4
  <2>2. CASE l \notin L
    <3>1. outbox'[l] = outbox[l] /\ queue'[l] = queue[l]
      BY <1>3, <1>4, <2>2 DEF Added
    <3>2. Line(outbox[l], queue[l], p, heard[l][p], published'[p])
      BY <2>1, LaterPublished
    <3> QED BY <2>1, <3>1, <3>2 DEF LineOf
  <2>3. CASE l \in L /\ drain[l] = "idle"
    <3>1. outbox'[l] = Append(outbox[l], f) /\ queue'[l] = queue[l] /\ queue[l] = <<>>
      BY <1>2, <1>3, <1>4, <2>3 DEF Added, OrderInv
    <3>2. CASE p = c
      <4>1. Line(Append(outbox[l], f), <<>>, p, heard[l][p], n)
        BY <1>1, <2>1, <3>1, <3>2, NewFrameIsSent
      <4> QED BY <2>1, <3>1, <3>2, <4>1 DEF LineOf
    <3>3. CASE p # c
      <4>1. ~On(f, p)
        BY <1>1, <3>3 DEF On
      <4>2. Line(Append(outbox[l], f), queue[l], p, heard[l][p], published[p])
        BY <1>1, <2>1, <4>1, OthersJoin
      <4> QED BY <2>1, <3>1, <3>3, <4>2 DEF LineOf
    <3> QED BY <3>2, <3>3
  <2>4. CASE l \in L /\ drain[l] # "idle"
    <3> DEFINE q == IF Len(queue[l]) < Capacity THEN queue[l] ELSE Tail(queue[l])
    <3>1. outbox'[l] = outbox[l] /\ queue'[l] = Append(q, f)
      BY <1>3, <1>4, <2>4 DEF Added, Route!Pushed
    <3>2. Len(queue[l]) < Capacity \/ queue[l] # <<>>
      BY <2>1 DEF Route!RoutingAssumption
    <3>3. q \in Seq(Route!Frames) /\ Line(outbox[l], q, p, heard[l][p], published[p])
      BY <2>1, <3>2, OldestGoes, Shortened
    <3> HIDE DEF q
    <3>4. CASE p = c
      <4>1. Line(outbox[l], Append(q, f), p, heard[l][p], n)
        BY <1>1, <2>1, <3>3, <3>4, NewFrameWaits
      <4> QED BY <2>1, <3>1, <3>4, <4>1 DEF LineOf
    <3>5. CASE p # c
      <4>1. ~On(f, p)
        BY <1>1, <3>5 DEF On
      <4>2. Line(outbox[l], Append(q, f), p, heard[l][p], published[p])
        BY <1>1, <2>1, <3>3, <4>1, OthersWait
      <4> QED BY <2>1, <3>1, <3>5, <4>2 DEF LineOf
    <3> QED BY <3>4, <3>5
  <2> QED BY <2>2, <2>3, <2>4
<1>6. \A l \in Connections : drain'[l] = "idle" => queue'[l] = <<>>
  BY <1>4 DEF OrderInv
<1>7. OrderInv'
  BY <1>5, <1>6 DEF OrderInv
<1>8. KnowInv'
  BY <1>1, <1>2, <1>3, AddedKeepsKnown
<1>9. \A l \in Connections : queue'[l] \in Seq(Route!Frames) /\ Len(queue'[l]) <= Capacity
  BY <1>1, <1>4, PushedIs DEF Route!TypeOK
<1>10. queue' \in [Connections -> Seq(Route!Frames)]
  BY <1>4, <1>9
<1>11. drain' \in [Connections -> {"idle", "sending", "sent", "failed", "ending"}]
  BY <1>4 DEF Route!TypeOK
<1>12. outbox' \in [Connections -> Seq(Route!Envelopes)]
  BY <1>2, <1>3, AddedTypes
<1> QED BY <1>7, <1>8, <1>9, <1>10, <1>11, <1>12

\* The invariant across a frame that is forwarded.
LEMMA VoiceFrameKeeps ==
  ASSUME Route!RoutingAssumption,
         RoutingInv, NEW c \in Connections, Route!VoiceFrame(c)
  PROVE  RoutingInv'
<1> DEFINE n == Route!Logical(c, received'[c])
<1>1. /\ Route!Receive(c) /\ Route!TypeOK /\ Bounded /\ OrderInv /\ KnowInv
      /\ published[c] < MaxFrames
      /\ accepted' = [accepted EXCEPT ![c] = received'[c]]
      /\ published' = [published EXCEPT ![c] = n]
      /\ Route!Enqueue(Route!Listeners(c), Route!Frame(c, published'[c]))
      /\ UNCHANGED <<members, untold, removed, open, publishing, muted, busy, heard, view>>
  BY DEF RoutingInv, Route!VoiceFrame, Route!UpdateSequences,
     Route!ForwardVoiceFrame, Route!envVars, Route!controlVars, Route!clientVars
<1>2. received' \in [Connections -> Nat] /\ \A d \in Connections : received'[d] <= MaxPackets
  BY <1>1, ReceivedTypes
<1>3. published[c] \in Nat /\ published'[c] = n
  BY <1>1 DEF Route!TypeOK
<1>4. n \in 1..(MaxFrames + MaxPackets) /\ published[c] < n
  BY <1>1, <1>2, <1>3 DEF Route!RoutingAssumption, Route!Logical
<1>5. Route!Listeners(c) \in SUBSET Connections /\ Route!Listeners(c) \subseteq open
  BY <1>1 DEF Route!Listeners, Route!TypeOK
<1> HIDE DEF n
<1>6. /\ OrderInv' /\ KnowInv'
      /\ queue' \in [Connections -> Seq(Route!Frames)]
      /\ \A l \in Connections : Len(queue'[l]) <= Capacity
      /\ drain' \in [Connections -> {"idle", "sending", "sent", "failed", "ending"}]
      /\ outbox' \in [Connections -> Seq(Route!Envelopes)]
  BY <1>1, <1>3, <1>4, <1>5, EnqueueKeeps
<1>7. published' \in [Connections -> Nat] /\ accepted' \in [Connections -> Nat]
  <2>1. n \in Nat /\ received'[c] \in Nat
    BY <1>2, <1>4 DEF Route!RoutingAssumption
  <2>2. published \in [Connections -> Nat] /\ accepted \in [Connections -> Nat]
    BY <1>1 DEF Route!TypeOK
  <2> QED BY <1>1, <2>1, <2>2
<1>8. Route!TypeOK'
  BY <1>1, <1>2, <1>6, <1>7 DEF Route!TypeOK
<1>9. Bounded'
  <2>1. \A d \in Connections : published'[d] = IF d = c THEN n ELSE published[d]
    BY <1>1 DEF Route!TypeOK
  <2>2. \A d \in Connections : published'[d] <= MaxFrames + MaxPackets
    BY <1>1, <1>4, <2>1 DEF Route!RoutingAssumption, Bounded
  <2> QED BY <1>2, <2>2 DEF Bounded
<1> QED BY <1>6, <1>8, <1>9 DEF RoutingInv

\* The head of the chain has gone, and the client knows what it knew of it.
LEMMA HeadIsSent ==
  ASSUME Route!TypeOK, OrderInv, KnowInv, NEW c \in Connections, outbox[c] # <<>>,
         outbox' = [outbox EXCEPT ![c] = Tail(@)],
         \/ UNCHANGED heard
         \/ /\ Head(outbox[c]).kind = "frame"
            /\ heard' = [heard EXCEPT ![c][Head(outbox[c]).from] = Head(outbox[c]).id],
         \A d \in Connections : drain'[d] = "idle" => drain[d] = "idle",
         UNCHANGED <<members, untold, removed, open, published, queue>>,
         NEW w, \A d \in Route!Followed : view'[d] = IF d = c THEN w ELSE view[d],
         \/ w = view[c] /\ Head(outbox[c]).kind \notin {"session", "snapshot"}
         \/ w = Unknown /\ Head(outbox[c]).kind = "session"
         \/ /\ w = IF view[c] = Unknown THEN Unknown ELSE AfterEvent(view[c], Head(outbox[c]))
            /\ Head(outbox[c]).kind = "session"
         \/ w = Head(outbox[c]).view /\ Head(outbox[c]).kind = "snapshot"
  PROVE  OrderInv' /\ KnowInv' /\ outbox' \in [Connections -> Seq(Route!Envelopes)]
<1> DEFINE e == Head(outbox[c])
<1>1. outbox[c] \in Seq(Route!Envelopes) /\ Tail(outbox[c]) \in Seq(Route!Envelopes)
      /\ e \in Route!Envelopes
  BY Shortened DEF Route!TypeOK
<1>2. outbox' \in [Connections -> Seq(Route!Envelopes)]
  BY <1>1 DEF Route!TypeOK
<1>3. \A d \in Connections : outbox'[d] = IF d = c THEN Tail(outbox[c]) ELSE outbox[d]
  BY DEF Route!TypeOK
<1>4. ASSUME NEW d \in Connections, NEW p \in Connections
      PROVE  LineOf(d, p)'
  <2>1. /\ Line(outbox[d], queue[d], p, heard[d][p], published[p])
        /\ queue[d] \in Seq(Route!Frames) /\ heard[d][p] \in Nat /\ published[p] \in Nat
    BY DEF OrderInv, LineOf, Route!TypeOK
  <2>2. heard'[d][p] = IF d = c /\ heard' # heard /\ p = e.from THEN e.id ELSE heard[d][p]
    <3>1. heard \in [Connections -> [Connections -> Nat]]
      BY DEF Route!TypeOK
    <3>2. CASE UNCHANGED heard
      BY <3>2
    <3>3. CASE heard' = [heard EXCEPT ![c][e.from] = e.id]
      <4> HIDE DEF e
      <4> QED BY <3>1, <3>3
    <3> QED BY <3>2, <3>3
  <2>3. CASE d # c
    <3>1. heard'[d][p] = heard[d][p] /\ outbox'[d] = outbox[d]
      BY <1>3, <2>2, <2>3
    <3> QED BY <2>1, <3>1 DEF LineOf
  <2>4. CASE d = c
    <3>1. /\ Line(Tail(outbox[c]), queue[c], p, heard[c][p], published[p])
          /\ On(e, p) => Line(Tail(outbox[c]), queue[c], p, e.id, published[p])
      BY <1>1, <2>1, <2>4, HeadGoes
    <3>2. \/ heard'[c][p] = heard[c][p]
          \/ On(e, p) /\ heard'[c][p] = e.id
      BY <2>2, <2>4 DEF On
    <3>3. outbox'[c] = Tail(outbox[c]) /\ UNCHANGED <<queue, published>>
      BY <1>3
    <3> HIDE DEF e
    <3> QED BY <2>4, <3>1, <3>2, <3>3 DEF LineOf
  <2> QED BY <2>3, <2>4
<1>5. OrderInv'
  BY <1>4 DEF OrderInv
<1>6. ASSUME NEW d \in open' \ Requesting
      PROVE  Knowing(outbox[d], view[d], Believed(d))'
  <2>1. Knowing(outbox[d], view[d], Believed(d))
        /\ Believed(d)' = Believed(d)
        /\ d \in Connections /\ d \in Route!Followed
    BY DEF KnowInv, Believed, Route!SessionsOf, Route!Followed, Route!TypeOK
  <2>2. CASE d # c
    BY <1>3, <2>1, <2>2
  <2>3. CASE d = c
    <3>1. Knowing(Tail(outbox[c]), w, Believed(c))
      BY <1>1, <2>1, <2>3, HeadIsHeard
    <3> QED BY <1>3, <2>1, <2>3, <3>1
  <2> QED BY <2>2, <2>3
<1>7. KnowInv'
  BY <1>6 DEF KnowInv
<1> QED BY <1>2, <1>5, <1>7

\* Only a drain that was idle is idle after one of them was told of a send.
LEMMA DrainsStay ==
  ASSUME Route!TypeOK, NEW c \in Connections, NEW s \in {"sending", "sent", "failed", "ending"},
         drain' = drain \/ drain' = [drain EXCEPT ![c] = s]
  PROVE  /\ drain' \in [Connections -> {"idle", "sending", "sent", "failed", "ending"}]
         /\ \A d \in Connections : drain'[d] = "idle" => drain[d] = "idle"
BY DEF Route!TypeOK

\* The views when one of them changes
LEMMA ViewTypes ==
  ASSUME Route!TypeOK, NEW c \in Connections, NEW w,
         c \in Route!Followed => w \in (SUBSET Sessions) \cup {Unknown},
         view' = Route!Believing(c, w)
  PROVE  /\ view' \in [Route!Followed -> (SUBSET Sessions) \cup {Unknown}]
         /\ \A d \in Route!Followed : view'[d] = IF d = c THEN w ELSE view[d]
<1>1. \A d \in Route!Followed : view[d] \in (SUBSET Sessions) \cup {Unknown}
  BY DEF Route!TypeOK
<1> QED BY <1>1 DEF Route!Believing

\* The invariant across an envelope that is sent.
LEMMA SendSucceedsKeeps ==
  ASSUME Route!RoutingAssumption,
         RoutingInv, NEW c \in Connections, Route!SendSucceeds(c)
  PROVE  RoutingInv'
<1> DEFINE e == Head(outbox[c])
<1>1. /\ Route!TypeOK /\ Bounded /\ OrderInv /\ KnowInv /\ outbox[c] # <<>>
      /\ UNCHANGED <<members, untold, removed, open, publishing, muted, received, accepted,
                     published, queue>>
      /\ busy' = IF e.kind \in {"ack", "snapshot"} THEN [busy EXCEPT ![c] = "no"] ELSE busy
      /\ drain' = IF e.kind = "frame" THEN [drain EXCEPT ![c] = "sent"] ELSE drain
      /\ Route!Hears(c, e)
      /\ outbox' = [outbox EXCEPT ![c] =
           IF e.kind = "result" THEN Append(Tail(@), Route!Snapshot(e.view)) ELSE Tail(@)]
  BY DEF RoutingInv, Route!SendSucceeds, Route!envVars, Route!controlVars,
     Route!sequenceVars
<1>2. /\ e \in Route!Envelopes /\ outbox[c] \in Seq(Route!Envelopes)
      /\ e.kind = "frame" => /\ e \in Route!Frames /\ e.from \in Connections
                             /\ e.id \in 1..(MaxFrames + MaxPackets)
      /\ e.kind = "session" => e.session \in Sessions
      /\ e.kind \in {"snapshot", "result"} => e.view \in SUBSET Sessions
      /\ e.kind \in {"frame", "stop", "ack", "session", "result", "snapshot"}
  <2>1. outbox[c] \in Seq(Route!Envelopes)
    BY <1>1 DEF Route!TypeOK
  <2>2. e \in Route!Envelopes
    BY <1>1, <2>1, Shortened
  <2> HIDE DEF e
  <2> QED BY <2>1, <2>2, KindsOfEnvelopes
<1> HIDE DEF e
<1>3. busy' \in [Connections -> {"no", "answer", "stopping"}]
  BY <1>1 DEF Route!TypeOK
<1>4. /\ drain' \in [Connections -> {"idle", "sending", "sent", "failed", "ending"}]
      /\ \A d \in Connections : drain'[d] = "idle" => drain[d] = "idle"
  BY <1>1, DrainsStay
<1>5. \/ e.kind = "frame" /\ heard' = [heard EXCEPT ![c][e.from] = e.id] /\ view' = view
      \/ /\ e.kind = "session" /\ heard' = heard
         /\ view' = [d \in Route!Followed |->
              IF d # c \/ view[d] = Unknown THEN view[d] ELSE AfterEvent(view[d], e)]
      \/ e.kind = "snapshot" /\ heard' = heard /\ view' = Route!Believing(c, e.view)
      \/ e.kind \in {"stop", "ack", "result"} /\ heard' = heard /\ view' = view
  BY <1>1, <1>2 DEF Route!Hears, AfterEvent, Route!clientVars
<1>6. heard' \in [Connections -> [Connections -> Nat]]
  <2>1. e.kind = "frame" => e.id \in Nat /\ e.from \in Connections
    BY <1>2 DEF Route!RoutingAssumption
  <2>2. heard \in [Connections -> [Connections -> Nat]]
    BY <1>1 DEF Route!TypeOK
  <2>3. CASE heard' = heard
    BY <2>2, <2>3
  <2>4. CASE e.kind = "frame" /\ heard' = [heard EXCEPT ![c][e.from] = e.id]
    BY <2>1, <2>2, <2>4
  <2> QED BY <1>5, <2>3, <2>4
<1> DEFINE w == IF e.kind = "session"
                THEN IF view[c] = Unknown THEN Unknown ELSE AfterEvent(view[c], e)
                ELSE IF e.kind = "snapshot" THEN e.view ELSE view[c]
<1>7. /\ view \in [Route!Followed -> (SUBSET Sessions) \cup {Unknown}]
      /\ c \in Route!Followed => view[c] \in (SUBSET Sessions) \cup {Unknown}
      /\ view = [d \in Route!Followed |-> view[d]]
  BY <1>1 DEF Route!TypeOK
<1>8. c \in Route!Followed => w \in (SUBSET Sessions) \cup {Unknown}
  <2>1. c \in Route!Followed /\ e.kind = "session" /\ view[c] # Unknown =>
          AfterEvent(view[c], e) \in SUBSET Sessions
    BY <1>2, <1>7 DEF AfterEvent
  <2> QED BY <1>2, <1>7, <2>1
<1>9. view' = Route!Believing(c, w)
  <2>1. CASE e.kind \in {"frame", "stop", "ack", "result"}
    BY <1>5, <1>7, <2>1 DEF Route!Believing
  <2>2. CASE e.kind = "snapshot"
    BY <1>5, <2>2
  <2>3. CASE e.kind = "session"
    BY <1>5, <2>3 DEF Route!Believing
  <2> QED BY <1>2, <2>1, <2>2, <2>3
<1>10. /\ view' \in [Route!Followed -> (SUBSET Sessions) \cup {Unknown}]
       /\ \A d \in Route!Followed : view'[d] = IF d = c THEN w ELSE view[d]
  BY <1>1, <1>8, <1>9, ViewTypes
<1>11. CASE e.kind # "result"
  <2>1. outbox' = [outbox EXCEPT ![c] = Tail(@)]
    BY <1>1, <1>11
  <2>2. \/ w = view[c] /\ e.kind \notin {"session", "snapshot"}
        \/ /\ w = IF view[c] = Unknown THEN Unknown ELSE AfterEvent(view[c], e)
           /\ e.kind = "session"
        \/ w = e.view /\ e.kind = "snapshot"
    OBVIOUS
  <2>3. UNCHANGED heard \/ (e.kind = "frame" /\ heard' = [heard EXCEPT ![c][e.from] = e.id])
    BY <1>5
  <2> HIDE DEF w
  <2>4. OrderInv' /\ KnowInv' /\ outbox' \in [Connections -> Seq(Route!Envelopes)]
    <3> USE DEF e
    <3>1. \/ w = view[c] /\ Head(outbox[c]).kind \notin {"session", "snapshot"}
          \/ w = Unknown /\ Head(outbox[c]).kind = "session"
          \/ /\ w = IF view[c] = Unknown THEN Unknown ELSE AfterEvent(view[c], Head(outbox[c]))
             /\ Head(outbox[c]).kind = "session"
          \/ w = Head(outbox[c]).view /\ Head(outbox[c]).kind = "snapshot"
      BY <2>2
    <3>2. \/ UNCHANGED heard
          \/ /\ Head(outbox[c]).kind = "frame"
             /\ heard' = [heard EXCEPT ![c][Head(outbox[c]).from] = Head(outbox[c]).id]
      BY <2>3
    <3>3. /\ Route!TypeOK /\ OrderInv /\ KnowInv /\ outbox[c] # <<>>
          /\ UNCHANGED <<members, untold, removed, open, published, queue>>
      BY <1>1
    <3>4. /\ \A d \in Connections : drain'[d] = "idle" => drain[d] = "idle"
          /\ \A d \in Route!Followed : view'[d] = IF d = c THEN w ELSE view[d]
      BY <1>4, <1>10
    <3> HIDE DEF e
    <3> QED BY <2>1, <3>1, <3>2, <3>3, <3>4, HeadIsSent
  <2>5. Route!TypeOK'
    BY <1>1, <1>3, <1>4, <1>6, <1>10, <2>4 DEF Route!TypeOK
  <2>6. Bounded'
    BY <1>1 DEF Bounded
  <2> QED BY <2>4, <2>5, <2>6 DEF RoutingInv
<1>12. CASE e.kind = "result"
  <2>1. c \notin open \/ c \in Requesting
    <3>1. outbox[c][1] = e /\ 1 \in 1..Len(outbox[c])
      BY <1>1, <1>2 DEF e
    <3> QED BY <1>1, <1>12, <3>1 DEF KnowInv, Knowing, SnapshotFirst, Route!TypeOK
  <2>2. Route!Snapshot(e.view) \in Route!Envelopes /\ Route!Snapshot(e.view).kind = "snapshot"
    BY <1>2, <1>12, EnvelopesAre
  <2>3. Tail(outbox[c]) \in Seq(Route!Envelopes)
    BY <1>1, <1>2, Shortened
  <2>4. Append(Tail(outbox[c]), Route!Snapshot(e.view)) \in Seq(Route!Envelopes)
    BY <2>2, <2>3
  <2>5. outbox' = [outbox EXCEPT ![c] = Append(Tail(outbox[c]), Route!Snapshot(e.view))]
    BY <1>1, <1>12
  <2>6. outbox' \in [Connections -> Seq(Route!Envelopes)]
    BY <1>1, <2>4, <2>5 DEF Route!TypeOK
  <2>7. heard' = heard /\ drain' = drain /\ view' = view
    BY <1>1, <1>5, <1>12
  <2>8. ASSUME NEW d \in Connections, NEW p \in Connections PROVE LineOf(d, p)'
    <3>1. /\ Line(outbox[d], queue[d], p, heard[d][p], published[p])
          /\ queue[d] \in Seq(Route!Frames) /\ heard[d][p] \in Nat /\ published[p] \in Nat
      BY <1>1 DEF OrderInv, LineOf, Route!TypeOK
    <3>2. CASE d # c
      BY <1>1, <2>5, <2>7, <3>1, <3>2 DEF LineOf, Route!TypeOK
    <3>3. CASE d = c
      <4>1. Line(Tail(outbox[c]), queue[c], p, heard[c][p], published[p])
        BY <1>1, <1>2, <3>1, <3>3, HeadGoes
      <4>2. ~On(Route!Snapshot(e.view), p)
        BY <2>2 DEF On
      <4>3. Line(Append(Tail(outbox[c]), Route!Snapshot(e.view)), queue[c], p, heard[c][p],
                 published[p])
        BY <2>2, <2>3, <4>1, <4>2, OthersJoin
      <4>4. outbox'[c] = Append(Tail(outbox[c]), Route!Snapshot(e.view))
        BY <1>1, <2>5 DEF Route!TypeOK
      <4> QED BY <1>1, <2>7, <3>3, <4>3, <4>4 DEF LineOf
    <3> QED BY <3>2, <3>3
  <2>9. OrderInv'
    BY <1>1, <2>7, <2>8 DEF OrderInv
  <2>10. KnowInv'
    <3>1. ASSUME NEW d \in open' \ Requesting
          PROVE  Knowing(outbox[d], view[d], Believed(d))'
      <4>1. d # c /\ d \in Connections /\ d \in open \ Requesting
        BY <1>1, <2>1 DEF Route!TypeOK
      <4>2. outbox'[d] = outbox[d] /\ view'[d] = view[d]
            /\ Believed(d)' = Believed(d)
        BY <1>1, <2>5, <2>7, <4>1 DEF Route!TypeOK, Believed, Route!SessionsOf
      <4> QED BY <1>1, <4>1, <4>2 DEF KnowInv
    <3> QED BY <3>1 DEF KnowInv
  <2>11. Route!TypeOK'
    BY <1>1, <1>3, <1>4, <2>6, <2>7 DEF Route!TypeOK
  <2>12. Bounded'
    BY <1>1 DEF Bounded
  <2> QED BY <2>9, <2>10, <2>11, <2>12 DEF RoutingInv
<1> QED BY <1>11, <1>12

\* The invariant across a send that fails.
LEMMA SendFailsKeeps ==
  ASSUME Route!RoutingAssumption,
         RoutingInv, NEW c \in Connections, Route!SendFails(c)
  PROVE  RoutingInv'
<1> DEFINE e == Head(outbox[c])
<1>1. /\ Route!TypeOK /\ Bounded /\ OrderInv /\ KnowInv /\ outbox[c] # <<>>
      /\ UNCHANGED <<members, untold, removed, publishing, muted, received, accepted,
                     published, heard>>
  BY DEF RoutingInv, Route!SendFails, Route!envVars, Route!controlVars,
     Route!sequenceVars
<1>2. CASE e.kind \in {"ack", "result", "snapshot"}
  <2>1. Route!Close(c)
    BY <1>2 DEF Route!SendFails
  <2>2. Route!TypeOK'
    BY <1>1, <2>1, CloseTypes DEF Route!TypeOK
  <2>3. Bounded'
    BY <1>1 DEF Bounded
  <2> QED BY <1>1, <2>1, <2>2, <2>3, CloseKeeps, SameBeliefs DEF RoutingInv
<1>3. CASE e.kind \notin {"ack", "result", "snapshot"}
  <2>1. /\ outbox' = [outbox EXCEPT ![c] = Tail(@)]
        /\ drain' = IF e.kind = "frame" THEN [drain EXCEPT ![c] = "failed"] ELSE drain
        /\ view' = IF e.kind = "session" THEN Route!Believing(c, Unknown) ELSE view
        /\ UNCHANGED <<open, busy, queue>>
    BY <1>3 DEF Route!SendFails
  <2> DEFINE w == IF e.kind = "session" THEN Unknown ELSE view[c]
  <2>2. /\ drain' \in [Connections -> {"idle", "sending", "sent", "failed", "ending"}]
        /\ \A d \in Connections : drain'[d] = "idle" => drain[d] = "idle"
    BY <1>1, <2>1, DrainsStay
  <2>3. /\ view = [d \in Route!Followed |-> view[d]]
        /\ c \in Route!Followed => w \in (SUBSET Sessions) \cup {Unknown}
    BY <1>1 DEF Route!TypeOK
  <2>4. view' = Route!Believing(c, w)
    <3>1. CASE e.kind = "session"
      BY <2>1, <3>1
    <3>2. CASE e.kind # "session"
      BY <2>1, <2>3, <3>2 DEF Route!Believing
    <3> QED BY <3>1, <3>2
  <2>5. /\ view' \in [Route!Followed -> (SUBSET Sessions) \cup {Unknown}]
        /\ \A d \in Route!Followed : view'[d] = IF d = c THEN w ELSE view[d]
    BY <1>1, <2>3, <2>4, ViewTypes
  <2>6. \/ w = view[c] /\ e.kind \notin {"session", "snapshot"}
        \/ w = Unknown /\ e.kind = "session"
    BY <1>3
  <2> HIDE DEF w
  <2>7. OrderInv' /\ KnowInv' /\ outbox' \in [Connections -> Seq(Route!Envelopes)]
    <3>1. /\ \A d \in Connections : drain'[d] = "idle" => drain[d] = "idle"
          /\ \A d \in Route!Followed : view'[d] = IF d = c THEN w ELSE view[d]
      BY <2>2, <2>5
    <3>2. \/ w = view[c] /\ Head(outbox[c]).kind \notin {"session", "snapshot"}
          \/ w = Unknown /\ Head(outbox[c]).kind = "session"
      BY <2>6
    <3> HIDE DEF e
    <3> QED BY <1>1, <2>1, <3>1, <3>2, HeadIsSent
  <2>8. Route!TypeOK'
    BY <1>1, <2>1, <2>2, <2>5, <2>7 DEF Route!TypeOK
  <2>9. Bounded'
    BY <1>1 DEF Bounded
  <2> QED BY <2>7, <2>8, <2>9 DEF RoutingInv
<1> QED BY <1>2, <1>3


\* A step of the drain of c, which leaves a, then b, of what was on the way.
LEMMA DrainKeeps ==
  ASSUME RoutingInv, NEW c \in Connections, NEW a \in Seq(Route!Envelopes),
         NEW b \in Seq(Route!Frames),
         NEW s \in {"idle", "sending", "sent", "failed", "ending"},
         outbox' = [outbox EXCEPT ![c] = a], queue' = [queue EXCEPT ![c] = b],
         drain' = [drain EXCEPT ![c] = s],
         UNCHANGED <<members, untold, removed, open, publishing, muted, received, accepted,
                     published, busy, heard, view>>,
         Len(b) <= Capacity, s = "idle" => b = <<>>,
         \A p \in Connections : LineOf(c, p) => Line(a, b, p, heard[c][p], published[p]),
         \A v, S : Knowing(outbox[c], v, S) => Knowing(a, v, S)
  PROVE  RoutingInv'
<1>1. Route!TypeOK /\ Bounded /\ OrderInv /\ KnowInv
  BY DEF RoutingInv
<1>2. \A d \in Connections : /\ outbox'[d] = IF d = c THEN a ELSE outbox[d]
                             /\ queue'[d] = IF d = c THEN b ELSE queue[d]
                             /\ drain'[d] = IF d = c THEN s ELSE drain[d]
  BY <1>1 DEF Route!TypeOK
<1>3. /\ outbox' \in [Connections -> Seq(Route!Envelopes)]
         /\ queue' \in [Connections -> Seq(Route!Frames)]
      /\ drain' \in [Connections -> {"idle", "sending", "sent", "failed", "ending"}]
  BY <1>1 DEF Route!TypeOK
<1>4. \A d \in Connections : Len(queue'[d]) <= Capacity
  BY <1>1, <1>2 DEF Route!TypeOK
<1>5. Route!TypeOK'
  BY <1>1, <1>3, <1>4 DEF Route!TypeOK
<1>6. Bounded'
  BY <1>1 DEF Bounded
<1>7. ASSUME NEW d \in Connections, NEW p \in Connections PROVE LineOf(d, p)'
  BY <1>1, <1>2 DEF OrderInv, LineOf
<1>8. OrderInv'
  BY <1>1, <1>2, <1>7 DEF OrderInv
<1>9. ASSUME NEW d \in open' \ Requesting
      PROVE  Knowing(outbox[d], view[d], Believed(d))'
  <2>1. /\ Knowing(outbox[d], view[d], Believed(d))
           /\ Believed(d)' = Believed(d)
        /\ d \in Connections
    BY <1>1 DEF KnowInv, Believed, Route!SessionsOf, Route!TypeOK
  <2> QED BY <1>2, <2>1
<1>10. KnowInv'
  BY <1>9 DEF KnowInv
<1> QED BY <1>5, <1>6, <1>8, <1>10 DEF RoutingInv

\* The chain, the queue and the line of a connection, from the invariant
LEMMA QueuesAre ==
  ASSUME Route!RoutingAssumption,
         RoutingInv, NEW c \in Connections
  PROVE  /\ outbox[c] \in Seq(Route!Envelopes) /\ queue[c] \in Seq(Route!Frames)
            /\ Len(queue[c]) <= Capacity
         /\ outbox = [outbox EXCEPT ![c] = outbox[c]] /\ queue = [queue EXCEPT ![c] = queue[c]]
         /\ drain = [drain EXCEPT ![c] = drain[c]]
         /\ \A p \in Connections : LineOf(c, p) /\ heard[c][p] \in Nat /\ published[p] \in Nat
         /\ queue[c] # <<>> => /\ Tail(queue[c]) \in Seq(Route!Frames)
                               /\ Len(Tail(queue[c])) <= Capacity
                               /\ Head(queue[c]) \in Route!Frames
<1>1. /\ outbox[c] \in Seq(Route!Envelopes) /\ queue[c] \in Seq(Route!Frames)
         /\ Len(queue[c]) <= Capacity
      /\ outbox = [outbox EXCEPT ![c] = outbox[c]] /\ queue = [queue EXCEPT ![c] = queue[c]]
      /\ drain = [drain EXCEPT ![c] = drain[c]]
  BY DEF RoutingInv, Route!TypeOK
<1>2. \A p \in Connections : LineOf(c, p) /\ heard[c][p] \in Nat /\ published[p] \in Nat
  BY DEF RoutingInv, Route!TypeOK, OrderInv
<1>3. queue[c] # <<>> => /\ Tail(queue[c]) \in Seq(Route!Frames)
                         /\ Len(Tail(queue[c])) <= Capacity
                         /\ Head(queue[c]) \in Route!Frames
  BY <1>1, Shortened DEF Route!RoutingAssumption
<1> QED BY <1>1, <1>2, <1>3

\* The invariant across the next frame of a drain.
LEMMA DrainNextKeeps ==
  ASSUME Route!RoutingAssumption,
         RoutingInv, NEW c \in Connections, Route!DrainNext(c)
  PROVE  RoutingInv'
<1>1. /\ queue[c] # <<>>
      /\ queue' = [queue EXCEPT ![c] = Tail(queue[c])]
      /\ outbox' = [outbox EXCEPT ![c] = Append(outbox[c], Head(queue[c]))]
      /\ drain' = [drain EXCEPT ![c] = "sending"]
      /\ UNCHANGED <<members, untold, removed, open, publishing, muted, received, accepted,
                     published, busy, heard, view>>
  BY DEF Route!DrainNext, Route!envVars, Route!controlVars, Route!sequenceVars,
     Route!clientVars
<1> DEFINE f == Head(queue[c])
<1>2. /\ outbox[c] \in Seq(Route!Envelopes) /\ queue[c] \in Seq(Route!Frames)
      /\ Tail(queue[c]) \in Seq(Route!Frames) /\ Len(Tail(queue[c])) <= Capacity
         /\ f \in Route!Frames
      /\ \A p \in Connections : LineOf(c, p) /\ heard[c][p] \in Nat /\ published[p] \in Nat
  BY <1>1, QueuesAre
<1>3. f \in Route!Envelopes /\ f.kind = "frame"
  BY <1>2, EnvelopesAre DEF Route!Frames, Route!Frame
<1>4. \A p \in Connections : LineOf(c, p) =>
        Line(Append(outbox[c], f), Tail(queue[c]), p, heard[c][p], published[p])
  BY <1>1, <1>2, NextIsSent DEF LineOf
<1>5. \A v, S : Knowing(outbox[c], v, S) => Knowing(Append(outbox[c], f), v, S)
  BY <1>2, <1>3, OthersTellNothing
<1>6. Append(outbox[c], f) \in Seq(Route!Envelopes)
  BY <1>2, <1>3
<1> QED BY <1>1, <1>2, <1>4, <1>5, <1>6, DrainKeeps

\* The invariant across a stale frame.
LEMMA DropStaleKeeps ==
  ASSUME Route!RoutingAssumption,
         RoutingInv, NEW c \in Connections, Route!DropStale(c)
  PROVE  RoutingInv'
<1>1. /\ queue[c] # <<>> /\ drain[c] = "sent"
      /\ queue' = [queue EXCEPT ![c] = Tail(queue[c])]
      /\ UNCHANGED <<members, untold, removed, open, publishing, muted, received, accepted,
                     published, busy, heard, view, outbox, drain>>
  BY DEF Route!DropStale, Route!envVars, Route!controlVars, Route!sequenceVars,
     Route!clientVars
<1>2. /\ outbox[c] \in Seq(Route!Envelopes) /\ queue[c] \in Seq(Route!Frames)
      /\ outbox' = [outbox EXCEPT ![c] = outbox[c]] /\ drain' = [drain EXCEPT ![c] = "sent"]
      /\ Tail(queue[c]) \in Seq(Route!Frames) /\ Len(Tail(queue[c])) <= Capacity
  BY <1>1, QueuesAre
<1>3. \A p \in Connections : LineOf(c, p) =>
        Line(outbox[c], Tail(queue[c]), p, heard[c][p], published[p])
  BY <1>1, <1>2, OldestGoes DEF LineOf
<1> QED BY <1>1, <1>2, <1>3, DrainKeeps

\* The invariant across a drain that returns.
LEMMA DrainReturnsKeeps ==
  ASSUME Route!RoutingAssumption,
         RoutingInv, NEW c \in Connections, Route!DrainReturns(c)
  PROVE  RoutingInv'
<1>1. /\ queue' = [queue EXCEPT ![c] = <<>>] /\ drain' = [drain EXCEPT ![c] = "ending"]
      /\ UNCHANGED <<members, untold, removed, open, publishing, muted, received, accepted,
                     published, busy, heard, view, outbox>>
  BY DEF Route!DrainReturns, Route!envVars, Route!controlVars, Route!sequenceVars,
     Route!clientVars
<1>2. /\ outbox[c] \in Seq(Route!Envelopes) /\ outbox' = [outbox EXCEPT ![c] = outbox[c]]
      /\ <<>> \in Seq(Route!Frames) /\ Len(<<>>) <= Capacity
  BY <1>1, QueuesAre DEF Route!RoutingAssumption
<1>3. \A p \in Connections : LineOf(c, p) =>
        Line(outbox[c], <<>>, p, heard[c][p], published[p])
  BY NothingLeft DEF LineOf
<1> QED BY <1>1, <1>2, <1>3, DrainKeeps

\* The invariant across a drain that ends.
LEMMA DrainEndsKeeps ==
  ASSUME Route!RoutingAssumption,
         RoutingInv, NEW c \in Connections, Route!DrainEnds(c)
  PROVE  RoutingInv'
<1> DEFINE s == IF queue[c] = <<>> THEN "idle" ELSE "sent"
<1>1. /\ drain' = [drain EXCEPT ![c] = s]
      /\ UNCHANGED <<members, untold, removed, open, publishing, muted, received, accepted,
                     published, busy, heard, view, outbox, queue>>
  BY DEF Route!DrainEnds, Route!envVars, Route!controlVars, Route!sequenceVars,
     Route!clientVars
<1>2. /\ outbox[c] \in Seq(Route!Envelopes) /\ outbox' = [outbox EXCEPT ![c] = outbox[c]]
      /\ queue[c] \in Seq(Route!Frames) /\ queue' = [queue EXCEPT ![c] = queue[c]]
      /\ Len(queue[c]) <= Capacity
  BY <1>1, QueuesAre
<1>3. s \in {"idle", "sending", "sent", "failed", "ending"} /\ (s = "idle" => queue[c] = <<>>)
  OBVIOUS
<1>4. \A p \in Connections : LineOf(c, p) =>
        Line(outbox[c], queue[c], p, heard[c][p], published[p])
  BY DEF LineOf
<1> HIDE DEF s
<1> QED BY <1>1, <1>2, <1>3, <1>4, DrainKeeps

\* The invariant holds in the initial state.
LEMMA RoutingStarts ==
  ASSUME Route!RoutingAssumption
  PROVE  Route!Init => RoutingInv
<1> SUFFICES ASSUME Route!Init PROVE RoutingInv
  OBVIOUS
<1>1. <<>> \in Seq(Route!Frames) /\ <<>> \in Seq(Route!Envelopes) /\ Len(<<>>) = 0
  OBVIOUS
<1>2. Route!TypeOK
  BY <1>1 DEF Route!RoutingAssumption, Route!Init, Route!TypeOK
<1>3. Bounded
  BY DEF Route!RoutingAssumption, Route!Init, Bounded
<1>4. \A c, p \in Connections : LineOf(c, p)
  BY DEF Route!Init, LineOf, Line, Ascends, Between, Precedes
<1>5. OrderInv
  BY <1>4 DEF OrderInv, Route!Init
<1>6. ASSUME NEW c \in open \ Requesting
      PROVE  Knowing(outbox[c], view[c], Believed(c))
  <2>1. outbox[c] = <<>> /\ view[c] = {} /\ Route!SessionsOf(c) = {} /\ untold[c] = {}
    BY DEF Route!Init, Route!SessionsOf, Route!Followed
  <2>2. Believed(c) = {}
    BY <2>1 DEF Believed
  <2> QED BY <2>1, <2>2 DEF Knowing, SnapshotFirst, OneEvent, NoEvent, EventsTell, Base
<1> QED BY <1>2, <1>3, <1>5, <1>6 DEF RoutingInv, KnowInv

\* The invariant is inductive.
LEMMA RoutingGoesOn ==
  ASSUME Route!RoutingAssumption
  PROVE  RoutingInv /\ [Route!Next]_(Route!vars) => RoutingInv'
<1> SUFFICES ASSUME RoutingInv, [Route!Next]_(Route!vars) PROVE RoutingInv'
  OBVIOUS
<1>1. CASE UNCHANGED Route!vars
  <2>1. UNCHANGED <<members, untold, removed, open, publishing, muted, received, accepted,
                    published, busy, queue, drain, outbox, heard, view>>
    BY <1>1 DEF Route!vars, Route!envVars, Route!controlVars, Route!sequenceVars,
       Route!sendVars, Route!clientVars
  <2>2. Route!TypeOK' /\ Bounded'
    BY <2>1 DEF RoutingInv, Route!TypeOK, Bounded
  <2> QED BY <2>1, <2>2, SameLines, SameKnowledge, SameBeliefs DEF RoutingInv
<1>2. CASE \E s \in Sessions, M \in SUBSET Connections : Route!SessionChanges(s, M)
  BY <1>2, SessionChangesKeeps
<1>9. CASE \E S \in (SUBSET Sessions) \ {{}} : Route!SessionsEnd(S)
  BY <1>9, SessionsEndKeeps
<1>3. CASE \E c \in Connections : \/ Route!TransportCloses(c) \/ Route!RemoveConnection(c)
                                  \/ Route!Resume(c)
  BY <1>3, TransportClosesKeeps, RemoveConnectionKeeps, ResumeKeeps
<1>4. CASE \E c \in Connections : \/ Route!PublishStart(c) \/ Route!PublishStop(c)
                                  \/ Route!StopForwarded(c)
                                  \/ Route!ReconnectRequest(c)
  BY <1>4, PublishStartKeeps, PublishStopKeeps, StopForwardedKeeps, ReconnectRequestKeeps
<1>5. CASE \E c \in Connections : \/ Route!UnexpectedFrame(c) \/ Route!FrameRefused(c)
                                  \/ Route!VoiceFrame(c)
  BY <1>5, UnexpectedFrameKeeps, FrameRefusedKeeps, VoiceFrameKeeps
<1>6. CASE \E c \in Connections : Route!SendSucceeds(c) \/ Route!SendFails(c)
  BY <1>6, SendSucceedsKeeps, SendFailsKeeps
<1>7. CASE \E c \in Connections : \/ Route!DrainNext(c) \/ Route!DropStale(c)
                                  \/ Route!DrainReturns(c) \/ Route!DrainEnds(c)
  BY <1>7, DrainNextKeeps, DropStaleKeeps, DrainReturnsKeeps, DrainEndsKeeps
<1>8. CASE \E m \in Mutes, on \in BOOLEAN : Route!Mute(m[1], m[2], on)
  BY <1>8, MuteKeeps
<1> QED BY <1>1, <1>2, <1>3, <1>4, <1>5, <1>6, <1>7, <1>8, <1>9 DEF Route!Next

\* The invariant holds in every reachable state.
LEMMA RoutingHolds ==
  ASSUME Route!RoutingAssumption
  PROVE  Route!Spec => []RoutingInv
<1> QED BY RoutingStarts, RoutingGoesOn, PTL DEF Route!Spec

\* The members, the settings, the sequences, the queues and what the clients know keep
\* their types, and no media queue is longer than its capacity.
THEOREM RoutingTypes ==
  ASSUME Route!RoutingAssumption
  PROVE  Route!Spec => []Route!TypeOK
<1>1. RoutingInv => Route!TypeOK
  BY DEF RoutingInv
<1> QED BY <1>1, RoutingHolds, PTL

\* What is on its way to a connection, first the chain and then the media queue
LEMMA TheWay ==
  ASSUME NEW a \in Seq(Route!Envelopes), NEW b \in Seq(Route!Frames)
  PROVE  \A i \in 1..Len(a \o b) :
           \/ i \in 1..Len(a) /\ (a \o b)[i] = a[i]
           \/ i - Len(a) \in 1..Len(b) /\ (a \o b)[i] = b[i - Len(a)] /\ i > Len(a)
<1>1. b \in Seq(Route!Envelopes)
  BY EnvelopesAre
<1> QED BY <1>1

\* A line is in order along the chain with the queue behind it.
LEMMA LinesAreInOrder ==
  ASSUME Route!RoutingAssumption,
         NEW a \in Seq(Route!Envelopes), NEW b \in Seq(Route!Frames), NEW p, NEW lo \in Nat,
         NEW hi \in Nat,
         Line(a, b, p, lo, hi), NEW way, way = a \o b
  PROVE  \A i \in 1..Len(way) : On(way[i], p) =>
           /\ way[i].id > lo
           /\ \A j \in 1..(i - 1) : On(way[j], p) => way[i].id > way[j].id
<1>1. Len(a) \in Nat /\ Len(b) \in Nat /\ Len(way) = Len(a) + Len(b)
  <2>1. b \in Seq(Route!Envelopes)
    BY EnvelopesAre
  <2> QED BY <2>1
<1>2. \A i \in 1..Len(way) :
        \/ i \in 1..Len(a) /\ way[i] = a[i]
        \/ i - Len(a) \in 1..Len(b) /\ way[i] = b[i - Len(a)] /\ i > Len(a)
  BY TheWay
<1>3. \A i \in 1..Len(a) : On(a[i], p) => a[i].id \in Nat /\ a[i].id > lo
  BY KindsOfEnvelopes DEF Route!RoutingAssumption, Line, Between, On
<1>4. \A i \in 1..Len(b) : On(b[i], p) => b[i].id \in Nat /\ b[i].id > lo
  BY DEF Route!RoutingAssumption, Line, Between, Route!Frames, Route!Frame
<1>5. ASSUME NEW i \in 1..Len(way), On(way[i], p)
      PROVE  way[i].id > lo
  BY <1>2, <1>3, <1>4, <1>5
<1>6. ASSUME NEW i \in 1..Len(way), On(way[i], p), NEW j \in 1..(i - 1), On(way[j], p)
      PROVE  way[i].id > way[j].id
  <2>1. j \in 1..Len(way) /\ j < i
    BY <1>1
  <2>2. CASE i \in 1..Len(a) /\ way[i] = a[i]
    <3>1. j \in 1..Len(a) /\ way[j] = a[j]
      BY <1>1, <1>2, <2>1, <2>2
    <3> QED BY <1>3, <1>6, <2>1, <2>2, <3>1 DEF Line, Ascends
  <2>3. CASE i - Len(a) \in 1..Len(b) /\ way[i] = b[i - Len(a)]
    <3>1. CASE j \in 1..Len(a) /\ way[j] = a[j]
      BY <1>3, <1>4, <1>6, <2>3, <3>1 DEF Line, Precedes
    <3>2. CASE j - Len(a) \in 1..Len(b) /\ way[j] = b[j - Len(a)]
      <4>1. j - Len(a) < i - Len(a)
        BY <1>1, <2>1
      <4> QED BY <1>4, <1>6, <2>3, <3>2, <4>1 DEF Line, Ascends
    <3> QED BY <1>2, <2>1, <3>1, <3>2
  <2> QED BY <1>2, <2>2, <2>3
<1> QED BY <1>5, <1>6

\* A listener hears the frames of a publisher in the order in which they were
\* published, and none twice, however many queues, drops and transports there are
\* (handleVoiceFrame, enqueueMediaEnvelope, drainMediaQueue).
THEOREM FramesKeepTheirOrder ==
  ASSUME Route!RoutingAssumption
  PROVE  Route!Spec => []Route!FramesInOrder
<1>1. RoutingInv => Route!FramesInOrder
  <2> SUFFICES ASSUME RoutingInv, NEW c \in Connections, NEW p \in Connections
               PROVE  LET way == Route!OnTheirWay(c)
                          Of(i) == way[i].kind = "frame" /\ way[i].from = p
                      IN \A i \in 1..Len(way) :
                           Of(i) => /\ way[i].id > heard[c][p]
                                    /\ \A j \in 1..(i - 1) : Of(j) => way[i].id > way[j].id
    BY DEF Route!FramesInOrder
  <2>1. /\ outbox[c] \in Seq(Route!Envelopes) /\ queue[c] \in Seq(Route!Frames)
        /\ heard[c][p] \in Nat /\ published[p] \in Nat
        /\ Line(outbox[c], queue[c], p, heard[c][p], published[p])
    BY QueuesAre DEF LineOf
  <2>2. \A i \in 1..Len(Route!OnTheirWay(c)) : On(Route!OnTheirWay(c)[i], p) =>
          /\ Route!OnTheirWay(c)[i].id > heard[c][p]
          /\ \A j \in 1..(i - 1) :
               On(Route!OnTheirWay(c)[j], p) =>
                 Route!OnTheirWay(c)[i].id > Route!OnTheirWay(c)[j].id
    BY <2>1, LinesAreInOrder DEF Route!OnTheirWay
  <2> QED BY <2>2 DEF On
<1> QED BY <1>1, RoutingHolds, PTL

\* A client that was sent every message about its sessions believes, when nothing is on
\* its way to it, to be in those and in the ones that ended without a message to it:
\* nothing else misleads it (handleDedicatedSessionEvent, sendSessionSnapshotToConnection,
\* closeByConnectionId, closeByServerId).
THEOREM ClientsAreInformed ==
  ASSUME Route!RoutingAssumption
  PROVE  Route!Spec => []Route!ClientsKnowTheirSessions
<1>1. RoutingInv => Route!ClientsKnowTheirSessions
  <2> SUFFICES ASSUME RoutingInv, NEW c \in Connections \ Requesting, Route!Informed(c)
               PROVE  view[c] = Route!SessionsOf(c) \cup untold[c]
    BY DEF Route!ClientsKnowTheirSessions, Route!Followed
  <2>1. Knowing(<<>>, view[c], Believed(c)) /\ view[c] # Unknown
    BY DEF RoutingInv, KnowInv, Route!Informed
  <2>2. NoEvent(<<>>) /\ Base(<<>>, view[c]) = view[c]
    BY DEF NoEvent, Base
  <2> QED BY <2>1, <2>2 DEF Knowing, Believed
<1> QED BY <1>1, RoutingHolds, PTL
=============================================================================
