----------------------- MODULE ServerAllocation_proofs -----------------------
(***************************************************************************)
(* Proofs about ServerAllocation: types, the health store, the reservation *)
(* of a hosted room, the exclusiveness of claimed servers, and where new   *)
(* rooms and open sessions go.  Most handlers replace the record of one    *)
(* server, so a lemma per kind of record says that it is in order, and one *)
(* lemma that the registry then is.  The last part is about                *)
(* ServerProcesses, the processes of the servers.                          *)
(***************************************************************************)
EXTENDS ServerAllocation, FiniteSetTheorems, WellFoundedInduction, TLAPS

\* A claimed server has its room, the lobby or both, no other one, and nobody in
\* it, and only its own room without the lobby; a warm server has nobody in it.
Tidy(record) ==
  /\ record.status \in {"reserved", "claimed"} =>
       /\ record.room \in Rooms
       /\ \E r \in Rooms : record.room \in {r, Lobby} /\ AssignedRooms(record) \subseteq {r, Lobby}
       /\ Lobby \notin AssignedRooms(record) => AssignedRooms(record) \subseteq {record.room}
       /\ record.populated = {}
  /\ record.status = "warm" => record.populated = {}

Records ==
  /\ servers \in [Servers -> ServerRecord]
  /\ \A s \in Servers : Tidy(servers[s])

IInv ==
  /\ Records
  /\ health \in [Servers -> HealthStatuses]
  /\ host \in [Rooms -> Servers \cup {NoServer}]
  /\ waiting \subseteq Requests
  /\ issued \subseteq Rooms \X Servers
  /\ unreserved \subseteq Rooms
  /\ HostHasReservation
  /\ HealthIsOfRegistered

\* A record that may replace the one of s: in order, of a registered server if
\* that one is, and with every reservation of it.
Succeeds(record, s) ==
  /\ record \in ServerRecord
  /\ Tidy(record)
  /\ record.status = "gone" => servers[s].status = "gone"
  /\ \A r \in Rooms : servers[s].assigned[r] > 0 => record.assigned[r] > 0

-----------------------------------------------------------------------------
(* Records *)

\* The record of a server that is not registered.
LEMMA GoneIsTidy == Gone \in ServerRecord /\ Tidy(Gone)
BY SizeAssumption DEF Gone, ServerRecord, Tidy, AssignedRooms

\* resolveServerStatus makes no server claimed, and warm only an empty one.
LEMMA ResolvedStatus ==
  ASSUME NEW status \in ServerStatuses, NEW players \in 0 .. ServerMax
  PROVE  LET resolved == ResolveServerStatus(status, players)
         IN  /\ resolved \in ServerStatuses
             /\ resolved \in {"reserved", "claimed"} => status = resolved
             /\ resolved = "warm" => status = "warm" /\ players = 0
BY SizeAssumption DEF ResolveServerStatus, ServerStatuses

\* The allocator only answers with candidates.
LEMMA AllocatedAreCandidates ==
  ASSUME NEW room, NEW size, NEW statuses
  PROVE  Allocated(room, size, statuses) \subseteq Candidates(room, size, statuses)
BY DEF Allocated

\* So does the allocation of a ticket, whichever server the client prefers.
LEMMA TicketsGoToCandidates ==
  ASSUME NEW room, NEW size, NEW preferred
  PROVE  AllocatedForTicket(room, size, preferred) \subseteq
           Candidates(room, size, TicketStatuses)
BY AllocatedAreCandidates DEF AllocatedForTicket

\* What a candidate's record says.
LEMMA CandidateFacts ==
  ASSUME NEW room, NEW size, NEW statuses, NEW s \in Candidates(room, size, statuses)
  PROVE  /\ s \in Servers
         /\ servers[s].status \in statuses
         /\ servers[s].status \in {"reserved", "claimed"} => servers[s].room \in {NoRoom, room}
         /\ health[s] \in {"healthy", "warning"}
BY DEF Candidates, IsServerHealthy

\* assignRoomToServer on a server that is not claimed for another room, or of the
\* lobby on any.
LEMMA AssignedRecord ==
  ASSUME NameAssumption, NEW record \in ServerRecord, Tidy(record), NEW room \in Rooms,
         NEW size \in Nat \ {0},
         record.status \in {"reserved", "claimed"} => record.room \in {NoRoom, room} \/ room = Lobby
  PROVE  /\ AssignedTo(record, room, size) \in ServerRecord
         /\ Tidy(AssignedTo(record, room, size))
         /\ AssignedTo(record, room, size).status = record.status
         /\ AssignedTo(record, room, size).assigned = [record.assigned EXCEPT ![room] = size]
<1> DEFINE new == AssignedTo(record, room, size)
<1>1. /\ new \in ServerRecord
      /\ new.status = record.status
      /\ new.populated = record.populated
      /\ new.assigned = [record.assigned EXCEPT ![room] = size]
      /\ new.room = IF record.room = NoRoom THEN room ELSE record.room
  BY DEF AssignedTo, ServerRecord
<1>2. record.assigned \in [Rooms -> Nat]
  BY DEF ServerRecord
<1>3. AssignedRooms(new) = AssignedRooms(record) \cup {room}
  BY <1>1, <1>2 DEF AssignedRooms
<1> HIDE DEF new
<1>4. Tidy(new)
  <2>1. CASE new.status \in {"reserved", "claimed"}
    <3>1. PICK r \in Rooms : record.room \in {r, Lobby} /\ AssignedRooms(record) \subseteq {r, Lobby}
      BY <1>1, <2>1 DEF Tidy
    <3>2. /\ record.room \in Rooms /\ record.populated = {}
          /\ Lobby \notin AssignedRooms(record) => AssignedRooms(record) \subseteq {record.room}
      BY <1>1, <2>1 DEF Tidy
    <3>3. new.room = record.room
      BY <1>1, <3>2 DEF NameAssumption
    <3>4. \/ room = Lobby
          \/ room # Lobby /\ room = record.room
      BY <1>1, <2>1, <3>2 DEF NameAssumption
    <3> QED BY <1>1, <1>3, <3>1, <3>2, <3>3, <3>4 DEF Tidy
  <2>2. CASE new.status \notin {"reserved", "claimed"}
    BY <1>1, <2>2 DEF Tidy
  <2> QED BY <2>1, <2>2
<1> QED BY <1>1, <1>4 DEF new

\* claimWarmServerForRoom on a server that the registry offers.
LEMMA ClaimedRecord ==
  ASSUME NameAssumption, NEW s \in Servers, Records, Claimable(s), NEW room \in Rooms,
         NEW size \in Nat \ {0}
  PROVE  /\ Claimed(servers[s], room, size) \in ServerRecord
         /\ Tidy(Claimed(servers[s], room, size))
         /\ Claimed(servers[s], room, size).room = room
         /\ Claimed(servers[s], room, size).status = "reserved"
         /\ Claimed(servers[s], room, size).assigned
              = [servers[s].assigned EXCEPT ![room] = size]
<1> DEFINE new == Claimed(servers[s], room, size)
<1>1. servers[s] \in ServerRecord /\ Tidy(servers[s])
  BY DEF Records
<1>2. /\ new \in ServerRecord
      /\ new.status = "reserved"
      /\ new.room = room
      /\ new.populated = servers[s].populated
      /\ new.assigned = [servers[s].assigned EXCEPT ![room] = size]
  BY <1>1 DEF Claimed, ServerRecord, ServerStatuses
<1>3. servers[s].assigned \in [Rooms -> Nat]
  BY <1>1 DEF ServerRecord
<1>4. AssignedRooms(new) \subseteq {room}
  BY <1>2, <1>3 DEF Claimable, AssignedRooms
<1>5. new.populated = {}
  BY <1>1, <1>2 DEF Claimable, Tidy
<1> HIDE DEF new
<1>6. Tidy(new)
  BY <1>2, <1>4, <1>5 DEF Tidy
<1> QED BY <1>2, <1>6 DEF new

-----------------------------------------------------------------------------
(* The registry *)

\* A record that succeeds another one keeps the registry in order.
LEMMA RegistryStep ==
  ASSUME IInv, NEW s \in Servers, NEW record, Succeeds(record, s),
         servers' = [servers EXCEPT ![s] = record]
  PROVE  /\ Records'
         /\ \A t \in Servers : servers'[t].status = "gone" => servers[t].status = "gone"
         /\ \A t \in Servers, r \in Rooms :
              servers[t].assigned[r] > 0 => servers'[t].assigned[r] > 0
<1>1. servers \in [Servers -> ServerRecord] /\ \A t \in Servers : Tidy(servers[t])
  BY DEF IInv, Records
<1>2. record \in ServerRecord /\ Tidy(record)
  BY DEF Succeeds
<1>3. \A t \in Servers : servers'[t] = IF t = s THEN record ELSE servers[t]
  BY <1>1
<1>4. servers' \in [Servers -> ServerRecord]
  BY <1>1, <1>2
<1>5. ASSUME NEW t \in Servers
      PROVE  Tidy(servers'[t])
  BY <1>1, <1>2, <1>3
<1>6. Records'
  BY <1>4, <1>5 DEF Records, Tidy, AssignedRooms
<1> QED BY <1>3, <1>6 DEF Succeeds

\* Reservations that stay, and a host with one, keep every host's reservation.
LEMMA HostStep ==
  ASSUME NameAssumption, IInv,
         \A t \in Servers, r \in Rooms :
           servers[t].assigned[r] > 0 => servers'[t].assigned[r] > 0,
         \/ host' = host /\ unreserved' = unreserved
         \/ \E s \in Servers, r \in Rooms :
              servers'[s].assigned[r] > 0 /\ host' = HostedBy(r, s) /\ unreserved' = unreserved
         \/ \E s \in Servers, r \in Rooms :
              /\ servers'[s].assigned[r] > 0
              /\ host' = [host EXCEPT ![r] = s] /\ unreserved' = unreserved \ {r}
  PROVE  host' \in [Rooms -> Servers \cup {NoServer}] /\ HostHasReservation'
<1>1. host \in [Rooms -> Servers \cup {NoServer}] /\ HostHasReservation
  BY DEF IInv
<1>2. CASE host' = host /\ unreserved' = unreserved
  BY <1>1, <1>2 DEF HostHasReservation
<1>3. CASE \E s \in Servers, r \in Rooms :
             servers'[s].assigned[r] > 0 /\ host' = HostedBy(r, s) /\ unreserved' = unreserved
  <2> PICK s \in Servers, r \in Rooms :
        servers'[s].assigned[r] > 0 /\ host' = HostedBy(r, s) /\ unreserved' = unreserved
    BY <1>3
  <2>1. \A q \in Rooms : host'[q] = IF q = r /\ host[r] = NoServer THEN s ELSE host[q]
    BY <1>1 DEF HostedBy
  <2>2. host' \in [Rooms -> Servers \cup {NoServer}]
    BY <1>1 DEF HostedBy
  <2> QED BY <1>1, <2>1, <2>2 DEF HostHasReservation
<1>4. CASE \E s \in Servers, r \in Rooms :
             /\ servers'[s].assigned[r] > 0
             /\ host' = [host EXCEPT ![r] = s] /\ unreserved' = unreserved \ {r}
  <2> PICK s \in Servers, r \in Rooms :
        /\ servers'[s].assigned[r] > 0
        /\ host' = [host EXCEPT ![r] = s] /\ unreserved' = unreserved \ {r}
    BY <1>4
  <2>1. \A q \in Rooms : host'[q] = IF q = r THEN s ELSE host[q]
    BY <1>1
  <2> QED BY <1>1, <2>1 DEF HostHasReservation
<1> QED BY <1>2, <1>3, <1>4

\* Health records that stay are of registered servers.
LEMMA HealthStays ==
  ASSUME IInv, UNCHANGED health,
         \A t \in Servers : servers'[t].status = "gone" => servers[t].status = "gone"
  PROVE  health' \in [Servers -> HealthStatuses] /\ HealthIsOfRegistered'
BY DEF IInv, HealthIsOfRegistered, Registered

\* What a room's assignment does to the record of an allocated server.
LEMMA AssignedSucceeds ==
  ASSUME NameAssumption, IInv, NEW s \in Servers, NEW room \in Rooms, NEW size \in Nat \ {0},
         \/ servers[s].status \in {"reserved", "claimed"} => servers[s].room \in {NoRoom, room}
         \/ room = Lobby
  PROVE  /\ Succeeds(AssignedTo(servers[s], room, size), s)
         /\ AssignedTo(servers[s], room, size).assigned[room] > 0
<1> DEFINE new == AssignedTo(servers[s], room, size)
<1>1. servers[s] \in ServerRecord /\ Tidy(servers[s])
  BY DEF IInv, Records
<1>2. /\ new \in ServerRecord /\ Tidy(new)
      /\ new.status = servers[s].status
      /\ new.assigned = [servers[s].assigned EXCEPT ![room] = size]
  BY <1>1, AssignedRecord
<1>3. servers[s].assigned \in [Rooms -> Nat]
  BY <1>1 DEF ServerRecord
<1> HIDE DEF new
<1>4. \A r \in Rooms : new.assigned[r] = IF r = room THEN size ELSE servers[s].assigned[r]
  BY <1>2, <1>3
<1>5. Succeeds(new, s) /\ new.assigned[room] > 0
  BY <1>2, <1>4 DEF Succeeds
<1> QED BY <1>5 DEF new

\* What a claim does to it, the request's own assignment after it or not.
LEMMA ClaimedSucceeds ==
  ASSUME NameAssumption, IInv, NEW s \in Servers, Claimable(s), NEW room \in Rooms, NEW size \in Nat \ {0}
  PROVE  /\ Succeeds(Claimed(servers[s], room, size), s)
         /\ Claimed(servers[s], room, size).assigned[room] > 0
         /\ Succeeds(AssignedTo(Claimed(servers[s], room, size), room, size), s)
         /\ AssignedTo(Claimed(servers[s], room, size), room, size).assigned[room] > 0
<1> DEFINE claimed == Claimed(servers[s], room, size)
           new == AssignedTo(claimed, room, size)
<1>1. servers[s] \in ServerRecord /\ Records
  BY DEF IInv, Records
<1>2. /\ claimed \in ServerRecord /\ Tidy(claimed)
      /\ claimed.room = room
      /\ claimed.status = "reserved"
      /\ claimed.assigned = [servers[s].assigned EXCEPT ![room] = size]
  BY <1>1, ClaimedRecord
<1>3. servers[s].assigned \in [Rooms -> Nat]
  BY <1>1 DEF ServerRecord
<1> HIDE DEF claimed
<1>4. /\ new \in ServerRecord /\ Tidy(new)
      /\ new.status = "reserved"
      /\ new.assigned = [claimed.assigned EXCEPT ![room] = size]
  BY <1>2, AssignedRecord
<1> HIDE DEF new
<1>5. \A r \in Rooms : claimed.assigned[r] = IF r = room THEN size ELSE servers[s].assigned[r]
  BY <1>2, <1>3
<1>6. \A r \in Rooms : new.assigned[r] = IF r = room THEN size ELSE claimed.assigned[r]
  BY <1>2, <1>3, <1>4
<1>7. Succeeds(claimed, s) /\ claimed.assigned[room] > 0
  BY <1>2, <1>5 DEF Succeeds
<1>8. Succeeds(new, s) /\ new.assigned[room] > 0
  BY <1>4, <1>5, <1>6 DEF Succeeds
<1> QED BY <1>7, <1>8 DEF new, claimed

-----------------------------------------------------------------------------
(* The handlers *)

\* A record is replaced; its server may become the host of a room it reserves.
LEMMA ReplaceStep ==
  ASSUME NameAssumption, IInv, NEW s \in Servers, NEW record, Succeeds(record, s),
         servers' = [servers EXCEPT ![s] = record],
         \/ host' = host /\ unreserved' = unreserved
         \/ \E room \in Rooms : /\ record.assigned[room] > 0
                               /\ host' = HostedBy(room, s) /\ unreserved' = unreserved
         \/ \E room \in Rooms : /\ record.assigned[room] > 0
                               /\ host' = [host EXCEPT ![room] = s]
                               /\ unreserved' = unreserved \ {room},
         UNCHANGED health, waiting' \subseteq Requests, issued' \subseteq Rooms \X Servers
  PROVE  IInv'
<1>1. /\ Records'
      /\ \A t \in Servers : servers'[t].status = "gone" => servers[t].status = "gone"
      /\ \A t \in Servers, r \in Rooms :
           servers[t].assigned[r] > 0 => servers'[t].assigned[r] > 0
  BY RegistryStep
<1>2. health' \in [Servers -> HealthStatuses] /\ HealthIsOfRegistered'
  BY <1>1, HealthStays
<1>3. servers \in [Servers -> ServerRecord]
  BY DEF IInv, Records
<1>4. servers'[s] = record
  BY <1>3
<1>5. host' \in [Rooms -> Servers \cup {NoServer}] /\ HostHasReservation'
  BY <1>1, <1>4, HostStep
<1>6. unreserved' \subseteq Rooms
  BY DEF IInv
<1> QED BY <1>1, <1>2, <1>5, <1>6 DEF IInv, Requests

\* A process reports: its record and its health record are replaced.
LEMMA ReportStep ==
  ASSUME NameAssumption, IInv, NEW s \in Servers, NEW record, Succeeds(record, s),
         record.status # "gone", NEW h \in HealthStatuses,
         servers' = [servers EXCEPT ![s] = record],
         health' = [health EXCEPT ![s] = h],
         UNCHANGED <<host, waiting, issued, unreserved>>
  PROVE  IInv'
<1>1. /\ Records'
      /\ \A t \in Servers : servers'[t].status = "gone" => servers[t].status = "gone"
      /\ \A t \in Servers, r \in Rooms :
           servers[t].assigned[r] > 0 => servers'[t].assigned[r] > 0
  BY RegistryStep
<1>2. host' \in [Rooms -> Servers \cup {NoServer}] /\ HostHasReservation'
  BY <1>1, HostStep
<1>3. /\ servers \in [Servers -> ServerRecord]
      /\ health \in [Servers -> HealthStatuses] /\ HealthIsOfRegistered
  BY DEF IInv, Records
<1>4. servers'[s].status # "gone"
  BY <1>3
<1>5. health' \in [Servers -> HealthStatuses] /\ HealthIsOfRegistered'
  BY <1>1, <1>3, <1>4 DEF HealthIsOfRegistered, Registered
<1> QED BY <1>1, <1>2, <1>5 DEF IInv, Requests

\* The health that is recorded, whatever is reported.
LEMMA RecordedRange ==
  ASSUME NEW s, NEW status
  PROVE  RecordedHealth(s, status) \in HealthStatuses
BY DEF RecordedHealth, HealthStatuses

\* A process that registers is not claimed, and keeps the assignments it had.
LEMMA RegisterStep ==
  ASSUME SizeAssumption, NameAssumption, IInv, NEW s \in Servers,
         NEW room \in Rooms \cup {NoRoom}, NEW status \in ReportedStatuses,
         NEW n \in 0 .. ServerMax, RegisterServer(s, room, status, n)
  PROVE  IInv'
<1> DEFINE kept == [r \in Rooms |-> IF r = room THEN LaunchSize[s]
                                    ELSE servers[s].assigned[r]]
           resolved == ResolveServerStatus(status, n)
           record == [status |-> resolved, room |-> room, players |-> n,
                      assigned |-> kept, populated |-> {}]
<1>1. status \in ServerStatuses /\ status \notin {"reserved", "claimed"}
  BY DEF NameAssumption, ServerStatuses
<1>2. resolved \in ServerStatuses /\ resolved \notin {"reserved", "claimed"}
  BY <1>1, ResolvedStatus
<1>3. servers[s].assigned \in [Rooms -> Nat]
  BY DEF IInv, Records, ServerRecord
<1>4. LaunchSize[s] \in Nat /\ LaunchSize[s] > 0
  BY DEF SizeAssumption
<1>5. kept \in [Rooms -> Nat] /\ \A r \in Rooms : servers[s].assigned[r] > 0 => kept[r] > 0
  BY <1>3, <1>4
<1>6. /\ servers' = [servers EXCEPT ![s] = record]
      /\ health' = [health EXCEPT ![s] = RecordedHealth(s, resolved)]
      /\ UNCHANGED <<host, waiting, issued, unreserved>>
  BY DEF RegisterServer
<1> HIDE DEF kept, resolved
<1>7. record \in ServerRecord
  BY <1>2, <1>5 DEF ServerRecord
<1>8. record.status # "gone" /\ Tidy(record)
  BY <1>2 DEF Tidy, ServerStatuses
<1>9. Succeeds(record, s)
  BY <1>5, <1>7, <1>8 DEF Succeeds
<1> HIDE DEF record
<1> QED BY <1>6, <1>8, <1>9, RecordedRange, ReportStep

\* The rooms of a claimed server: no heartbeat of it names another one.
LEMMA ClaimedKnowsItsRoom ==
  ASSUME NEW record, Tidy(record), record.status \in {"reserved", "claimed"}
  PROVE  /\ \E r \in Rooms : KnownRooms(record) \subseteq {r, Lobby}
         /\ Lobby \notin AssignedRooms(record) => KnownRooms(record) = {record.room} \ {NoRoom}
BY DEF Tidy, KnownRooms

\* A heartbeat without players of a claimed server keeps the claim's room; with
\* players, or of another server, it ends or makes no claim.
LEMMA HeartbeatStep ==
  ASSUME SizeAssumption, NameAssumption, IInv, NEW s \in Servers,
         NEW status \in ReportedStatuses, NEW room \in Rooms \cup {NoRoom},
         NEW n \in 0 .. ServerMax, NEW populated \in SUBSET Rooms,
         HeartbeatServer(s, status, room, n, populated)
  PROVE  IInv'
<1> DEFINE old == servers[s]
           named == IF room # NoRoom THEN room ELSE old.room
           resolved == IF PreservesClaim(old, named, status, n)
                       THEN old.status ELSE ResolveServerStatus(status, n)
<1>1. PICK primary \in UNION {PrimaryRooms(named, l) : l \in RoomLists(old, populated)} :
        servers' = [servers EXCEPT ![s] =
          [status |-> resolved, room |-> primary, players |-> n,
           assigned |-> old.assigned, populated |-> populated]]
  BY DEF HeartbeatServer
<1>2. PICK listed \in RoomLists(old, populated) : primary \in PrimaryRooms(named, listed)
  OBVIOUS
<1> DEFINE record == [status |-> resolved, room |-> primary, players |-> n,
                      assigned |-> old.assigned, populated |-> populated]
<1>3. old \in ServerRecord /\ Tidy(old) /\ old.status # "gone"
  BY DEF IInv, Records, HeartbeatServer, Registered
<1>4. n = 0 => populated = {}
  <2>1. IsFiniteSet(populated)
    BY FS_Subset DEF NameAssumption
  <2>2. Cardinality(populated) <= n /\ Cardinality(populated) \in Nat
    BY <2>1, FS_CardinalityType DEF HeartbeatServer
  <2> QED BY <2>1, <2>2, FS_EmptySet
<1>5. status \in ServerStatuses /\ status \notin {"reserved", "claimed"}
  BY DEF NameAssumption, ServerStatuses
<1>6. /\ ResolveServerStatus(status, n) \in ServerStatuses \ {"reserved", "claimed"}
      /\ ResolveServerStatus(status, n) = "warm" => n = 0
  BY <1>5, ResolvedStatus
<1>7. old.status \in ServerStatuses /\ old.room \in Rooms \cup {NoRoom}
  BY <1>3 DEF ServerRecord
<1>8. resolved \in ServerStatuses /\ (resolved = "warm" => populated = {})
  BY <1>4, <1>6, <1>7 DEF PreservesClaim
<1>9. /\ old.assigned \in [Rooms -> Nat] /\ KnownRooms(old) \subseteq Rooms
      /\ listed \subseteq populated \cup KnownRooms(old)
      /\ primary \in {named} \cup listed
      /\ {room} \ {NoRoom} \subseteq KnownRooms(old)
  <2>1. old.assigned \in [Rooms -> Nat] /\ KnownRooms(old) \subseteq Rooms
    BY <1>3 DEF KnownRooms, AssignedRooms, ServerRecord
  <2> QED BY <1>2, <2>1 DEF RoomLists, PrimaryRooms, HeartbeatServer
<1>10. primary \in Rooms \cup {NoRoom}
  BY <1>7, <1>9
<1>11. ASSUME resolved \in {"reserved", "claimed"}
       PROVE  /\ primary \in Rooms /\ populated = {}
              /\ \E r \in Rooms : primary \in {r, Lobby} /\ AssignedRooms(old) \subseteq {r, Lobby}
              /\ Lobby \notin AssignedRooms(old) => AssignedRooms(old) \subseteq {primary}
  <2>1. old.status \in {"reserved", "claimed"} /\ n = 0 /\ populated = {}
    BY <1>4, <1>6, <1>11 DEF PreservesClaim
  <2>2. /\ old.room \in Rooms
        /\ Lobby \notin AssignedRooms(old) => AssignedRooms(old) \subseteq {old.room}
    BY <1>3, <2>1 DEF Tidy
  <2>3. primary \in KnownRooms(old)
    <3>1. old.room \in KnownRooms(old)
      BY <2>2 DEF KnownRooms, NameAssumption
    <3>2. named \in KnownRooms(old)
      BY <1>9, <3>1
    <3> QED BY <1>9, <2>1, <3>2
  <2>4. /\ \E r \in Rooms : KnownRooms(old) \subseteq {r, Lobby}
        /\ Lobby \notin AssignedRooms(old) => KnownRooms(old) \subseteq {old.room}
    BY <1>3, <2>1, ClaimedKnowsItsRoom
  <2>5. AssignedRooms(old) \subseteq KnownRooms(old)
    BY DEF KnownRooms, AssignedRooms, NameAssumption
  <2> QED BY <1>9, <2>1, <2>2, <2>3, <2>4, <2>5
<1> HIDE DEF resolved, named, old
<1>12. record \in ServerRecord /\ record.status # "gone"
  BY <1>8, <1>9, <1>10 DEF ServerRecord, ServerStatuses
<1>13. Tidy(record)
  BY <1>8, <1>11 DEF Tidy, AssignedRooms
<1>14. Succeeds(record, s)
  BY <1>12, <1>13 DEF Succeeds, old
<1>15. /\ servers' = [servers EXCEPT ![s] = record]
       /\ health' = [health EXCEPT ![s] = RecordedHealth(s, status)]
       /\ UNCHANGED <<host, waiting, issued, unreserved>>
  BY <1>1 DEF HeartbeatServer
<1> HIDE DEF record
<1> QED BY <1>12, <1>14, <1>15, RecordedRange, ReportStep

\* A player count is recorded: no server becomes claimed by it, and a warm one
\* stays warm only without players.
LEMMA CountedRecord ==
  ASSUME SizeAssumption, IInv, NEW s \in Servers, NEW n \in 0 .. ServerMax, Registered(s)
  PROVE  /\ Succeeds(WithPlayers(s, n), s)
         /\ WithPlayers(s, n).assigned = servers[s].assigned
         /\ WithPlayers(s, n).status # "gone"
<1> DEFINE resolved == ResolveServerStatus(servers[s].status, n)
           record == WithPlayers(s, n)
<1>1. servers[s] \in ServerRecord /\ Tidy(servers[s]) /\ servers[s].status # "gone"
  BY DEF IInv, Records, Registered
<1>2. servers[s].status \in ServerStatuses
  BY <1>1 DEF ServerRecord
<1>3. /\ resolved \in ServerStatuses
      /\ resolved \in {"reserved", "claimed"} => servers[s].status = resolved
      /\ resolved = "warm" => servers[s].status = "warm"
  BY <1>2, ResolvedStatus
<1>4. record = [servers[s] EXCEPT !.players = n, !.status = resolved]
  BY <1>1 DEF WithPlayers, ServerRecord
<1> HIDE DEF resolved, record
<1>5. /\ record \in ServerRecord
      /\ record.status = resolved
      /\ record.room = servers[s].room
      /\ record.assigned = servers[s].assigned
      /\ record.populated = servers[s].populated
  BY <1>1, <1>3, <1>4 DEF ServerRecord
<1>6. Tidy(record)
  BY <1>1, <1>3, <1>5 DEF Tidy, AssignedRooms
<1>7. Succeeds(record, s) /\ record.status # "gone"
  BY <1>1, <1>3, <1>5, <1>6 DEF Succeeds, ServerStatuses
<1> QED BY <1>5, <1>7 DEF record

\* It is all that updatePlayerCount records.
LEMMA PlayerCountStep ==
  ASSUME SizeAssumption, NameAssumption, IInv, NEW s \in Servers, NEW n \in 0 .. ServerMax,
         UpdatePlayerCount(s, n)
  PROVE  IInv'
<1> DEFINE record == WithPlayers(s, n)
<1>1. /\ servers' = [servers EXCEPT ![s] = record]
      /\ UNCHANGED <<health, host, waiting, issued, unreserved>>
  BY DEF UpdatePlayerCount
<1>2. Succeeds(record, s)
  BY CountedRecord DEF UpdatePlayerCount
<1> HIDE DEF record
<1> QED BY <1>1, <1>2, ReplaceStep DEF IInv

\* The session that a verification opens: its room has a reservation there, or is
\* marked as one without.
LEMMA VerifyStep ==
  ASSUME SizeAssumption, NameAssumption, IInv, NEW r \in Rooms, NEW s \in Servers,
         VerifyTicketOpensSession(r, s)
  PROVE  IInv'
<1>2. /\ servers \in [Servers -> ServerRecord] /\ Records
      /\ host \in [Rooms -> Servers \cup {NoServer}] /\ HostHasReservation
      /\ health \in [Servers -> HealthStatuses] /\ HealthIsOfRegistered
      /\ issued \subseteq Rooms \X Servers /\ waiting \subseteq Requests
      /\ unreserved \subseteq Rooms
  BY DEF IInv, Records
<1>3. /\ Records'
      /\ \A t \in Servers : servers'[t].status = "gone" => servers[t].status = "gone"
      /\ \A t \in Servers, q \in Rooms :
           servers[t].assigned[q] > 0 => servers'[t].assigned[q] > 0
  <2>1. CASE Registered(s)
    <3> DEFINE record == WithPlayers(s, 1)
    <3>1. servers' = [servers EXCEPT ![s] = record]
      BY <2>1 DEF VerifyTicketOpensSession
    <3>2. Succeeds(record, s)
      BY <2>1, CountedRecord DEF SizeAssumption
    <3> HIDE DEF record
    <3> QED BY <3>1, <3>2, RegistryStep
  <2>2. CASE ~Registered(s)
    <3>1. servers' = servers
      BY <2>2 DEF VerifyTicketOpensSession
    <3> QED BY <1>2, <3>1 DEF Records, Tidy, AssignedRooms
  <2> QED BY <2>1, <2>2
<1>4. /\ \A q \in Rooms : host'[q] = IF q = r THEN s ELSE host[q]
      /\ host' \in [Rooms -> Servers \cup {NoServer}]
  BY <1>2 DEF VerifyTicketOpensSession
<1>5. /\ unreserved' \subseteq Rooms /\ unreserved \subseteq unreserved'
      /\ servers[s].assigned[r] > 0 \/ r \in unreserved'
  BY <1>2 DEF VerifyTicketOpensSession
<1>6. HostHasReservation'
  <2> SUFFICES ASSUME NEW q \in Rooms, host'[q] # NoServer
               PROVE  servers'[host'[q]].assigned[q] > 0 \/ q \in unreserved'
    BY DEF HostHasReservation
  <2>1. CASE q = r
    BY <1>3, <1>4, <1>5, <2>1
  <2>2. CASE q # r
    <3>1. host'[q] = host[q] /\ host[q] \in Servers
      BY <1>2, <1>4, <2>2
    <3>2. servers[host[q]].assigned[q] > 0 \/ q \in unreserved
      BY <1>2, <3>1 DEF HostHasReservation
    <3> QED BY <1>3, <1>5, <3>1, <3>2
  <2> QED BY <2>1, <2>2
<1>7. health' \in [Servers -> HealthStatuses] /\ HealthIsOfRegistered'
  BY <1>3, HealthStays DEF VerifyTicketOpensSession
<1>8. issued' \subseteq Rooms \X Servers /\ waiting' = waiting
  BY <1>2 DEF VerifyTicketOpensSession
<1> QED BY <1>2, <1>3, <1>4, <1>5, <1>6, <1>7, <1>8 DEF IInv, Requests

\* What a request does with its server also leaves its ticket.
LEMMA IssuedTypes ==
  ASSUME IInv, NEW s \in Servers, NEW record, NEW room \in Rooms, NEW size,
         AssignAndHost(s, record, room, size)
  PROVE  issued' \subseteq Rooms \X Servers
BY DEF AssignAndHost, IInv

\* A ticket request gives an available server the room, at once or after an await.
LEMMA TicketAssignStep ==
  ASSUME SizeAssumption, NameAssumption, IInv, NEW room \in Rooms, NEW size \in RoomSizes,
         NEW p, NEW s \in AllocatedForTicket(room, size, p),
         AssignAndHost(s, servers[s], room, size),
         UNCHANGED health, waiting' \subseteq Requests
  PROVE  IInv'
<1>1. s \in Candidates(room, size, TicketStatuses)
  BY TicketsGoToCandidates
<1>2. /\ s \in Servers
      /\ servers[s].status \in {"reserved", "claimed"} => servers[s].room \in {NoRoom, room}
  BY <1>1, CandidateFacts
<1>3. size \in Nat \ {0}
  BY DEF SizeAssumption
<1>4. /\ Succeeds(AssignedTo(servers[s], room, size), s)
      /\ AssignedTo(servers[s], room, size).assigned[room] > 0
  BY <1>2, <1>3, AssignedSucceeds
<1>5. issued' \subseteq Rooms \X Servers
  BY <1>2, IssuedTypes
<1> QED BY <1>2, <1>4, <1>5, ReplaceStep DEF AssignAndHost

\* A ticket request claims a warm server and assigns its room to it.
LEMMA WarmClaimStep ==
  ASSUME SizeAssumption, NameAssumption, IInv, NEW room \in Rooms, NEW size \in RoomSizes,
         NEW s \in Servers, RequestTicketWithWarmClaim(room, size, s)
  PROVE  IInv'
<1> DEFINE record == AssignedTo(Claimed(servers[s], room, size), room, size)
<1>1. size \in Nat \ {0} /\ Claimable(s)
  BY DEF SizeAssumption, RequestTicketWithWarmClaim
<1>2. Succeeds(record, s) /\ record.assigned[room] > 0
  BY <1>1, ClaimedSucceeds
<1>3. /\ servers' = [servers EXCEPT ![s] = record]
      /\ host' = HostedBy(room, s)
      /\ UNCHANGED <<health, waiting, unreserved>>
  BY DEF RequestTicketWithWarmClaim, AssignAndHost
<1>4. issued' \subseteq Rooms \X Servers
  BY IssuedTypes DEF RequestTicketWithWarmClaim
<1> HIDE DEF record
<1> QED BY <1>2, <1>3, <1>4, ReplaceStep DEF IInv

\* The request that waited allocates again, or fails.
LEMMA ResumeStep ==
  ASSUME SizeAssumption, NameAssumption, IInv, NEW request \in Requests,
         ResumeAfterLaunch(request)
  PROVE  IInv'
<1>1. request.room \in Rooms /\ request.size \in RoomSizes
  BY DEF Requests
<1>2. UNCHANGED health /\ waiting' \subseteq Requests
  BY DEF ResumeAfterLaunch, IInv
<1>3. CASE UNCHANGED <<servers, host, issued, unreserved>>
  BY <1>2, <1>3 DEF IInv, Records, HostHasReservation, HealthIsOfRegistered, Registered,
                    Tidy, AssignedRooms, Requests
<1>4. CASE \E p \in Preferred \cup {NoServer} :
             \E s \in AllocatedForTicket(request.room, request.size, p) :
               AssignAndHost(s, servers[s], request.room, request.size)
  BY <1>1, <1>2, <1>4, TicketAssignStep
<1> QED BY <1>3, <1>4 DEF ResumeAfterLaunch

\* ensureRoomAssignment gives the lobby to any server that has the slots.
LEMMA LobbyAssignedSucceeds ==
  ASSUME SizeAssumption, NameAssumption, IInv, NEW s \in Servers, LobbyAssigned(s)
  PROVE  \E record : /\ Succeeds(record, s)
                     /\ record.assigned[Lobby] > 0
                     /\ servers' = [servers EXCEPT ![s] = record]
<1>1. LobbySize \in Nat \ {0} /\ Lobby \in Rooms
  BY DEF SizeAssumption, NameAssumption
<1>3. CASE servers[s].assigned[Lobby] = 0 /\ servers[s].status = "warm"
  <2>1. Claimable(s) /\ servers' = [servers EXCEPT ![s] = Claimed(servers[s], Lobby, LobbySize)]
    BY <1>3 DEF LobbyAssigned, IInv, Records
  <2> QED BY <1>1, <2>1, ClaimedSucceeds
<1>4. CASE ~(servers[s].assigned[Lobby] = 0 /\ servers[s].status = "warm")
  <2>1. servers' = [servers EXCEPT ![s] = AssignedTo(servers[s], Lobby, LobbySize)]
    BY <1>4 DEF LobbyAssigned, IInv, Records
  <2> QED BY <1>1, <2>1, AssignedSucceeds
<1> QED BY <1>3, <1>4

\* The reconciler with an open lobby session: its host gets the reservation, or
\* keeps it.
LEMMA HostedLobbyStep ==
  ASSUME SizeAssumption, NameAssumption, IInv, ReconcileHostedLobby
  PROVE  IInv'
<1>1. PICK s \in Servers : /\ s = host[Lobby] /\ LobbyAssigned(s)
                          /\ UNCHANGED <<health, host, waiting, issued, unreserved>>
  BY DEF ReconcileHostedLobby, IInv, NameAssumption
<1>2. PICK record : Succeeds(record, s) /\ servers' = [servers EXCEPT ![s] = record]
  BY <1>1, LobbyAssignedSucceeds
<1> QED BY <1>1, <1>2, ReplaceStep DEF IInv

\* The servers that the reconciler chooses from have the lobby or may take it.
LEMMA LobbyChoiceFacts ==
  ASSUME NEW s \in LobbyChoices
  PROVE  /\ s \in Servers
         /\ \/ servers[s].assigned[Lobby] > 0
            \/ s \in Candidates(Lobby, LobbySize, LobbyStatuses)
<1> DEFINE assigned == {t \in Servers : Registered(t) /\ servers[t].assigned[Lobby] > 0}
<1>1. s \in assigned \/ s \in Allocated(Lobby, LobbySize, LobbyStatuses)
  BY DEF LobbyChoices
<1> QED BY <1>1, AllocatedAreCandidates, CandidateFacts

\* The reconciler without one: it chooses a host.
LEMMA UnhostedLobbyStep ==
  ASSUME SizeAssumption, NameAssumption, IInv, NEW s \in Servers, ReconcileUnhostedLobby(s)
  PROVE  IInv'
<1>1. LobbyAssigned(s) /\ UNCHANGED <<health, waiting, issued>>
  BY DEF ReconcileUnhostedLobby
<1>2. PICK record : /\ Succeeds(record, s) /\ record.assigned[Lobby] > 0
                    /\ servers' = [servers EXCEPT ![s] = record]
  BY <1>1, LobbyAssignedSucceeds
<1>3. /\ host' = [host EXCEPT ![Lobby] = s] /\ unreserved' = unreserved \ {Lobby}
      /\ Lobby \in Rooms
  BY DEF ReconcileUnhostedLobby, NameAssumption
<1> QED BY <1>1, <1>2, <1>3, ReplaceStep DEF IInv

\* The primary room that the status endpoint may choose for a server with these
\* rooms.
ChosenAfterRelease(primary, s, listed) ==
  LET rooms == listed \cup AssignedRooms(servers[s])
      released == Released(servers[s], rooms)
  IN  primary \in IF released = {} THEN {servers[s].room}
                  ELSE PrimaryRooms(servers[s].room, rooms \ released)

\* The status endpoint takes reservations of a server only for rooms that no
\* session is hosted for, and leaves a claimed server one that it still has.
LEMMA ReleasedRecord ==
  ASSUME NameAssumption, IInv, NEW s \in Servers,
         NEW listed \in RoomLists(servers[s], servers[s].populated),
         NEW primary \in Rooms \cup {NoRoom},
         ChosenAfterRelease(primary, s, listed)
  PROVE  /\ WithoutReleased(servers[s], primary) \in ServerRecord
         /\ Tidy(WithoutReleased(servers[s], primary))
         /\ WithoutReleased(servers[s], primary).status = servers[s].status
         /\ \A r \in Rooms : host[r] # NoServer =>
              WithoutReleased(servers[s], primary).assigned[r] = servers[s].assigned[r]
<1> DEFINE old == servers[s]
           kept == [r \in Rooms |-> IF r \in Released(old, Rooms) THEN 0 ELSE old.assigned[r]]
           new == WithoutReleased(old, primary)
           rooms == listed \cup AssignedRooms(old)
           released == Released(old, rooms)
<1>1. old \in ServerRecord /\ Tidy(old) /\ old.assigned \in [Rooms -> Nat]
  BY DEF IInv, Records, ServerRecord
<1>2. kept \in [Rooms -> Nat]
  BY <1>1
<1>3. new = [old EXCEPT !.room = primary, !.assigned = kept]
  BY DEF WithoutReleased
<1>4. \A r \in Rooms : host[r] # NoServer => kept[r] = old.assigned[r]
  BY DEF Released
<1>5. \A r \in Rooms : kept[r] > 0 => old.assigned[r] > 0
  BY <1>1
<1>6. primary \in IF released = {} THEN {old.room} ELSE PrimaryRooms(old.room, rooms \ released)
  BY DEF ChosenAfterRelease
<1>7. rooms \subseteq KnownRooms(old) \cup old.populated \cup AssignedRooms(old)
  BY DEF RoomLists
<1> HIDE DEF kept, new, rooms, released
<1>8. /\ new \in ServerRecord
      /\ new.status = old.status /\ new.room = primary
      /\ new.assigned = kept /\ new.populated = old.populated
  BY <1>1, <1>2, <1>3 DEF ServerRecord
<1>9. AssignedRooms(new) \subseteq AssignedRooms(old)
  BY <1>5, <1>8 DEF AssignedRooms
<1>10. /\ AssignedRooms(old) \subseteq rooms
       /\ \A r \in rooms : kept[r] = IF r \in released THEN 0 ELSE old.assigned[r]
       /\ released \subseteq rooms
  <2>1. AssignedRooms(old) \subseteq Rooms /\ KnownRooms(old) \subseteq Rooms
        /\ old.populated \subseteq Rooms
    BY <1>1 DEF AssignedRooms, KnownRooms, ServerRecord
  <2>2. rooms \subseteq Rooms
    BY <1>7, <2>1
  <2> QED BY <2>2 DEF Released, kept, released, rooms
<1>11. ASSUME old.status \in {"reserved", "claimed"}
       PROVE  /\ primary \in Rooms /\ old.populated = {}
              /\ \E r \in Rooms : primary \in {r, Lobby} /\ AssignedRooms(new) \subseteq {r, Lobby}
              /\ Lobby \notin AssignedRooms(new) => AssignedRooms(new) \subseteq {primary}
  <2>1. /\ old.room \in Rooms /\ old.populated = {}
        /\ Lobby \notin AssignedRooms(old) => AssignedRooms(old) \subseteq {old.room}
    BY <1>1, <1>11 DEF Tidy
  <2>2. rooms \subseteq KnownRooms(old) /\ old.room \in KnownRooms(old)
    BY <1>7, <2>1 DEF KnownRooms, AssignedRooms, NameAssumption
  <2>3. /\ \E r \in Rooms : KnownRooms(old) \subseteq {r, Lobby}
        /\ Lobby \notin AssignedRooms(old) => KnownRooms(old) \subseteq {old.room}
    BY <1>1, <1>11, ClaimedKnowsItsRoom
  <2>4. primary = old.room \/ primary \in rooms \ released
    BY <1>6 DEF PrimaryRooms
  <2>5. primary \in Rooms
    BY <1>8, <2>1, <2>2, <2>4, <1>1 DEF KnownRooms, AssignedRooms, ServerRecord
  <2>6. primary \in KnownRooms(old) /\ AssignedRooms(new) \subseteq KnownRooms(old)
    BY <1>9, <2>2, <2>4, <1>10
  <2>7. ASSUME Lobby \notin AssignedRooms(new)
        PROVE  AssignedRooms(new) \subseteq {primary}
    <3>1. CASE Lobby \notin AssignedRooms(old)
      BY <1>9, <2>1, <2>3, <2>6, <3>1
    <3>2. CASE Lobby \in AssignedRooms(old)
      <4>1. Lobby \in released
        BY <1>1, <1>8, <1>10, <2>7, <3>2 DEF AssignedRooms
      <4>2. AssignedRooms(new) \subseteq rooms \ released
        BY <1>1, <1>8, <1>9, <1>10 DEF AssignedRooms
      <4>3. PICK r \in Rooms : rooms \subseteq {r, Lobby}
        BY <2>2, <2>3
      <4>4. rooms \ released \subseteq {r}
        BY <4>1, <4>3
      <4>5. primary \in IF rooms \ released = {} \/ old.room \in rooms \ released
                         THEN {old.room} ELSE rooms \ released
        BY <1>6, <4>1 DEF PrimaryRooms
      <4> QED BY <4>2, <4>4, <4>5
    <3> QED BY <3>1, <3>2
  <2> QED BY <2>1, <2>3, <2>5, <2>6, <2>7
<1> HIDE DEF old
<1>12. Tidy(new)
  BY <1>1, <1>8, <1>11 DEF Tidy
<1> QED BY <1>4, <1>8, <1>12 DEF new, old

\* Every server's record is released so, the sessions' rooms keeping theirs.
LEMMA GetStatusStep ==
  ASSUME NameAssumption, IInv, GetStatus
  PROVE  IInv'
<1>1. PICK primary \in [Servers -> Rooms \cup {NoRoom}] :
        /\ \A s \in Servers : \E listed \in RoomLists(servers[s], servers[s].populated) :
             ChosenAfterRelease(primary[s], s, listed)
        /\ servers' = [s \in Servers |-> WithoutReleased(servers[s], primary[s])]
        /\ UNCHANGED <<health, host, waiting, issued, unreserved>>
  BY DEF GetStatus, ChosenAfterRelease
<1>2. ASSUME NEW s \in Servers
      PROVE  /\ servers'[s] \in ServerRecord
             /\ Tidy(servers'[s])
             /\ servers'[s].status = servers[s].status
             /\ \A r \in Rooms :
                  host[r] # NoServer => servers'[s].assigned[r] = servers[s].assigned[r]
  <2>1. PICK listed \in RoomLists(servers[s], servers[s].populated) :
          ChosenAfterRelease(primary[s], s, listed)
    BY <1>1
  <2>2. primary[s] \in Rooms \cup {NoRoom}
    OBVIOUS
  <2>3. servers'[s] = WithoutReleased(servers[s], primary[s])
    BY <1>1
  <2> QED BY <2>1, <2>2, <2>3, ReleasedRecord
<1>3. servers' \in [Servers -> ServerRecord]
  BY <1>1, <1>2
<1>4. Records'
  BY <1>2, <1>3 DEF Records, Tidy, AssignedRooms
<1>5. HostHasReservation'
  BY <1>1, <1>2 DEF HostHasReservation, IInv
<1>6. health' \in [Servers -> HealthStatuses] /\ HealthIsOfRegistered'
  BY <1>1, <1>2, HealthStays
<1> QED BY <1>1, <1>4, <1>5, <1>6 DEF IInv, Requests

\* The cleanup removes a server together with its health record and sessions.
LEMMA CleanupStep ==
  ASSUME IInv, NameAssumption, SizeAssumption, NEW stale \in SUBSET Servers,
         NEW retired \in SUBSET Servers, Cleanup(stale, retired)
  PROVE  IInv'
<1>1. /\ servers \in [Servers -> ServerRecord] /\ \A s \in Servers : Tidy(servers[s])
      /\ health \in [Servers -> HealthStatuses] /\ HealthIsOfRegistered
      /\ host \in [Rooms -> Servers \cup {NoServer}] /\ HostHasReservation
  BY DEF IInv, Records
<1>2. ASSUME NEW s \in Servers
      PROVE  \/ s \in retired /\ servers'[s] = Gone
             \/ /\ s \notin retired
                /\ servers'[s] \in {servers[s], [servers[s] EXCEPT !.status = "unhealthy"]}
  BY DEF Cleanup
<1>3. ASSUME NEW s \in Servers
      PROVE  /\ servers'[s] \in ServerRecord
             /\ Tidy(servers'[s])
             /\ s \notin retired => servers'[s].assigned = servers[s].assigned
             /\ s \notin retired => servers'[s].status \in {servers[s].status, "unhealthy"}
  <2> DEFINE old == servers[s]
             unhealthy == [old EXCEPT !.status = "unhealthy"]
  <2>1. old \in ServerRecord /\ Tidy(old)
    BY <1>1
  <2>2. \/ servers'[s] = Gone /\ s \in retired
        \/ servers'[s] \in {old, unhealthy}
    BY <1>2
  <2> HIDE DEF old
  <2>3. /\ unhealthy \in ServerRecord
        /\ unhealthy.status = "unhealthy"
        /\ unhealthy.assigned = old.assigned
    BY <2>1 DEF ServerRecord, ServerStatuses
  <2> HIDE DEF unhealthy
  <2>4. Tidy(unhealthy)
    BY <2>3 DEF Tidy
  <2> QED BY <2>1, <2>2, <2>3, <2>4, GoneIsTidy DEF old
<1>4. servers' = [s \in Servers |-> servers'[s]]
  BY DEF Cleanup
<1>5. servers' \in [Servers -> ServerRecord]
  BY <1>3, <1>4
<1>6. Records'
  BY <1>3, <1>5 DEF Records, Tidy, AssignedRooms
<1>7. /\ \A r \in Rooms : host'[r] = IF host[r] \in retired THEN NoServer ELSE host[r]
      /\ host' \in [Rooms -> Servers \cup {NoServer}]
  BY <1>1 DEF Cleanup
<1>8. HostHasReservation'
  <2> SUFFICES ASSUME NEW r \in Rooms, host'[r] # NoServer
               PROVE  servers'[host'[r]].assigned[r] > 0 \/ r \in unreserved'
    BY DEF HostHasReservation
  <2>1. host'[r] = host[r] /\ host[r] \notin retired /\ host[r] \in Servers
    BY <1>1, <1>7
  <2>2. servers'[host[r]].assigned = servers[host[r]].assigned
    BY <1>3, <2>1
  <2>3. r \in unreserved => r \in unreserved'
    BY <2>1 DEF Cleanup
  <2> QED BY <1>1, <2>1, <2>2, <2>3 DEF HostHasReservation
<1>9. /\ \A s \in Servers : health'[s] = IF s \in stale \cup retired THEN "unknown" ELSE health[s]
      /\ health' \in [Servers -> HealthStatuses]
  BY <1>1 DEF Cleanup, HealthStatuses
<1>10. HealthIsOfRegistered'
  BY <1>1, <1>3, <1>9 DEF HealthIsOfRegistered, Registered
<1>11. waiting' \subseteq Requests' /\ issued' \subseteq Rooms \X Servers /\ unreserved' \subseteq Rooms
  BY DEF Cleanup, IInv, Requests
<1> QED BY <1>6, <1>7, <1>8, <1>9, <1>10, <1>11 DEF IInv

\* What changes no record and hosts no room: launches begin, sessions end, time
\* passes.
LEMMA QuietStep ==
  ASSUME IInv, UNCHANGED servers, waiting' \subseteq Requests,
         issued' \subseteq Rooms \X Servers,
         \/ UNCHANGED <<host, unreserved>>
         \/ \E r \in Rooms : host' = [host EXCEPT ![r] = NoServer] /\ unreserved' = unreserved \ {r},
         \/ UNCHANGED health
         \/ \E s \in Servers, h \in {"warning", "timeout"} :
              health[s] # "unknown" /\ health' = [health EXCEPT ![s] = h]
  PROVE  IInv'
<1>1. Records'
  BY DEF IInv, Records, Tidy, AssignedRooms
<1>2. /\ host' \in [Rooms -> Servers \cup {NoServer}] /\ HostHasReservation'
      /\ unreserved' \subseteq Rooms
  BY DEF IInv, HostHasReservation
<1>3. health' \in [Servers -> HealthStatuses] /\ HealthIsOfRegistered'
  BY DEF IInv, HealthIsOfRegistered, Registered, HealthStatuses
<1> QED BY <1>1, <1>2, <1>3 DEF IInv, Requests

\* A state in which no server is registered: the first one, and after a restart.
LEMMA NothingKept ==
  ASSUME NameAssumption, SizeAssumption, Init
  PROVE  IInv
<1>1. Records
  BY GoneIsTidy DEF Init, Records
<1>2. health \in [Servers -> HealthStatuses] /\ HealthIsOfRegistered
  BY DEF Init, HealthStatuses, HealthIsOfRegistered
<1> QED BY <1>1, <1>2 DEF Init, IInv, HostHasReservation

-----------------------------------------------------------------------------
(* The specification *)

\* Every handler keeps the invariant.
LEMMA NextIInv ==
  ASSUME SizeAssumption, NameAssumption, IInv, [Next]_vars
  PROVE  IInv'
<1>1. CASE \E s \in Servers, room \in Rooms \cup {NoRoom}, status \in ReportedStatuses,
              n \in 0 .. ServerMax : RegisterServer(s, room, status, n)
  BY <1>1, RegisterStep
<1>2. CASE \E s \in Servers, status \in ReportedStatuses, r \in Rooms \cup {NoRoom},
              n \in 0 .. ServerMax, populated \in SUBSET Rooms :
             HeartbeatServer(s, status, r, n, populated)
  BY <1>2, HeartbeatStep
<1>3. CASE \E s \in Servers, n \in 0 .. ServerMax : UpdatePlayerCount(s, n)
  BY <1>3, PlayerCountStep
<1>4. CASE \E r \in Rooms, size \in RoomSizes, p \in Preferred \cup {NoServer}, s \in Servers :
             RequestTicket(r, size, p, s)
  <2> PICK r \in Rooms, size \in RoomSizes, p \in Preferred \cup {NoServer}, s \in Servers :
        RequestTicket(r, size, p, s)
    BY <1>4
  <2> QED BY TicketAssignStep DEF RequestTicket, IInv
<1>5. CASE \E r \in Rooms, size \in RoomSizes, s \in Servers :
             RequestTicketWithWarmClaim(r, size, s)
  BY <1>5, WarmClaimStep
<1>6. CASE \E r \in Rooms, size \in RoomSizes : RequestTicketWithLaunch(r, size)
  <2>1. /\ waiting' \subseteq Requests /\ UNCHANGED <<servers, health, host, issued, unreserved>>
        /\ issued' \subseteq Rooms \X Servers
    BY <1>6 DEF RequestTicketWithLaunch, IInv, Requests
  <2> QED BY <2>1, QuietStep
<1>7. CASE \E request \in Requests : ResumeAfterLaunch(request)
  BY <1>7, ResumeStep
<1>8. CASE \E r \in Rooms : EndSession(r)
  <2>1. /\ \E r \in Rooms : host' = [host EXCEPT ![r] = NoServer] /\ unreserved' = unreserved \ {r}
        /\ UNCHANGED <<servers, health, waiting, issued>> /\ waiting' \subseteq Requests
        /\ issued' \subseteq Rooms \X Servers
    BY <1>8 DEF EndSession, IInv
  <2> QED BY <2>1, QuietStep
<1>9. CASE ReconcileHostedLobby
  BY <1>9, HostedLobbyStep
<1>10. CASE \E s \in Servers : ReconcileUnhostedLobby(s)
  BY <1>10, UnhostedLobbyStep
<1>11. CASE GetStatus
  BY <1>11, GetStatusStep
<1>12. CASE \E stale \in SUBSET Servers, retired \in SUBSET Servers : Cleanup(stale, retired)
  BY <1>12, CleanupStep
<1>13. CASE \E s \in Servers : HeartbeatAges(s)
  <2>1. /\ \E s \in Servers, h \in {"warning", "timeout"} :
             health[s] # "unknown" /\ health' = [health EXCEPT ![s] = h]
        /\ UNCHANGED <<servers, host, waiting, issued, unreserved>> /\ waiting' \subseteq Requests
        /\ issued' \subseteq Rooms \X Servers
    BY <1>13 DEF HeartbeatAges, IInv
  <2> QED BY <2>1, QuietStep
<1>14. CASE Restart
  <2>1. Init'
    BY <1>14 DEF Restart, Init
  <2>2. Records'
    BY <2>1, GoneIsTidy DEF Init, Records, Gone, Tidy, AssignedRooms
  <2>3. health' \in [Servers -> HealthStatuses] /\ HealthIsOfRegistered'
    BY <2>1 DEF Init, HealthStatuses, HealthIsOfRegistered
  <2> QED BY <2>1, <2>2, <2>3 DEF Init, IInv, HostHasReservation
<1>15. CASE UNCHANGED vars
  <2>1. /\ UNCHANGED <<servers, health, host, waiting, issued, unreserved>>
        /\ waiting' \subseteq Requests /\ issued' \subseteq Rooms \X Servers
    BY <1>15 DEF vars, IInv
  <2> QED BY <2>1, QuietStep
<1>16. CASE \E r \in Rooms, s \in Servers : VerifyTicketOpensSession(r, s)
  BY <1>16, VerifyStep
<1>17. CASE \E r \in Rooms, s \in Servers : LastTicketEnds(r, s)
  <2>1. /\ UNCHANGED <<servers, health, host, waiting, unreserved>>
        /\ waiting' \subseteq Requests /\ issued' \subseteq Rooms \X Servers
    BY <1>17 DEF LastTicketEnds, IInv
  <2> QED BY <2>1, QuietStep
<1> QED
  BY <1>1, <1>2, <1>3, <1>4, <1>5, <1>6, <1>7, <1>8, <1>9, <1>10, <1>11, <1>12, <1>13,
     <1>14, <1>15, <1>16, <1>17 DEF Next

\* The invariant holds in every reachable state.
LEMMA AlwaysIInv == Spec => []IInv
<1>1. Init => IInv
  BY NameAssumption, SizeAssumption, NothingKept
<1>2. IInv /\ [Next]_vars => IInv'
  BY NameAssumption, SizeAssumption, NextIInv
<1> QED BY <1>1, <1>2, PTL DEF Spec

\* Every variable keeps its type.
THEOREM TypeCorrect == Spec => []TypeOK
<1>1. IInv => TypeOK
  BY DEF IInv, Records, TypeOK
<1> QED BY <1>1, AlwaysIInv, PTL

\* A server that was removed leaves no health record (GameServerControl.cleanup,
\* gameServerHealthStore.js).
THEOREM HealthRegistered == Spec => []HealthIsOfRegistered
<1>1. IInv => HealthIsOfRegistered
  BY DEF IInv
<1> QED BY <1>1, AlwaysIInv, PTL

\* The server of a room's open session holds a reservation for the room: the
\* status endpoint and the cleanup release none that is needed.  The sessions
\* that verify-ticket opens where none is left are told apart (gameServerControl
\* /index.js, getStatus; dedicatedServerHandler.js, resolveSessionForVerifiedTicket).
THEOREM HostKeepsReservation == Spec => []HostHasReservation
<1>1. IInv => HostHasReservation
  BY DEF IInv
<1> QED BY <1>1, AlwaysIInv, PTL

\* A claimed server serves no room but the one it was claimed for, and beside it
\* at most the lobby (gameServerRegistry.js, claimWarmServerForRoom and the heartbeats after it).
THEOREM ClaimIsExclusive == Spec => []ClaimedServerIsExclusive
<1>1. IInv => ClaimedServerIsExclusive
  BY DEF IInv, Records, Tidy, ClaimedServerIsExclusive
<1> QED BY <1>1, AlwaysIInv, PTL

-----------------------------------------------------------------------------
(* What a step may do *)

\* What SessionKeepsServer says of one step.
KeepsServers ==
  \A r \in Rooms :
    host[r] # NoServer /\ Registered(host[r]) => host'[r] \in {host[r], NoServer}

\* A step leaves the hosts alone, hosts a room that has no host, or whose host is
\* gone, or clears hosts.
LEMMA SessionStep ==
  ASSUME NameAssumption, IInv, [Next]_vars
  PROVE  KeepsServers
<1>1. host \in [Rooms -> Servers \cup {NoServer}]
  BY DEF IInv
<1>2. \/ host' = host
      \/ \E r \in Rooms, s \in Servers : host' = HostedBy(r, s)
      \/ \E r \in Rooms, s \in Servers :
           /\ host[r] # NoServer => ~Registered(host[r])
           /\ host' = [host EXCEPT ![r] = s]
      \/ \E r \in Rooms : host' = [host EXCEPT ![r] = NoServer]
      \/ \E retired : host' = [r \in Rooms |-> IF host[r] \in retired THEN NoServer ELSE host[r]]
  <2>1. ASSUME NEW r \in Rooms, NEW s, NEW record, NEW size, AssignAndHost(s, record, r, size),
               s \in Servers
        PROVE  \E q \in Rooms, t \in Servers : host' = HostedBy(q, t)
    BY <2>1 DEF AssignAndHost
  <2>2. CASE \/ \E r \in Rooms, size \in RoomSizes, p \in Preferred \cup {NoServer}, s \in Servers :
                  RequestTicket(r, size, p, s)
             \/ \E r \in Rooms, size \in RoomSizes, s \in Servers :
                  RequestTicketWithWarmClaim(r, size, s)
    BY <2>1, <2>2 DEF RequestTicket, RequestTicketWithWarmClaim
  <2>3. CASE \E request \in Requests : ResumeAfterLaunch(request)
    <3> PICK request \in Requests : ResumeAfterLaunch(request)
      BY <2>3
    <3>1. CASE \E p \in Preferred \cup {NoServer} :
                 \E s \in AllocatedForTicket(request.room, request.size, p) :
                   AssignAndHost(s, servers[s], request.room, request.size)
      <4> PICK p \in Preferred \cup {NoServer} :
            \E s \in AllocatedForTicket(request.room, request.size, p) :
              AssignAndHost(s, servers[s], request.room, request.size)
        BY <3>1
      <4> PICK s \in AllocatedForTicket(request.room, request.size, p) :
            AssignAndHost(s, servers[s], request.room, request.size)
        OBVIOUS
      <4>1. s \in Servers /\ request.room \in Rooms
        BY TicketsGoToCandidates, CandidateFacts DEF Requests
      <4> QED BY <2>1, <4>1
    <3> QED BY <3>1 DEF ResumeAfterLaunch
  <2>4. CASE \E s \in Servers : ReconcileUnhostedLobby(s)
    BY <2>4 DEF ReconcileUnhostedLobby, NameAssumption
  <2>8. CASE \E r \in Rooms, s \in Servers : VerifyTicketOpensSession(r, s)
    BY <2>8 DEF VerifyTicketOpensSession
  <2>5. CASE \/ \E r \in Rooms : EndSession(r)
             \/ \E stale \in SUBSET Servers, retired \in SUBSET Servers : Cleanup(stale, retired)
    BY <2>5 DEF EndSession, Cleanup
  <2>6. CASE Restart
    <3>1. host' = [r \in Rooms |-> IF host[r] \in Servers \cup {NoServer} THEN NoServer ELSE host[r]]
      BY <1>1, <2>6 DEF Restart
    <3> QED BY <3>1
  <2>7. CASE \/ \E s \in Servers, room \in Rooms \cup {NoRoom}, status \in ReportedStatuses,
                   n \in 0 .. ServerMax : RegisterServer(s, room, status, n)
             \/ \E s \in Servers, status \in ReportedStatuses, r \in Rooms \cup {NoRoom},
                   n \in 0 .. ServerMax, populated \in SUBSET Rooms :
                  HeartbeatServer(s, status, r, n, populated)
             \/ \E s \in Servers, n \in 0 .. ServerMax : UpdatePlayerCount(s, n)
             \/ \E r \in Rooms, size \in RoomSizes : RequestTicketWithLaunch(r, size)
             \/ ReconcileHostedLobby
             \/ GetStatus
             \/ \E s \in Servers : HeartbeatAges(s)
             \/ \E r \in Rooms, s \in Servers : LastTicketEnds(r, s)
             \/ UNCHANGED vars
    <3>1. \A s, room, status, n : RegisterServer(s, room, status, n) => host' = host
      BY DEF RegisterServer
    <3>2. \A s, status, r, n, populated :
            HeartbeatServer(s, status, r, n, populated) => host' = host
      BY DEF HeartbeatServer
    <3>3. \A s, n : UpdatePlayerCount(s, n) => host' = host
      BY DEF UpdatePlayerCount
    <3>4. \A r, size : RequestTicketWithLaunch(r, size) => host' = host
      BY DEF RequestTicketWithLaunch
    <3>5. ReconcileHostedLobby => host' = host
      BY DEF ReconcileHostedLobby
    <3>6. GetStatus => host' = host
      BY DEF GetStatus
    <3>7. (\E s \in Servers : HeartbeatAges(s)) \/ UNCHANGED vars => host' = host
      BY DEF HeartbeatAges, vars
    <3>8. \A r, s : LastTicketEnds(r, s) => host' = host
      BY DEF LastTicketEnds
    <3> QED BY <2>7, <3>1, <3>2, <3>3, <3>4, <3>5, <3>6, <3>7, <3>8
  <2> QED BY <2>2, <2>3, <2>4, <2>5, <2>6, <2>7, <2>8 DEF Next
<1> QED BY <1>1, <1>2 DEF KeepsServers, HostedBy, NameAssumption

\* An open session is not moved from a registered server (gameSessionRegistry.js,
\* getOrCreateSession; publicLobbyDedicatedReconciler.js).
THEOREM SessionsStay == Spec => SessionKeepsServer
<1>1. IInv /\ [Next]_vars => [KeepsServers]_vars
  BY NameAssumption, SessionStep
<1>2. Spec => [][KeepsServers]_vars
  BY <1>1, AlwaysIInv, PTL DEF Spec
<1> QED BY <1>2, PTL DEF SessionKeepsServer, KeepsServers

\* A server that is reporting and open to players.
Open(s) ==
  /\ health[s] \in {"healthy", "warning"}
  /\ servers[s].status \in {"online", "busy", "warm", "reserved", "claimed"}

\* No server has a reservation after the step that it had not before.
NoneAdded ==
  \A s \in Servers, r \in Rooms : servers'[s].assigned[r] > 0 => servers[s].assigned[r] > 0

\* The reconciler gives the lobby to the host of the session that verify-ticket
\* opened.
GivenToHost ==
  /\ Lobby \in unreserved
  /\ \E s \in Servers :
       /\ s = host[Lobby] /\ health[s] \in {"healthy", "warning"}
       /\ \A t \in Servers, r \in Rooms :
            servers'[t].assigned[r] > 0 => servers[t].assigned[r] > 0 \/ (t = s /\ r = Lobby)

\* Reservations are added to an open server only.
AddedToOpen ==
  \E s \in Servers : Open(s) /\ \A t \in Servers \ {s} : servers'[t] = servers[t]

\* What NewRoomsGoToOpenServers says of one step.
AddsToOpen ==
  \A s \in Servers, r \in Rooms :
    /\ Registered(s)
    /\ servers[s].assigned[r] = 0
    /\ servers'[s].assigned[r] > 0
    /\ RegistersAgain => r \notin LaunchRooms[s]
    => /\ health[s] \in {"healthy", "warning"}
       /\ \/ servers[s].status \in {"online", "busy", "warm", "reserved", "claimed"}
          \/ r = Lobby /\ host[Lobby] = s /\ Lobby \in unreserved

\* The lobby is given again to a server that has it.
LEMMA LobbyConfirmed ==
  ASSUME SizeAssumption, IInv, NEW s \in Servers, LobbyAssigned(s),
         servers[s].assigned[Lobby] > 0
  PROVE  NoneAdded
<1>1. /\ servers \in [Servers -> ServerRecord]
      /\ servers[s] \in ServerRecord
  BY DEF IInv, Records
<1>2. servers' = [servers EXCEPT ![s] = AssignedTo(servers[s], Lobby, LobbySize)]
  BY <1>1 DEF LobbyAssigned
<1>3. /\ AssignedTo(servers[s], Lobby, LobbySize).assigned
           = [servers[s].assigned EXCEPT ![Lobby] = LobbySize]
      /\ servers[s].assigned \in [Rooms -> Nat]
  BY <1>1 DEF AssignedTo, ServerRecord
<1> QED BY <1>1, <1>2, <1>3 DEF NoneAdded

\* The tickets' and the reconciler's new assignments.
LEMMA AssigningStep ==
  ASSUME SizeAssumption, NameAssumption, IInv,
         \/ \E r \in Rooms, size \in RoomSizes, p \in Preferred \cup {NoServer}, s \in Servers :
              RequestTicket(r, size, p, s)
         \/ \E r \in Rooms, size \in RoomSizes, s \in Servers :
              RequestTicketWithWarmClaim(r, size, s)
         \/ \E request \in Requests : ResumeAfterLaunch(request)
         \/ ReconcileHostedLobby
         \/ \E s \in Servers : ReconcileUnhostedLobby(s)
  PROVE  NoneAdded \/ AddedToOpen \/ GivenToHost
<1>1. servers \in [Servers -> ServerRecord]
  BY DEF IInv, Records
<1>2. ASSUME NEW s, NEW r, NEW size,
             \/ s \in Candidates(r, size, TicketStatuses)
             \/ s \in Candidates(r, size, WarmClaimStatuses)
             \/ s \in Candidates(r, size, LobbyStatuses)
      PROVE  s \in Servers /\ Open(s)
  BY <1>2, CandidateFacts DEF Open, TicketStatuses, WarmClaimStatuses, LobbyStatuses
<1>3. ASSUME NEW s \in Servers, NEW record, servers' = [servers EXCEPT ![s] = record], Open(s)
      PROVE  AddedToOpen
  BY <1>1, <1>3 DEF AddedToOpen
<1>4. ASSUME NEW r, NEW size, NEW p, NEW s \in AllocatedForTicket(r, size, p),
             AssignAndHost(s, servers[s], r, size)
      PROVE  AddedToOpen
  <2>1. s \in Servers /\ Open(s)
    BY <1>2, TicketsGoToCandidates
  <2> QED BY <1>3, <1>4, <2>1 DEF AssignAndHost
<1>5. CASE \E r \in Rooms, size \in RoomSizes, p \in Preferred \cup {NoServer}, s \in Servers :
             RequestTicket(r, size, p, s)
  BY <1>4, <1>5 DEF RequestTicket
<1>6. CASE \E r \in Rooms, size \in RoomSizes, s \in Servers :
             RequestTicketWithWarmClaim(r, size, s)
  <2> PICK r \in Rooms, size \in RoomSizes, s \in Servers : RequestTicketWithWarmClaim(r, size, s)
    BY <1>6
  <2>1. s \in Candidates(r, size, WarmClaimStatuses)
    BY AllocatedAreCandidates DEF RequestTicketWithWarmClaim
  <2>2. Open(s)
    BY <1>2, <2>1
  <2> QED BY <1>3, <2>2 DEF RequestTicketWithWarmClaim, AssignAndHost
<1>7. CASE \E request \in Requests : ResumeAfterLaunch(request)
  <2>1. ASSUME servers' = servers
        PROVE  NoneAdded
    BY <2>1 DEF NoneAdded
  <2> QED BY <1>4, <1>7, <2>1 DEF ResumeAfterLaunch
<1>8. CASE ReconcileHostedLobby
  <2>1. PICK s \in Servers : s = host[Lobby] /\ LobbyAssigned(s) /\ IsServerHealthy(s)
    BY <1>8 DEF ReconcileHostedLobby, IInv, NameAssumption
  <2>2. CASE servers[s].assigned[Lobby] > 0
    BY <2>1, <2>2, LobbyConfirmed
  <2>3. CASE ~(servers[s].assigned[Lobby] > 0)
    <3>1. Lobby \in unreserved
      BY <1>8, <2>1, <2>3 DEF IInv, HostHasReservation, NameAssumption, ReconcileHostedLobby
    <3>2. servers' = [servers EXCEPT ![s] = Claimed(@, Lobby, LobbySize)]
          \/ servers' = [servers EXCEPT ![s] = AssignedTo(@, Lobby, LobbySize)]
      BY <2>1 DEF LobbyAssigned
    <3>3. servers[s] \in ServerRecord /\ servers[s].assigned \in [Rooms -> Nat]
      BY <1>1 DEF ServerRecord
    <3>4. /\ Claimed(servers[s], Lobby, LobbySize).assigned
               = [servers[s].assigned EXCEPT ![Lobby] = LobbySize]
          /\ AssignedTo(servers[s], Lobby, LobbySize).assigned
               = [servers[s].assigned EXCEPT ![Lobby] = LobbySize]
      BY <3>3 DEF Claimed, AssignedTo, ServerRecord
    <3>5. servers'[s].assigned = [servers[s].assigned EXCEPT ![Lobby] = LobbySize]
      BY <1>1, <3>2, <3>4
    <3>6. \A t \in Servers \ {s} : servers'[t] = servers[t]
      BY <1>1, <3>2
    <3>7. \A r \in Rooms \ {Lobby} : servers'[s].assigned[r] = servers[s].assigned[r]
      BY <3>3, <3>5
    <3> QED BY <2>1, <3>1, <3>6, <3>7 DEF GivenToHost, IsServerHealthy
  <2> QED BY <2>2, <2>3
<1>9. CASE \E s \in Servers : ReconcileUnhostedLobby(s)
  <2> PICK s \in Servers : ReconcileUnhostedLobby(s)
    BY <1>9
  <2>1. s \in LobbyChoices /\ LobbyAssigned(s)
    BY DEF ReconcileUnhostedLobby
  <2>2. CASE servers[s].assigned[Lobby] > 0
    BY <2>1, <2>2, LobbyConfirmed
  <2>3. CASE s \in Candidates(Lobby, LobbySize, LobbyStatuses)
    <3>1. \E record : servers' = [servers EXCEPT ![s] = record]
      BY <2>1, <1>1 DEF LobbyAssigned
    <3> QED BY <1>2, <1>3, <2>3, <3>1
  <2> QED BY <2>1, <2>2, <2>3, LobbyChoiceFacts
<1> QED BY <1>5, <1>6, <1>7, <1>8, <1>9

\* The other steps add no reservation, but for a process that registers.
LEMMA NewRoomStep ==
  ASSUME SizeAssumption, NameAssumption, IInv, [Next]_vars
  PROVE  AddsToOpen
<1>1. /\ servers \in [Servers -> ServerRecord]
      /\ \A s \in Servers : servers[s].assigned \in [Rooms -> Nat]
  BY DEF IInv, Records, ServerRecord
<1>2. NoneAdded => AddsToOpen
  BY <1>1 DEF NoneAdded, AddsToOpen
<1>3. AddedToOpen => AddsToOpen
  BY <1>1 DEF AddedToOpen, AddsToOpen, Open
<1>14. GivenToHost => AddsToOpen
  BY <1>1 DEF GivenToHost, AddsToOpen
<1>4. ASSUME servers' = servers
      PROVE  NoneAdded
  BY <1>4 DEF NoneAdded
<1>5. ASSUME NEW s \in Servers, NEW record, servers' = [servers EXCEPT ![s] = record],
             record.assigned = servers[s].assigned
      PROVE  NoneAdded
  BY <1>1, <1>5 DEF NoneAdded
<1>6. CASE \E s \in Servers, room \in Rooms \cup {NoRoom}, status \in ReportedStatuses,
              n \in 0 .. ServerMax : RegisterServer(s, room, status, n)
  <2> PICK s \in Servers, room \in Rooms \cup {NoRoom}, status \in ReportedStatuses,
           n \in 0 .. ServerMax : RegisterServer(s, room, status, n)
    BY <1>6
  <2>1. /\ room \in LaunchRooms[s]
        /\ Registered(s) => RegistersAgain
        /\ \A t \in Servers \ {s} : servers'[t] = servers[t]
        /\ \A r \in Rooms : r # room => servers'[s].assigned[r] = servers[s].assigned[r]
    BY <1>1 DEF RegisterServer
  <2> QED BY <1>1, <2>1 DEF AddsToOpen
<1>7. CASE \E s \in Servers, status \in ReportedStatuses, r \in Rooms \cup {NoRoom},
              n \in 0 .. ServerMax, populated \in SUBSET Rooms :
             HeartbeatServer(s, status, r, n, populated)
  <2> PICK s \in Servers, status \in ReportedStatuses, r \in Rooms \cup {NoRoom},
           n \in 0 .. ServerMax, populated \in SUBSET Rooms :
        HeartbeatServer(s, status, r, n, populated)
    BY <1>7
  <2> DEFINE named == IF r # NoRoom THEN r ELSE servers[s].room
             resolved == IF PreservesClaim(servers[s], named, status, n)
                         THEN servers[s].status ELSE ResolveServerStatus(status, n)
  <2>1. PICK primary : servers' = [servers EXCEPT ![s] =
                         [status |-> resolved, room |-> primary, players |-> n,
                          assigned |-> servers[s].assigned, populated |-> populated]]
    BY DEF HeartbeatServer
  <2> HIDE DEF resolved
  <2> QED BY <1>2, <1>5, <2>1
<1>8. CASE \E s \in Servers, n \in 0 .. ServerMax : UpdatePlayerCount(s, n)
  <2> PICK s \in Servers, n \in 0 .. ServerMax : UpdatePlayerCount(s, n)
    BY <1>8
  <2>1. servers' = [servers EXCEPT ![s] = WithPlayers(s, n)]
    BY DEF UpdatePlayerCount
  <2>2. WithPlayers(s, n).assigned = servers[s].assigned
    BY CountedRecord DEF UpdatePlayerCount
  <2> QED BY <1>2, <1>5, <2>1, <2>2
<1>15. CASE \E r \in Rooms, s \in Servers : VerifyTicketOpensSession(r, s)
  <2> PICK r \in Rooms, s \in Servers : VerifyTicketOpensSession(r, s)
    BY <1>15
  <2>1. CASE Registered(s)
    <3>1. servers' = [servers EXCEPT ![s] = WithPlayers(s, 1)]
      BY <2>1 DEF VerifyTicketOpensSession
    <3>2. WithPlayers(s, 1).assigned = servers[s].assigned
      BY <2>1, CountedRecord DEF SizeAssumption
    <3> QED BY <1>2, <1>5, <3>1, <3>2
  <2>2. CASE ~Registered(s)
    BY <1>2, <1>4, <2>2 DEF VerifyTicketOpensSession
  <2> QED BY <2>1, <2>2
<1>9. CASE GetStatus
  <2>1. \E primary : servers' = [s \in Servers |-> WithoutReleased(servers[s], primary[s])]
    BY <1>9 DEF GetStatus
  <2>2. ASSUME NEW s \in Servers, NEW room, NEW r \in Rooms,
               WithoutReleased(servers[s], room).assigned[r] > 0
        PROVE  servers[s].assigned[r] > 0
    BY <1>1, <2>2 DEF WithoutReleased, ServerRecord
  <2> QED BY <1>2, <2>1, <2>2 DEF NoneAdded
<1>10. CASE \E stale \in SUBSET Servers, retired \in SUBSET Servers : Cleanup(stale, retired)
  <2>1. ASSUME NEW s \in Servers
        PROVE  servers'[s] \in {Gone, servers[s], [servers[s] EXCEPT !.status = "unhealthy"]}
    BY <1>10 DEF Cleanup
  <2>2. ASSUME NEW s \in Servers
        PROVE  [servers[s] EXCEPT !.status = "unhealthy"].assigned = servers[s].assigned
    BY <1>1 DEF ServerRecord
  <2>3. \A r \in Rooms : ~(Gone.assigned[r] > 0)
    BY DEF Gone
  <2>4. ASSUME NEW s \in Servers, NEW r \in Rooms, servers'[s].assigned[r] > 0
        PROVE  servers[s].assigned[r] > 0
    <3>1. servers'[s] # Gone
      BY <2>3, <2>4
    <3>2. servers'[s].assigned = servers[s].assigned
      BY <2>1, <2>2, <3>1
    <3> QED BY <2>4, <3>2
  <2>5. NoneAdded
    BY <2>4 DEF NoneAdded
  <2> QED BY <1>2, <2>5
<1>11. CASE Restart
  <2>1. NoneAdded
    BY <1>11 DEF Restart, NoneAdded, Gone
  <2> QED BY <1>2, <2>1
<1>12. CASE \/ \E r \in Rooms, size \in RoomSizes : RequestTicketWithLaunch(r, size)
            \/ \E r \in Rooms : EndSession(r)
            \/ \E s \in Servers : HeartbeatAges(s)
            \/ \E r \in Rooms, s \in Servers : LastTicketEnds(r, s)
            \/ UNCHANGED vars
  <2>1. \A r, size : RequestTicketWithLaunch(r, size) => servers' = servers
    BY DEF RequestTicketWithLaunch
  <2> QED BY <1>2, <1>4, <1>12, <2>1 DEF EndSession, HeartbeatAges, LastTicketEnds, vars
<1>13. CASE \/ \E r \in Rooms, size \in RoomSizes, p \in Preferred \cup {NoServer}, s \in Servers :
                 RequestTicket(r, size, p, s)
            \/ \E r \in Rooms, size \in RoomSizes, s \in Servers :
                 RequestTicketWithWarmClaim(r, size, s)
            \/ \E request \in Requests : ResumeAfterLaunch(request)
            \/ ReconcileHostedLobby
            \/ \E s \in Servers : ReconcileUnhostedLobby(s)
  BY <1>2, <1>3, <1>13, <1>14, AssigningStep
<1> QED BY <1>6, <1>7, <1>8, <1>9, <1>10, <1>11, <1>12, <1>13, <1>15 DEF Next

\* A room is given to a server that reports and is open to players, also when the
\* request that gives it waited for a launch (gameServerAllocator.js,
\* validateServerCandidate; clientGameServerHandler.js, requestGameServerTicket).
\* The lobby also goes to the reporting host of a session that verify-ticket
\* opened (publicLobbyDedicatedReconciler.js, ensureRoomAssignment).
THEOREM NewRoomsAreOpen == Spec => NewRoomsGoToOpenServers
<1>1. IInv /\ [Next]_vars => [AddsToOpen]_vars
  BY SizeAssumption, NameAssumption, NewRoomStep
<1>2. Spec => [][AddsToOpen]_vars
  BY <1>1, AlwaysIInv, PTL DEF Spec
<1> QED BY <1>2, PTL DEF NewRoomsGoToOpenServers, AddsToOpen, Open
-----------------------------------------------------------------------------
(* Sums over the rooms of a server.  Reserved is a fold, whose value is    *)
(* that of a recursive function on the subsets of Rooms: what it satisfies *)
(* follows by induction over these subsets, in the form that no set breaks *)
(* it.                                                                     *)

\* The room that the sum over a set of rooms takes out first.
First(rooms) == CHOOSE r \in rooms : TRUE

\* One step of the sum of a over rooms, given the sums over smaller sets.
SumStep(a, sums, rooms) ==
  IF rooms = {} THEN 0 ELSE a[First(rooms)] + sums[rooms \ {First(rooms)}]

\* The sums of a over the sets of domain.
AreSums(sums, a, domain) ==
  /\ sums \in [domain -> Nat]
  /\ \A rooms \in domain : sums[rooms] = SumStep(a, sums, rooms)

NotLarger(T) == {rooms \in SUBSET Rooms : Cardinality(rooms) <= Cardinality(T)}

\* Induction over the subsets of a finite set: what a set breaks only if a
\* smaller one breaks it too, none breaks.
LEMMA NoSmallerSet ==
  ASSUME NEW X, IsFiniteSet(X), NEW Broken \in SUBSET (SUBSET X),
         \A T \in Broken : \E U \in Broken : U \subseteq T /\ U # T
  PROVE  Broken = {}
<1> SUFFICES ASSUME Broken # {} PROVE FALSE
  OBVIOUS
<1>1. Broken \subseteq FiniteSubsetsOf(X)
  BY FS_FiniteSubsetsOfFinite
<1>2. \E T \in Broken : \A U \in Broken : ~ (<<U, T>> \in StrictSubsetOrdering(X))
  BY <1>1, FS_StrictSubsetOrderingWellFounded, WFMin
<1> QED BY <1>2 DEF StrictSubsetOrdering

\* What is left when the first room is taken out is a smaller set.
LEMMA FirstRoom ==
  ASSUME NEW T \in SUBSET Rooms, T # {}
  PROVE  /\ First(T) \in T
         /\ T \ {First(T)} \in SUBSET Rooms
         /\ T \ {First(T)} # T
         /\ IsFiniteSet(T)
         /\ Cardinality(T) \in Nat
         /\ Cardinality(T \ {First(T)}) = Cardinality(T) - 1
<1>1. First(T) \in T
  BY DEF First
<1>2. IsFiniteSet(T)
  BY NameAssumption, FS_Subset
<1> QED BY <1>1, <1>2, FS_CardinalityType, FS_RemoveElement

\* The recursion of the sum has a solution.
LEMMA SumsExist ==
  ASSUME NEW a \in [Rooms -> Nat]
  PROVE  \E sums : AreSums(sums, a, SUBSET Rooms)
<1> DEFINE Broken == {T \in SUBSET Rooms : ~\E sums : AreSums(sums, a, NotLarger(T))}
<1>1. ASSUME NEW T \in Broken
      PROVE  \E U \in Broken : U \subseteq T /\ U # T
  <2>1. T # {}
    <3> SUFFICES ASSUME T = {} PROVE FALSE
      OBVIOUS
    <3> DEFINE zero == [rooms \in NotLarger(T) |-> 0]
    <3>1. NotLarger(T) = {{}}
      <4>1. \A rooms \in SUBSET Rooms : IsFiniteSet(rooms) /\ Cardinality(rooms) \in Nat
        BY NameAssumption, FS_Subset, FS_CardinalityType
      <4> QED BY <4>1, FS_EmptySet DEF NotLarger
    <3>2. AreSums(zero, a, NotLarger(T))
      BY <3>1 DEF AreSums, SumStep
    <3> QED BY <3>2
  <2> DEFINE U == T \ {First(T)}
  <2>2. /\ U \in SUBSET Rooms /\ U \subseteq T /\ U # T
        /\ Cardinality(U) = Cardinality(T) - 1 /\ Cardinality(T) \in Nat
    BY <2>1, FirstRoom
  <2>3. ASSUME NEW sums, AreSums(sums, a, NotLarger(U))
        PROVE  FALSE
    <3> DEFINE more == [rooms \in NotLarger(T) |-> SumStep(a, sums, rooms)]
    <3>1. ASSUME NEW rooms \in NotLarger(T), rooms # {}
          PROVE  rooms \ {First(rooms)} \in NotLarger(U) /\ First(rooms) \in Rooms
      <4>1. rooms \in SUBSET Rooms /\ Cardinality(rooms) <= Cardinality(T)
        BY DEF NotLarger
      <4> HIDE DEF U
      <4> QED BY <2>2, <3>1, <4>1, FirstRoom DEF NotLarger
    <3>2. NotLarger(U) \subseteq NotLarger(T)
      <4> HIDE DEF U
      <4>1. \A rooms \in SUBSET Rooms : Cardinality(rooms) \in Nat
        BY NameAssumption, FS_Subset, FS_CardinalityType
      <4> QED BY <2>2, <4>1 DEF NotLarger
    <3> HIDE DEF U
    <3>3. \A rooms \in NotLarger(T) : SumStep(a, sums, rooms) \in Nat
      BY <2>3, <3>1 DEF SumStep, AreSums
    <3>4. more \in [NotLarger(T) -> Nat]
      BY <3>3
    <3>5. \A rooms \in NotLarger(U) : more[rooms] = sums[rooms]
      BY <2>3, <3>2 DEF AreSums
    <3>6. \A rooms \in NotLarger(T) : more[rooms] = SumStep(a, sums, rooms)
      OBVIOUS
    <3> HIDE DEF more
    <3>7. \A rooms \in NotLarger(T) : SumStep(a, sums, rooms) = SumStep(a, more, rooms)
      BY <3>1, <3>5 DEF SumStep
    <3>8. AreSums(more, a, NotLarger(T))
      BY <3>4, <3>6, <3>7 DEF AreSums
    <3> QED BY <3>8
  <2> QED BY <2>2, <2>3
<1>2. Broken = {}
  <2>1. Broken \in SUBSET (SUBSET Rooms)
    OBVIOUS
  <2> HIDE DEF Broken
  <2> QED BY <1>1, <2>1, NameAssumption, NoSmallerSet
<1>3. NotLarger(Rooms) = SUBSET Rooms
  BY NameAssumption, FS_Subset DEF NotLarger
<1>4. Rooms \in SUBSET Rooms /\ Rooms \notin Broken
  BY <1>2
<1> QED BY <1>3, <1>4

\* Reserved is such a sum.
LEMMA ReservedIsSum ==
  ASSUME NEW record, record.assigned \in [Rooms -> Nat]
  PROVE  \E sums : AreSums(sums, record.assigned, SUBSET Rooms) /\ Reserved(record) = sums[Rooms]
<1> DEFINE a == record.assigned
           sums == CHOOSE g : g = [rooms \in SUBSET Rooms |-> SumStep(a, g, rooms)]
<1>1. Reserved(record) = sums[Rooms]
  BY DEF Reserved, MapThenSumSet, MapThenFoldSet, SumStep, First
<1>2. PICK g : AreSums(g, a, SUBSET Rooms)
  BY SumsExist
<1>3. g = [rooms \in SUBSET Rooms |-> SumStep(a, g, rooms)]
  BY <1>2 DEF AreSums
<1>4. sums = [rooms \in SUBSET Rooms |-> SumStep(a, sums, rooms)]
  BY <1>3
<1> HIDE DEF sums
<1>5. \A T \in SUBSET Rooms : sums[T] = SumStep(a, sums, T)
  BY <1>4
<1>6. \A T \in SUBSET Rooms : sums[T] \in Nat
  <2> DEFINE Broken == {T \in SUBSET Rooms : sums[T] \notin Nat}
  <2>1. ASSUME NEW T \in Broken
        PROVE  \E U \in Broken : U \subseteq T /\ U # T
    <3>1. T # {}
      <4>1. sums[T] # 0 /\ sums[T] = SumStep(a, sums, T)
        BY <1>5
      <4> QED BY <4>1 DEF SumStep
    <3>2. /\ First(T) \in T /\ T \ {First(T)} \in SUBSET Rooms /\ T \ {First(T)} # T
      BY <3>1, FirstRoom
    <3>3. sums[T] = a[First(T)] + sums[T \ {First(T)}]
      BY <1>5, <3>1 DEF SumStep
    <3>4. a[First(T)] \in Nat
      BY <3>2
    <3>5. sums[T \ {First(T)}] \notin Nat
      BY <3>3, <3>4
    <3> QED BY <3>2, <3>5
  <2>2. Broken \in SUBSET (SUBSET Rooms)
    OBVIOUS
  <2> HIDE DEF Broken
  <2>3. Broken = {}
    BY <2>1, <2>2, NameAssumption, NoSmallerSet
  <2> QED BY <2>3 DEF Broken
<1>7. AreSums(sums, a, SUBSET Rooms)
  BY <1>4, <1>5, <1>6 DEF AreSums
<1> QED BY <1>1, <1>7

\* Sums of a function that is larger than another one but in one place are larger,
\* but for the difference there.
LEMMA SumsOfLarger ==
  ASSUME NEW a \in [Rooms -> Nat], NEW b \in [Rooms -> Nat], NEW room \in Rooms,
         \A r \in Rooms \ {room} : b[r] <= a[r],
         NEW g, AreSums(g, a, SUBSET Rooms), NEW h, AreSums(h, b, SUBSET Rooms)
  PROVE  a[room] <= g[Rooms] /\ h[Rooms] + a[room] <= g[Rooms] + b[room]
<1> DEFINE Compare(T) == /\ room \notin T => h[T] <= g[T]
                         /\ room \in T => /\ a[room] <= g[T]
                                          /\ h[T] + a[room] <= g[T] + b[room]
           Broken == {T \in SUBSET Rooms : ~Compare(T)}
<1>1. \A T \in SUBSET Rooms : g[T] \in Nat /\ h[T] \in Nat
  BY DEF AreSums
<1>2. ASSUME NEW T \in SUBSET Rooms, T # {}
      PROVE  /\ g[T] = a[First(T)] + g[T \ {First(T)}]
             /\ h[T] = b[First(T)] + h[T \ {First(T)}]
  BY <1>2 DEF AreSums, SumStep
<1>3. ASSUME NEW T \in Broken
      PROVE  \E U \in Broken : U \subseteq T /\ U # T
  <2>1. T # {}
    <3> SUFFICES ASSUME T = {} PROVE FALSE
      OBVIOUS
    <3>1. g[T] = 0 /\ h[T] = 0
      BY DEF AreSums, SumStep
    <3> QED BY <3>1
  <2> DEFINE first == First(T)
             U == T \ {first}
  <2>2. first \in T /\ U \in SUBSET Rooms /\ U \subseteq T /\ U # T
    BY <2>1, FirstRoom
  <2>3. g[T] = a[first] + g[U] /\ h[T] = b[first] + h[U]
    BY <1>2, <2>1
  <2>4. a[first] \in Nat /\ b[first] \in Nat /\ a[room] \in Nat /\ b[room] \in Nat
    BY <2>2
  <2>5. g[U] \in Nat /\ h[U] \in Nat
    BY <1>1, <2>2
  <2>6. first # room => b[first] <= a[first]
    BY <2>2
  <2>7. first = room => room \in T /\ room \notin U
    BY <2>2
  <2>8. first # room => (room \in T <=> room \in U)
    OBVIOUS
  <2> HIDE DEF first, U
  <2>9. Compare(U) => Compare(T)
    BY <2>3, <2>4, <2>5, <2>6, <2>7, <2>8
  <2> QED BY <2>2, <2>9
<1>4. Broken \in SUBSET (SUBSET Rooms)
  OBVIOUS
<1>5. Broken = {}
  <2> HIDE DEF Broken
  <2> QED BY <1>3, <1>4, NameAssumption, NoSmallerSet
<1>6. Compare(Rooms)
  BY <1>5
<1> QED BY <1>6

-----------------------------------------------------------------------------
(* Reservations *)

\* What is reserved for the rooms, when one room gets another size.
LEMMA ReservedAfter ==
  ASSUME NEW record, record.assigned \in [Rooms -> Nat],
         NEW new, new.assigned \in [Rooms -> Nat],
         NEW room \in Rooms,
         \A r \in Rooms \ {room} : new.assigned[r] <= record.assigned[r]
  PROVE  /\ Reserved(record) \in Nat /\ Reserved(new) \in Nat
         /\ record.assigned[room] <= Reserved(record)
         /\ Reserved(new) + record.assigned[room] <= Reserved(record) + new.assigned[room]
<1>1. PICK g : AreSums(g, record.assigned, SUBSET Rooms) /\ Reserved(record) = g[Rooms]
  BY ReservedIsSum
<1>2. PICK h : AreSums(h, new.assigned, SUBSET Rooms) /\ Reserved(new) = h[Rooms]
  BY ReservedIsSum
<1>3. g[Rooms] \in Nat /\ h[Rooms] \in Nat
  BY <1>1, <1>2 DEF AreSums
<1> QED BY <1>1, <1>2, <1>3, SumsOfLarger

\* A server without assignments has nothing reserved.
LEMMA NothingReserved ==
  ASSUME NEW record, record.assigned \in [Rooms -> Nat], AssignedRooms(record) = {}
  PROVE  Reserved(record) = 0
<1>1. PICK g : AreSums(g, record.assigned, SUBSET Rooms) /\ Reserved(record) = g[Rooms]
  BY ReservedIsSum
<1> DEFINE Broken == {T \in SUBSET Rooms : g[T] # 0}
<1>2. ASSUME NEW T \in Broken
      PROVE  \E U \in Broken : U \subseteq T /\ U # T
  <2>1. g[T] = SumStep(record.assigned, g, T) /\ g[T] # 0
    BY <1>1 DEF AreSums
  <2>2. T # {}
    BY <2>1 DEF SumStep
  <2>3. First(T) \in T /\ T \ {First(T)} \in SUBSET Rooms /\ T \ {First(T)} # T
    BY <2>2, FirstRoom
  <2>4. record.assigned[First(T)] = 0
    BY <2>3 DEF AssignedRooms
  <2>5. g[T \ {First(T)}] \in Nat
    BY <1>1, <2>3 DEF AreSums
  <2>6. g[T \ {First(T)}] # 0
    BY <2>1, <2>2, <2>4, <2>5 DEF SumStep
  <2> QED BY <2>3, <2>6
<1>3. Broken \in SUBSET (SUBSET Rooms)
  OBVIOUS
<1> HIDE DEF Broken
<1>4. Broken = {}
  BY <1>2, <1>3, NameAssumption, NoSmallerSet DEF NameAssumption
<1> QED BY <1>1, <1>4 DEF Broken

\* The records that reserve no more than the server has; one that is not
\* registered reserves nothing.
Fitting ==
  {record \in ServerRecord :
     /\ Reserved(record) <= ServerMax
     /\ record.status = "gone" => AssignedRooms(record) = {}}

\* What a step may do to a record: release, give a room what is free for it, or
\* give one to a server that has none.
MayBecome(record, new) ==
  \/ /\ \A r \in Rooms : new.assigned[r] <= record.assigned[r]
     /\ new.status = "gone" => record.status = "gone"
  \/ /\ new.status # "gone"
     /\ \E room \in Rooms, size \in Nat :
          /\ new.assigned = [record.assigned EXCEPT ![room] = size]
          /\ \/ size <= FreeSlots(record, room)
             \/ size <= ServerMax /\ AssignedRooms(record) = {}

\* A record that a step changes so still fits.
LEMMA StillFits ==
  ASSUME SizeAssumption, NEW record \in Fitting, NEW new \in ServerRecord, MayBecome(record, new)
  PROVE  new \in Fitting
<1>1. /\ record.assigned \in [Rooms -> Nat] /\ new.assigned \in [Rooms -> Nat]
      /\ Reserved(record) <= ServerMax /\ ServerMax \in Nat
      /\ record.status = "gone" => AssignedRooms(record) = {}
  BY DEF Fitting, ServerRecord, SizeAssumption
<1>2. CASE /\ \A r \in Rooms : new.assigned[r] <= record.assigned[r]
           /\ new.status = "gone" => record.status = "gone"
  <2>1. /\ Lobby \in Rooms /\ record.assigned[Lobby] \in Nat /\ new.assigned[Lobby] \in Nat
        /\ new.assigned[Lobby] <= record.assigned[Lobby]
    BY <1>1, <1>2, NameAssumption DEF NameAssumption
  <2>2. /\ Reserved(record) \in Nat /\ Reserved(new) \in Nat
        /\ Reserved(new) + record.assigned[Lobby] <= Reserved(record) + new.assigned[Lobby]
    BY <1>1, <1>2, <2>1, ReservedAfter
  <2>3. Reserved(new) <= ServerMax
    BY <1>1, <2>1, <2>2
  <2>4. new.status = "gone" => AssignedRooms(new) = {}
    BY <1>1, <1>2 DEF AssignedRooms
  <2> QED BY <2>3, <2>4 DEF Fitting
<1>3. ASSUME new.status # "gone", NEW room \in Rooms, NEW size \in Nat,
             new.assigned = [record.assigned EXCEPT ![room] = size],
             \/ size <= FreeSlots(record, room)
             \/ size <= ServerMax /\ AssignedRooms(record) = {}
      PROVE  new \in Fitting
  <2>1. /\ new.assigned[room] = size /\ record.assigned[room] \in Nat
        /\ \A r \in Rooms \ {room} : new.assigned[r] <= record.assigned[r]
    BY <1>1, <1>3
  <2>2. /\ Reserved(record) \in Nat /\ Reserved(new) \in Nat
        /\ record.assigned[room] <= Reserved(record)
        /\ Reserved(new) + record.assigned[room] <= Reserved(record) + size
    BY <1>1, <2>1, ReservedAfter
  <2>3. CASE size <= FreeSlots(record, room)
    <3>1. size <= (ServerMax - Reserved(record)) + record.assigned[room]
      BY <1>1, <2>2, <2>3 DEF FreeSlots, Minus
    <3>2. Reserved(new) <= ServerMax
      BY <1>1, <2>1, <2>2, <3>1
    <3> QED BY <1>3, <3>2 DEF Fitting
  <2>4. CASE size <= ServerMax /\ AssignedRooms(record) = {}
    <3>1. Reserved(record) = 0
      BY <1>1, <2>4, NothingReserved
    <3>2. Reserved(new) <= ServerMax
      BY <1>1, <2>1, <2>2, <2>4, <3>1
    <3> QED BY <1>3, <3>2 DEF Fitting
  <2> QED BY <1>3, <2>3, <2>4
<1> QED BY <1>2, <1>3 DEF MayBecome

\* Gone fits.
LEMMA GoneFits == Gone \in Fitting
<1>1. Gone.assigned \in [Rooms -> Nat] /\ AssignedRooms(Gone) = {}
  BY DEF Gone, AssignedRooms
<1>2. Reserved(Gone) = 0
  BY <1>1, NothingReserved
<1> QED BY <1>1, <1>2, GoneIsTidy, SizeAssumption DEF Fitting, SizeAssumption
\* A step that replaces the record of one server.
LEMMA ReplaceFits ==
  ASSUME IInv, NEW s \in Servers, NEW record, MayBecome(servers[s], record),
         servers' = [servers EXCEPT ![s] = record]
  PROVE  \A t \in Servers : MayBecome(servers[t], servers'[t])
<1>1. /\ servers \in [Servers -> ServerRecord]
      /\ \A t \in Servers : servers[t].assigned \in [Rooms -> Nat]
  BY DEF IInv, Records, ServerRecord
<1>2. ASSUME NEW t \in Servers
      PROVE  MayBecome(servers[t], servers[t])
  BY <1>1 DEF MayBecome
<1>3. \A t \in Servers : servers'[t] = IF t = s THEN record ELSE servers[t]
  BY <1>1
<1> QED BY <1>2, <1>3

\* The room's assignment, in the slots that are free for it.
LEMMA AssignmentFits ==
  ASSUME IInv, NEW s \in Servers, NEW room \in Rooms, NEW size \in Nat,
         servers[s].status # "gone", size <= FreeSlots(servers[s], room)
  PROVE  MayBecome(servers[s], AssignedTo(servers[s], room, size))
<1> DEFINE new == AssignedTo(servers[s], room, size)
<1>1. servers[s] \in ServerRecord
  BY DEF IInv, Records
<1>2. new.assigned = [servers[s].assigned EXCEPT ![room] = size] /\ new.status # "gone"
  BY <1>1 DEF AssignedTo, ServerRecord
<1> QED BY <1>2 DEF MayBecome

\* The claim of a server without assignments, with the request's own assignment
\* after it or not.
LEMMA ClaimFits ==
  ASSUME IInv, NEW s \in Servers, NEW room \in Rooms, NEW size \in Nat,
         Claimable(s), size <= ServerMax
  PROVE  /\ MayBecome(servers[s], Claimed(servers[s], room, size))
         /\ MayBecome(servers[s], AssignedTo(Claimed(servers[s], room, size), room, size))
<1> DEFINE old == servers[s]
           claimed == Claimed(old, room, size)
           new == AssignedTo(claimed, room, size)
<1>1. old \in ServerRecord /\ AssignedRooms(old) = {}
  BY DEF IInv, Records, Claimable
<1> HIDE DEF old
<1>2. /\ claimed \in ServerRecord /\ claimed.status = "reserved"
      /\ claimed.assigned = [old.assigned EXCEPT ![room] = size]
  BY <1>1 DEF Claimed, ServerRecord, ServerStatuses
<1>3. MayBecome(old, claimed)
  <2> HIDE DEF claimed
  <2> QED BY <1>1, <1>2 DEF MayBecome
<1> HIDE DEF claimed
<1>4. new.status = "reserved" /\ new.assigned = [claimed.assigned EXCEPT ![room] = size]
  BY <1>2 DEF AssignedTo, ServerRecord
<1>5. new.assigned = [old.assigned EXCEPT ![room] = size]
  BY <1>1, <1>2, <1>4 DEF ServerRecord
<1>6. MayBecome(old, new)
  <2> HIDE DEF new
  <2> QED BY <1>1, <1>4, <1>5 DEF MayBecome
<1> QED BY <1>3, <1>6 DEF new, claimed, old

\* A process registers once, for the room that it was launched for.
LEMMA RegisterFits ==
  ASSUME SizeAssumption, NameAssumption, IInv, ~RegistersAgain, NEW s \in Servers,
         servers[s] \in Fitting, NEW room \in Rooms \cup {NoRoom},
         NEW status \in ReportedStatuses, NEW n \in 0 .. ServerMax,
         RegisterServer(s, room, status, n)
  PROVE  \A t \in Servers : MayBecome(servers[t], servers'[t])
<1> DEFINE old == servers[s]
           kept == [r \in Rooms |-> IF r = room THEN LaunchSize[s] ELSE old.assigned[r]]
           resolved == ResolveServerStatus(status, n)
           record == [status |-> resolved, room |-> room, players |-> n,
                      assigned |-> kept, populated |-> {}]
<1>1. resolved # "gone"
  <2>1. status \in ServerStatuses
    BY DEF NameAssumption, ServerStatuses
  <2> QED BY <2>1, ResolvedStatus DEF ServerStatuses
<1>2. AssignedRooms(old) = {} /\ old.assigned \in [Rooms -> Nat]
  BY DEF RegisterServer, Registered, Fitting, ServerRecord
<1>3. LaunchSize[s] \in Nat /\ LaunchSize[s] <= ServerMax
  BY DEF SizeAssumption
<1>4. servers' = [servers EXCEPT ![s] = record]
  BY DEF RegisterServer
<1> HIDE DEF resolved, old
<1>5. CASE room \in Rooms
  <2>1. kept = [old.assigned EXCEPT ![room] = LaunchSize[s]]
    BY <1>2
  <2> HIDE DEF kept
  <2>2. record.status # "gone" /\ record.assigned = [old.assigned EXCEPT ![room] = LaunchSize[s]]
    BY <1>1, <2>1
  <2> HIDE DEF record
  <2>3. MayBecome(old, record)
    BY <1>2, <1>3, <1>5, <2>2 DEF MayBecome
  <2> QED BY <1>4, <2>3, ReplaceFits DEF old
<1>6. CASE room \notin Rooms
  <2>1. \A r \in Rooms : kept[r] <= old.assigned[r]
    BY <1>2, <1>6
  <2> HIDE DEF kept
  <2>2. MayBecome(old, record)
    BY <1>1, <2>1 DEF MayBecome
  <2> HIDE DEF record
  <2> QED BY <1>4, <2>2, ReplaceFits DEF old
<1> QED BY <1>5, <1>6

\* A ticket request's assignment, at once or after an await.
LEMMA TicketFits ==
  ASSUME SizeAssumption, IInv, NEW room \in Rooms, NEW size \in RoomSizes, NEW p,
         NEW s \in AllocatedForTicket(room, size, p),
         AssignAndHost(s, servers[s], room, size)
  PROVE  \A t \in Servers : MayBecome(servers[t], servers'[t])
<1>1. s \in Candidates(room, size, TicketStatuses)
  BY TicketsGoToCandidates
<1>2. /\ s \in Servers /\ servers[s].status # "gone"
      /\ FreeSlots(servers[s], room) >= size
  BY <1>1 DEF Candidates, TicketStatuses
<1>3. size \in Nat
  BY DEF SizeAssumption
<1>4. size <= FreeSlots(servers[s], room)
  BY <1>2
<1>5. MayBecome(servers[s], AssignedTo(servers[s], room, size))
  BY <1>2, <1>3, <1>4, AssignmentFits
<1> QED BY <1>2, <1>5, ReplaceFits DEF AssignAndHost

\* ensureRoomAssignment on a registered server.
LEMMA LobbyFits ==
  ASSUME SizeAssumption, NameAssumption, IInv, NEW s \in Servers, LobbyAssigned(s),
         servers[s].status # "gone"
  PROVE  \A t \in Servers : MayBecome(servers[t], servers'[t])
<1>1. LobbySize \in Nat /\ Lobby \in Rooms
  BY DEF SizeAssumption, NameAssumption
<1>2. CASE servers[s].assigned[Lobby] = 0 /\ servers[s].status = "warm"
  <2>1. /\ Claimable(s) /\ LobbySize <= ServerMax
        /\ servers' = [servers EXCEPT ![s] = Claimed(servers[s], Lobby, LobbySize)]
    BY <1>2 DEF LobbyAssigned, IInv, Records
  <2>2. MayBecome(servers[s], Claimed(servers[s], Lobby, LobbySize))
    BY <1>1, <2>1, ClaimFits
  <2> QED BY <2>1, <2>2, ReplaceFits
<1>3. CASE ~(servers[s].assigned[Lobby] = 0 /\ servers[s].status = "warm")
  <2>1. /\ LobbySize <= FreeSlots(servers[s], Lobby)
        /\ servers' = [servers EXCEPT ![s] = AssignedTo(servers[s], Lobby, LobbySize)]
    BY <1>3 DEF LobbyAssigned, IInv, Records
  <2>2. MayBecome(servers[s], AssignedTo(servers[s], Lobby, LobbySize))
    BY <1>1, <2>1, AssignmentFits
  <2> QED BY <2>1, <2>2, ReplaceFits
<1> QED BY <1>2, <1>3

\* The handlers that do not assign rooms.
LEMMA ReportFits ==
  ASSUME SizeAssumption, NameAssumption, IInv,
         \/ \E s \in Servers, status \in ReportedStatuses, r \in Rooms \cup {NoRoom},
              n \in 0 .. ServerMax, populated \in SUBSET Rooms :
                HeartbeatServer(s, status, r, n, populated)
         \/ \E s \in Servers, n \in 0 .. ServerMax : UpdatePlayerCount(s, n)
         \/ GetStatus
  PROVE  \A t \in Servers : MayBecome(servers[t], servers'[t])
<1>1. /\ servers \in [Servers -> ServerRecord]
      /\ \A s \in Servers : servers[s].assigned \in [Rooms -> Nat]
  BY DEF IInv, Records, ServerRecord
<1>2. ASSUME NEW s \in Servers, NEW record, servers' = [servers EXCEPT ![s] = record],
             record.assigned = servers[s].assigned, record.status # "gone"
      PROVE  \A t \in Servers : MayBecome(servers[t], servers'[t])
  <2>1. MayBecome(servers[s], record)
    BY <1>1, <1>2 DEF MayBecome
  <2> QED BY <1>2, <2>1, ReplaceFits
<1>3. CASE \E s \in Servers, status \in ReportedStatuses, r \in Rooms \cup {NoRoom},
              n \in 0 .. ServerMax, populated \in SUBSET Rooms :
             HeartbeatServer(s, status, r, n, populated)
  <2> PICK s \in Servers, status \in ReportedStatuses, r \in Rooms \cup {NoRoom},
           n \in 0 .. ServerMax, populated \in SUBSET Rooms :
        HeartbeatServer(s, status, r, n, populated)
    BY <1>3
  <2>1. status \in ServerStatuses
    BY DEF NameAssumption, ServerStatuses
  <2>2. servers[s].status # "gone" /\ ResolveServerStatus(status, n) # "gone"
    BY <2>1, ResolvedStatus DEF ServerStatuses, HeartbeatServer, Registered
  <2> DEFINE named == IF r # NoRoom THEN r ELSE servers[s].room
             resolved == IF PreservesClaim(servers[s], named, status, n)
                         THEN servers[s].status ELSE ResolveServerStatus(status, n)
  <2>3. PICK primary : servers' = [servers EXCEPT ![s] =
                         [status |-> resolved, room |-> primary, players |-> n,
                          assigned |-> servers[s].assigned, populated |-> populated]]
    BY DEF HeartbeatServer
  <2>4. resolved # "gone"
    BY <2>2
  <2> DEFINE record == [status |-> resolved, room |-> primary, players |-> n,
                        assigned |-> servers[s].assigned, populated |-> populated]
  <2> HIDE DEF resolved
  <2>5. /\ servers' = [servers EXCEPT ![s] = record]
        /\ record.assigned = servers[s].assigned
        /\ record.status # "gone"
    BY <2>3, <2>4
  <2> HIDE DEF record
  <2> QED BY <1>2, <2>5
<1>4. CASE \E s \in Servers, n \in 0 .. ServerMax : UpdatePlayerCount(s, n)
  <2> PICK s \in Servers, n \in 0 .. ServerMax : UpdatePlayerCount(s, n)
    BY <1>4
  <2>1. servers' = [servers EXCEPT ![s] = WithPlayers(s, n)] /\ Registered(s)
    BY DEF UpdatePlayerCount
  <2>2. WithPlayers(s, n).assigned = servers[s].assigned /\ WithPlayers(s, n).status # "gone"
    BY <2>1, CountedRecord
  <2> QED BY <1>2, <2>1, <2>2
<1>5. CASE GetStatus
  <2>1. \E primary : servers' = [s \in Servers |-> WithoutReleased(servers[s], primary[s])]
    BY <1>5 DEF GetStatus
  <2>2. ASSUME NEW s \in Servers, NEW room
        PROVE  MayBecome(servers[s], WithoutReleased(servers[s], room))
    <3> DEFINE old == servers[s]
               kept == [r \in Rooms |-> IF r \in Released(old, Rooms) THEN 0 ELSE old.assigned[r]]
               new == WithoutReleased(old, room)
    <3>1. old \in ServerRecord /\ old.assigned \in [Rooms -> Nat]
      BY <1>1
    <3>2. \A r \in Rooms : kept[r] <= old.assigned[r]
      BY <3>1
    <3>3. new = [old EXCEPT !.room = room, !.assigned = kept]
      BY DEF WithoutReleased
    <3> HIDE DEF kept, old, new
    <3>4. new.assigned = kept /\ new.status = old.status
      BY <3>1, <3>3 DEF ServerRecord
    <3>5. MayBecome(old, new)
      BY <3>2, <3>4 DEF MayBecome
    <3> QED BY <3>5 DEF old, new
  <2> QED BY <2>1, <2>2
<1> QED BY <1>3, <1>4, <1>5

\* The cleanup removes a server or leaves it its assignments.
LEMMA CleanupFits ==
  ASSUME IInv, NEW stale \in SUBSET Servers, NEW retired \in SUBSET Servers,
         Cleanup(stale, retired), NEW s \in Servers
  PROVE  servers'[s] = Gone \/ MayBecome(servers[s], servers'[s])
<1> DEFINE old == servers[s]
           unhealthy == [old EXCEPT !.status = "unhealthy"]
<1>1. old \in ServerRecord /\ old.assigned \in [Rooms -> Nat]
  BY DEF IInv, Records, ServerRecord
<1>2. servers'[s] \in {Gone, old, unhealthy}
  BY DEF Cleanup
<1> HIDE DEF old
<1>3. unhealthy.status = "unhealthy" /\ unhealthy.assigned = old.assigned
  BY <1>1 DEF ServerRecord
<1> HIDE DEF unhealthy
<1>4. MayBecome(old, old) /\ MayBecome(old, unhealthy)
  BY <1>1, <1>3 DEF MayBecome
<1> QED BY <1>2, <1>4 DEF old

\* Every reservation fits, if no process registers again.
AllFit == RegistersAgain \/ \A s \in Servers : servers[s] \in Fitting

\* Every handler keeps it so.
LEMMA NextAllFit ==
  ASSUME SizeAssumption, NameAssumption, IInv, IInv', AllFit, [Next]_vars
  PROVE  AllFit'
<1> SUFFICES ASSUME ~RegistersAgain, NEW q \in Servers
             PROVE  servers'[q] \in Fitting
  BY DEF AllFit
<1>1. /\ servers[q] \in Fitting /\ servers'[q] \in ServerRecord
      /\ \A s \in Servers : servers[s] \in Fitting
  BY DEF AllFit, IInv, Records
<1> SUFFICES servers'[q] = Gone \/ MayBecome(servers[q], servers'[q])
  BY <1>1, StillFits, GoneFits
<1>2. CASE \E s \in Servers, room \in Rooms \cup {NoRoom}, status \in ReportedStatuses,
              n \in 0 .. ServerMax : RegisterServer(s, room, status, n)
  BY <1>1, <1>2, RegisterFits
<1>3. CASE \/ \E s \in Servers, status \in ReportedStatuses, r \in Rooms \cup {NoRoom},
                n \in 0 .. ServerMax, populated \in SUBSET Rooms :
                  HeartbeatServer(s, status, r, n, populated)
           \/ \E s \in Servers, n \in 0 .. ServerMax : UpdatePlayerCount(s, n)
           \/ GetStatus
  BY <1>3, ReportFits
<1>4. CASE \E r \in Rooms, size \in RoomSizes, p \in Preferred \cup {NoServer}, s \in Servers :
             RequestTicket(r, size, p, s)
  BY <1>4, TicketFits DEF RequestTicket
<1>5. CASE \E r \in Rooms, size \in RoomSizes, s \in Servers :
             RequestTicketWithWarmClaim(r, size, s)
  <2> PICK r \in Rooms, size \in RoomSizes, s \in Servers : RequestTicketWithWarmClaim(r, size, s)
    BY <1>5
  <2>1. /\ Claimable(s) /\ size <= ServerMax /\ size \in Nat
        /\ servers' = [servers EXCEPT ![s] =
                         AssignedTo(Claimed(servers[s], r, size), r, size)]
    BY DEF RequestTicketWithWarmClaim, AssignAndHost, SizeAssumption
  <2>2. MayBecome(servers[s], AssignedTo(Claimed(servers[s], r, size), r, size))
    BY <2>1, ClaimFits
  <2> QED BY <2>1, <2>2, ReplaceFits
<1>6. CASE UNCHANGED servers
  BY <1>1, <1>6 DEF MayBecome, Fitting, ServerRecord
<1>7. CASE \E request \in Requests : ResumeAfterLaunch(request)
  <2> PICK request \in Requests : ResumeAfterLaunch(request)
    BY <1>7
  <2>1. request.room \in Rooms /\ request.size \in RoomSizes
    BY DEF Requests
  <2>2. CASE \E p \in Preferred \cup {NoServer} :
               \E s \in AllocatedForTicket(request.room, request.size, p) :
                 AssignAndHost(s, servers[s], request.room, request.size)
    BY <2>1, <2>2, TicketFits
  <2> QED BY <1>6, <2>2 DEF ResumeAfterLaunch
<1>8. CASE ReconcileHostedLobby
  <2>1. PICK s \in Servers : s = host[Lobby] /\ LobbyAssigned(s) /\ Registered(s)
    BY <1>8 DEF ReconcileHostedLobby, IInv, NameAssumption
  <2> QED BY <2>1, LobbyFits DEF Registered
<1>9. CASE \E s \in Servers : ReconcileUnhostedLobby(s)
  <2> PICK s \in Servers : ReconcileUnhostedLobby(s)
    BY <1>9
  <2>1. s \in LobbyChoices /\ LobbyAssigned(s)
    BY DEF ReconcileUnhostedLobby
  <2>2. \/ servers[s].assigned[Lobby] > 0
        \/ s \in Candidates(Lobby, LobbySize, LobbyStatuses)
    BY <2>1, LobbyChoiceFacts
  <2>3. servers[s].status = "gone" => servers[s].assigned[Lobby] = 0
    BY <1>1 DEF Fitting, AssignedRooms, ServerRecord, NameAssumption
  <2>4. servers[s].status # "gone"
    BY <2>2, <2>3 DEF Candidates, LobbyStatuses
  <2> QED BY <2>1, <2>4, LobbyFits
<1>10. CASE \E stale \in SUBSET Servers, retired \in SUBSET Servers : Cleanup(stale, retired)
  BY <1>10, CleanupFits
<1>11. CASE Restart
  BY <1>11 DEF Restart
<1>12. CASE \/ \E r \in Rooms, size \in RoomSizes : RequestTicketWithLaunch(r, size)
            \/ \E r \in Rooms : EndSession(r)
            \/ \E s \in Servers : HeartbeatAges(s)
            \/ \E r \in Rooms, s \in Servers : LastTicketEnds(r, s)
            \/ UNCHANGED vars
  BY <1>6, <1>12 DEF RequestTicketWithLaunch, EndSession, HeartbeatAges, LastTicketEnds, vars
<1>13. CASE \E r \in Rooms, s \in Servers : VerifyTicketOpensSession(r, s)
  <2> PICK r \in Rooms, s \in Servers : VerifyTicketOpensSession(r, s)
    BY <1>13
  <2>1. CASE Registered(s)
    <3>1. servers' = [servers EXCEPT ![s] = WithPlayers(s, 1)]
      BY <2>1 DEF VerifyTicketOpensSession
    <3>2. /\ WithPlayers(s, 1).assigned = servers[s].assigned
          /\ WithPlayers(s, 1).status # "gone"
      BY <2>1, CountedRecord DEF SizeAssumption
    <3>3. MayBecome(servers[s], WithPlayers(s, 1))
      <4>1. servers[s].assigned \in [Rooms -> Nat]
        BY DEF IInv, Records, ServerRecord
      <4> QED BY <3>2, <4>1 DEF MayBecome
    <3> QED BY <3>1, <3>3, ReplaceFits
  <2>2. CASE ~Registered(s)
    BY <1>6, <2>2 DEF VerifyTicketOpensSession
  <2> QED BY <2>1, <2>2
<1> QED BY <1>2, <1>3, <1>4, <1>5, <1>7, <1>8, <1>9, <1>10, <1>11, <1>12, <1>13 DEF Next

\* The rooms that a server is assigned never need more than its capacity, whatever
\* tickets, claims, the lobby and releases do in between (gameServerAllocator.js,
\* validateServerCandidate; gameServerRegistry.js, assignRoomToServer and
\* claimWarmServerForRoom), as long as processes register once.
THEOREM ReservedFits == Spec => []ReservationsFit
<1>1. Init => AllFit
  BY GoneFits DEF Init, AllFit
<1>2. IInv /\ IInv' /\ AllFit /\ [Next]_vars => AllFit'
  BY SizeAssumption, NameAssumption, NextAllFit
<1>3. AllFit => ReservationsFit
  BY DEF AllFit, Fitting, ReservationsFit
<1> QED BY <1>1, <1>2, <1>3, AlwaysIInv, PTL DEF Spec

-----------------------------------------------------------------------------
(* The processes of the servers, from launch to exit (ServerProcesses): what *)
(* the manifest file says of launches can be relied on.  The cleanup works   *)
(* on the manifest as it was when it read it, so the invariant speaks of     *)
(* that copy as well as of the file.                                         *)

CONSTANTS MaxActive, MaxPending, MaxHits, MinReady, MaxRestarts, IdleShutdownEnabled,
          RestartOrphanCleanupEnabled
VARIABLES launcher, launchRoom, proc, manifest, lost, registered, room, used, awaited,
          pending, cooling, hits, warmCooling, phase, snapshot, emptySeen, orphanSeen,
          restarts

Proc == INSTANCE ServerProcesses

\* A manifest tells the truth of the processes: it knows only launches with a process,
\* and as ended only those that were told to stop or are dead.
IsTrue(m) ==
  /\ \A s \in m.launched : proc[s] # "none"
  /\ \A s \in m.ended : proc[s] \in {"stopping", "dead"}

\* A launcher that has spawned its process or waits for it has one, and there is none
\* before it spawns.
LaunchersKnow ==
  \A s \in Servers :
    /\ launcher[s] \in {"none", "checking", "spawning"} => proc[s] = "none"
    /\ launcher[s] \in {"spawned", "waiting"} => proc[s] # "none"

\* A live process is on record, unless its record was not written.
LiveAreRecorded ==
  \A s \in Servers :
    Proc!Alive(s) /\ launcher[s] # "spawned" /\ s \notin lost => s \in manifest.launched

ProcessInv ==
  /\ Proc!TypeOK /\ LaunchersKnow /\ LiveAreRecorded
  /\ IsTrue(manifest) /\ IsTrue(snapshot)

-----------------------------------------------------------------------------
(* Types *)

\* The initial state has the types.
LEMMA InitTypes ==
  ASSUME Proc!ProcessAssumption, Proc!Init
  PROVE  Proc!TypeOK
<1>1. Proc!NoRecords \in Proc!Manifests
  BY DEF Proc!NoRecords, Proc!Manifests
<1>2. 0 \in 0 .. MaxHits /\ 0 \in 0 .. MaxRestarts
  BY DEF Proc!ProcessAssumption
<1>3. /\ manifest \in Proc!Manifests /\ snapshot \in Proc!Manifests /\ lost \subseteq Servers
      /\ hits \in 0 .. MaxHits /\ restarts \in 0 .. MaxRestarts
  BY <1>1, <1>2 DEF Proc!Init
<1>4. /\ launcher \in [Servers -> {"none", "checking", "spawning", "spawned", "waiting",
                               "ended"}]
      /\ proc \in [Servers -> {"none", "starting", "up", "stopping", "dead"}]
      /\ launchRoom \in [Servers -> Rooms \cup {NoRoom}]
      /\ room \in [Servers -> Rooms \cup {NoRoom}] /\ used \in [Servers -> BOOLEAN]
  BY DEF Proc!Init
<1>5. /\ registered \subseteq Servers /\ awaited \subseteq Servers
      /\ pending \subseteq Rooms /\ cooling \subseteq Rooms /\ warmCooling \in BOOLEAN
      /\ phase \in {"none", "read", "scanned"}
  BY DEF Proc!Init
<1>6. emptySeen \in [Servers -> Proc!Seen] /\ orphanSeen \in [Servers -> Proc!Seen]
  BY DEF Proc!Init, Proc!Seen
<1> QED
  BY <1>3, <1>4, <1>5, <1>6 DEF Proc!TypeOK

\* The steps of ticket requests, of the keep-alive tool and of launchers.
LEMMA LaunchTypes ==
  ASSUME Proc!ProcessAssumption, Proc!TypeOK, NEW s \in Servers,
         \/ \E r \in Rooms : Proc!LaunchForRoom(r, s)
         \/ Proc!KeepWarm(s) \/ Proc!LaunchProcess(s) \/ Proc!LaunchWarmProcess(s)
         \/ Proc!RecordRoomLaunch(s) \/ Proc!RecordWarmLaunch(s) \/ Proc!EndLauncher(s)
         \/ Proc!LaunchAnswered(s)
  PROVE  Proc!TypeOK'
<1>1. CASE \E r \in Rooms : Proc!LaunchForRoom(r, s)
  <2>1. PICK r \in Rooms : Proc!LaunchForRoom(r, s)
    BY <1>1
  <2>2. hits + 1 \in 0 .. MaxHits
    BY <2>1 DEF Proc!ProcessAssumption, Proc!LaunchForRoom, Proc!MayLaunch,
       Proc!WithinRate, Proc!TypeOK
  <2> QED
    BY <2>1, <2>2 DEF Proc!LaunchForRoom, Proc!TypeOK, Proc!fileVars, Proc!registryVars,
       Proc!cleanupVars
<1>2. CASE Proc!KeepWarm(s)
  BY <1>2 DEF Proc!KeepWarm, Proc!TypeOK, Proc!fileVars, Proc!registryVars,
     Proc!requestVars, Proc!cleanupVars
<1>3. CASE Proc!LaunchProcess(s) \/ Proc!LaunchWarmProcess(s)
  BY <1>3 DEF Proc!LaunchProcess, Proc!LaunchWarmProcess, Proc!Spawned, Proc!TypeOK,
     Proc!fileVars, Proc!registryVars,
              Proc!requestVars, Proc!cleanupVars
<1>4. CASE Proc!RecordRoomLaunch(s) \/ Proc!RecordWarmLaunch(s)
  <2>1. Proc!RecordLaunch(s)
    BY <1>4 DEF Proc!RecordRoomLaunch, Proc!RecordWarmLaunch
  <2>2. [manifest EXCEPT !.launched = manifest.launched \cup {s}] \in Proc!Manifests
    BY DEF Proc!TypeOK, Proc!Manifests
  <2> QED
    BY <2>1, <2>2 DEF Proc!RecordLaunch, Proc!TypeOK, Proc!registryVars, Proc!requestVars,
       Proc!cleanupVars
<1>5. CASE Proc!EndLauncher(s)
  BY <1>5 DEF Proc!EndLauncher, Proc!TypeOK, Proc!registryVars, Proc!requestVars,
     Proc!cleanupVars
<1>6. CASE Proc!LaunchAnswered(s)
  BY <1>6 DEF Proc!LaunchAnswered, Proc!TypeOK, Proc!launchVars, Proc!fileVars,
     Proc!registryVars, Proc!cleanupVars
<1> QED
  BY <1>1, <1>2, <1>3, <1>4, <1>5, <1>6

\* The steps of servers and of time, and a restart of Node.
LEMMA ServerTypes ==
  ASSUME Proc!ProcessAssumption, Proc!TypeOK,
         \/ \E s \in Servers : \/ \E r \in Rooms : Proc!ChangeRoom(s, r)
                               \/ Proc!Register(s) \/ Proc!ChangeUse(s) \/ Proc!ProcessExits(s)
                               \/ Proc!Ages(s)
         \/ Proc!CoolsDown \/ Proc!WarmCoolsDown \/ Proc!RestartNode
  PROVE  Proc!TypeOK'
<1>1. ASSUME NEW s \in Servers, NEW r \in Rooms, Proc!ChangeRoom(s, r)
      PROVE  Proc!TypeOK'
  BY <1>1 DEF Proc!ChangeRoom, Proc!TypeOK, Proc!launchVars, Proc!fileVars,
     Proc!requestVars, Proc!cleanupVars
<1>2. ASSUME NEW s \in Servers, Proc!Register(s)
      PROVE  Proc!TypeOK'
  BY <1>2 DEF Proc!Register, Proc!TypeOK, Proc!fileVars, Proc!requestVars, Proc!cleanupVars
<1>3. ASSUME NEW s \in Servers, Proc!ChangeUse(s)
      PROVE  Proc!TypeOK'
  <2>1. used' \in [Servers -> BOOLEAN]
    BY <1>3 DEF Proc!ChangeUse, Proc!TypeOK
  <2> QED
    BY <1>3, <2>1 DEF Proc!ChangeUse, Proc!TypeOK, Proc!launchVars, Proc!fileVars,
       Proc!requestVars, Proc!cleanupVars
<1>4. ASSUME NEW s \in Servers, Proc!ProcessExits(s)
      PROVE  Proc!TypeOK'
  BY <1>4 DEF Proc!ProcessExits, Proc!TypeOK, Proc!fileVars, Proc!registryVars,
     Proc!requestVars, Proc!cleanupVars
<1>5. ASSUME NEW s \in Servers, Proc!Ages(s)
      PROVE  Proc!TypeOK'
  <2>1. emptySeen' \in [Servers -> Proc!Seen] /\ orphanSeen' \in [Servers -> Proc!Seen]
    BY <1>5 DEF Proc!Ages, Proc!TypeOK, Proc!Seen
  <2> QED
    BY <1>5, <2>1 DEF Proc!Ages, Proc!TypeOK, Proc!launchVars, Proc!fileVars,
       Proc!registryVars, Proc!requestVars
<1>6. CASE Proc!CoolsDown
  <2>1. 0 \in 0 .. MaxHits
    BY DEF Proc!ProcessAssumption
  <2>2. hits' = hits \/ hits' = 0
    BY <1>6 DEF Proc!CoolsDown
  <2>3. hits' \in 0 .. MaxHits
    BY <2>1, <2>2 DEF Proc!TypeOK
  <2>4. cooling' \subseteq Rooms
    BY <1>6 DEF Proc!CoolsDown, Proc!TypeOK
  <2> QED
    BY <1>6, <2>3, <2>4 DEF Proc!CoolsDown, Proc!TypeOK, Proc!launchVars, Proc!fileVars,
       Proc!registryVars, Proc!cleanupVars
<1>7. CASE Proc!WarmCoolsDown
  BY <1>7 DEF Proc!WarmCoolsDown, Proc!TypeOK, Proc!launchVars, Proc!fileVars,
     Proc!registryVars, Proc!requestVars,
              Proc!cleanupVars
<1>8. CASE Proc!RestartNode
  <2>1. /\ restarts' \in 0 .. MaxRestarts /\ hits' \in 0 .. MaxHits
        /\ snapshot' \in Proc!Manifests /\ phase' \in {"none", "read", "scanned"}
    BY <1>8 DEF Proc!ProcessAssumption, Proc!RestartNode, Proc!TypeOK, Proc!NoRecords,
       Proc!Manifests
  <2>2. emptySeen' \in [Servers -> Proc!Seen] /\ orphanSeen' \in [Servers -> Proc!Seen]
    BY <1>8 DEF Proc!RestartNode, Proc!Seen
  <2>3. /\ registered' \subseteq Servers /\ awaited' \subseteq Servers
        /\ pending' \subseteq Rooms /\ cooling' \subseteq Rooms
        /\ room' \in [Servers -> Rooms \cup {NoRoom}] /\ used' \in [Servers -> BOOLEAN]
    BY <1>8 DEF Proc!RestartNode
  <2> QED
    BY <1>8, <2>1, <2>2, <2>3 DEF Proc!RestartNode, Proc!TypeOK, Proc!launchVars,
       Proc!fileVars
<1> QED
  BY <1>1, <1>2, <1>3, <1>4, <1>5, <1>6, <1>7, <1>8

\* The steps of the cleanup.
LEMMA CleanupTypes ==
  ASSUME Proc!TypeOK,
         \/ Proc!ReadManifest \/ Proc!EndCleanup
         \/ \E overLimit \in SUBSET Servers : Proc!Scan(overLimit)
  PROVE  Proc!TypeOK'
<1>1. CASE Proc!ReadManifest
  BY <1>1 DEF Proc!ReadManifest, Proc!TypeOK, Proc!launchVars, Proc!fileVars,
     Proc!registryVars, Proc!requestVars
<1>2. Proc!NoRecords \in Proc!Manifests
  BY DEF Proc!NoRecords, Proc!Manifests
<1>3. CASE Proc!EndCleanup
  BY <1>2, <1>3 DEF Proc!EndCleanup, Proc!TypeOK, Proc!launchVars, Proc!fileVars,
     Proc!registryVars, Proc!requestVars
<1>4. ASSUME NEW overLimit \in SUBSET Servers, Proc!Scan(overLimit)
      PROVE  Proc!TypeOK'
  <2>1. proc' \in [Servers -> {"none", "starting", "up", "stopping", "dead"}]
    BY <1>4 DEF Proc!Scan, Proc!Signalled, Proc!TypeOK
  <2>2. /\ registered' \subseteq Servers /\ room' \in [Servers -> Rooms \cup {NoRoom}]
        /\ phase' = "scanned"
    BY <1>4 DEF Proc!Scan, Proc!TypeOK
  <2>3. used' \in [Servers -> BOOLEAN]
    BY <1>4 DEF Proc!Scan, Proc!TypeOK
  <2>4. Proc!DeadServers \subseteq Servers /\ Proc!IdleServers \subseteq Servers
    BY DEF Proc!DeadServers, Proc!IdleServers, Proc!EmptyServers, Proc!LiveServers,
       Proc!TypeOK
  <2>5. manifest' \in Proc!Manifests
    <3>1. \A removed : Proc!OrphanRecords(removed) \subseteq Servers
      BY DEF Proc!OrphanRecords, Proc!TypeOK, Proc!Manifests
    <3>2. \A orphans \in SUBSET Servers : Proc!EndedLaunches(orphans) \in Proc!Manifests
      BY <2>4 DEF Proc!EndedLaunches, Proc!TypeOK, Proc!Manifests
    <3> DEFINE removed == Proc!DeadServers \cup Proc!IdleServers \cup overLimit
               exited == {s \in Proc!OrphanRecords(removed) : ~Proc!Alive(s)}
               killed == Proc!KilledOrphans(removed)
    <3>3. manifest' = Proc!EndedLaunches(exited \cup killed)
      BY <1>4 DEF Proc!Scan
    <3>4. exited \cup killed \in SUBSET Servers
      BY <3>1 DEF Proc!KilledOrphans, Proc!LiveOrphans
    <3> HIDE DEF exited, killed
    <3> QED
      BY <3>2, <3>3, <3>4
  <2>6. \A x \in Proc!Seen : Proc!SeenAgain(x) \in Proc!Seen
    BY DEF Proc!SeenAgain, Proc!Seen
  <2>7. emptySeen' \in [Servers -> Proc!Seen]
    <3>1. "no" \in Proc!Seen
      BY DEF Proc!Seen
    <3> QED
      BY <1>4, <2>6, <3>1 DEF Proc!Scan, Proc!TypeOK
  <2>8. orphanSeen' \in [Servers -> Proc!Seen]
    <3>1. "no" \in Proc!Seen
      BY DEF Proc!Seen
    <3> QED
      BY <1>4, <2>6, <3>1 DEF Proc!Scan, Proc!TypeOK
  <2>9. UNCHANGED <<launcher, launchRoom, lost, Proc!requestVars, warmCooling, snapshot,
                    restarts>>
    BY <1>4 DEF Proc!Scan
  <2> QED
    BY <2>1, <2>2, <2>3, <2>5, <2>7, <2>8, <2>9 DEF Proc!TypeOK, Proc!requestVars
<1> QED
  BY <1>1, <1>3, <1>4

-----------------------------------------------------------------------------
(* What the manifest says *)

\* A step that changes neither processes, launchers nor manifests.
LEMMA UntoldKeepsInv ==
  ASSUME ProcessInv, Proc!TypeOK', UNCHANGED <<launcher, proc, manifest, lost>>,
         snapshot' \in {snapshot, manifest, Proc!NoRecords}
  PROVE  ProcessInv'
<1>1. IsTrue(Proc!NoRecords)
  BY DEF IsTrue, Proc!NoRecords
<1>2. \A m : IsTrue(m)' <=> IsTrue(m)
  BY DEF IsTrue
<1>3. IsTrue(manifest)' /\ IsTrue(snapshot)'
  BY <1>1, <1>2 DEF ProcessInv, IsTrue
<1>4. LaunchersKnow' /\ LiveAreRecorded'
  BY DEF ProcessInv, LaunchersKnow, LiveAreRecorded, Proc!Alive
<1> QED
  BY <1>3, <1>4 DEF ProcessInv

\* A process changes its state: it begins, registers, is told to stop or exits.
LEMMA ProcessKeepsInv ==
  ASSUME ProcessInv, Proc!TypeOK', NEW S \in SUBSET Servers,
         \A s \in Servers \ S : proc'[s] = proc[s] /\ launcher'[s] = launcher[s],
         \A s \in S : /\ proc'[s] # "none" /\ launcher'[s] \notin {"none", "checking", "spawning"}
                      /\ s \in manifest.ended \cup snapshot.ended =>
                           proc'[s] \in {"stopping", "dead"}
                      /\ Proc!Alive(s)' => \/ Proc!Alive(s) /\ launcher'[s] = launcher[s]
                                      \/ launcher'[s] = "spawned",
         UNCHANGED <<manifest, lost, snapshot>>
  PROVE  ProcessInv'
<1>1. /\ manifest.launched \subseteq Servers /\ manifest.ended \subseteq Servers
      /\ snapshot.launched \subseteq Servers /\ snapshot.ended \subseteq Servers
  BY DEF ProcessInv, Proc!TypeOK, Proc!Manifests
<1>2. LaunchersKnow'
  BY DEF ProcessInv, LaunchersKnow
<1>3. LiveAreRecorded'
  BY DEF ProcessInv, LiveAreRecorded, Proc!Alive
<1>4. IsTrue(manifest)' /\ IsTrue(snapshot)'
  BY <1>1 DEF ProcessInv, IsTrue
<1> QED
  BY <1>2, <1>3, <1>4 DEF ProcessInv

\* A launcher that is started has no process yet.
LEMMA LaunchKeepsInv ==
  ASSUME ProcessInv, Proc!TypeOK', NEW s \in Servers,
         \/ \E r \in Rooms : Proc!LaunchForRoom(r, s)
         \/ Proc!KeepWarm(s)
  PROVE  ProcessInv'
<1>1. PICK l \in {"checking", "spawning"} :
        /\ launcher[s] = "none" /\ launcher' = [launcher EXCEPT ![s] = l]
        /\ UNCHANGED <<proc, manifest, lost, snapshot>>
  BY DEF Proc!LaunchForRoom, Proc!KeepWarm, Proc!fileVars, Proc!cleanupVars
<1>2. /\ launcher'[s] = l /\ proc[s] = "none"
      /\ \A x \in Servers \ {s} : launcher'[x] = launcher[x]
  BY <1>1 DEF ProcessInv, Proc!TypeOK, LaunchersKnow
<1>3. LaunchersKnow' /\ LiveAreRecorded'
  BY <1>1, <1>2 DEF ProcessInv, LaunchersKnow, LiveAreRecorded, Proc!Alive
<1>4. IsTrue(manifest)' /\ IsTrue(snapshot)'
  BY <1>1 DEF ProcessInv, IsTrue
<1> QED
  BY <1>3, <1>4 DEF ProcessInv

\* A process that was spawned is on record as soon as its launcher has written it.
LEMMA SpawnKeepsInv ==
  ASSUME ProcessInv, Proc!TypeOK', NEW s \in Servers,
         Proc!LaunchProcess(s) \/ Proc!LaunchWarmProcess(s)
  PROVE  ProcessInv'
<1>1. /\ launcher[s] \in {"checking", "spawning"}
      /\ launcher' = [launcher EXCEPT ![s] = "spawned"]
      /\ proc' = [proc EXCEPT ![s] = "starting"]
      /\ UNCHANGED <<manifest, lost, snapshot>>
  BY DEF Proc!LaunchProcess, Proc!LaunchWarmProcess, Proc!Spawned, Proc!fileVars,
     Proc!cleanupVars
<1>2. /\ launcher'[s] = "spawned" /\ proc'[s] = "starting"
      /\ \A x \in Servers \ {s} : proc'[x] = proc[x] /\ launcher'[x] = launcher[x]
  BY <1>1 DEF ProcessInv, Proc!TypeOK
<1>3. proc[s] = "none"
  BY <1>1 DEF ProcessInv, LaunchersKnow
<1>4. s \notin manifest.ended \cup snapshot.ended
  BY <1>3 DEF ProcessInv, IsTrue
<1>5. \A x \in {s} : /\ proc'[x] # "none"
                     /\ launcher'[x] \notin {"none", "checking", "spawning"}
                     /\ x \in manifest.ended \cup snapshot.ended =>
                          proc'[x] \in {"stopping", "dead"}
                     /\ Proc!Alive(x)' => \/ Proc!Alive(x) /\ launcher'[x] = launcher[x]
                                     \/ launcher'[x] = "spawned"
  BY <1>2, <1>4
<1>6. {s} \in SUBSET Servers
  OBVIOUS
<1> QED
  BY <1>1, <1>2, <1>5, <1>6, ProcessKeepsInv

\* The record of a launch is appended.
LEMMA RecordKeepsInv ==
  ASSUME ProcessInv, Proc!TypeOK', NEW s \in Servers, Proc!RecordLaunch(s)
  PROVE  ProcessInv'
<1>1. /\ launcher[s] = "spawned" /\ launcher' = [launcher EXCEPT ![s] = "waiting"]
      /\ manifest' = [manifest EXCEPT !.launched = manifest.launched \cup {s}]
      /\ UNCHANGED <<proc, lost, snapshot>>
  BY DEF Proc!RecordLaunch, Proc!cleanupVars
<1>2. /\ launcher'[s] = "waiting" /\ \A x \in Servers \ {s} : launcher'[x] = launcher[x]
      /\ proc[s] # "none"
  BY <1>1 DEF ProcessInv, Proc!TypeOK, LaunchersKnow
<1>3. manifest'.launched = manifest.launched \cup {s} /\ manifest'.ended = manifest.ended
  BY <1>1 DEF ProcessInv, Proc!TypeOK, Proc!Manifests
<1>4. LaunchersKnow' /\ LiveAreRecorded'
  BY <1>1, <1>2, <1>3 DEF ProcessInv, LaunchersKnow, LiveAreRecorded, Proc!Alive
<1>5. IsTrue(manifest)' /\ IsTrue(snapshot)'
  BY <1>1, <1>2, <1>3 DEF ProcessInv, IsTrue
<1> QED
  BY <1>4, <1>5 DEF ProcessInv

\* A launcher ends; when it does before it writes the record, the record is lost.
LEMMA EndLauncherKeepsInv ==
  ASSUME ProcessInv, Proc!TypeOK', NEW s \in Servers, Proc!EndLauncher(s)
  PROVE  ProcessInv'
<1>1. /\ launcher' = [launcher EXCEPT ![s] = "ended"]
      /\ lost' = IF launcher[s] = "spawned" THEN lost \cup {s} ELSE lost
      /\ UNCHANGED <<proc, manifest, snapshot>>
  BY DEF Proc!EndLauncher, Proc!cleanupVars
<1>2. launcher'[s] = "ended" /\ \A x \in Servers \ {s} : launcher'[x] = launcher[x]
  BY <1>1 DEF ProcessInv, Proc!TypeOK
<1>3. LaunchersKnow'
  BY <1>1, <1>2 DEF ProcessInv, LaunchersKnow
<1>4. LiveAreRecorded'
  BY <1>1, <1>2 DEF ProcessInv, LiveAreRecorded, Proc!Alive
<1>5. IsTrue(manifest)' /\ IsTrue(snapshot)'
  BY <1>1 DEF ProcessInv, IsTrue
<1> QED
  BY <1>3, <1>4, <1>5 DEF ProcessInv

\* A process registers, which one that was told to stop does not do, or exits.
LEMMA ServerKeepsInv ==
  ASSUME ProcessInv, Proc!TypeOK', NEW s \in Servers, Proc!Register(s) \/ Proc!ProcessExits(s)
  PROVE  ProcessInv'
<1>1. UNCHANGED <<launcher, manifest, lost, snapshot>>
  BY DEF Proc!Register, Proc!ProcessExits, Proc!fileVars, Proc!cleanupVars
<1>2. PICK p \in {"up", "dead"} :
        /\ proc' = [proc EXCEPT ![s] = p] /\ Proc!Alive(s)
        /\ p = "up" => proc[s] \notin {"stopping", "dead"}
  BY DEF Proc!Register, Proc!ProcessExits, Proc!Alive
<1>3. proc'[s] = p /\ \A x \in Servers \ {s} : proc'[x] = proc[x]
  BY <1>2 DEF ProcessInv, Proc!TypeOK
<1>4. launcher[s] \notin {"none", "checking", "spawning"}
  BY <1>2 DEF ProcessInv, LaunchersKnow, Proc!Alive
<1>5. s \in manifest.ended \cup snapshot.ended => p = "dead"
  BY <1>2 DEF ProcessInv, IsTrue
<1>6. \A x \in {s} : /\ proc'[x] # "none"
                     /\ launcher'[x] \notin {"none", "checking", "spawning"}
                     /\ x \in manifest.ended \cup snapshot.ended =>
                          proc'[x] \in {"stopping", "dead"}
                     /\ Proc!Alive(x)' => \/ Proc!Alive(x) /\ launcher'[x] = launcher[x]
                                     \/ launcher'[x] = "spawned"
  BY <1>1, <1>2, <1>3, <1>4, <1>5
<1>7. {s} \in SUBSET Servers
  OBVIOUS
<1> QED
  BY <1>1, <1>3, <1>6, <1>7, ProcessKeepsInv

\* The scan of the cleanup: whom it tells to stop was alive, and whom it records as ended
\* is dead or told to stop.
LEMMA ScanKeepsInv ==
  ASSUME ProcessInv, Proc!TypeOK', NEW overLimit \in SUBSET Servers, Proc!Scan(overLimit)
  PROVE  ProcessInv'
<1> DEFINE removed == Proc!DeadServers \cup Proc!IdleServers \cup overLimit
           exited == {s \in Proc!OrphanRecords(removed) : ~Proc!Alive(s)}
           killed == Proc!KilledOrphans(removed)
<1>1. /\ overLimit \subseteq Proc!LiveServers
      /\ proc' = Proc!Signalled(Proc!IdleServers \cup overLimit \cup killed)
      /\ manifest' = Proc!EndedLaunches(exited \cup killed)
      /\ UNCHANGED <<launcher, lost, snapshot>>
  BY DEF Proc!Scan, Proc!MayExceedLimits
<1>2. PICK X, K : X = exited /\ K = killed
  OBVIOUS
<1>3. /\ \A s \in X : s \in snapshot.launched /\ ~Proc!Alive(s)
      /\ \A s \in K : s \in snapshot.launched /\ Proc!Alive(s)
  BY <1>2 DEF Proc!OrphanRecords, Proc!LiveOrphans, Proc!KilledOrphans
<1>4. /\ \A s \in Proc!IdleServers \cup overLimit : s \in Servers /\ Proc!Alive(s)
      /\ \A s \in Proc!DeadServers : s \in Servers /\ ~Proc!Alive(s) /\ s \in snapshot.launched
  BY <1>1 DEF Proc!IdleServers, Proc!EmptyServers, Proc!LiveServers, Proc!DeadServers,
     Proc!HasRecord, ProcessInv, Proc!TypeOK
<1>5. /\ X \subseteq Servers /\ K \subseteq Servers
      /\ Proc!DeadServers \subseteq Servers /\ Proc!IdleServers \subseteq Servers
  BY <1>3, <1>4 DEF ProcessInv, Proc!TypeOK, Proc!Manifests
<1>6. /\ \A s \in Servers :
           proc'[s] = IF s \in Proc!IdleServers \cup overLimit \cup K THEN "stopping" ELSE proc[s]
      /\ manifest'.launched = manifest.launched
      /\ manifest'.ended = manifest.ended \cup Proc!DeadServers \cup Proc!IdleServers \cup X \cup K
  <2>1. proc' = Proc!Signalled(Proc!IdleServers \cup overLimit \cup K)
    BY <1>1, <1>2
  <2>2. manifest' = [manifest EXCEPT !.ended =
                       manifest.ended \cup Proc!DeadServers \cup Proc!IdleServers \cup (X \cup K)]
    BY <1>1, <1>2 DEF Proc!EndedLaunches
  <2> QED
    BY <2>1, <2>2 DEF Proc!Signalled, ProcessInv, Proc!TypeOK, Proc!Manifests
<1> HIDE DEF removed, exited, killed
<1>7. \A s \in Proc!IdleServers \cup overLimit \cup K : Proc!Alive(s) /\ s \in Servers
  BY <1>3, <1>4, <1>5
<1>8. LaunchersKnow'
  BY <1>1, <1>6, <1>7 DEF ProcessInv, LaunchersKnow, Proc!Alive
<1>9. LiveAreRecorded'
  BY <1>1, <1>6, <1>7 DEF ProcessInv, LiveAreRecorded, Proc!Alive
<1>10. IsTrue(snapshot)'
  <2>1. snapshot.launched \subseteq Servers /\ snapshot.ended \subseteq Servers
    BY DEF ProcessInv, Proc!TypeOK, Proc!Manifests
  <2> QED
    BY <1>1, <1>6, <2>1 DEF ProcessInv, IsTrue
<1>11. IsTrue(manifest)'
  <2>1. manifest.launched \subseteq Servers /\ manifest.ended \subseteq Servers
    BY DEF ProcessInv, Proc!TypeOK, Proc!Manifests
  <2>2. \A s \in manifest'.launched : proc'[s] # "none"
    BY <1>6, <2>1 DEF ProcessInv, IsTrue
  <2>3. \A s \in manifest.ended : proc'[s] \in {"stopping", "dead"}
    BY <1>6, <2>1 DEF ProcessInv, IsTrue
  <2>4. \A s \in Servers : proc[s] # "none" /\ ~Proc!Alive(s) => proc[s] = "dead"
    BY DEF Proc!Alive, ProcessInv, Proc!TypeOK
  <2>5. \A s \in Proc!DeadServers \cup X : proc[s] = "dead" /\ proc'[s] = "dead"
    BY <1>3, <1>4, <1>5, <1>6, <1>7, <2>4 DEF ProcessInv, IsTrue
  <2>6. \A s \in Proc!IdleServers \cup K : proc'[s] = "stopping"
    BY <1>5, <1>6
  <2> QED
    BY <1>6, <2>2, <2>3, <2>5, <2>6 DEF IsTrue
<1> QED
  BY <1>8, <1>9, <1>10, <1>11 DEF ProcessInv

-----------------------------------------------------------------------------
(* The theorems *)

\* It holds in the initial state.
LEMMA InitProcesses ==
  ASSUME Proc!ProcessAssumption
  PROVE  Proc!Init => ProcessInv
<1> SUFFICES ASSUME Proc!Init PROVE ProcessInv
  OBVIOUS
<1>1. Proc!TypeOK
  BY InitTypes
<1>2. /\ launcher = [s \in Servers |-> "none"] /\ proc = [s \in Servers |-> "none"]
      /\ manifest = Proc!NoRecords /\ snapshot = Proc!NoRecords
  BY DEF Proc!Init
<1>3. LaunchersKnow /\ LiveAreRecorded
  BY <1>2 DEF LaunchersKnow, LiveAreRecorded, Proc!Alive
<1>4. IsTrue(manifest) /\ IsTrue(snapshot)
  BY <1>2 DEF IsTrue, Proc!NoRecords
<1> QED
  BY <1>1, <1>3, <1>4 DEF ProcessInv

\* Every step keeps it.
LEMMA StepsKeepProcesses ==
  ASSUME Proc!ProcessAssumption
  PROVE  ProcessInv /\ [Proc!Next]_(Proc!vars) => ProcessInv'
<1> SUFFICES ASSUME ProcessInv, [Proc!Next]_(Proc!vars) PROVE ProcessInv'
  OBVIOUS
<1>1. Proc!TypeOK
  BY DEF ProcessInv
<1>2. ASSUME NEW s \in Servers,
             \/ \E r \in Rooms : Proc!LaunchForRoom(r, s)
             \/ Proc!KeepWarm(s) \/ Proc!LaunchProcess(s) \/ Proc!LaunchWarmProcess(s)
             \/ Proc!RecordRoomLaunch(s) \/ Proc!RecordWarmLaunch(s) \/ Proc!EndLauncher(s)
             \/ Proc!LaunchAnswered(s)
      PROVE  ProcessInv'
  <2>1. Proc!TypeOK'
    BY <1>1, <1>2, LaunchTypes
  <2>2. CASE (\E r \in Rooms : Proc!LaunchForRoom(r, s)) \/ Proc!KeepWarm(s)
    BY <2>1, <2>2, LaunchKeepsInv
  <2>3. CASE Proc!LaunchProcess(s) \/ Proc!LaunchWarmProcess(s)
    BY <2>1, <2>3, SpawnKeepsInv
  <2>4. CASE Proc!RecordRoomLaunch(s) \/ Proc!RecordWarmLaunch(s)
    BY <2>1, <2>4, RecordKeepsInv DEF Proc!RecordRoomLaunch, Proc!RecordWarmLaunch
  <2>5. CASE Proc!EndLauncher(s)
    BY <2>1, <2>5, EndLauncherKeepsInv
  <2>6. CASE Proc!LaunchAnswered(s)
    <3>1. UNCHANGED <<launcher, proc, manifest, lost, snapshot>>
      BY <2>6 DEF Proc!LaunchAnswered, Proc!launchVars, Proc!fileVars, Proc!cleanupVars
    <3> QED
      BY <2>1, <3>1, UntoldKeepsInv
  <2> QED
    BY <1>2, <2>2, <2>3, <2>4, <2>5, <2>6
<1>3. CASE \/ \E s \in Servers : \/ \E r \in Rooms : Proc!ChangeRoom(s, r)
                                 \/ Proc!Register(s) \/ Proc!ChangeUse(s) \/ Proc!ProcessExits(s)
                                 \/ Proc!Ages(s)
           \/ Proc!CoolsDown \/ Proc!WarmCoolsDown \/ Proc!RestartNode
  <2>1. Proc!TypeOK'
    BY <1>1, <1>3, ServerTypes
  <2>2. CASE \E s \in Servers : Proc!Register(s) \/ Proc!ProcessExits(s)
    BY <2>1, <2>2, ServerKeepsInv
  <2>3. CASE \/ \E s \in Servers : \/ \E r \in Rooms : Proc!ChangeRoom(s, r)
                                   \/ Proc!ChangeUse(s) \/ Proc!Ages(s)
             \/ Proc!CoolsDown \/ Proc!WarmCoolsDown \/ Proc!RestartNode
    <3>1. /\ UNCHANGED <<launcher, proc, manifest, lost>>
          /\ snapshot' \in {snapshot, Proc!NoRecords}
      BY <2>3 DEF Proc!ChangeRoom, Proc!ChangeUse, Proc!Ages, Proc!CoolsDown,
         Proc!WarmCoolsDown, Proc!RestartNode,
                  Proc!launchVars, Proc!fileVars, Proc!cleanupVars
    <3> QED
      BY <2>1, <3>1, UntoldKeepsInv
  <2> QED
    BY <1>3, <2>2, <2>3
<1>4. CASE \/ Proc!ReadManifest \/ Proc!EndCleanup
           \/ \E overLimit \in SUBSET Servers : Proc!Scan(overLimit)
  <2>1. Proc!TypeOK'
    BY <1>1, <1>4, CleanupTypes
  <2>2. CASE Proc!ReadManifest \/ Proc!EndCleanup
    <3>1. /\ UNCHANGED <<launcher, proc, manifest, lost>>
          /\ snapshot' \in {snapshot, manifest, Proc!NoRecords}
      BY <2>2 DEF Proc!ReadManifest, Proc!EndCleanup, Proc!launchVars, Proc!fileVars,
         Proc!cleanupVars
    <3> QED
      BY <2>1, <3>1, UntoldKeepsInv
  <2>3. CASE \E overLimit \in SUBSET Servers : Proc!Scan(overLimit)
    BY <2>1, <2>3, ScanKeepsInv
  <2> QED
    BY <1>4, <2>2, <2>3
<1>5. CASE UNCHANGED Proc!vars
  <2>1. UNCHANGED <<launcher, launchRoom, proc, manifest, lost, registered, room, used,
                    awaited, pending, cooling, hits, warmCooling, phase, snapshot, emptySeen,
                    orphanSeen, restarts>>
    BY <1>5 DEF Proc!vars, Proc!launchVars, Proc!fileVars, Proc!registryVars,
       Proc!requestVars, Proc!cleanupVars
  <2>2. Proc!TypeOK'
    BY <1>1, <2>1 DEF Proc!TypeOK
  <2> QED
    BY <2>1, <2>2, UntoldKeepsInv
<1> QED
  BY <1>2, <1>3, <1>4, <1>5 DEF Proc!Next

\* The inductive invariant holds in every reachable state.
LEMMA ProcessesInOrder ==
  ASSUME Proc!ProcessAssumption
  PROVE  Proc!Spec => []ProcessInv
<1> QED
  BY InitProcesses, StepsKeepProcesses, PTL DEF Proc!Spec

\* Every variable keeps its type: launches, processes and the bounds of ticket requests
\* (clientGameServerHandler.js, gameServerControl/index.js).
THEOREM ProcessTypes ==
  ASSUME Proc!ProcessAssumption
  PROVE  Proc!Spec => []Proc!TypeOK
<1>1. ProcessInv => Proc!TypeOK
  BY DEF ProcessInv
<1> QED
  BY <1>1, ProcessesInOrder, PTL

\* The manifest can be relied on after a crash of Node: a live process is on record,
\* unless its launcher failed before it wrote the record, and what is on record as ended
\* was told to stop or is dead (gameServerControl/index.js,
\* cleanupDedicatedServerProcesses and appendProcessLifecycleRecord).
THEOREM ManifestCorrect ==
  ASSUME Proc!ProcessAssumption
  PROVE  Proc!Spec => []Proc!ManifestIsTrue
<1>1. ProcessInv => Proc!ManifestIsTrue
  BY DEF ProcessInv, LiveAreRecorded, IsTrue, Proc!ManifestIsTrue
<1> QED
  BY <1>1, ProcessesInOrder, PTL
=============================================================================
