-------------------------- MODULE ServerProcesses --------------------------
(***************************************************************************)
(* The processes of dedicated servers, from launch to exit: the auto       *)
(* launches of ticket requests (clientGameServerHandler.js), the launchers *)
(* they and the keep-alive tool of the warm pool run (tools/), the         *)
(* manifest file that launchers and Node append to, and the periodic       *)
(* cleanup that ends idle, over-limit and orphan processes and tries to    *)
(* compact the manifest (gameServerControl/index.js).                      *)
(*                                                                         *)
(* Node runs the cleanup without a pause, and no handler of its own runs   *)
(* meanwhile; but launchers and servers are other processes, and they go   *)
(* on between its read of the manifest, its scan and its compaction.  The  *)
(* compaction changes nothing: the function that would replace the file    *)
(* uses `path`, which its module does not import, and the error is caught. *)
(*                                                                         *)
(* Abstracted: a launch has a server id and a process id of its own, so    *)
(* one name stands for both (a process id that the system uses again is    *)
(* left out); ports, tokens and arguments; sessions and capacity (modules  *)
(* GameSessions and ServerAllocation), to whether a server is in use; the  *)
(* number and order of records; the copy that a compaction makes of the    *)
(* file before it fails, which nothing reads.  The server program is not   *)
(* in this repository: it registers, may register again while it has not   *)
(* been told to stop, with the room it was launched for, and may exit at   *)
(* any time.                                                               *)
(***************************************************************************)
EXTENDS Naturals, FiniteSets

CONSTANTS
  Servers,      \* the launches of a behaviour
  Rooms, NoRoom,
  MaxActive,    \* autoLaunchMaxActiveServers
  MaxPending,   \* autoLaunchMaxPendingLaunches
  MaxHits,      \* autoLaunchRateLimitMax
  MinReady,     \* minReady of the keep-alive tool
  IdleShutdownEnabled, RestartOrphanCleanupEnabled,
                \* settings of that name; FALSE and TRUE as shipped
  MaxRestarts   \* bound: restarts of Node

ASSUME ProcessAssumption ==
  /\ IsFiniteSet(Servers) /\ IsFiniteSet(Rooms)
  /\ NoRoom \notin Rooms
  /\ {MaxActive, MaxPending, MaxHits, MinReady, MaxRestarts} \subseteq Nat
  /\ {IdleShutdownEnabled, RestartOrphanCleanupEnabled} \subseteq BOOLEAN

VARIABLES
  launcher,    \* the launcher process of each launch
  launchRoom,  \* the room it launches for, none for a warm server
  proc,        \* the server process
  manifest,    \* the manifest file: launches recorded, and those recorded as ended
  lost,        \* history: launches whose record was not written
  registered,  \* serversById of the registry
  room,        \* roomId of a registered server
  used,        \* does it have players, or a permanent session?
  awaited,     \* the launchers that a ticket request awaits
  pending,     \* pendingAutoLaunchesByRoomId
  cooling,     \* rooms whose last auto launch is recent
  hits,        \* auto launches of the current rate window
  warmCooling, \* is the last launch of the keep-alive tool recent?
  phase,       \* of the cleanup
  snapshot,    \* the manifest as the cleanup read it
  emptySeen,   \* emptyServerSeenAtByServerId
  orphanSeen,  \* orphanProcessSeenAtByProcessKey
  restarts

launchVars == <<launcher, launchRoom, proc>>
fileVars == <<manifest, lost>>
registryVars == <<registered, room, used>>
requestVars == <<awaited, pending, cooling, hits>>
cleanupVars == <<phase, snapshot, emptySeen, orphanSeen>>
vars == <<launchVars, fileVars, registryVars, requestVars, warmCooling, cleanupVars, restarts>>

Seen == {"no", "seen", "overdue"}
Manifests == [launched : SUBSET Servers, ended : SUBSET Servers]
NoRecords == [launched |-> {}, ended |-> {}]

TypeOK ==
  /\ launcher \in [Servers -> {"none", "checking", "spawning", "spawned", "waiting", "ended"}]
  /\ launchRoom \in [Servers -> Rooms \cup {NoRoom}]
  /\ proc \in [Servers -> {"none", "starting", "up", "stopping", "dead"}]
  /\ manifest \in Manifests /\ lost \subseteq Servers
  /\ registered \subseteq Servers
  /\ room \in [Servers -> Rooms \cup {NoRoom}] /\ used \in [Servers -> BOOLEAN]
  /\ awaited \subseteq Servers /\ pending \subseteq Rooms /\ cooling \subseteq Rooms
  /\ hits \in 0 .. MaxHits /\ warmCooling \in BOOLEAN
  /\ phase \in {"none", "read", "scanned"} /\ snapshot \in Manifests
  /\ emptySeen \in [Servers -> Seen] /\ orphanSeen \in [Servers -> Seen]
  /\ restarts \in 0 .. MaxRestarts

Init ==
  /\ launcher = [s \in Servers |-> "none"] /\ launchRoom = [s \in Servers |-> NoRoom]
  /\ proc = [s \in Servers |-> "none"]
  /\ manifest = NoRecords /\ lost = {}
  /\ registered = {}
  /\ room = [s \in Servers |-> NoRoom] /\ used = [s \in Servers |-> FALSE]
  /\ awaited = {} /\ pending = {} /\ cooling = {} /\ hits = 0 /\ warmCooling = FALSE
  /\ phase = "none" /\ snapshot = NoRecords
  /\ emptySeen = [s \in Servers |-> "no"] /\ orphanSeen = [s \in Servers |-> "no"]
  /\ restarts = 0

Alive(s) == proc[s] \in {"starting", "up", "stopping"}

\* Node is between two handlers.
Idle == phase = "none"

-----------------------------------------------------------------------------
(* Auto launches of ticket requests *)

\* checkAutoLaunchRateLimit, whose window counts every launch that it lets pass
WithinRate == hits < MaxHits

\* checkAutoLaunchSafetyBeforeLaunch
MayLaunch(r) ==
  /\ \A s \in registered : room[s] # r
  /\ Cardinality(registered) + Cardinality(pending) < MaxActive
  /\ Cardinality(pending) < MaxPending
  /\ r \notin cooling
  /\ WithinRate

\* ensureDedicatedServerForRoom of the first request: a request for a room with
\* a pending launch awaits that one.
LaunchForRoom(r, s) ==
  /\ Idle
  /\ r \notin pending
  /\ MayLaunch(r)
  /\ launcher[s] = "none"
  /\ launcher' = [launcher EXCEPT ![s] = "checking"]
  /\ launchRoom' = [launchRoom EXCEPT ![s] = r]
  /\ awaited' = awaited \cup {s}
  /\ pending' = pending \cup {r}
  /\ cooling' = cooling \cup {r}
  /\ hits' = hits + 1
  /\ UNCHANGED <<proc, fileVars, registryVars, warmCooling, cleanupVars, restarts>>

\* The request resumes: its `finally` ends the pending launch.
LaunchAnswered(s) ==
  /\ Idle
  /\ s \in awaited
  /\ launcher[s] = "ended"
  /\ awaited' = awaited \ {s}
  /\ pending' = pending \ {launchRoom[s]}
  /\ UNCHANGED <<launchVars, fileVars, registryVars, cooling, hits, warmCooling, cleanupVars,
                 restarts>>

\* Time passes: a room's cooldown ends, or the rate window.
CoolsDown ==
  /\ \/ \E r \in cooling : cooling' = cooling \ {r} /\ UNCHANGED hits
     \/ hits > 0 /\ hits' = 0 /\ UNCHANGED cooling
  /\ UNCHANGED <<launchVars, fileVars, registryVars, awaited, pending, warmCooling,
                 cleanupVars, restarts>>

-----------------------------------------------------------------------------
(* The keep-alive tool of the warm pool *)

WarmServers == {s \in registered : room[s] = NoRoom /\ ~used[s]}

\* tick, with the status that Node answers.
KeepWarm(s) ==
  /\ Idle
  /\ Cardinality(WarmServers) < MinReady
  /\ ~warmCooling
  /\ launcher[s] = "none"
  /\ launcher' = [launcher EXCEPT ![s] = "spawning"]
  /\ warmCooling' = TRUE
  /\ UNCHANGED <<launchRoom, proc, fileVars, registryVars, requestVars, cleanupVars, restarts>>

WarmCoolsDown ==
  /\ warmCooling
  /\ warmCooling' = FALSE
  /\ UNCHANGED <<launchVars, fileVars, registryVars, requestVars, cleanupVars, restarts>>

-----------------------------------------------------------------------------
(* The launchers *)

Spawned(s) ==
  /\ launcher' = [launcher EXCEPT ![s] = "spawned"]
  /\ proc' = [proc EXCEPT ![s] = "starting"]
  /\ UNCHANGED <<launchRoom, fileVars, registryVars, requestVars, warmCooling, cleanupVars,
                 restarts>>

\* launchProcess, when findAvailableServer found no server of the room.
LaunchProcess(s) == launcher[s] = "checking" /\ Spawned(s)

\* launchWarmProcess: a warm launcher looks for no other server first.
LaunchWarmProcess(s) == launcher[s] = "spawning" /\ Spawned(s)

\* What main of either launcher does when the process file has been written: it
\* appends the launch record and waits for the registration.
RecordLaunch(s) ==
  /\ launcher[s] = "spawned"
  /\ launcher' = [launcher EXCEPT ![s] = "waiting"]
  /\ manifest' = [manifest EXCEPT !.launched = @ \cup {s}]
  /\ UNCHANGED <<launchRoom, proc, lost, registryVars, requestVars, warmCooling,
                 cleanupVars, restarts>>

RecordRoomLaunch(s) == launchRoom[s] # NoRoom /\ RecordLaunch(s)
RecordWarmLaunch(s) == launchRoom[s] = NoRoom /\ RecordLaunch(s)

\* The launcher ends: findAvailableServer finds a server before it launches one,
\* its wait is over, or it fails where it is.
EndLauncher(s) ==
  /\ launcher[s] \notin {"none", "ended"}
  /\ launcher' = [launcher EXCEPT ![s] = "ended"]
  /\ lost' = IF launcher[s] = "spawned" THEN lost \cup {s} ELSE lost
  /\ UNCHANGED <<launchRoom, proc, manifest, registryVars, requestVars, warmCooling,
                 cleanupVars, restarts>>

-----------------------------------------------------------------------------
(* The server processes and the registry *)

\* registerServer
Register(s) ==
  /\ Idle
  /\ proc[s] \in {"starting", "up"}
  /\ s \notin registered
  /\ proc' = [proc EXCEPT ![s] = "up"]
  /\ registered' = registered \cup {s}
  /\ room' = [room EXCEPT ![s] = launchRoom[s]]
  /\ \E u \in BOOLEAN : used' = [used EXCEPT ![s] = u]
  /\ UNCHANGED <<launcher, launchRoom, fileVars, requestVars, warmCooling, cleanupVars, restarts>>

\* claimWarmServerForRoom, or a heartbeat that lists rooms and not the current one.
ChangeRoom(s, r) ==
  /\ Idle
  /\ s \in registered
  /\ r # room[s]
  /\ IF room[s] = NoRoom THEN ~used[s] ELSE proc[s] \in {"up", "stopping"}
  /\ room' = [room EXCEPT ![s] = r]
  /\ UNCHANGED <<launchVars, fileVars, registered, used, requestVars, warmCooling,
                 cleanupVars, restarts>>

\* Players or a permanent session come to a registered server, or the last ones go.
ChangeUse(s) ==
  /\ Idle
  /\ s \in registered
  /\ used' = [used EXCEPT ![s] = ~@]
  /\ UNCHANGED <<launchVars, fileVars, registered, room, requestVars, warmCooling,
                 cleanupVars, restarts>>

ProcessExits(s) ==
  /\ Alive(s)
  /\ proc' = [proc EXCEPT ![s] = "dead"]
  /\ UNCHANGED <<launcher, launchRoom, fileVars, registryVars, requestVars, warmCooling,
                 cleanupVars, restarts>>

\* Node restarts: launchers and server processes go on.
RestartNode ==
  /\ restarts < MaxRestarts
  /\ restarts' = restarts + 1
  /\ registered' = {}
  /\ room' = [s \in Servers |-> NoRoom] /\ used' = [s \in Servers |-> FALSE]
  /\ awaited' = {} /\ pending' = {} /\ cooling' = {} /\ hits' = 0
  /\ phase' = "none" /\ snapshot' = NoRecords
  /\ emptySeen' = [s \in Servers |-> "no"] /\ orphanSeen' = [s \in Servers |-> "no"]
  /\ UNCHANGED <<launchVars, fileVars, warmCooling>>

-----------------------------------------------------------------------------
(* The cleanup: cleanupDedicatedServerProcesses *)

\* readProcessManifestRecords
ReadManifest ==
  /\ Idle
  /\ phase' = "read"
  /\ snapshot' = manifest
  /\ UNCHANGED <<launchVars, fileVars, registryVars, requestVars, warmCooling, emptySeen,
                 orphanSeen, restarts>>

\* findLatestLaunchRecord
HasRecord(s) == s \in snapshot.launched /\ room[s] \in {NoRoom, launchRoom[s]}

\* `seenAt.get(key) ?? now`
SeenAgain(seen) == IF seen = "no" THEN "seen" ELSE seen

\* A mutant: a server with players is taken to be alive.
DeadServers_Unused == {s \in registered : HasRecord(s) /\ ~Alive(s) /\ ~used[s]}

DeadServers == {s \in registered : HasRecord(s) /\ ~Alive(s)}

LiveServers == {s \in registered : HasRecord(s) /\ Alive(s)}
EmptyServers == {s \in LiveServers : IdleShutdownEnabled /\ ~used[s]}
IdleServers == {s \in EmptyServers : emptySeen[s] = "overdue"}

\* buildTerminalManifestProcessKeys: the launches that the snapshot knows to be ended.
Terminal == snapshot.ended

\* A mutant: a process that has not registered yet is left alone.
OrphanRecords_Started(removed) ==
  {s \in snapshot.launched \ (Terminal \cup (registered \ removed)) : proc[s] # "starting"}

\* The launches that cleanupOrphanProcessesFromManifest looks at: those that are
\* not terminal, of servers that are not registered (any more).
OrphanRecords(removed) == snapshot.launched \ (Terminal \cup (registered \ removed))

\* The orphans that are alive, if it is to end them.
LiveOrphans(removed) ==
  {s \in OrphanRecords(removed) : RestartOrphanCleanupEnabled /\ Alive(s)}

\* shutdownOrphanServerProcess: the orphans whose grace is over.
KilledOrphans(removed) == {s \in LiveOrphans(removed) : orphanSeen[s] = "overdue"}

\* cleanupResourceLimitViolations looks at every server with a live process, also
\* at one that was just told to stop; readLinuxProcessResourceUsage decides.
MayExceedLimits(S) == S \subseteq LiveServers

\* SIGTERM, from shutdownIdleServerProcess, shutdownResourceLimitedServerProcess and
\* shutdownOrphanServerProcess.
Signalled(S) == [s \in Servers |-> IF s \in S THEN "stopping" ELSE proc[s]]

\* A mutant: every orphan is recorded as ended, also in its grace.
EndedLaunches_InGrace(orphans) ==
  [manifest EXCEPT !.ended = @ \cup DeadServers \cup IdleServers \cup OrphanRecords({})]

\* appendProcessLifecycleRecord, with the events that end a launch: those of dead, idle
\* and orphan processes.  shutdownResourceLimitedServerProcess writes none of them.
EndedLaunches(orphans) ==
  [manifest EXCEPT !.ended = @ \cup DeadServers \cup IdleServers \cup orphans]

\* The loop over the servers, cleanupResourceLimitViolations, of those whose
\* process is over a limit, and cleanupOrphanProcessesFromManifest.
Scan(overLimit) ==
  LET removed == DeadServers \cup IdleServers \cup overLimit
      orphans == OrphanRecords(removed)
      exited == {s \in orphans : ~Alive(s)}
      killed == KilledOrphans(removed)
  IN  /\ phase = "read"
      /\ MayExceedLimits(overLimit)
      /\ proc' = Signalled(IdleServers \cup overLimit \cup killed)
      /\ registered' = registered \ removed
      /\ room' = [s \in Servers |-> IF s \in removed THEN NoRoom ELSE room[s]]
      /\ used' = [s \in Servers |-> used[s] /\ s \notin removed]
      /\ manifest' = EndedLaunches(exited \cup killed)
      /\ emptySeen' = [s \in Servers |->
           IF s \in EmptyServers \ IdleServers THEN SeenAgain(emptySeen[s])
           ELSE IF s \in DeadServers \cup LiveServers THEN "no" ELSE emptySeen[s]]
      /\ orphanSeen' = [s \in Servers |->
           IF s \in LiveOrphans(removed) \ killed THEN SeenAgain(orphanSeen[s])
           ELSE IF s \in snapshot.launched \ Terminal THEN "no" ELSE orphanSeen[s]]
      /\ phase' = "scanned"
      /\ UNCHANGED <<launcher, launchRoom, lost, requestVars, warmCooling, snapshot, restarts>>

\* The cleanup ends with compactProcessManifestIfNeeded, which changes nothing: a
\* compaction that is due fails in writeProcessManifestRecordsAtomic before it replaces
\* the file, and the error is caught.
EndCleanup ==
  /\ phase = "scanned"
  /\ phase' = "none" /\ snapshot' = NoRecords
  /\ UNCHANGED <<launchVars, fileVars, registryVars, requestVars, warmCooling, emptySeen,
                 orphanSeen, restarts>>

\* The idle time of an empty server, or the grace of an orphan, is over.
Ages(s) ==
  /\ \/ emptySeen[s] = "seen" /\ emptySeen' = [emptySeen EXCEPT ![s] = "overdue"]
        /\ UNCHANGED orphanSeen
     \/ orphanSeen[s] = "seen" /\ orphanSeen' = [orphanSeen EXCEPT ![s] = "overdue"]
        /\ UNCHANGED emptySeen
  /\ UNCHANGED <<launchVars, fileVars, registryVars, requestVars, warmCooling, phase, snapshot,
                 restarts>>

-----------------------------------------------------------------------------
Next ==
  \/ \E s \in Servers :
       \/ \E r \in Rooms : LaunchForRoom(r, s) \/ ChangeRoom(s, r)
       \/ KeepWarm(s)
       \/ LaunchProcess(s) \/ LaunchWarmProcess(s)
       \/ RecordRoomLaunch(s) \/ RecordWarmLaunch(s)
       \/ EndLauncher(s)
       \/ LaunchAnswered(s)
       \/ Register(s)
       \/ ChangeUse(s)
       \/ ProcessExits(s)
       \/ Ages(s)
  \/ CoolsDown
  \/ WarmCoolsDown
  \/ RestartNode
  \/ ReadManifest
  \/ \E overLimit \in SUBSET Servers : Scan(overLimit)
  \/ EndCleanup

\* Node's cleanup timer runs on, and time passes.
Fairness ==
  /\ WF_vars(ReadManifest)
  /\ WF_vars(\E overLimit \in SUBSET Servers : Scan(overLimit))
  /\ WF_vars(EndCleanup)
  /\ \A s \in Servers : WF_vars(Ages(s))

Spec == Init /\ [][Next]_vars /\ Fairness

-----------------------------------------------------------------------------
(* Properties *)

\* The manifest can be relied on after a crash: a live process is on record,
\* unless the launcher failed before it wrote the record; and only a process that
\* was told to stop, or is dead, is on record as ended, however the scans, the
\* launchers and restarts interleave.
ManifestIsTrue ==
  \A s \in Servers :
    /\ Alive(s) /\ launcher[s] # "spawned" /\ s \notin lost => s \in manifest.launched
    /\ s \in manifest.ended => proc[s] \in {"stopping", "dead"}

\* Where restartOrphanCleanupEnabled is set, as shipped: a recorded process that Node
\* does not know, because Node restarted or because the process never registered,
\* registers in time or is told to stop.
OrphansEnd ==
  \A s \in Servers :
    RestartOrphanCleanupEnabled /\ proc[s] \in {"starting", "up"} /\ s \in manifest.launched
      ~> s \in registered \/ proc[s] \in {"stopping", "dead"}

\* A registered server whose launch record is found leaves the registry when its
\* process is dead, whoever is said to play there, and, only where
\* idleShutdownEnabled is set, which it is not as shipped, when it stays empty.
UnusedServersGo ==
  \A s \in Servers :
    LET recorded == s \in registered /\ s \in manifest.launched
                    /\ room[s] \in {NoRoom, launchRoom[s]}
    IN  /\ recorded /\ proc[s] = "dead" ~> ~recorded
        /\ IdleShutdownEnabled /\ recorded /\ ~used[s] ~> ~recorded \/ used[s]
=============================================================================
