----------------------------- MODULE WorkerPool -----------------------------
(***************************************************************************)
(* One WorkerThread and the mediasoup worker processes it owns: the epoll  *)
(* loop that watches their pipes, the tasks that send them requests, the   *)
(* detection of a death, the rate-limited respawn, and the health check    *)
(* that tears down the rooms a death leaves behind.                        *)
(*                                                                         *)
(* The loop is one thread: a task, a timer handler and the handling of one *)
(* readable descriptor are atomic.  Worker processes die, and other        *)
(* threads post tasks, at any point between them - in particular between   *)
(* epoll_wait and the handling of the events it returned.  A process is    *)
(* named by the order of its spawn.  Times are ages: the age of an entry   *)
(* of respawnTimes_ is now - entry, and grows with Tick.                   *)
(***************************************************************************)
EXTENDS Integers, Sequences, FiniteSets

CONSTANTS
    MaxProcs,       \* bound: processes spawned in a behaviour
    NumWorkers,     \* numWorkersTarget_
    Rooms,
    Fds,            \* descriptor numbers the kernel hands to consumer pipes
    MaxRouters,     \* maxRoutersPerWorker_, 0 for unlimited
    RespawnLimit,   \* deaths within the window that are still answered (3)
    RespawnWindow,  \* length of the window (10 s)
    MaxQueue,       \* bound: tasks waiting in taskQueue_
    EventFd,        \* eventFd_: tasks are waiting
    HealthTimerFd,  \* healthTimerFd_
    NoProc, NoFd

Procs == 1 .. MaxProcs

ASSUME SizesAssumption ==
    /\ MaxProcs \in Nat /\ NumWorkers \in Nat \ {0} /\ NumWorkers <= MaxProcs
    /\ MaxRouters \in Nat /\ RespawnLimit \in Nat /\ RespawnWindow \in Nat
    /\ MaxQueue \in Nat
ASSUME FdsAssumption ==
    /\ Fds \subseteq Nat /\ IsFiniteSet(Fds) /\ 1 .. NumWorkers \subseteq Fds
ASSUME PoolNullsAssumption == 
    /\ NoProc \notin Procs /\ NoFd \notin Fds
    /\ {EventFd, HealthTimerFd} \cap (Fds \cup {NoFd}) = {}
    /\ EventFd # HealthTimerFd

VARIABLES
    proc,          \* the operating system's view of each process
    garbled,       \* processes whose pipe holds bytes that are no valid frame
    workerClosed,  \* Worker::closed_
    channelClosed, \* Channel::closed_
    fdOf,          \* Channel::consumerFd_, NoFd once closed
    epoll,         \* consumer descriptors registered with epollFd_
    fdToWorker,    \* fdToWorker_
    workers,       \* workers_, and the equal list of the WorkerManager: kept in
                   \* the order of spawning, so a set of processes says it all
    routers,       \* Worker::routers_, a router named by its room
    hostOf,        \* the worker of each room's Router, NoProc if no such room
    deadRooms,     \* rooms whose Router is closed
    respawnTimes,  \* respawnTimes_, as ages, oldest first
    taskQueue,     \* taskQueue_
    current,       \* the tasks processTaskQueue swapped out and still runs
    batch,         \* events of the last epoll_wait not handled yet
    healthDue,     \* healthTimerFd_ has expired
    stopping,      \* stopping_
    stopped,       \* stop() and the destructors have run
    respawned      \* history: ages of the respawns of the last window

osVars == <<proc, garbled>>
channelVars == <<channelClosed, fdOf, epoll>>
poolVars == <<workerClosed, fdToWorker, workers, respawnTimes, respawned>>
roomVars == <<routers, hostOf, deadRooms>>
loopVars == <<taskQueue, current, batch, healthDue, stopping, stopped>>
vars == <<osVars, channelVars, poolVars, roomVars, loopVars>>

-----------------------------------------------------------------------------
Ages == 0 .. (RespawnWindow + 1)
Tasks == [kind : {"join", "request", "leave"}, room : Rooms]

TypeOK ==
    /\ proc \in [Procs -> {"unborn", "running", "dead"}]
    /\ garbled \in SUBSET Procs
    /\ workerClosed \in SUBSET Procs /\ channelClosed \in SUBSET Procs
    /\ fdOf \in [Procs -> Fds \cup {NoFd}]
    /\ epoll \in SUBSET Fds
    /\ fdToWorker \in [Fds -> Procs \cup {NoProc}]
    /\ workers \in SUBSET Procs
    /\ routers \in [Procs -> SUBSET Rooms]
    /\ hostOf \in [Rooms -> Procs \cup {NoProc}]
    /\ deadRooms \in SUBSET Rooms
    /\ respawnTimes \in Seq(Ages) /\ respawned \in Seq(Ages)
    /\ taskQueue \in Seq(Tasks) /\ current \in Seq(Tasks)
    /\ batch \in SUBSET (Fds \cup {EventFd, HealthTimerFd})
    /\ healthDue \in BOOLEAN /\ stopping \in BOOLEAN /\ stopped \in BOOLEAN

(* createWorkers: the server only listens when the pool came up, and the   *)
(* first processes get descriptors of their own.                           *)
Init ==
    /\ proc = [i \in Procs |-> IF i <= NumWorkers THEN "running" ELSE "unborn"]
    /\ garbled = {} /\ workerClosed = {} /\ channelClosed = {}
    /\ fdOf = [i \in Procs |-> IF i <= NumWorkers THEN i ELSE NoFd]
    /\ epoll = 1 .. NumWorkers
    /\ fdToWorker = [f \in Fds |-> IF f \in 1 .. NumWorkers THEN f ELSE NoProc]
    /\ workers = 1 .. NumWorkers
    /\ routers = [i \in Procs |-> {}]
    /\ hostOf = [r \in Rooms |-> NoProc] /\ deadRooms = {}
    /\ respawnTimes = <<>> /\ respawned = <<>>
    /\ taskQueue = <<>> /\ current = <<>> /\ batch = {}
    /\ healthDue = FALSE /\ stopping = FALSE /\ stopped = FALSE

-----------------------------------------------------------------------------
(* The environment: processes and the clock *)

(* A worker process exits or is killed: the kernel closes its pipe ends.   *)
Die(i) ==
    /\ proc[i] = "running"
    /\ proc' = [proc EXCEPT ![i] = "dead"]
    /\ UNCHANGED <<garbled, channelVars, poolVars, roomVars, loopVars>>

(* A worker process writes bytes that processAvailableData rejects.        *)
Garble(i) ==
    /\ proc[i] = "running" /\ i \notin garbled /\ i \notin channelClosed
    /\ garbled' = garbled \cup {i}
    /\ UNCHANGED <<proc, channelVars, poolVars, roomVars, loopVars>>

Older(ages) ==
    [k \in 1 .. Len(ages) |->
        IF ages[k] > RespawnWindow THEN ages[k] ELSE ages[k] + 1]

(* The entries that lie outside the window are popped; the oldest come     *)
(* first.                                                                  *)
Expired(ages) == {k \in 1 .. Len(ages) : ages[k] > RespawnWindow}
InWindow(ages) == SubSeq(ages, Cardinality(Expired(ages)) + 1, Len(ages))

Tick ==
    /\ \E k \in 1 .. Len(respawnTimes) : respawnTimes[k] <= RespawnWindow
    /\ respawnTimes' = Older(respawnTimes)
    /\ respawned' = InWindow(Older(respawned))
    /\ UNCHANGED <<osVars, channelVars, workerClosed, fdToWorker, workers,
                   roomVars, loopVars>>

(* WorkerThread::post from another thread.                                 *)
Post(t) ==
    /\ Len(taskQueue) < MaxQueue /\ ~stopped
    /\ taskQueue' = Append(taskQueue, t)
    /\ UNCHANGED <<osVars, channelVars, poolVars, roomVars, current, batch,
                   healthDue, stopping, stopped>>

HealthTimer ==
    /\ ~healthDue /\ ~stopped
    /\ healthDue' = TRUE
    /\ UNCHANGED <<osVars, channelVars, poolVars, roomVars, taskQueue, current,
                   batch, stopping, stopped>>

-----------------------------------------------------------------------------
(* Channel *)

(* Channel::close closes the consumer descriptor, and with that the kernel *)
(* drops it from the epoll set.                                            *)
CloseChannels(C) ==
    /\ channelClosed' = channelClosed \cup C
    /\ fdOf' = [i \in Procs |-> IF i \in C THEN NoFd ELSE fdOf[i]]
    /\ epoll' = epoll \ {fdOf[i] : i \in C}

(* requestBuildWait to worker i.  A closed channel throws; a write to a    *)
(* dead process fails with EPIPE (SIGPIPE is ignored) and closes the       *)
(* channel, as do a failed dup of the descriptor and an invalid frame read *)
(* while waiting (possibly behind the response); otherwise the worker      *)
(* accepts, refuses or lets the request time out.                          *)
ChannelRequest(i, ok) ==
    \/ /\ i \in channelClosed /\ ~ok
       /\ UNCHANGED channelVars
    \/ /\ i \notin channelClosed
       /\ ok => proc[i] = "running" /\ i \in garbled
       /\ CloseChannels({i})
    \/ /\ i \notin channelClosed /\ proc[i] = "running" /\ i \notin garbled
       /\ UNCHANGED channelVars

-----------------------------------------------------------------------------
(* Tasks *)

(* The open workers that may take one more router.                         *)
Candidates == {i \in workers :
                  /\ i \notin workerClosed
                  /\ MaxRouters > 0 => Cardinality(routers[i]) < MaxRouters}

(* Variant: the first open worker, whatever its load.                      *)
FirstOpenWorker(i) ==
    /\ i \in workers \ workerClosed
    /\ \A m \in workers \ workerClosed : m >= i

(* WorkerManager::getLeastLoadedWorker: the first least loaded one.        *)
LeastLoaded(i) ==
    /\ i \in Candidates
    /\ \A m \in Candidates :
          \/ Cardinality(routers[m]) > Cardinality(routers[i])
          \/ Cardinality(routers[m]) = Cardinality(routers[i]) /\ m >= i

RoomExists(r) == hostOf[r] # NoProc
RoomCount == Cardinality({r \in Rooms : RoomExists(r)})

(* RoomService::join refuses a new room when the node is at capacity.      *)
AtCapacity ==
    /\ MaxRouters > 0
    /\ RoomCount >=
          MaxRouters * Cardinality({i \in workers : i \notin workerClosed})

NextTask == /\ current # <<>>
            /\ current' = Tail(current)
            /\ UNCHANGED <<osVars, poolVars, taskQueue, batch, healthDue,
                           stopping, stopped>>

(* A join that needs no router: the room exists, or there is no capacity,  *)
(* or no worker is left to take it.                                        *)
RunJoinNoRouter ==
    /\ NextTask
    /\ Head(current).kind = "join"
    /\ \/ RoomExists(Head(current).room)
       \/ AtCapacity
       \/ Candidates = {}
    /\ UNCHANGED <<channelVars, roomVars>>

(* RoomManager::createRoom on the least loaded worker.                     *)
RunJoinNewRoom ==
    /\ NextTask
    /\ Head(current).kind = "join"
    /\ ~RoomExists(Head(current).room) /\ ~AtCapacity
    /\ \E i \in workers, ok \in BOOLEAN :
        /\ LeastLoaded(i)
        /\ ChannelRequest(i, ok)
        /\ IF ok
           THEN /\ routers' = [routers EXCEPT ![i] = @ \cup {Head(current).room}]
                /\ hostOf' = [hostOf EXCEPT ![Head(current).room] = i]
           ELSE UNCHANGED <<routers, hostOf>>
    /\ UNCHANGED deadRooms

(* Any request that reaches the room's Router or its transports.  A closed *)
(* Router throws before it uses the channel.                               *)
RunRequest ==
    /\ NextTask
    /\ Head(current).kind = "request"
    /\ IF RoomExists(Head(current).room) /\ Head(current).room \notin deadRooms
       THEN \E ok \in BOOLEAN : ChannelRequest(hostOf[Head(current).room], ok)
       ELSE UNCHANGED channelVars
    /\ UNCHANGED roomVars

(* The last peer leaves: removeRoom closes the Router, whose @close event  *)
(* takes it out of Worker::routers_ whatever the worker answered.          *)
RunLeave ==
    /\ NextTask
    /\ Head(current).kind = "leave"
    /\ LET r == Head(current).room IN
        /\ hostOf' = [hostOf EXCEPT ![r] = NoProc]
        /\ deadRooms' = deadRooms \ {r}
        /\ IF RoomExists(r) /\ r \notin deadRooms
           THEN /\ \E ok \in BOOLEAN : ChannelRequest(hostOf[r], ok)
                /\ routers' = [routers EXCEPT ![hostOf[r]] = @ \ {r}]
           ELSE UNCHANGED <<channelVars, routers>>

RunTask == RunJoinNoRouter \/ RunJoinNewRoom \/ RunRequest \/ RunLeave

-----------------------------------------------------------------------------
(* The event loop *)

(* Variant: epoll reports data but not a hang-up.                          *)
ReadableDataOnly(f) == \E i \in garbled : fdOf[i] = f
Readable(f) ==
    \E i \in Procs : fdOf[i] = f /\ (proc[i] = "dead" \/ i \in garbled)

Ready == (IF taskQueue # <<>> THEN {EventFd} ELSE {})
         \cup (IF healthDue THEN {HealthTimerFd} ELSE {})
         \cup {f \in epoll : Readable(f)}

Idle == batch = {} /\ current = <<>> /\ ~stopped

EpollWait ==
    /\ Idle /\ ~stopping
    /\ Ready # {}
    /\ batch' = Ready
    /\ UNCHANGED <<osVars, channelVars, poolVars, roomVars, taskQueue, current,
                   healthDue, stopping, stopped>>

(* eventFd_: processTaskQueue swaps the queue out and runs what it held.   *)
TakeTasks ==
    /\ EventFd \in batch /\ current = <<>>
    /\ batch' = batch \ {EventFd}
    /\ current' = taskQueue /\ taskQueue' = <<>>
    /\ UNCHANGED <<osVars, channelVars, poolVars, roomVars, healthDue, stopping,
                   stopped>>

(* Variant: the check notifies but does not destroy the room.              *)
HealthCheckNotifyOnly ==
    /\ HealthTimerFd \in batch /\ current = <<>>
    /\ batch' = batch \ {HealthTimerFd}
    /\ healthDue' = FALSE
    /\ UNCHANGED <<osVars, channelVars, poolVars, roomVars, taskQueue, current,
                   stopping, stopped>>

(* checkRoomHealth: serverRestart to every room with a dead Router, which  *)
(* is then destroyed.                                                      *)
HealthCheck ==
    /\ HealthTimerFd \in batch /\ current = <<>>
    /\ batch' = batch \ {HealthTimerFd}
    /\ healthDue' = FALSE
    /\ hostOf' = [r \in Rooms |-> IF r \in deadRooms THEN NoProc ELSE hostOf[r]]
    /\ deadRooms' = {}
    /\ UNCHANGED <<osVars, channelVars, poolVars, routers, taskQueue, current,
                   stopping, stopped>>

(* Worker::processChannelData returns true.                                *)
StillAlive(i) ==
    /\ i \notin workerClosed /\ i \notin channelClosed
    /\ proc[i] = "running" /\ i \notin garbled

(* A batched event whose descriptor has no worker (any more), or whose     *)
(* worker turns out to be well, changes nothing.                           *)
ChannelEventIgnored(f) ==
    /\ f \in batch /\ current = <<>>
    /\ fdToWorker[f] = NoProc \/ StillAlive(fdToWorker[f])
    /\ batch' = batch \ {f}
    /\ UNCHANGED <<osVars, channelVars, poolVars, roomVars, taskQueue, current,
                   healthDue, stopping, stopped>>

(* Variant: routers_ is not cleared.                                       *)
WorkerDiedKeepingRouters(i) ==
    /\ workerClosed' = workerClosed \cup {i}
    /\ deadRooms' = deadRooms \cup routers[i]
    /\ UNCHANGED <<hostOf, routers>>

(* Variant: a Worker whose channel is closed already is taken for closed.  *)
WorkerDiedUnlessChannelClosed(i) ==
    IF i \in channelClosed THEN UNCHANGED <<workerClosed, deadRooms, hostOf, routers>>
    ELSE /\ workerClosed' = workerClosed \cup {i}
         /\ deadRooms' = deadRooms \cup routers[i]
         /\ routers' = [routers EXCEPT ![i] = {}]
         /\ UNCHANGED hostOf

(* handleWorkerDeath, unless the Worker is closed: close its routers.      *)
WorkerDied(i) ==
    /\ workerClosed' = workerClosed \cup {i}
    /\ deadRooms' = deadRooms \cup routers[i]
    /\ routers' = [routers EXCEPT ![i] = {}]
    /\ UNCHANGED hostOf

(* Descriptors a pipe can get while worker j is being replaced: j's own is *)
(* free already if reading an invalid frame closed the channel.            *)
FreeFds(j) ==
    {g \in Fds : \A i \in Procs :
        fdOf[i] = g => i = j /\ proc[j] = "running" /\ j \in garbled}

(* Variant: the dead worker's descriptor is erased after the respawn.      *)
RespawnThenErase(j, f) ==
    \E i \in Procs, g \in FreeFds(j) :
        /\ proc[i] = "unborn" /\ \A k \in Procs : k < i => proc[k] # "unborn"
        /\ proc' = [proc EXCEPT ![i] = "running"]
        /\ workers' = (workers \ {j}) \cup {i}
        /\ fdToWorker' = [fdToWorker EXCEPT ![g] = i, ![f] = NoProc]
        /\ channelClosed' = channelClosed \cup {j}
        /\ fdOf' = [fdOf EXCEPT ![j] = NoFd, ![i] = g]
        /\ epoll' = (epoll \ {f, fdOf[j]}) \cup {g}
        /\ respawned' = Append(InWindow(respawned), 0)

(* The next process is spawned on a free descriptor and put under watch;   *)
(* j is the dead worker, destroyed (and its channel closed) afterwards.    *)
Respawn(j, f) ==
    \E i \in Procs, g \in FreeFds(j) :
        /\ proc[i] = "unborn" /\ \A k \in Procs : k < i => proc[k] # "unborn"
        /\ proc' = [proc EXCEPT ![i] = "running"]
        /\ workers' = (workers \ {j}) \cup {i}
        /\ fdToWorker' = [fdToWorker EXCEPT ![f] = NoProc, ![g] = i]
        /\ channelClosed' = channelClosed \cup {j}
        /\ fdOf' = [fdOf EXCEPT ![j] = NoFd, ![i] = g]
        /\ epoll' = (epoll \ {f, fdOf[j]}) \cup {g}
        /\ respawned' = Append(InWindow(respawned), 0)

(* Variant: the null worker of a failed spawn is listed.                   *)
NoRespawnListNull(j, f) ==
    /\ workers' = (workers \ {j}) \cup {NoProc}
    /\ fdToWorker' = [fdToWorker EXCEPT ![f] = NoProc]
    /\ CloseChannels({j})
    /\ UNCHANGED <<proc, respawned>>

(* The rate limit is exceeded, or the spawn fails.                         *)
NoRespawn(j, f) ==
    /\ workers' = workers \ {j}
    /\ fdToWorker' = [fdToWorker EXCEPT ![f] = NoProc]
    /\ CloseChannels({j})
    /\ UNCHANGED <<proc, respawned>>

(* Variant: one respawn too many.                                          *)
OnWorkerDiedOneMore(j, f) ==
    /\ respawnTimes' = InWindow(Append(respawnTimes, 0))
    /\ \/ Len(respawnTimes') <= RespawnLimit + 1 /\ Respawn(j, f)
       \/ NoRespawn(j, f)

(* onWorkerDied: the death is recorded before the limit is tested.         *)
OnWorkerDied(j, f) ==
    /\ respawnTimes' = InWindow(Append(respawnTimes, 0))
    /\ \/ Len(respawnTimes') <= RespawnLimit /\ Respawn(j, f)
       \/ NoRespawn(j, f)

(* Variant: every event of a known descriptor counts as a death.           *)
DeathOnAnyEvent(f) ==
    /\ f \in batch /\ current = <<>>
    /\ fdToWorker[f] # NoProc
    /\ batch' = batch \ {f}
    /\ WorkerDied(fdToWorker[f])
    /\ OnWorkerDied(fdToWorker[f], f)
    /\ UNCHANGED <<garbled, taskQueue, current, healthDue, stopping, stopped>>

(* A consumer descriptor at EOF, with an invalid frame, or of a channel    *)
(* that a task of this batch closed.                                       *)
ChannelEventDeath(f) ==
    /\ f \in batch /\ current = <<>>
    /\ fdToWorker[f] # NoProc /\ ~StillAlive(fdToWorker[f])
    /\ batch' = batch \ {f}
    /\ WorkerDied(fdToWorker[f])
    /\ OnWorkerDied(fdToWorker[f], f)
    /\ UNCHANGED <<garbled, taskQueue, current, healthDue, stopping, stopped>>

RequestStop ==
    /\ ~stopping
    /\ stopping' = TRUE
    /\ UNCHANGED <<osVars, channelVars, poolVars, roomVars, taskQueue, current,
                   batch, healthDue, stopped>>

(* The loop has ended: stop() closes the workers of fdToWorker_, then all  *)
(* rooms; the destructors close what the WorkerManager still lists.        *)
(* Worker::close kills and reaps the process.                              *)
StopWith(closing) ==
    /\ Idle /\ stopping
    /\ stopped' = TRUE
    /\ workerClosed' = workerClosed \cup closing
    /\ CloseChannels(closing)
    /\ proc' = [i \in Procs |-> IF i \in closing THEN "dead" ELSE proc[i]]
    /\ fdToWorker' = [f \in Fds |-> NoProc]
    /\ workers' = {}
    /\ routers' = [i \in Procs |-> {}]
    /\ hostOf' = [r \in Rooms |-> NoProc]
    /\ deadRooms' = {}
    /\ taskQueue' = <<>> /\ healthDue' = FALSE
    /\ UNCHANGED <<garbled, respawnTimes, respawned, current, batch, stopping>>

Watched == {fdToWorker[f] : f \in Fds} \ {NoProc}
StopPool == StopWith(Watched \cup workers)

Loop == \/ EpollWait \/ TakeTasks \/ RunTask \/ HealthCheck \/ StopPool
        \/ \E f \in Fds : ChannelEventIgnored(f) \/ ChannelEventDeath(f)

Next == \/ \E i \in Procs : Die(i) \/ Garble(i)
        \/ Tick \/ HealthTimer \/ RequestStop
        \/ \E t \in Tasks : Post(t)
        \/ Loop

Spec == Init /\ [][Next]_vars

(* The loop thread is scheduled and the periodic timer fires.              *)
Fairness == WF_vars(Loop) /\ WF_vars(HealthTimer)
FairSpec == Spec /\ Fairness

-----------------------------------------------------------------------------
(* Properties *)

(* Every worker of the pool whose channel is open is watched: its consumer *)
(* descriptor is registered with epoll and leads back to it through        *)
(* fdToWorker_, across respawns and reuse of descriptor numbers (loop,     *)
(* onWorkerDied).  This is what makes its death visible at all.            *)
OpenWorkersAreWatched ==
    \A i \in workers : i \notin channelClosed =>
        /\ fdOf[i] \in epoll
        /\ fdToWorker[fdOf[i]] = i

(* Worker::routers_, which getLeastLoadedWorker counts, and the rooms of   *)
(* the RoomManager agree: a worker holds a router exactly for the rooms it *)
(* hosts whose Router is open (createRouter, its @close listener,          *)
(* workerDied, removeRoom).                                                *)
RoutersMatchRooms ==
    /\ \A i \in Procs, r \in Rooms :
         r \in routers[i] <=> hostOf[r] = i /\ r \notin deadRooms
    /\ \A r \in deadRooms : hostOf[r] \in workerClosed

(* A room is served by a worker of the pool, or its Router is closed and   *)
(* the health check will announce it; never both and never neither, though *)
(* the list of workers, the routers and the rooms are changed one after    *)
(* the other when a worker dies, and a stale event of the batch may name   *)
(* another worker (loop, handleWorkerDeath, onWorkerDied, checkRoomHealth). *)
RoomsFollowTheirWorkers ==
    \A r \in Rooms : RoomExists(r) => (hostOf[r] \in workers <=> r \notin deadRooms)

(* maxRoutersPerWorker_ bounds the routers of every single worker, though  *)
(* join tests only the total over the pool.                                *)
RoutersWithinLimit ==
    MaxRouters > 0 => \A i \in Procs : Cardinality(routers[i]) <= MaxRouters

(* At most RespawnLimit processes are respawned within any window          *)
(* (onWorkerDied).                                                         *)
RespawnRateBounded == Len(InWindow(respawned)) <= RespawnLimit

(* A step drops a worker from the pool only for a reason: it died, wrote   *)
(* an invalid frame, lost its channel, or the pool stopped - never because *)
(* a stale event of the batch was taken for its own (loop).                *)
OnlyBrokenWorkersAreDropped ==
    [][\A i \in workers :
         \/ i \in workers' \/ stopped'
         \/ proc[i] = "dead" \/ i \in garbled \/ i \in channelClosed]_vars

(* Deaths are handled: again and again no dead worker is left in the pool, *)
(* unless a request to it closed its channel first (loop), and no room     *)
(* whose Router was closed by a death, which checkRoomHealth tears down.   *)
DeathsAreHandled ==
    []<>(/\ \A i \in workers : proc[i] = "dead" => i \in channelClosed
         /\ deadRooms = {})

(* What the specification of crash handling asks: a room on a crashed      *)
(* worker is told serverRestart and destroyed, so it does not stay on that *)
(* worker forever.                                                         *)
CrashedRoomsAreRestarted ==
    \A r \in Rooms, i \in Procs :
        hostOf[r] = i /\ proc[i] = "dead" ~> hostOf[r] # i
=============================================================================
