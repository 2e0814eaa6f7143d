-------------------------- MODULE WorkerPoolProofs --------------------------
(***************************************************************************)
(* Theorems about WorkerPool for any number of processes, descriptors and  *)
(* rooms, and any limit and window of the respawn.                         *)
(***************************************************************************)
EXTENDS WorkerPool, FiniteSetTheorems, TLAPS

-----------------------------------------------------------------------------
(* Types *)

LEMMA AppendAge ==
    ASSUME NEW ages \in Seq(Ages)
    PROVE  Append(ages, 0) \in Seq(Ages)
BY SizesAssumption DEF Ages

(* Ageing an entry keeps it an age.                                        *)
LEMMA OlderTyped ==
    ASSUME NEW ages \in Seq(Ages)
    PROVE  Older(ages) \in Seq(Ages)
<1>1. ASSUME NEW k \in 1 .. Len(ages)
      PROVE  (IF ages[k] > RespawnWindow THEN ages[k] ELSE ages[k] + 1) \in Ages
    <2>1. ages[k] \in Ages
        OBVIOUS
    <2> QED
        BY <2>1, SizesAssumption DEF Ages
<1> QED
    BY <1>1 DEF Older

(* Popping the expired entries leaves a suffix.                            *)
LEMMA InWindowTyped ==
    ASSUME NEW ages \in Seq(Ages)
    PROVE  InWindow(ages) \in Seq(Ages)
<1>1. Cardinality(Expired(ages)) \in Nat
    <2>1. Len(ages) \in Nat
        OBVIOUS
    <2>2. IsFiniteSet(1 .. Len(ages))
        BY <2>1, FS_Interval
    <2>3. Expired(ages) \subseteq 1 .. Len(ages)
        BY DEF Expired
    <2> QED
        BY <2>2, <2>3, FS_Subset, FS_CardinalityType
<1> QED
    BY <1>1 DEF InWindow

(* The task at the head of the batch.                                      *)
LEMMA CurrentHead ==
    ASSUME current \in Seq(Tasks), current # <<>>
    PROVE  Head(current).room \in Rooms /\ Tail(current) \in Seq(Tasks)
<1>1. Head(current) \in Tasks /\ Tail(current) \in Seq(Tasks)
    OBVIOUS
<1> QED
    BY <1>1 DEF Tasks

(* Closing channels keeps their state typed.                               *)
LEMMA CloseChannelsTyped ==
    ASSUME TypeOK, NEW C \in SUBSET Procs, CloseChannels(C)
    PROVE  /\ channelClosed' \in SUBSET Procs
           /\ fdOf' \in [Procs -> Fds \cup {NoFd}]
           /\ epoll' \in SUBSET Fds
BY DEF TypeOK, CloseChannels

LEMMA ChannelRequestTyped ==
    ASSUME TypeOK, NEW i \in Procs, NEW ok \in BOOLEAN, ChannelRequest(i, ok)
    PROVE  /\ channelClosed' \in SUBSET Procs
           /\ fdOf' \in [Procs -> Fds \cup {NoFd}]
           /\ epoll' \in SUBSET Fds
<1>1. CASE UNCHANGED channelVars
    BY <1>1 DEF TypeOK, channelVars
<1>2. CASE CloseChannels({i})
    BY <1>2, CloseChannelsTyped
<1> QED
    BY <1>1, <1>2 DEF ChannelRequest

LEMMA TypeInit ==
    Init => TypeOK
<1> SUFFICES ASSUME Init PROVE TypeOK
    OBVIOUS
<1>1. 1 .. NumWorkers \subseteq Procs /\ 1 .. NumWorkers \subseteq Fds
    BY SizesAssumption, FdsAssumption DEF Procs
<1>2. fdOf \in [Procs -> Fds \cup {NoFd}]
    BY <1>1, SizesAssumption DEF Init, Procs
<1>3. fdToWorker \in [Fds -> Procs \cup {NoProc}]
    BY <1>1 DEF Init
<1>4. proc \in [Procs -> {"unborn", "running", "dead"}]
    BY DEF Init
<1>5. epoll \in SUBSET Fds /\ workers \in SUBSET Procs
    BY <1>1 DEF Init
<1>6. /\ routers \in [Procs -> SUBSET Rooms]
      /\ hostOf \in [Rooms -> Procs \cup {NoProc}]
    BY DEF Init
<1>7. /\ respawnTimes \in Seq(Ages) /\ respawned \in Seq(Ages)
      /\ taskQueue \in Seq(Tasks) /\ current \in Seq(Tasks)
    BY DEF Init
<1>8. /\ garbled \in SUBSET Procs /\ workerClosed \in SUBSET Procs
      /\ channelClosed \in SUBSET Procs /\ deadRooms \in SUBSET Rooms
      /\ batch \in SUBSET (Fds \cup {EventFd, HealthTimerFd})
      /\ healthDue \in BOOLEAN /\ stopping \in BOOLEAN /\ stopped \in BOOLEAN
    BY ZenonT(60) DEF Init
<1> QED
    BY <1>2, <1>3, <1>4, <1>5, <1>6, <1>7, <1>8 DEF TypeOK

LEMMA RunTaskTyped ==
    TypeOK /\ RunTask => TypeOK'
<1> SUFFICES ASSUME TypeOK, RunTask PROVE TypeOK'
    OBVIOUS
<1>1. NextTask
    BY DEF RunTask, RunJoinNoRouter, RunJoinNewRoom, RunRequest, RunLeave
<1>2. Head(current).room \in Rooms /\ current' \in Seq(Tasks)
    BY <1>1, CurrentHead DEF NextTask, TypeOK
<1>3. CASE RunJoinNoRouter
    BY <1>1, <1>2, <1>3, SMTT(60), Z3T(60)
    DEF TypeOK, RunJoinNoRouter, NextTask, osVars, poolVars, channelVars, roomVars
<1>4. CASE RunJoinNewRoom
    <2>1. PICK i \in workers, ok \in BOOLEAN :
            /\ ChannelRequest(i, ok)
            /\ IF ok
               THEN /\ routers' = [routers EXCEPT ![i] = @ \cup {Head(current).room}]
                    /\ hostOf' = [hostOf EXCEPT ![Head(current).room] = i]
               ELSE UNCHANGED <<routers, hostOf>>
        BY <1>4 DEF RunJoinNewRoom
    <2>2. i \in Procs
        BY DEF TypeOK
    <2>3. routers' \in [Procs -> SUBSET Rooms] /\ hostOf' \in [Rooms -> Procs \cup {NoProc}]
        <3>1. CASE ok
            <4>1. routers' = [routers EXCEPT ![i] = routers[i] \cup {Head(current).room}]
                BY <2>1, <3>1
            <4>2. hostOf' = [hostOf EXCEPT ![Head(current).room] = i]
                BY <2>1, <3>1
            <4>3. routers[i] \cup {Head(current).room} \in SUBSET Rooms
                BY <1>2, <2>2 DEF TypeOK
            <4>4. routers' \in [Procs -> SUBSET Rooms]
                BY <4>1, <4>3 DEF TypeOK
            <4> QED
                BY <1>2, <2>2, <4>2, <4>4 DEF TypeOK
        <3>2. CASE ~ok
            BY <2>1, <3>2 DEF TypeOK
        <3> QED
            BY <3>1, <3>2
    <2> QED
        BY <1>1, <1>2, <1>4, <2>1, <2>2, <2>3, ChannelRequestTyped, SMTT(60), Z3T(60)
        DEF TypeOK, RunJoinNewRoom, NextTask, osVars, poolVars
<1>5. CASE RunRequest
    <2>1. /\ channelClosed' \in SUBSET Procs
          /\ fdOf' \in [Procs -> Fds \cup {NoFd}]
          /\ epoll' \in SUBSET Fds
        <3>1. CASE UNCHANGED channelVars
            BY <3>1 DEF TypeOK, channelVars
        <3>2. CASE ~UNCHANGED channelVars
            <4>1. PICK ok \in BOOLEAN : ChannelRequest(hostOf[Head(current).room], ok)
                BY <1>5, <3>2 DEF RunRequest
            <4>2. hostOf[Head(current).room] \in Procs
                BY <1>2, <1>5, <3>2 DEF RunRequest, RoomExists, TypeOK
            <4> QED
                BY <4>1, <4>2, ChannelRequestTyped
        <3> QED
            BY <3>1, <3>2
    <2> QED
        BY <1>1, <1>2, <1>5, <2>1
        DEF TypeOK, RunRequest, NextTask, osVars, poolVars, roomVars
<1>6. CASE RunLeave
    <2> DEFINE r == Head(current).room
    <2>1. /\ hostOf' \in [Rooms -> Procs \cup {NoProc}]
          /\ deadRooms' \in SUBSET Rooms
        BY <1>2, <1>6 DEF RunLeave, TypeOK
    <2>2. /\ channelClosed' \in SUBSET Procs
          /\ fdOf' \in [Procs -> Fds \cup {NoFd}]
          /\ epoll' \in SUBSET Fds
          /\ routers' \in [Procs -> SUBSET Rooms]
        <3>1. CASE RoomExists(r) /\ r \notin deadRooms
            <4>1. hostOf[r] \in Procs
                BY <1>2, <3>1 DEF RoomExists, TypeOK
            <4>2. PICK ok \in BOOLEAN : ChannelRequest(hostOf[r], ok)
                BY <1>6, <3>1 DEF RunLeave
            <4>3. routers' = [routers EXCEPT ![hostOf[r]] = @ \ {r}]
                BY <1>6, <3>1 DEF RunLeave
            <4> QED
                BY <4>1, <4>2, <4>3, ChannelRequestTyped DEF TypeOK
        <3>2. CASE ~(RoomExists(r) /\ r \notin deadRooms)
            BY <1>6, <3>2 DEF RunLeave, TypeOK, channelVars
        <3> QED
            BY <3>1, <3>2, SMTT(60), Z3T(60)
    <2> QED
        BY <1>1, <1>2, <1>6, <2>1, <2>2
        DEF TypeOK, NextTask, osVars, poolVars
<1> QED
    BY <1>3, <1>4, <1>5, <1>6 DEF RunTask

(* A death: the Worker is closed, its rooms die, and it is replaced or not. *)
LEMMA ChannelEventDeathTyped ==
    ASSUME TypeOK, NEW f \in Fds, ChannelEventDeath(f)
    PROVE  TypeOK'
<1> DEFINE j == fdToWorker[f]
<1>1. j \in Procs
    BY DEF TypeOK, ChannelEventDeath
<1>2. /\ workerClosed' \in SUBSET Procs
      /\ deadRooms' \in SUBSET Rooms
      /\ routers' \in [Procs -> SUBSET Rooms]
      /\ hostOf' \in [Rooms -> Procs \cup {NoProc}]
    BY <1>1 DEF TypeOK, ChannelEventDeath, WorkerDied
<1>3. respawnTimes' \in Seq(Ages)
    BY AppendAge, InWindowTyped, ZenonT(60) DEF TypeOK, ChannelEventDeath, OnWorkerDied
<1>4. /\ proc' \in [Procs -> {"unborn", "running", "dead"}]
      /\ workers' \in SUBSET Procs
      /\ fdToWorker' \in [Fds -> Procs \cup {NoProc}]
      /\ channelClosed' \in SUBSET Procs
      /\ fdOf' \in [Procs -> Fds \cup {NoFd}]
      /\ epoll' \in SUBSET Fds
      /\ respawned' \in Seq(Ages)
    <2>1. CASE Respawn(j, f)
        <3>1. PICK i \in Procs, g \in FreeFds(j) :
                /\ proc' = [proc EXCEPT ![i] = "running"]
                /\ workers' = (workers \ {j}) \cup {i}
                /\ fdToWorker' = [fdToWorker EXCEPT ![f] = NoProc, ![g] = i]
                /\ channelClosed' = channelClosed \cup {j}
                /\ fdOf' = [fdOf EXCEPT ![j] = NoFd, ![i] = g]
                /\ epoll' = (epoll \ {f, fdOf[j]}) \cup {g}
                /\ respawned' = Append(InWindow(respawned), 0)
            BY <2>1, ZenonT(60) DEF Respawn
        <3>2. g \in Fds
            BY DEF FreeFds
        <3>3. respawned' \in Seq(Ages)
            BY <3>1, AppendAge, InWindowTyped DEF TypeOK
        <3> QED
            BY <1>1, <3>1, <3>2, <3>3, ZenonT(60) DEF TypeOK
    <2>2. CASE NoRespawn(j, f)
        BY <1>1, <2>2, CloseChannelsTyped DEF NoRespawn, TypeOK
    <2> QED
        BY <2>1, <2>2 DEF ChannelEventDeath, OnWorkerDied
<1> QED
    BY <1>2, <1>3, <1>4 DEF TypeOK, ChannelEventDeath

LEMMA StopTyped ==
    TypeOK /\ StopPool => TypeOK'
<1> SUFFICES ASSUME TypeOK, StopPool PROVE TypeOK'
    OBVIOUS
<1> DEFINE C == Watched \cup workers
<1>1. C \in SUBSET Procs
    BY DEF TypeOK, Watched
<1>2. CloseChannels(C)
    BY DEF StopPool, StopWith
<1>3. proc' \in [Procs -> {"unborn", "running", "dead"}]
    BY DEF StopPool, StopWith, TypeOK
<1> HIDE DEF C
<1>4. /\ channelClosed' \in SUBSET Procs
      /\ fdOf' \in [Procs -> Fds \cup {NoFd}]
      /\ epoll' \in SUBSET Fds
    BY <1>1, <1>2, CloseChannelsTyped
<1>5. /\ fdToWorker' \in [Fds -> Procs \cup {NoProc}]
      /\ routers' \in [Procs -> SUBSET Rooms]
      /\ hostOf' \in [Rooms -> Procs \cup {NoProc}]
    BY DEF StopPool, StopWith
<1>6. /\ workerClosed' \in SUBSET Procs /\ workers' \in SUBSET Procs
      /\ deadRooms' \in SUBSET Rooms
    BY <1>1 DEF StopPool, StopWith, TypeOK, C
<1>7. taskQueue' \in Seq(Tasks)
    BY SMTT(60), Z3T(60) DEF StopPool, StopWith
<1> QED
    BY <1>3, <1>4, <1>5, <1>6, <1>7, ZenonT(60) DEF StopPool, StopWith, TypeOK

LEMMA LoopTyped ==
    TypeOK /\ Loop => TypeOK'
<1> SUFFICES ASSUME TypeOK, Loop PROVE TypeOK'
    OBVIOUS
<1> USE DEF TypeOK, osVars, channelVars, poolVars, roomVars
<1>1. CASE EpollWait
    <2>1. batch' \in SUBSET (Fds \cup {EventFd, HealthTimerFd})
        BY <1>1 DEF EpollWait, Ready
    <2> QED
        BY <1>1, <2>1 DEF EpollWait
<1>2. CASE TakeTasks
    BY <1>2, SMTT(60), Z3T(60) DEF TakeTasks
<1>3. CASE RunTask
    BY <1>3, RunTaskTyped
<1>4. CASE HealthCheck
    BY <1>4, ZenonT(60) DEF HealthCheck
<1>5. CASE StopPool
    BY <1>5, StopTyped
<1>6. ASSUME NEW f \in Fds, ChannelEventIgnored(f) PROVE TypeOK'
    BY <1>6 DEF ChannelEventIgnored
<1>7. ASSUME NEW f \in Fds, ChannelEventDeath(f) PROVE TypeOK'
    BY <1>7, ChannelEventDeathTyped, SMTT(60), Z3T(60)
<1> QED
    BY <1>1, <1>2, <1>3, <1>4, <1>5, <1>6, <1>7, SMTT(60), Z3T(60) DEF Loop

LEMMA TypeStep ==
    TypeOK /\ [Next]_vars => TypeOK'
<1> SUFFICES ASSUME TypeOK, [Next]_vars PROVE TypeOK'
    OBVIOUS
<1> USE DEF TypeOK, osVars, channelVars, poolVars, roomVars, loopVars
<1>1. ASSUME NEW i \in Procs, Die(i) PROVE TypeOK'
    BY <1>1 DEF Die
<1>2. ASSUME NEW i \in Procs, Garble(i) PROVE TypeOK'
    BY <1>2 DEF Garble
<1>3. CASE Tick
    <2>1. respawnTimes' \in Seq(Ages) /\ respawned' \in Seq(Ages)
        BY <1>3, OlderTyped, InWindowTyped DEF Tick
    <2> QED
        BY <1>3, <2>1 DEF Tick
<1>4. CASE HealthTimer
    BY <1>4 DEF HealthTimer
<1>5. CASE RequestStop
    BY <1>5 DEF RequestStop
<1>6. ASSUME NEW t \in Tasks, Post(t) PROVE TypeOK'
    BY <1>6 DEF Post
<1>7. CASE Loop
    BY <1>7, LoopTyped
<1>8. CASE UNCHANGED vars
    BY <1>8 DEF vars
<1> QED
    BY <1>1, <1>2, <1>3, <1>4, <1>5, <1>6, <1>7, <1>8, SMTT(60), Z3T(60) DEF Next

(* Every variable keeps its type: in particular no step lists, watches or  *)
(* closes a worker that does not exist.                                    *)
THEOREM PoolTypeCorrect == Spec => []TypeOK
<1> QED
    BY TypeInit, TypeStep, PTL DEF Spec

-----------------------------------------------------------------------------
(* Routers and rooms *)

(* RoutersMatchRooms is inductive on top of the types: a dead room has a   *)
(* worker, so it is never taken for a new one.                             *)
LEMMA RoutersRunTask ==
    TypeOK /\ RoutersMatchRooms /\ RunTask => RoutersMatchRooms'
<1>a. SUFFICES ASSUME TypeOK, RoutersMatchRooms, RunTask PROVE RoutersMatchRooms'
    BY ZenonT(60)
<1> DEFINE r == Head(current).room
<1>1. NextTask
    BY <1>a, ZenonT(60) DEF RunTask, RunJoinNoRouter, RunJoinNewRoom, RunRequest, RunLeave
<1>2. r \in Rooms
    BY <1>a, <1>1, CurrentHead DEF NextTask, TypeOK
<1>3. workerClosed' = workerClosed
    BY <1>1 DEF NextTask, poolVars
<1>4. CASE RunJoinNoRouter \/ RunRequest
    BY <1>a, <1>3, <1>4 DEF RunJoinNoRouter, RunRequest, roomVars, RoutersMatchRooms
<1>5. CASE RunJoinNewRoom
    <2>1. PICK i \in workers, ok \in BOOLEAN :
            IF ok
            THEN /\ routers' = [routers EXCEPT ![i] = routers[i] \cup {r}]
                 /\ hostOf' = [hostOf EXCEPT ![r] = i]
            ELSE UNCHANGED <<routers, hostOf>>
        BY <1>5, SMTT(60), Z3T(60) DEF RunJoinNewRoom
    <2>2. i \in Procs /\ deadRooms' = deadRooms /\ hostOf[r] = NoProc
        BY <1>a, <1>5 DEF RunJoinNewRoom, RoomExists, TypeOK
    <2>3. r \notin deadRooms
        BY <1>a, <2>2, PoolNullsAssumption DEF RoutersMatchRooms, TypeOK
    <2>4. CASE ok
        <3>1. /\ routers' = [routers EXCEPT ![i] = routers[i] \cup {r}]
              /\ hostOf' = [hostOf EXCEPT ![r] = i]
            BY <2>1, <2>4
        <3>2. \A k \in Procs, q \in Rooms :
                q \in routers'[k] <=> hostOf'[q] = k /\ q \notin deadRooms'
            BY <1>a, <1>2, <2>2, <2>3, <3>1, PoolNullsAssumption, SMTT(60), Z3T(60)
               DEF RoutersMatchRooms, TypeOK
        <3>3. \A q \in deadRooms' : hostOf'[q] \in workerClosed'
            BY <1>a, <1>2, <1>3, <2>2, <2>3, <3>1 DEF RoutersMatchRooms, TypeOK
        <3> QED
            BY <1>a, <3>2, <3>3 DEF RoutersMatchRooms
    <2>5. CASE ~ok
        BY <1>a, <1>3, <2>1, <2>2, <2>5 DEF RoutersMatchRooms
    <2> QED
        BY <2>4, <2>5
<1>6. CASE RunLeave
    <2>1. /\ hostOf' = [hostOf EXCEPT ![r] = NoProc]
          /\ deadRooms' = deadRooms \ {r}
        BY <1>6 DEF RunLeave
    <2>2. \A q \in deadRooms' : hostOf'[q] \in workerClosed'
        BY <1>a, <1>2, <1>3, <2>1 DEF RoutersMatchRooms, TypeOK
    <2>3. \A k \in Procs, q \in Rooms :
            q \in routers'[k] <=> hostOf'[q] = k /\ q \notin deadRooms'
        <3>1. CASE RoomExists(r) /\ r \notin deadRooms
            <4>1. routers' = [routers EXCEPT ![hostOf[r]] = routers[hostOf[r]] \ {r}]
                BY <1>6, <3>1 DEF RunLeave
            <4>2. hostOf[r] \in Procs
                BY <1>a, <1>2, <3>1, SMTT(60), Z3T(60) DEF RoomExists, TypeOK
            <4> QED
                BY <1>a, <1>2, <2>1, <4>1, <4>2, PoolNullsAssumption, SMTT(60), Z3T(60)
                DEF RoutersMatchRooms, TypeOK
        <3>2. CASE ~(RoomExists(r) /\ r \notin deadRooms)
            <4>1. routers' = routers
                BY <1>6, <3>2, SMTT(60), Z3T(60) DEF RunLeave
            <4> QED
                BY <1>a, <1>2, <2>1, <3>2, <4>1, PoolNullsAssumption, SMTT(60), Z3T(60)
                DEF RoutersMatchRooms, RoomExists, TypeOK
        <3> QED
            BY <3>1, <3>2, SMTT(60), Z3T(60)
    <2> QED
        BY <1>a, <2>2, <2>3, SMTT(60), Z3T(60) DEF RoutersMatchRooms
<1> QED
    BY <1>a, <1>4, <1>5, <1>6 DEF RunTask

LEMMA RoutersStep ==
    TypeOK /\ RoutersMatchRooms /\ [Next]_vars => RoutersMatchRooms'
<1>a. SUFFICES ASSUME TypeOK, RoutersMatchRooms, [Next]_vars PROVE RoutersMatchRooms'
    BY ZenonT(60)
<1>1. ASSUME UNCHANGED <<roomVars, workerClosed>> PROVE RoutersMatchRooms'
    BY <1>a, <1>1 DEF roomVars, RoutersMatchRooms
<1>2. CASE HealthCheck
    <2>1. /\ hostOf' = [r \in Rooms |-> IF r \in deadRooms THEN NoProc ELSE hostOf[r]]
          /\ deadRooms' = {} /\ routers' = routers
        BY <1>2 DEF HealthCheck
    <2> QED
        BY <1>a, <2>1, PoolNullsAssumption DEF RoutersMatchRooms, TypeOK
<1>3. ASSUME NEW f \in Fds, ChannelEventDeath(f) PROVE RoutersMatchRooms'
    <2> DEFINE i == fdToWorker[f]
    <2>1. i \in Procs
        BY <1>a, <1>3 DEF TypeOK, ChannelEventDeath
    <2>2. /\ workerClosed' = workerClosed \cup {i}
          /\ deadRooms' = deadRooms \cup routers[i]
          /\ routers' = [routers EXCEPT ![i] = {}]
          /\ hostOf' = hostOf
        BY <1>3 DEF ChannelEventDeath, WorkerDied
    <2>3. \A q \in deadRooms' : hostOf'[q] \in workerClosed'
        BY <1>a, <2>1, <2>2, SMTT(60), Z3T(60) DEF RoutersMatchRooms, TypeOK
    <2>4. \A k \in Procs, q \in Rooms :
            q \in routers'[k] <=> hostOf'[q] = k /\ q \notin deadRooms'
        BY <1>a, <2>1, <2>2, SMTT(60), Z3T(60) DEF RoutersMatchRooms, TypeOK
    <2> QED
        BY <2>3, <2>4, ZenonT(60) DEF RoutersMatchRooms
<1>4. CASE StopPool
    BY <1>a, <1>4, PoolNullsAssumption DEF StopPool, StopWith, RoutersMatchRooms
<1>5. CASE RunTask
    BY <1>a, <1>5, RoutersRunTask
<1> QED
    BY <1>a, <1>1, <1>2, <1>3, <1>4, <1>5
    DEF Next, Loop, Die, Garble, Tick, HealthTimer, RequestStop, Post, EpollWait,
        TakeTasks, ChannelEventIgnored, vars, poolVars, roomVars

(* The router sets that getLeastLoadedWorker counts agree with the rooms   *)
(* of the RoomManager, through deaths, leaves, failed requests and the     *)
(* health check (createRouter, workerDied, removeRoom, checkRoomHealth).   *)
THEOREM RoutersMatchRoomsCorrect == Spec => []RoutersMatchRooms
<1>1. Init => RoutersMatchRooms
    BY PoolNullsAssumption DEF Init, RoutersMatchRooms
<1> QED
    BY <1>1, RoutersStep, PoolTypeCorrect, PTL DEF Spec

-----------------------------------------------------------------------------
(* The limit of routers *)

(* Inductive: a worker's routers are finite and within the limit.          *)
LimitInv ==
    \A k \in Procs :
        /\ IsFiniteSet(routers[k])
        /\ MaxRouters > 0 => Cardinality(routers[k]) <= MaxRouters

(* Routers are only taken away.                                            *)
LEMMA LimitShrinks ==
    ASSUME LimitInv, \A k \in Procs : routers'[k] \subseteq routers[k]
    PROVE  LimitInv'
<1>. SUFFICES ASSUME NEW k \in Procs
              PROVE  /\ IsFiniteSet(routers'[k])
                     /\ MaxRouters > 0 => Cardinality(routers'[k]) <= MaxRouters
    BY DEF LimitInv
<1>1. /\ IsFiniteSet(routers[k])
      /\ MaxRouters > 0 => Cardinality(routers[k]) <= MaxRouters
    BY DEF LimitInv
<1>2. /\ IsFiniteSet(routers'[k])
      /\ Cardinality(routers'[k]) <= Cardinality(routers[k])
    BY <1>1, FS_Subset
<1>3. Cardinality(routers'[k]) \in Nat /\ Cardinality(routers[k]) \in Nat
    BY <1>1, <1>2, FS_CardinalityType
<1>. QED
    BY <1>1, <1>2, <1>3, SizesAssumption

(* A new router goes to a worker that has room for one more.               *)
LEMMA LimitNewRoom ==
    ASSUME TypeOK, LimitInv, RunJoinNewRoom
    PROVE  LimitInv'
<1>. DEFINE r == Head(current).room
<1>1. PICK i \in workers, ok \in BOOLEAN :
        /\ LeastLoaded(i)
        /\ IF ok THEN routers' = [routers EXCEPT ![i] = routers[i] \cup {r}]
                 ELSE routers' = routers
    BY DEF RunJoinNewRoom
<1>2. i \in Procs /\ (MaxRouters > 0 => Cardinality(routers[i]) < MaxRouters)
    BY <1>1 DEF LeastLoaded, Candidates, TypeOK
<1>3. CASE ~ok
    BY <1>1, <1>3, LimitShrinks, SMTT(60), Z3T(60)
<1>4. CASE ok
    <2>1. IsFiniteSet(routers[i]) /\ Cardinality(routers[i]) \in Nat
        BY <1>2, FS_CardinalityType DEF LimitInv
    <2>2. /\ IsFiniteSet(routers[i] \cup {r})
          /\ Cardinality(routers[i] \cup {r}) \in
                {Cardinality(routers[i]), Cardinality(routers[i]) + 1}
        BY <2>1, FS_AddElement, ZenonT(60)
    <2>3. \A k \in Procs :
            routers'[k] = IF k = i THEN routers[i] \cup {r} ELSE routers[k]
        BY <1>1, <1>4 DEF TypeOK
    <2>. QED
        BY <1>2, <2>1, <2>2, <2>3, SizesAssumption DEF LimitInv
<1>. QED
    BY <1>3, <1>4, SMTT(60), Z3T(60)

LEMMA LimitStep == TypeOK /\ LimitInv /\ [Next]_vars => LimitInv'
<1>a. SUFFICES ASSUME TypeOK, LimitInv, [Next]_vars PROVE LimitInv'
    BY ZenonT(60)
<1>1. ASSUME routers' = routers PROVE LimitInv'
    BY <1>a, <1>1, LimitShrinks
<1>2. ASSUME NEW f \in Fds, ChannelEventDeath(f) PROVE LimitInv'
    <2>1. routers' = [routers EXCEPT ![fdToWorker[f]] = {}]
        BY <1>2 DEF ChannelEventDeath, WorkerDied
    <2>2. \A k \in Procs : routers'[k] \subseteq routers[k]
        BY <1>a, <2>1 DEF TypeOK
    <2>. QED
        BY <1>a, <2>2, LimitShrinks
<1>3. CASE StopPool
    <2>1. \A k \in Procs : routers'[k] \subseteq routers[k]
        BY <1>a, <1>3, SMTT(60), Z3T(60) DEF StopPool, StopWith, TypeOK
    <2>. QED
        BY <1>a, <2>1, LimitShrinks
<1>4. CASE RunLeave
    <2>1. \A k \in Procs : routers'[k] \subseteq routers[k]
        BY <1>a, <1>4, SMTT(60), Z3T(60) DEF RunLeave, TypeOK
    <2>. QED
        BY <1>a, <2>1, LimitShrinks
<1>5. CASE RunJoinNewRoom
    BY <1>a, <1>5, LimitNewRoom
<1>. QED
    BY <1>a, <1>1, <1>2, <1>3, <1>4, <1>5
    DEF Next, Loop, RunTask, RunJoinNoRouter, RunRequest, HealthCheck, Die, Garble, Tick,
        HealthTimer, RequestStop, Post, EpollWait, TakeTasks, ChannelEventIgnored, vars,
        roomVars

(* No worker ever holds more routers than maxRoutersPerWorker_ allows,     *)
(* though join tests only the capacity of the whole pool, which shrinks    *)
(* when a worker dies (getLeastLoadedWorker, createRoom).                  *)
THEOREM RoutersWithinLimitCorrect == Spec => []RoutersWithinLimit
<1>1. Init => LimitInv
    BY FS_EmptySet, SizesAssumption DEF Init, LimitInv
<1>2. LimitInv => RoutersWithinLimit
    BY DEF LimitInv, RoutersWithinLimit
<1>. QED
    BY <1>1, <1>2, LimitStep, PoolTypeCorrect, PTL DEF Spec

-----------------------------------------------------------------------------
(* Watching the open channels *)

(* A process that was never spawned is unknown to the server, and a        *)
(* channel has a descriptor exactly while it is open.                      *)
KnownProcs ==
    /\ \A i \in Procs : proc[i] = "unborn" =>
          /\ i \notin workers /\ i \notin channelClosed
          /\ fdOf[i] = NoFd
    /\ \A f \in Fds, i \in Procs : fdToWorker[f] = i => proc[i] # "unborn"
    /\ \A r \in Rooms, i \in Procs : hostOf[r] = i => proc[i] # "unborn"
    /\ \A i \in Procs : proc[i] # "unborn" /\ i \notin channelClosed => fdOf[i] # NoFd

(* Two channels never share a descriptor.                                  *)
FdsExclusive ==
    \A i, j \in Procs : fdOf[i] = fdOf[j] /\ fdOf[i] # NoFd => i = j

WatchInv == KnownProcs /\ FdsExclusive /\ OpenWorkersAreWatched

(* Closing channels of spawned processes: the other descriptors stay where *)
(* they are, because they are different.                                   *)
LEMMA CloseChannelsWatch ==
    ASSUME TypeOK, WatchInv, NEW C \in SUBSET Procs, CloseChannels(C),
           \A i \in C : proc[i] # "unborn",
           UNCHANGED <<proc, workers, fdToWorker>>,
           \A r \in Rooms, i \in Procs : hostOf'[r] = i => proc[i] # "unborn"
    PROVE  WatchInv'
<1>1. /\ channelClosed' = channelClosed \cup C
      /\ \A i \in Procs : fdOf'[i] = IF i \in C THEN NoFd ELSE fdOf[i]
      /\ epoll' = epoll \ {fdOf[i] : i \in C}
    BY SMTT(60), Z3T(60) DEF CloseChannels
<1>2. KnownProcs'
    BY <1>1 DEF WatchInv, KnownProcs, TypeOK
<1>3. FdsExclusive'
    BY <1>1 DEF WatchInv, FdsExclusive
<1>4. OpenWorkersAreWatched'
    <2>1. SUFFICES ASSUME NEW i \in workers, i \notin channelClosed, i \notin C
                   PROVE  fdOf[i] \in epoll' /\ fdToWorker[fdOf[i]] = i
        BY <1>1 DEF OpenWorkersAreWatched, TypeOK
    <2>2. fdOf[i] \in epoll /\ fdToWorker[fdOf[i]] = i
        BY <2>1, SMTT(60), Z3T(60) DEF WatchInv, OpenWorkersAreWatched
    <2>3. fdOf[i] # NoFd
        BY <2>1, <2>2, PoolNullsAssumption, SMTT(60), Z3T(60) DEF TypeOK
    <2>4. \A k \in C : fdOf[k] # fdOf[i]
        BY <2>1, <2>3 DEF WatchInv, FdsExclusive, TypeOK
    <2> QED
        BY <1>1, <2>2, <2>4, SMTT(60), Z3T(60)
<1> QED
    BY <1>2, <1>3, <1>4, SMTT(60), Z3T(60) DEF WatchInv

LEMMA ChannelRequestWatch ==
    ASSUME TypeOK, WatchInv, NEW i \in Procs, NEW ok \in BOOLEAN,
           ChannelRequest(i, ok), proc[i] # "unborn",
           UNCHANGED <<proc, workers, fdToWorker>>,
           \A r \in Rooms, k \in Procs : hostOf'[r] = k => proc[k] # "unborn"
    PROVE  WatchInv'
<1>1. CASE UNCHANGED channelVars
    BY <1>1 DEF WatchInv, KnownProcs, FdsExclusive, OpenWorkersAreWatched, channelVars
<1>2. CASE CloseChannels({i})
    BY <1>2, CloseChannelsWatch, SMTT(60), Z3T(60)
<1> QED
    BY <1>1, <1>2, SMTT(60), Z3T(60) DEF ChannelRequest

(* A step that touches no channel and gives no room a new worker.          *)
LEMMA SameChannelsWatch ==
    ASSUME WatchInv, UNCHANGED <<proc, channelVars, workers, fdToWorker>>,
           \A r \in Rooms : hostOf'[r] \in {hostOf[r], NoProc}
    PROVE  WatchInv'
<1>1. /\ proc' = proc /\ workers' = workers /\ fdToWorker' = fdToWorker
      /\ channelClosed' = channelClosed /\ fdOf' = fdOf /\ epoll' = epoll
    BY DEF channelVars
<1>2. \A r \in Rooms, i \in Procs : hostOf'[r] = i => hostOf[r] = i
    BY PoolNullsAssumption
<1>3. KnownProcs'
    BY <1>1, <1>2, ZenonT(60) DEF WatchInv, KnownProcs
<1>4. FdsExclusive' /\ OpenWorkersAreWatched'
    BY <1>1, ZenonT(60) DEF WatchInv, FdsExclusive, OpenWorkersAreWatched
<1> QED
    BY <1>3, <1>4 DEF WatchInv

LEMMA RunTaskWatch ==
    TypeOK /\ WatchInv /\ RunTask => WatchInv'
<1>a. SUFFICES ASSUME TypeOK, WatchInv, RunTask PROVE WatchInv'
    BY ZenonT(60)
<1> DEFINE r == Head(current).room
<1>1. NextTask
    BY <1>a, ZenonT(60) DEF RunTask, RunJoinNoRouter, RunJoinNewRoom, RunRequest, RunLeave
<1>2. r \in Rooms
    BY <1>a, <1>1, CurrentHead DEF NextTask, TypeOK
<1>3. UNCHANGED <<proc, workers, fdToWorker>>
    BY <1>1 DEF NextTask, osVars, poolVars
<1>4. \A q \in Rooms, k \in Procs : hostOf[q] = k => proc[k] # "unborn"
    BY <1>a DEF WatchInv, KnownProcs
<1>5. ASSUME UNCHANGED channelVars, \A q \in Rooms : hostOf'[q] \in {hostOf[q], NoProc}
      PROVE  WatchInv'
    BY <1>a, <1>3, <1>5, SameChannelsWatch
<1>6. CASE RunJoinNoRouter
    BY <1>5, <1>6 DEF RunJoinNoRouter, roomVars
<1>7. CASE RunJoinNewRoom
    <2>1. PICK i \in workers, ok \in BOOLEAN :
            /\ ChannelRequest(i, ok)
            /\ hostOf' = [hostOf EXCEPT ![r] = i] \/ hostOf' = hostOf
        BY <1>7 DEF RunJoinNewRoom
    <2>2. i \in Procs /\ proc[i] # "unborn"
        BY <1>a, SMTT(60), Z3T(60) DEF TypeOK, WatchInv, KnownProcs
    <2>3. \A q \in Rooms, k \in Procs : hostOf'[q] = k => proc[k] # "unborn"
        BY <1>a, <1>2, <1>4, <2>1, <2>2 DEF TypeOK
    <2> QED
        BY <1>a, <1>3, <2>1, <2>2, <2>3, ChannelRequestWatch, SMTT(60), Z3T(60)
<1>8. CASE RunRequest
    <2>1. hostOf' = hostOf
        BY <1>8 DEF RunRequest, roomVars
    <2>2. CASE UNCHANGED channelVars
        BY <1>5, <2>1, <2>2, SMTT(60), Z3T(60)
    <2>3. CASE ~UNCHANGED channelVars
        <3>1. PICK ok \in BOOLEAN : ChannelRequest(hostOf[r], ok)
            BY <1>8, <2>3, SMTT(60), Z3T(60) DEF RunRequest
        <3>2. hostOf[r] \in Procs
            BY <1>a, <1>2, <1>8, <2>3 DEF RunRequest, RoomExists, TypeOK
        <3>3. proc[hostOf[r]] # "unborn"
            BY <1>2, <1>4, <3>2, SMTT(60), Z3T(60)
        <3> QED
            BY <1>a, <1>3, <1>4, <2>1, <3>1, <3>2, <3>3, ChannelRequestWatch, SMTT(60), Z3T(60)
    <2> QED
        BY <2>2, <2>3
<1>9. CASE RunLeave
    <2>1. \A q \in Rooms : hostOf'[q] \in {hostOf[q], NoProc}
        BY <1>a, <1>2, <1>9 DEF RunLeave, TypeOK
    <2>2. CASE UNCHANGED channelVars
        BY <1>5, <2>1, <2>2, SMTT(60), Z3T(60)
    <2>3. CASE ~UNCHANGED channelVars
        <3>1. PICK ok \in BOOLEAN : ChannelRequest(hostOf[r], ok)
            BY <1>9, <2>3, SMTT(60), Z3T(60) DEF RunLeave
        <3>2. hostOf[r] \in Procs
            BY <1>a, <1>2, <1>9, <2>3, SMTT(60), Z3T(60) DEF RunLeave, RoomExists, TypeOK
        <3>3. proc[hostOf[r]] # "unborn"
            BY <1>2, <1>4, <3>2
        <3>4. \A q \in Rooms, k \in Procs : hostOf'[q] = k => proc[k] # "unborn"
            BY <1>4, <2>1, PoolNullsAssumption
        <3> QED
            BY <1>a, <1>3, <3>1, <3>2, <3>3, <3>4, ChannelRequestWatch, SMTT(60), Z3T(60)
    <2> QED
        BY <2>2, <2>3
<1> QED
    BY <1>a, <1>6, <1>7, <1>8, <1>9 DEF RunTask

(* A death: the descriptor of the dead worker leads to no other worker,    *)
(* and the one of its replacement was free.                                *)
LEMMA DeathWatch ==
    ASSUME TypeOK, WatchInv, NEW f \in Fds, ChannelEventDeath(f)
    PROVE  WatchInv'
<1> DEFINE j == fdToWorker[f]
<1>1. j \in Procs /\ proc[j] # "unborn" /\ hostOf' = hostOf
    BY SMTT(60), Z3T(60) DEF TypeOK, ChannelEventDeath, WorkerDied, WatchInv, KnownProcs
<1>2. ASSUME NEW k \in workers, k # j, k \notin channelClosed
      PROVE  /\ fdOf[k] \in Fds /\ fdOf[k] # f /\ fdOf[k] # fdOf[j]
             /\ fdOf[k] \in epoll /\ fdToWorker[fdOf[k]] = k
    <2>1. fdOf[k] \in epoll /\ fdToWorker[fdOf[k]] = k
        BY <1>2 DEF WatchInv, OpenWorkersAreWatched
    <2>2. fdOf[k] \in Fds /\ fdOf[k] # NoFd
        BY <2>1, PoolNullsAssumption, SMTT(60), Z3T(60) DEF TypeOK
    <2>3. fdOf[k] # fdOf[j]
        BY <1>1, <1>2, <2>2 DEF WatchInv, FdsExclusive, TypeOK
    <2> QED
        BY <1>2, <2>1, <2>2, <2>3, SMTT(60), Z3T(60)
<1>3. CASE Respawn(j, f)
    <2>1. PICK i \in Procs, g \in FreeFds(j) :
            /\ proc[i] = "unborn"
            /\ proc' = [proc EXCEPT ![i] = "running"]
            /\ workers' = (workers \ {j}) \cup {i}
            /\ fdToWorker' = [fdToWorker EXCEPT ![f] = NoProc, ![g] = i]
            /\ channelClosed' = channelClosed \cup {j}
            /\ fdOf' = [fdOf EXCEPT ![j] = NoFd, ![i] = g]
            /\ epoll' = (epoll \ {f, fdOf[j]}) \cup {g}
        BY <1>3, ZenonT(60) DEF Respawn
    <2>s. /\ workers' = (workers \ {j}) \cup {i}
          /\ channelClosed' = channelClosed \cup {j}
          /\ epoll' = (epoll \ {f, fdOf[j]}) \cup {g}
        BY <2>1, ZenonT(60)
    <2>2. g \in Fds /\ \A k \in Procs : fdOf[k] = g => k = j
        BY DEF FreeFds
    <2>k. /\ \A k \in Procs : proc[k] = "unborn" =>
                k \notin workers /\ k \notin channelClosed /\ fdOf[k] = NoFd
          /\ \A h \in Fds, k \in Procs : fdToWorker[h] = k => proc[k] # "unborn"
          /\ \A r \in Rooms, k \in Procs : hostOf[r] = k => proc[k] # "unborn"
          /\ \A k \in Procs : proc[k] # "unborn" /\ k \notin channelClosed => fdOf[k] # NoFd
        BY ZenonT(60) DEF WatchInv, KnownProcs
    <2>3. i # j /\ i \notin channelClosed
        BY <1>1, <2>1, SMTT(60), Z3T(60) DEF WatchInv, KnownProcs
    <2>4. /\ fdOf'[i] = g /\ fdOf'[j] = NoFd
          /\ \A k \in Procs \ {i, j} : fdOf'[k] = fdOf[k]
        BY <1>1, <2>1, <2>3, SMTT(60), Z3T(60) DEF TypeOK
    <2>5. /\ fdToWorker'[g] = i
          /\ \A h \in Fds \ {f, g} : fdToWorker'[h] = fdToWorker[h]
          /\ f # g => fdToWorker'[f] = NoProc
        BY <2>1, <2>2, SMTT(60), Z3T(60) DEF TypeOK
    <2>6. /\ proc'[i] = "running"
          /\ \A k \in Procs \ {i} : proc'[k] = proc[k]
        BY <2>1, SMTT(60), Z3T(60) DEF TypeOK
    <2>7. KnownProcs'
        <3>1. \A k \in Procs : proc'[k] = "unborn" =>
                /\ k \notin workers' /\ k \notin channelClosed'
                /\ fdOf'[k] = NoFd
            BY <1>1, <2>s, <2>k, <2>4, <2>6, SMTT(60), Z3T(60)
        <3>2. \A h \in Fds, k \in Procs : fdToWorker'[h] = k => proc'[k] # "unborn"
            BY <2>k, <2>2, <2>5, <2>6, PoolNullsAssumption, SMTT(60), Z3T(60)
        <3>3. \A r \in Rooms, k \in Procs : hostOf'[r] = k => proc'[k] # "unborn"
            BY <2>k, <1>1, <2>6, ZenonT(60)
        <3>4. \A k \in Procs : proc'[k] # "unborn" /\ k \notin channelClosed' => fdOf'[k] # NoFd
            <4>1. SUFFICES ASSUME NEW k \in Procs, proc'[k] # "unborn", k \notin channelClosed'
                           PROVE  fdOf'[k] # NoFd
                BY SMTT(60), Z3T(60)
            <4>2. CASE k = i
                BY <2>2, <2>4, <4>2, PoolNullsAssumption, SMTT(60), Z3T(60)
            <4>3. CASE k # i
                BY <2>s, <2>k, <2>4, <2>6, <4>1, <4>3, SMTT(60), Z3T(60)
            <4> QED
                BY <4>2, <4>3
        <3> QED
            BY <3>1, <3>2, <3>3, <3>4, SMTT(60), Z3T(60) DEF KnownProcs
    <2>8. FdsExclusive'
        BY <1>1, <2>2, <2>3, <2>4, SMTT(60), Z3T(60) DEF WatchInv, FdsExclusive
    <2>9. OpenWorkersAreWatched'
        <3>1. SUFFICES ASSUME NEW k \in workers', k \notin channelClosed'
                       PROVE  fdOf'[k] \in epoll' /\ fdToWorker'[fdOf'[k]] = k
            BY SMTT(60), Z3T(60) DEF OpenWorkersAreWatched
        <3>2. CASE k = i
            BY <2>s, <2>4, <2>5, <3>2, SMTT(60), Z3T(60)
        <3>3. CASE k # i
            <4>1. k \in workers /\ k # j /\ k \notin channelClosed /\ k \in Procs
                BY <2>s, <3>1, <3>3, SMTT(60), Z3T(60) DEF TypeOK
            <4>2. fdOf'[k] = fdOf[k] /\ fdOf[k] # g
                BY <2>2, <2>4, <3>3, <4>1
            <4> QED
                BY <1>2, <2>s, <2>5, <4>1, <4>2, SMTT(60), Z3T(60)
        <3> QED
            BY <3>2, <3>3, SMTT(60), Z3T(60)
    <2> QED
        BY <2>7, <2>8, <2>9 DEF WatchInv
<1>4. CASE NoRespawn(j, f)
    <2>1. /\ workers' = workers \ {j} /\ proc' = proc
          /\ fdToWorker' = [fdToWorker EXCEPT ![f] = NoProc]
          /\ channelClosed' = channelClosed \cup {j}
          /\ epoll' = epoll \ {fdOf[j]}
          /\ \A k \in Procs : fdOf'[k] = IF k = j THEN NoFd ELSE fdOf[k]
        BY <1>4, SMTT(60), Z3T(60) DEF NoRespawn, CloseChannels
    <2>2. KnownProcs'
        BY <1>1, <2>1, PoolNullsAssumption, SMTT(60), Z3T(60) DEF WatchInv, KnownProcs, TypeOK
    <2>3. FdsExclusive'
        BY <2>1, SMTT(60), Z3T(60) DEF WatchInv, FdsExclusive
    <2>4. OpenWorkersAreWatched'
        <3>1. SUFFICES ASSUME NEW k \in workers', k \notin channelClosed'
                       PROVE  fdOf'[k] \in epoll' /\ fdToWorker'[fdOf'[k]] = k
            BY SMTT(60), Z3T(60) DEF OpenWorkersAreWatched
        <3>2. k \in workers /\ k # j /\ k \notin channelClosed /\ k \in Procs
            BY <2>1, <3>1, SMTT(60), Z3T(60) DEF TypeOK
        <3> QED
            BY <1>2, <2>1, <3>2, SMTT(60), Z3T(60) DEF TypeOK
    <2> QED
        BY <2>2, <2>3, <2>4, SMTT(60), Z3T(60) DEF WatchInv
<1> QED
    BY <1>3, <1>4, SMTT(60), Z3T(60) DEF ChannelEventDeath, OnWorkerDied

LEMMA StopWatch ==
    TypeOK /\ WatchInv /\ StopPool => WatchInv'
<1>a. SUFFICES ASSUME TypeOK, WatchInv, StopPool PROVE WatchInv'
    BY ZenonT(60)
<1> DEFINE C == Watched \cup workers
<1>1. \A i \in C : i \in Procs /\ proc[i] # "unborn"
    BY <1>a, SMTT(60), Z3T(60) DEF WatchInv, KnownProcs, TypeOK, Watched
<1>2. /\ channelClosed' = channelClosed \cup C
      /\ \A i \in Procs : fdOf'[i] = IF i \in C THEN NoFd ELSE fdOf[i]
      /\ \A i \in Procs : proc'[i] = IF i \in C THEN "dead" ELSE proc[i]
      /\ workers' = {}
      /\ \A f \in Fds : fdToWorker'[f] = NoProc
      /\ \A r \in Rooms : hostOf'[r] = NoProc
    <2>1. StopWith(C)
        BY <1>a, ZenonT(60) DEF StopPool
    <2> HIDE DEF C
    <2> QED
        BY <2>1, ZenonT(60) DEF StopWith, CloseChannels
<1> HIDE DEF C
<1>3. KnownProcs'
    BY <1>a, <1>1, <1>2, PoolNullsAssumption, ZenonT(60) DEF WatchInv, KnownProcs
<1>4. FdsExclusive'
    BY <1>a, <1>2, SMTT(60), Z3T(60) DEF WatchInv, FdsExclusive
<1> QED
    BY <1>2, <1>3, <1>4, SMTT(60), Z3T(60) DEF WatchInv, OpenWorkersAreWatched

LEMMA WatchStep ==
    TypeOK /\ WatchInv /\ [Next]_vars => WatchInv'
<1>a. SUFFICES ASSUME TypeOK, WatchInv, [Next]_vars PROVE WatchInv'
    BY ZenonT(60)
<1>1. ASSUME UNCHANGED <<proc, channelVars, workers, fdToWorker>>,
             \A r \in Rooms : hostOf'[r] \in {hostOf[r], NoProc}
      PROVE  WatchInv'
    BY <1>a, <1>1, SameChannelsWatch, ZenonT(60)
<1>2. ASSUME NEW i \in Procs, Die(i) PROVE WatchInv'
    <2>1. /\ proc[i] = "running"
          /\ \A k \in Procs : proc'[k] = IF k = i THEN "dead" ELSE proc[k]
          /\ UNCHANGED <<channelVars, workers, fdToWorker, hostOf>>
        BY <1>a, <1>2 DEF Die, TypeOK, poolVars, roomVars
    <2> QED
        BY <1>a, <2>1, ZenonT(60)
        DEF WatchInv, KnownProcs, FdsExclusive, OpenWorkersAreWatched, channelVars
<1>3. CASE HealthCheck
    BY <1>1, <1>3 DEF HealthCheck, osVars, poolVars
<1>4. ASSUME NEW f \in Fds, ChannelEventDeath(f) PROVE WatchInv'
    BY <1>a, <1>4, DeathWatch, SMTT(60), Z3T(60)
<1>5. CASE StopPool
    BY <1>a, <1>5, StopWatch
<1>6. CASE RunTask
    BY <1>a, <1>6, RunTaskWatch
<1>7. ASSUME UNCHANGED <<proc, channelVars, workers, fdToWorker, hostOf>>
      PROVE  WatchInv'
    BY <1>1, <1>7
<1> QED
    BY <1>a, <1>2, <1>3, <1>4, <1>5, <1>6, <1>7, ZenonT(60)
    DEF Next, Loop, Garble, Tick, HealthTimer, RequestStop, Post, EpollWait,
        TakeTasks, ChannelEventIgnored, vars, osVars, poolVars, roomVars

LEMMA WatchInit ==
    Init => WatchInv
<1>1. SUFFICES ASSUME Init PROVE WatchInv
    BY ZenonT(60)
<1>2. 1 .. NumWorkers \subseteq Procs /\ 1 .. NumWorkers \subseteq Fds
    BY SizesAssumption, FdsAssumption DEF Procs
<1>3. \A i \in Procs : i <= NumWorkers <=> i \in 1 .. NumWorkers
    BY SizesAssumption DEF Procs
<1>4. KnownProcs
    BY <1>1, <1>2, <1>3, PoolNullsAssumption, SMTT(60), Z3T(60) DEF Init, KnownProcs
<1>5. FdsExclusive /\ OpenWorkersAreWatched
    BY <1>1, <1>2, <1>3 DEF Init, FdsExclusive, OpenWorkersAreWatched
<1> QED
    BY <1>4, <1>5 DEF WatchInv

(* Every listed worker with an open channel is registered with epoll and   *)
(* found again through fdToWorker_, whatever deaths, respawns and reuses   *)
(* of descriptor numbers came before (loop, onWorkerDied, Channel::close). *)
THEOREM OpenWorkersAreWatchedCorrect == Spec => []OpenWorkersAreWatched
<1>1. WatchInv => OpenWorkersAreWatched
    BY DEF WatchInv
<1> QED
    BY <1>1, WatchInit, WatchStep, PoolTypeCorrect, PTL DEF Spec

-----------------------------------------------------------------------------
(* Why a worker is dropped *)

(* A listed worker is not closed, and neither is one not yet spawned.      *)
ListedOpen ==
    /\ \A i \in workers : i \notin workerClosed
    /\ \A i \in Procs : proc[i] = "unborn" => i \notin workerClosed

LEMMA ListedOpenStep ==
    TypeOK /\ WatchInv /\ ListedOpen /\ [Next]_vars => ListedOpen'
<1>a. SUFFICES ASSUME TypeOK, WatchInv, ListedOpen, [Next]_vars PROVE ListedOpen'
    BY ZenonT(60)
<1>1. ASSUME UNCHANGED <<proc, workers, workerClosed>> PROVE ListedOpen'
    BY <1>a, <1>1, SMTT(60), Z3T(60) DEF ListedOpen
<1>2. ASSUME NEW i \in Procs, Die(i) PROVE ListedOpen'
    BY <1>a, <1>2 DEF Die, ListedOpen, TypeOK, poolVars
<1>3. ASSUME NEW f \in Fds, ChannelEventDeath(f) PROVE ListedOpen'
    <2> DEFINE j == fdToWorker[f]
    <2>1. j \in Procs /\ proc[j] # "unborn" /\ workerClosed' = workerClosed \cup {j}
        BY <1>a, <1>3, SMTT(60), Z3T(60)
           DEF ChannelEventDeath, WorkerDied, TypeOK, WatchInv, KnownProcs
    <2>2. CASE Respawn(j, f)
        <3>1. PICK i \in Procs : /\ proc[i] = "unborn"
                                 /\ proc' = [proc EXCEPT ![i] = "running"]
                                 /\ workers' = (workers \ {j}) \cup {i}
            BY <2>2, ZenonT(60) DEF Respawn
        <3> QED
            BY <1>a, <2>1, <3>1 DEF ListedOpen, TypeOK
    <2>3. CASE NoRespawn(j, f)
        BY <1>a, <2>1, <2>3 DEF NoRespawn, ListedOpen
    <2> QED
        BY <1>3, <2>2, <2>3, SMTT(60), Z3T(60) DEF ChannelEventDeath, OnWorkerDied
<1>4. CASE StopPool
    <2>1. \A i \in Watched \cup workers : i \in Procs /\ proc[i] # "unborn"
        BY <1>a DEF WatchInv, KnownProcs, TypeOK, Watched
    <2>2. /\ workers' = {} /\ workerClosed' = workerClosed \cup (Watched \cup workers)
          /\ \A i \in Procs : proc'[i] = IF i \in Watched \cup workers THEN "dead" ELSE proc[i]
        BY <1>4, SMTT(60), Z3T(60) DEF StopPool, StopWith
    <2> QED
        BY <1>a, <2>1, <2>2, SMTT(60), Z3T(60) DEF ListedOpen
<1>5. CASE RunTask
    BY <1>1, <1>5, ZenonT(60)
    DEF RunTask, RunJoinNoRouter, RunJoinNewRoom, RunRequest, RunLeave, NextTask,
        osVars, poolVars
<1> QED
    BY <1>a, <1>1, <1>2, <1>3, <1>4, <1>5, ZenonT(60)
    DEF Next, Loop, Garble, Tick, HealthTimer, RequestStop, Post, EpollWait,
        TakeTasks, HealthCheck, ChannelEventIgnored, vars, osVars, poolVars

(* What a single step may drop.                                            *)
DroppedForCause ==
    \A i \in workers :
        \/ i \in workers' \/ stopped'
        \/ proc[i] = "dead" \/ i \in garbled \/ i \in channelClosed

LEMMA DropStep ==
    TypeOK /\ WatchInv /\ ListedOpen /\ [Next]_vars => [DroppedForCause]_vars
<1>a. SUFFICES ASSUME TypeOK, WatchInv, ListedOpen, [Next]_vars PROVE DroppedForCause
    BY ZenonT(60)
<1>1. ASSUME workers' = workers PROVE DroppedForCause
    BY <1>1 DEF DroppedForCause
<1>2. ASSUME NEW f \in Fds, ChannelEventDeath(f) PROVE DroppedForCause
    <2> DEFINE j == fdToWorker[f]
    <2>1. workers \ {j} \subseteq workers'
        BY <1>2 DEF ChannelEventDeath, OnWorkerDied, Respawn, NoRespawn
    <2>2. ~StillAlive(j)
        BY <1>2, SMTT(60), Z3T(60) DEF ChannelEventDeath
    <2>3. j \in workers =>
            /\ j \notin workerClosed
            /\ proc[j] \in {"running", "dead"}
        BY <1>a DEF ListedOpen, WatchInv, KnownProcs, TypeOK
    <2>4. j \in workers =>
            \/ proc[j] = "dead" \/ j \in garbled \/ j \in channelClosed
        BY <2>2, <2>3, SMTT(60), Z3T(60) DEF StillAlive
    <2> QED
        BY <2>1, <2>4, SMTT(60), Z3T(60) DEF DroppedForCause
<1>3. CASE StopPool
    BY <1>3, SMTT(60), Z3T(60) DEF StopPool, StopWith, DroppedForCause
<1>4. CASE RunTask
    BY <1>1, <1>4
    DEF RunTask, RunJoinNoRouter, RunJoinNewRoom, RunRequest, RunLeave, NextTask, poolVars
<1> QED
    BY <1>a, <1>1, <1>2, <1>3, <1>4, ZenonT(60)
    DEF Next, Loop, Die, Garble, Tick, HealthTimer, RequestStop, Post, EpollWait,
        TakeTasks, HealthCheck, ChannelEventIgnored, vars, poolVars

(* No step drops a healthy worker from the pool: an event left over in a   *)
(* batch is never taken for the death of a worker that got the descriptor  *)
(* number later (loop, processChannelData).                                *)
THEOREM OnlyBrokenWorkersAreDroppedCorrect == Spec => OnlyBrokenWorkersAreDropped
<1>1. Init => ListedOpen
    BY DEF Init, ListedOpen
<1>2. Spec => [](TypeOK /\ WatchInv /\ ListedOpen)
    BY <1>1, WatchInit, WatchStep, ListedOpenStep, TypeInit, TypeStep, PTL DEF Spec
<1>3. Spec => [][DroppedForCause]_vars
    BY <1>2, DropStep, PTL DEF Spec
<1> QED
    BY <1>3 DEF OnlyBrokenWorkersAreDropped, DroppedForCause

-----------------------------------------------------------------------------
(* The rate of respawns *)

(* Oldest first.                                                           *)
Sorted(ages) == \A i, j \in 1 .. Len(ages) : i <= j => ages[j] <= ages[i]
Recent(ages) == \A i \in 1 .. Len(ages) : ages[i] <= RespawnWindow

(* Counted from the newest, each respawn has a death recorded no earlier.  *)
Covers(deaths, respawns) ==
    /\ Len(respawns) <= Len(deaths)
    /\ \A i \in 1 .. Len(respawns) :
         deaths[(Len(deaths) - Len(respawns)) + i] <= respawns[i]

(* The inductive invariant: the deaths on record account for every respawn *)
(* of the window, so testing the number of deaths limits the respawns.     *)
RateInv ==
    /\ Sorted(respawnTimes) /\ Sorted(respawned) /\ Recent(respawned)
    /\ Covers(respawnTimes, respawned)
    /\ Len(respawned) <= RespawnLimit

LEMMA AgesFacts ==
    ASSUME NEW ages \in Seq(Ages)
    PROVE  /\ Len(ages) \in Nat
           /\ \A k \in 1 .. Len(ages) : ages[k] \in Nat /\ ages[k] <= RespawnWindow + 1
<1>1. Len(ages) \in Nat
    OBVIOUS
<1>2. \A k \in 1 .. Len(ages) : ages[k] \in Ages
    OBVIOUS
<1> QED
    BY <1>1, <1>2, SizesAssumption DEF Ages

(* As the oldest come first, the expired entries are the first ones: the   *)
(* number popped is the number of the last expired entry.                  *)
LEMMA ExpiredIsPrefix ==
    ASSUME NEW ages \in Seq(Ages), Sorted(ages),
           NEW e, e = Cardinality(Expired(ages))
    PROVE  /\ e \in 0 .. Len(ages)
           /\ \A k \in 1 .. Len(ages) : k <= e <=> ages[k] > RespawnWindow
<1> DEFINE n == Len(ages)
<1>1. n \in Nat
    BY AgesFacts
<1>2. Expired(ages) \subseteq 1 .. n
    BY DEF Expired
<1>3. \A m \in 0 .. n : IsFiniteSet(1 .. m) /\ Cardinality(1 .. m) = m
    BY <1>1, FS_Interval
<1>4. IsFiniteSet(Expired(ages)) /\ e \in Nat /\ e <= n
    <2>1. IsFiniteSet(1 .. n) /\ Cardinality(1 .. n) = n
        BY <1>1, <1>3
    <2>2. IsFiniteSet(Expired(ages)) /\ Cardinality(Expired(ages)) <= n
        BY <1>2, <2>1, FS_Subset
    <2> QED
        BY <2>2, FS_CardinalityType
<1>5. ASSUME NEW k \in 1 .. n, ages[k] > RespawnWindow PROVE k <= e
    <2>1. 1 .. k \subseteq Expired(ages)
        <3> SUFFICES ASSUME NEW j \in 1 .. k PROVE j \in 1 .. n /\ ages[j] > RespawnWindow
            BY DEF Expired
        <3>1. j \in 1 .. n /\ ages[k] <= ages[j]
            BY <1>1 DEF Sorted
        <3>2. ages[j] \in Nat /\ ages[k] \in Nat
            BY <3>1, AgesFacts
        <3> QED
            BY <1>5, <3>1, <3>2, SizesAssumption
    <2>2. Cardinality(1 .. k) <= Cardinality(Expired(ages))
        BY <1>4, <2>1, FS_Subset
    <2> QED
        BY <1>1, <1>3, <2>2
<1>6. ASSUME NEW k \in 1 .. n, ~(ages[k] > RespawnWindow) PROVE e < k
    <2>1. Expired(ages) \subseteq 1 .. (k - 1)
        <3> SUFFICES ASSUME NEW j \in 1 .. n, ages[j] > RespawnWindow PROVE j < k
            BY <1>1 DEF Expired
        <3>1. k <= j => ages[j] <= ages[k]
            BY DEF Sorted
        <3>2. ages[j] \in Nat /\ ages[k] \in Nat
            BY AgesFacts
        <3> QED
            BY <1>1, <1>6, <3>1, <3>2, SizesAssumption
    <2>2. k - 1 \in 0 .. n
        BY <1>1
    <2>3. e <= k - 1
        <3>1. IsFiniteSet(1 .. (k - 1)) /\ Cardinality(1 .. (k - 1)) = k - 1
            BY <1>3, <2>2
        <3> QED
            BY <2>1, <3>1, FS_Subset
    <2> QED
        BY <1>4, <2>2, <2>3
<1>7. \A k \in 1 .. n : k <= e <=> ages[k] > RespawnWindow
    BY <1>1, <1>4, <1>5, <1>6
<1> QED
    BY <1>1, <1>4, <1>7

(* What popping leaves.                                                    *)
LEMMA InWindowFacts ==
    ASSUME NEW ages \in Seq(Ages), Sorted(ages),
           NEW e, e = Cardinality(Expired(ages)), NEW rest, rest = InWindow(ages)
    PROVE  /\ rest \in Seq(Ages) /\ e \in 0 .. Len(ages) /\ Len(rest) = Len(ages) - e
           /\ \A i \in 1 .. Len(rest) : e + i \in 1 .. Len(ages) /\ rest[i] = ages[e + i]
           /\ Sorted(rest) /\ Recent(rest)
<1> DEFINE n == Len(ages)
<1>1. n \in Nat /\ e \in 0 .. n
    BY AgesFacts, ExpiredIsPrefix
<1>2. rest \in Seq(Ages)
    BY InWindowTyped
<1>3. rest = SubSeq(ages, e + 1, n)
    BY DEF InWindow
<1>4. Len(rest) = n - e
    BY <1>1, <1>3, SMTT(60), Z3T(60)
<1>5. \A i \in 1 .. Len(rest) : rest[i] = ages[e + i]
    <2>1. \A i \in 1 .. (n - e) : rest[i] = ages[(e + 1) + i - 1]
        BY <1>1, <1>3, SMTT(60), Z3T(60)
    <2>2. \A i \in 1 .. (n - e) : (e + 1) + i - 1 = e + i
        BY <1>1
    <2> QED
        BY <1>4, <2>1, <2>2, SMTT(60), Z3T(60)
<1>6. \A i \in 1 .. Len(rest) : e + i \in 1 .. n /\ ~(e + i <= e)
    BY <1>1, <1>4
<1>7. Sorted(rest)
    <2> SUFFICES ASSUME NEW i \in 1 .. Len(rest), NEW j \in 1 .. Len(rest), i <= j
                 PROVE  rest[j] <= rest[i]
        BY DEF Sorted
    <2>1. e + i <= e + j
        BY <1>1, <1>4
    <2> QED
        BY <1>5, <1>6, <2>1 DEF Sorted
<1>8. Recent(rest)
    <2> SUFFICES ASSUME NEW i \in 1 .. Len(rest) PROVE rest[i] <= RespawnWindow
        BY DEF Recent
    <2>1. ~(ages[e + i] > RespawnWindow) /\ ages[e + i] \in Nat
        BY <1>6, ExpiredIsPrefix, AgesFacts
    <2> QED
        BY <1>5, <2>1, SizesAssumption
<1> QED
    BY <1>1, <1>2, <1>4, <1>5, <1>6, <1>7, <1>8, SMTT(60), Z3T(60)

(* Nothing is popped when nothing has expired.                             *)
LEMMA RecentStays ==
    ASSUME NEW ages \in Seq(Ages), Sorted(ages), Recent(ages)
    PROVE  InWindow(ages) = ages
<1>1. PICK e : e = Cardinality(Expired(ages))
    OBVIOUS
<1>2. /\ InWindow(ages) \in Seq(Ages) /\ e \in 0 .. Len(ages)
      /\ Len(InWindow(ages)) = Len(ages) - e
      /\ \A i \in 1 .. Len(InWindow(ages)) : InWindow(ages)[i] = ages[e + i]
    BY <1>1, InWindowFacts
<1>3. Len(ages) \in Nat
    OBVIOUS
<1>4. e = 0
    <2>1. SUFFICES ASSUME e # 0 PROVE FALSE
        OBVIOUS
    <2>2. 1 \in 1 .. Len(ages) /\ 1 <= e
        BY <1>2, <1>3, <2>1
    <2>3. ages[1] > RespawnWindow
        BY <1>1, <2>2, ExpiredIsPrefix
    <2>4. ages[1] <= RespawnWindow /\ ages[1] \in Nat
        BY <2>2, AgesFacts, SMTT(60), Z3T(60) DEF Recent
    <2> QED
        BY <2>3, <2>4, SizesAssumption
<1>5. Len(InWindow(ages)) = Len(ages) /\ \A i \in 1 .. Len(ages) : InWindow(ages)[i] = ages[i]
    BY <1>2, <1>3, <1>4
<1> QED
    BY <1>2, <1>5

(* Time passes: the order of the entries stays.                            *)
LEMMA OlderFacts ==
    ASSUME NEW ages \in Seq(Ages), NEW old, old = Older(ages)
    PROVE  /\ old \in Seq(Ages) /\ Len(old) = Len(ages)
           /\ \A k \in 1 .. Len(ages) :
                 old[k] = IF ages[k] > RespawnWindow THEN ages[k] ELSE ages[k] + 1
           /\ Sorted(ages) => Sorted(old)
<1>1. old \in Seq(Ages)
    BY OlderTyped
<1>2. Len(ages) \in Nat
    OBVIOUS
<1>3. Len(old) = Len(ages)
    BY <1>2 DEF Older
<1>4. \A k \in 1 .. Len(ages) :
        old[k] = IF ages[k] > RespawnWindow THEN ages[k] ELSE ages[k] + 1
    BY DEF Older
<1>5. ASSUME Sorted(ages), NEW i \in 1 .. Len(ages), NEW j \in 1 .. Len(ages), i <= j
      PROVE  old[j] <= old[i]
    <2>1. ages[j] <= ages[i]
        BY <1>5 DEF Sorted
    <2>2. ages[i] \in Nat /\ ages[j] \in Nat
        BY AgesFacts
    <2> QED
        BY <1>4, <2>1, <2>2, SizesAssumption, SMTT(60), Z3T(60)
<1>6. Sorted(ages) => Sorted(old)
    BY <1>3, <1>5 DEF Sorted
<1> QED
    BY <1>1, <1>3, <1>4, <1>6

LEMMA Shift ==
    ASSUME NEW m \in Nat, NEW n \in Nat, n <= m, NEW k \in 1 .. n
    PROVE  (m - n) + k \in 1 .. m
OBVIOUS

(* A suffix of the respawns is covered by the same deaths.                 *)
LEMMA TickCovers ==
    ASSUME NEW d \in Seq(Ages), NEW r \in Seq(Ages), Sorted(r), Covers(d, r),
           NEW d2, d2 = Older(d), NEW r2, r2 = InWindow(Older(r))
    PROVE  /\ r2 \in Seq(Ages) /\ Sorted(r2) /\ Recent(r2) /\ Len(r2) <= Len(r)
           /\ Covers(d2, r2)
<1>0. PICK o : o = Older(r)
    OBVIOUS
<1>1. /\ o \in Seq(Ages) /\ Len(o) = Len(r) /\ Sorted(o)
      /\ \A k \in 1 .. Len(r) :
            o[k] = IF r[k] > RespawnWindow THEN r[k] ELSE r[k] + 1
    BY <1>0, OlderFacts
<1>2. PICK e : e = Cardinality(Expired(o))
    BY SMTT(60), Z3T(60)
<1>3. /\ r2 \in Seq(Ages) /\ e \in 0 .. Len(r) /\ Len(r2) = Len(r) - e
      /\ \A i \in 1 .. Len(r2) : e + i \in 1 .. Len(r) /\ r2[i] = o[e + i]
      /\ Sorted(r2) /\ Recent(r2)
    BY <1>0, <1>1, <1>2, InWindowFacts, SMTT(60), Z3T(60)
<1>4. /\ Len(d2) = Len(d)
      /\ \A k \in 1 .. Len(d) : d2[k] = IF d[k] > RespawnWindow THEN d[k] ELSE d[k] + 1
    BY OlderFacts
<1>5. Len(d) \in Nat /\ Len(r) \in Nat /\ Len(r) <= Len(d)
    BY AgesFacts, SMTT(60), Z3T(60) DEF Covers
<1>6. ASSUME NEW i \in 1 .. Len(r2) PROVE d2[(Len(d2) - Len(r2)) + i] <= r2[i]
    <2>1. (Len(d2) - Len(r2)) + i = (Len(d) - Len(r)) + (e + i)
        BY <1>3, <1>4, <1>5, SMTT(60), Z3T(60)
    <2>2. PICK k \in 1 .. Len(r) : k = e + i
        BY <1>3
    <2>3. PICK m \in 1 .. Len(d) : m = (Len(d) - Len(r)) + k
        <3>1. (Len(d) - Len(r)) + k \in 1 .. Len(d)
            BY <1>5, Shift
        <3> QED
            BY <3>1, ZenonT(60)
    <2>4. d[m] <= r[k]
        <3>1. d[(Len(d) - Len(r)) + k] <= r[k]
            BY ZenonT(60) DEF Covers
        <3> QED
            BY <2>3, <3>1
    <2>5. d[m] \in Nat /\ r[k] \in Nat
        BY AgesFacts, SMTT(60), Z3T(60)
    <2>6. d2[m] <= o[k]
        BY <1>1, <1>4, <2>4, <2>5, SizesAssumption, SMTT(60), Z3T(60)
    <2> QED
        BY <1>3, <2>1, <2>2, <2>3, <2>6, SMTT(60), Z3T(60)
<1>7. Len(r2) <= Len(r) /\ Len(r2) <= Len(d2)
    BY <1>3, <1>4, <1>5
<1> QED
    BY <1>3, <1>6, <1>7 DEF Covers

(* Popping expired deaths never uncovers a respawn of the window.          *)
LEMMA WindowCovers ==
    ASSUME NEW d \in Seq(Ages), NEW r \in Seq(Ages), Sorted(d), Recent(r), Covers(d, r),
           NEW d2, d2 = InWindow(d)
    PROVE  Covers(d2, r)
<1>1. PICK e : e = Cardinality(Expired(d))
    OBVIOUS
<1>2. /\ e \in 0 .. Len(d) /\ Len(d2) = Len(d) - e
      /\ \A i \in 1 .. Len(d2) : d2[i] = d[e + i]
    BY <1>1, InWindowFacts
<1>3. Len(d) \in Nat /\ Len(r) \in Nat /\ Len(r) <= Len(d)
    BY AgesFacts DEF Covers
<1>4. e <= Len(d) - Len(r)
    <2>1. SUFFICES ASSUME e > Len(d) - Len(r) PROVE FALSE
        BY <1>2, <1>3, SMTT(60), Z3T(60)
    <2>2. e - (Len(d) - Len(r)) \in 1 .. Len(r)
        BY <1>2, <1>3, <2>1
    <2>3. PICK i \in 1 .. Len(r) : (Len(d) - Len(r)) + i = e
        <3>1. (Len(d) - Len(r)) + (e - (Len(d) - Len(r))) = e
            BY <1>2, <1>3, SMTT(60), Z3T(60)
        <3> QED
            BY <2>2, <3>1, ZenonT(60)
    <2>4. e \in 1 .. Len(d)
        BY <1>2, <1>3, <2>3
    <2>5. d[e] <= r[i] /\ r[i] <= RespawnWindow
        <3>1. d[(Len(d) - Len(r)) + i] <= r[i] /\ r[i] <= RespawnWindow
            BY ZenonT(60) DEF Covers, Recent
        <3> QED
            BY <2>3, <3>1
    <2>6. d[e] > RespawnWindow
        BY <1>1, <1>2, <2>4, ExpiredIsPrefix, SMTT(60), Z3T(60)
    <2>7. d[e] \in Nat /\ r[i] \in Nat
        BY <2>4, AgesFacts
    <2> QED
        BY <2>5, <2>6, <2>7, SizesAssumption, SMTT(60), Z3T(60)
<1>5. ASSUME NEW i \in 1 .. Len(r) PROVE d2[(Len(d2) - Len(r)) + i] <= r[i]
    <2>1. /\ (Len(d2) - Len(r)) + i \in 1 .. Len(d2)
          /\ e + ((Len(d2) - Len(r)) + i) = (Len(d) - Len(r)) + i
        BY <1>2, <1>3, <1>4
    <2> QED
        BY <1>2, <2>1, ZenonT(60) DEF Covers
<1>6. Len(r) <= Len(d2)
    BY <1>2, <1>3, <1>4
<1> QED
    BY <1>5, <1>6 DEF Covers

(* A death is recorded, and perhaps a respawn with it.                     *)
LEMMA AppendSorted ==
    ASSUME NEW ages \in Seq(Ages), NEW more, more = Append(ages, 0)
    PROVE  /\ more \in Seq(Ages) /\ Len(more) = Len(ages) + 1 /\ Len(ages) \in Nat
           /\ \A i \in 1 .. Len(ages) : more[i] = ages[i]
           /\ more[Len(ages) + 1] = 0
           /\ Sorted(ages) => Sorted(more)
           /\ Recent(ages) => Recent(more)
<1>0. 0 \in Ages
    BY SizesAssumption DEF Ages
<1>1. /\ more \in Seq(Ages) /\ Len(more) = Len(ages) + 1 /\ Len(ages) \in Nat
      /\ \A i \in 1 .. Len(ages) : more[i] = ages[i]
      /\ more[Len(ages) + 1] = 0
    BY <1>0
<1>2. \A i \in 1 .. Len(more) : more[i] \in Nat /\ (i \in 1 .. Len(ages) \/ i = Len(ages) + 1)
    BY <1>1, AgesFacts
<1>3. ASSUME Sorted(ages), NEW i \in 1 .. Len(more), NEW j \in 1 .. Len(more), i <= j
      PROVE  more[j] <= more[i]
    <2>1. CASE j = Len(ages) + 1
        BY <1>1, <1>2, <2>1
    <2>2. CASE j \in 1 .. Len(ages)
        <3>1. i \in 1 .. Len(ages)
            BY <1>1, <1>3, <2>2, SMTT(60), Z3T(60)
        <3> QED
            BY <1>1, <1>3, <2>2, <3>1 DEF Sorted
    <2> QED
        BY <1>2, <2>1, <2>2
<1>4. ASSUME Recent(ages), NEW i \in 1 .. Len(more) PROVE more[i] <= RespawnWindow
    BY <1>1, <1>2, <1>4, SizesAssumption, SMTT(60), Z3T(60) DEF Recent
<1> QED
    BY <1>1, <1>3, <1>4 DEF Sorted, Recent

LEMMA RespawnCovers ==
    ASSUME NEW d \in Seq(Ages), NEW r \in Seq(Ages), Covers(d, r),
           NEW d2, d2 = Append(d, 0), NEW r2, r2 = Append(r, 0)
    PROVE  Covers(d2, r2)
<1>1. /\ Len(d2) = Len(d) + 1 /\ Len(d) \in Nat /\ d2[Len(d) + 1] = 0
      /\ \A i \in 1 .. Len(d) : d2[i] = d[i]
    BY AppendSorted
<1>2. /\ Len(r2) = Len(r) + 1 /\ Len(r) \in Nat /\ r2[Len(r) + 1] = 0
      /\ \A i \in 1 .. Len(r) : r2[i] = r[i]
    BY AppendSorted
<1>3. Len(r) <= Len(d)
    BY DEF Covers
<1>4. ASSUME NEW i \in 1 .. Len(r2) PROVE d2[(Len(d2) - Len(r2)) + i] <= r2[i]
    <2>1. PICK k : k = (Len(d) - Len(r)) + i /\ k = (Len(d2) - Len(r2)) + i
        <3>1. Len(d2) - Len(r2) = Len(d) - Len(r)
            BY <1>1, <1>2
        <3> QED
            BY <3>1, ZenonT(60)
    <2>2. CASE i \in 1 .. Len(r)
        <3>1. d[(Len(d) - Len(r)) + i] <= r[i]
            BY <2>2, ZenonT(60) DEF Covers
        <3>2. k \in 1 .. Len(d)
            BY <1>1, <1>2, <1>3, <2>1, <2>2, Shift
        <3>3. d2[k] = d[k] /\ r2[i] = r[i]
            BY <1>1, <1>2, <2>2, <3>2
        <3> QED
            BY <2>1, <3>1, <3>3, ZenonT(60)
    <2>3. CASE i = Len(r) + 1
        <3>1. k = Len(d) + 1
            BY <1>1, <1>2, <2>1, <2>3
        <3>2. d2[k] = 0 /\ r2[i] = 0
            BY <1>1, <1>2, <2>3, <3>1
        <3>3. d2[k] <= r2[i]
            <4>1. \A a, b : a = 0 /\ b = 0 => a <= b
                OBVIOUS
            <4> QED
                BY <3>2, <4>1, ZenonT(60)
        <3> QED
            BY <2>1, <3>3, ZenonT(60)
    <2>4. i \in 1 .. Len(r) \/ i = Len(r) + 1
        BY <1>2
    <2> QED
        BY <2>2, <2>3, <2>4, ZenonT(60)
<1>5. Len(r2) <= Len(d2)
    BY <1>1, <1>2, <1>3
<1> QED
    BY <1>4, <1>5, ZenonT(60) DEF Covers

LEMMA DeathCovers ==
    ASSUME NEW d \in Seq(Ages), NEW r \in Seq(Ages), Covers(d, r), Sorted(r),
           NEW d2, d2 = Append(d, 0)
    PROVE  Covers(d2, r)
<1>1. /\ Len(d2) = Len(d) + 1 /\ Len(d) \in Nat /\ d2[Len(d) + 1] = 0
      /\ \A i \in 1 .. Len(d) : d2[i] = d[i]
    BY AppendSorted
<1>2. Len(r) \in Nat /\ Len(r) <= Len(d) /\ \A i \in 1 .. Len(r) : r[i] \in Nat
    BY AgesFacts DEF Covers
<1>3. ASSUME NEW i \in 1 .. Len(r) PROVE d2[(Len(d2) - Len(r)) + i] <= r[i]
    <2>1. CASE i = Len(r)
        <3>1. (Len(d2) - Len(r)) + i = Len(d) + 1
            BY <1>1, <1>2, <2>1
        <3>2. d2[(Len(d2) - Len(r)) + i] = 0
            BY <1>1, <3>1, SMTT(60), Z3T(60)
        <3>3. 0 <= r[i]
            BY <1>2
        <3> QED
            BY <3>2, <3>3, ZenonT(60)
    <2>2. CASE i # Len(r)
        <3>1. PICK j \in 1 .. Len(r) : j = i + 1
            BY <1>2, <2>2
        <3>2. PICK k \in 1 .. Len(d) : k = (Len(d) - Len(r)) + j /\ k = (Len(d2) - Len(r)) + i
            <4>1. (Len(d) - Len(r)) + j = (Len(d2) - Len(r)) + i
                BY <1>1, <1>2, <3>1, SMTT(60), Z3T(60)
            <4>2. (Len(d) - Len(r)) + j \in 1 .. Len(d)
                BY <1>1, <1>2, Shift
            <4> QED
                BY <4>1, <4>2, ZenonT(60)
        <3>3. d[(Len(d) - Len(r)) + j] <= r[j]
            BY ZenonT(60) DEF Covers
        <3>4. i <= j
            BY <1>2, <3>1, SMTT(60), Z3T(60)
        <3>5. r[j] <= r[i]
            BY <3>4, SMTT(60), Z3T(60) DEF Sorted
        <3>6. d[k] \in Nat /\ r[j] \in Nat /\ r[i] \in Nat /\ d2[k] = d[k]
            BY <1>1, <1>2, AgesFacts, SMTT(60), Z3T(60)
        <3>7. d[k] <= r[i]
            BY <3>2, <3>3, <3>5, <3>6, SMTT(60), Z3T(60)
        <3> QED
            BY <3>2, <3>6, <3>7, SMTT(60), Z3T(60)
    <2> QED
        BY <2>1, <2>2, ZenonT(60)
<1>4. Len(r) <= Len(d2)
    BY <1>1, <1>2
<1> QED
    BY <1>3, <1>4, ZenonT(60) DEF Covers

LEMMA RateStep == TypeOK /\ RateInv /\ [Next]_vars => RateInv'
<1> SUFFICES ASSUME TypeOK, RateInv, [Next]_vars PROVE RateInv'
    BY SMTT(60), Z3T(60)
<1>1. /\ respawnTimes \in Seq(Ages) /\ respawned \in Seq(Ages)
      /\ Sorted(respawnTimes) /\ Sorted(respawned) /\ Recent(respawned)
      /\ Covers(respawnTimes, respawned) /\ Len(respawned) <= RespawnLimit
      /\ Len(respawned) \in Nat /\ RespawnLimit \in Nat
    BY AgesFacts, SizesAssumption, SMTT(60), Z3T(60) DEF TypeOK, RateInv
<1>2. CASE Tick
    <2>1. respawnTimes' = Older(respawnTimes) /\ respawned' = InWindow(Older(respawned))
        BY <1>2 DEF Tick
    <2>2. Sorted(respawnTimes')
        BY <1>1, <2>1, OlderFacts
    <2>3. /\ respawned' \in Seq(Ages) /\ Sorted(respawned') /\ Recent(respawned')
          /\ Len(respawned') <= Len(respawned) /\ Covers(respawnTimes', respawned')
        BY <1>1, <2>1, TickCovers
    <2>4. Len(respawned') \in Nat
        BY <2>3, AgesFacts
    <2> QED
        BY <1>1, <2>2, <2>3, <2>4, SMTT(60), Z3T(60) DEF RateInv
<1>3. ASSUME NEW f \in Fds, ChannelEventDeath(f) PROVE RateInv'
    <2>1. PICK d : d = Append(respawnTimes, 0)
        BY ZenonT(60)
    <2>2. d \in Seq(Ages) /\ Sorted(d)
        BY <1>1, <2>1, AppendSorted, ZenonT(60)
    <2>3. respawnTimes' = InWindow(d)
        BY <1>3, <2>1 DEF ChannelEventDeath, OnWorkerDied
    <2>4. Sorted(respawnTimes') /\ respawnTimes' \in Seq(Ages)
        BY <2>2, <2>3, InWindowFacts, SMTT(60), Z3T(60)
    <2>5. CASE respawned' = respawned
        <3>1. Covers(d, respawned)
            BY <1>1, <2>1, DeathCovers, ZenonT(60)
        <3>2. Covers(respawnTimes', respawned)
            BY <1>1, <2>2, <2>3, <3>1, WindowCovers
        <3> QED
            BY <1>1, <2>4, <2>5, <3>2 DEF RateInv
    <2>6. CASE /\ Len(respawnTimes') <= RespawnLimit
               /\ respawned' = Append(InWindow(respawned), 0)
        <3>1. respawned' = Append(respawned, 0)
            BY <1>1, <2>6, RecentStays, SMTT(60), Z3T(60)
        <3>2. /\ respawned' \in Seq(Ages) /\ Sorted(respawned') /\ Recent(respawned')
            BY <1>1, <3>1, AppendSorted, ZenonT(60)
        <3>3. Covers(d, respawned')
            BY <1>1, <2>1, <3>1, RespawnCovers, ZenonT(60)
        <3>4. Covers(respawnTimes', respawned')
            BY <2>2, <2>3, <3>2, <3>3, WindowCovers
        <3>5. Len(respawned') <= Len(respawnTimes')
            BY <3>4, SMTT(60), Z3T(60) DEF Covers
        <3>6. Len(respawned') <= RespawnLimit
            BY <1>1, <2>4, <2>6, <3>2, <3>5, AgesFacts, SMTT(60), Z3T(60)
        <3> QED
            BY <2>4, <3>2, <3>4, <3>6 DEF RateInv
    <2>7. \/ respawned' = respawned
          \/ Len(respawnTimes') <= RespawnLimit /\ respawned' = Append(InWindow(respawned), 0)
        BY <1>3, ZenonT(60) DEF ChannelEventDeath, OnWorkerDied, Respawn, NoRespawn
    <2> QED
        BY <2>5, <2>6, <2>7
<1>4. CASE UNCHANGED <<respawnTimes, respawned>>
    BY <1>4, SMTT(60), Z3T(60) DEF RateInv
<1>5. CASE RunTask
    BY <1>4, <1>5, ZenonT(60)
    DEF RunTask, RunJoinNoRouter, RunJoinNewRoom, RunRequest, RunLeave, NextTask, poolVars
<1>6. CASE StopPool
    BY <1>4, <1>6, SMTT(60), Z3T(60) DEF StopPool, StopWith
<1> QED
    BY <1>2, <1>3, <1>4, <1>5, <1>6, ZenonT(60)
    DEF Next, Loop, Die, Garble, HealthTimer, RequestStop, Post, EpollWait,
        TakeTasks, HealthCheck, ChannelEventIgnored, vars, poolVars

(* However deaths bunch up, at most RespawnLimit processes are respawned   *)
(* within any window of RespawnWindow, for every limit and window: the     *)
(* deaths recorded in respawnTimes_ always account for the respawns        *)
(* (onWorkerDied).                                                         *)
THEOREM RespawnRateBoundedCorrect == Spec => []RespawnRateBounded
<1>1. Init => RateInv
    BY SizesAssumption, SMTT(60), Z3T(60) DEF Init, RateInv, Sorted, Recent, Covers
<1>2. TypeOK /\ RateInv => RespawnRateBounded
    BY RecentStays, SMTT(60), Z3T(60) DEF TypeOK, RateInv, RespawnRateBounded
<1> QED
    BY <1>1, <1>2, RateStep, PoolTypeCorrect, PTL DEF Spec

-----------------------------------------------------------------------------
(* Rooms and the workers of the pool *)

(* Inductive: only a worker of the pool has routers.                       *)
RouterHosts == \A i \in Procs : routers[i] # {} => i \in workers

LEMMA RouterHostsStep ==
    TypeOK /\ RouterHosts /\ [Next]_vars => RouterHosts'
<1>a. SUFFICES ASSUME TypeOK, RouterHosts, [Next]_vars PROVE RouterHosts'
    BY ZenonT(60)
<1>1. ASSUME UNCHANGED <<routers, workers>> PROVE RouterHosts'
    BY <1>a, <1>1 DEF RouterHosts
<1>2. ASSUME NEW f \in Fds, ChannelEventDeath(f) PROVE RouterHosts'
    <2> DEFINE j == fdToWorker[f]
    <2>1. j \in Procs /\ routers' = [routers EXCEPT ![j] = {}]
        BY <1>a, <1>2 DEF TypeOK, ChannelEventDeath, WorkerDied
    <2>2. workers \ {j} \subseteq workers'
        BY <1>2, SMTT(60), Z3T(60) DEF ChannelEventDeath, OnWorkerDied, Respawn, NoRespawn
    <2> QED
        BY <1>a, <2>1, <2>2 DEF RouterHosts, TypeOK
<1>3. CASE StopPool
    BY <1>3 DEF StopPool, StopWith, RouterHosts
<1>4. CASE RunTask
    <2> DEFINE r == Head(current).room
    <2>1. workers' = workers
        BY <1>4, ZenonT(60)
        DEF RunTask, RunJoinNoRouter, RunJoinNewRoom, RunRequest, RunLeave, NextTask, poolVars
    <2>2. CASE RunJoinNoRouter \/ RunRequest
        BY <1>1, <2>1, <2>2 DEF RunJoinNoRouter, RunRequest, roomVars
    <2>3. CASE RunJoinNewRoom
        <3>1. PICK i \in workers, ok \in BOOLEAN :
                IF ok THEN routers' = [routers EXCEPT ![i] = routers[i] \cup {r}]
                ELSE routers' = routers
            BY <2>3, SMTT(60), Z3T(60) DEF RunJoinNewRoom
        <3> QED
            BY <1>a, <2>1, <3>1, SMTT(60), Z3T(60) DEF RouterHosts, TypeOK
    <2>4. CASE RunLeave
        <3>1. \/ routers' = routers
              \/ routers' = [routers EXCEPT ![hostOf[r]] = routers[hostOf[r]] \ {r}]
            BY <2>4, SMTT(60), Z3T(60) DEF RunLeave
        <3> QED
            BY <1>a, <2>1, <3>1, SMTT(60), Z3T(60) DEF RouterHosts, TypeOK
    <2> QED
        BY <1>4, <2>2, <2>3, <2>4 DEF RunTask
<1> QED
    BY <1>a, <1>1, <1>2, <1>3, <1>4, ZenonT(60)
    DEF Next, Loop, Die, Garble, Tick, HealthTimer, RequestStop, Post, EpollWait,
        TakeTasks, HealthCheck, ChannelEventIgnored, vars, poolVars, roomVars

(* A room whose Router is open is on a worker the pool lists, and a room   *)
(* whose Router is closed is not, for any number of workers, rooms and     *)
(* descriptors and whatever event is left over in a batch (loop,           *)
(* handleWorkerDeath, onWorkerDied, checkRoomHealth).                      *)
THEOREM RoomsFollowTheirWorkersCorrect == Spec => []RoomsFollowTheirWorkers
<1>1. Init => ListedOpen /\ RouterHosts
    BY DEF Init, ListedOpen, RouterHosts
<1>2. Spec => [](TypeOK /\ WatchInv /\ ListedOpen /\ RouterHosts)
    BY <1>1, WatchInit, WatchStep, ListedOpenStep, RouterHostsStep, TypeInit, TypeStep, PTL
    DEF Spec
<1>3. TypeOK /\ ListedOpen /\ RouterHosts /\ RoutersMatchRooms => RoomsFollowTheirWorkers
    BY SMTT(60), Z3T(60)
    DEF TypeOK, ListedOpen, RouterHosts, RoutersMatchRooms, RoomsFollowTheirWorkers, RoomExists
<1> QED
    BY <1>2, <1>3, RoutersMatchRoomsCorrect, PTL
=============================================================================
