----------------------------- MODULE Signaling -----------------------------
(***************************************************************************)
(* The join / leave / reconnect protocol between the uWS main thread, the  *)
(* WorkerThread pool and the mediasoup worker processes.                   *)
(*                                                                         *)
(* The main thread owns the sockets, the socket map, roomDispatch_ and     *)
(* destroyedRooms_.  Every WorkerThread runs its task queue serially and   *)
(* owns the rooms created on it.  Work goes main -> worker by              *)
(* WorkerThread::post (one FIFO per worker) and worker -> main by          *)
(* loop->defer (one FIFO).  Tasks and deferred callbacks are atomic: while *)
(* one runs, the state it reads is touched by no other thread, except      *)
(* roomCount and hasRoom, which are read at one point of a main handler.   *)
(***************************************************************************)
EXTENDS Integers, Sequences, FiniteSets, Functions

CONSTANTS
    NumWorkers,     \* size of the WorkerThread pool; ids are 0 .. NumWorkers-1
    ProcsPerWorker, \* mediasoup worker processes owned by each WorkerThread
    Rooms, Peers, Sockets,
    NoWorker, NoSocket, NoRoom, NoPeer,
    MaxSessions,    \* bound: join requests that are given a session id
    MaxDeaths,      \* bound: mediasoup worker process deaths
    MaxBacklog      \* bound: a worker queue this long takes no more requests

ASSUME PoolAssumption == /\ NumWorkers \in Nat \ {0}
                         /\ ProcsPerWorker \in Nat \ {0}
ASSUME BoundsAssumption == /\ MaxSessions \in Nat
                           /\ MaxDeaths \in Nat
                           /\ MaxBacklog \in Nat
ASSUME NullsAssumption == /\ NoSocket \notin Sockets
                          /\ NoRoom \notin Rooms
                          /\ NoPeer \notin Peers
                          /\ NoWorker \notin 0 .. (NumWorkers - 1)
ASSUME FiniteAssumption == IsFiniteSet(Rooms) /\ IsFiniteSet(Peers)

Workers == 0 .. (NumWorkers - 1)

VARIABLES
    \* main thread
    alive,          \* socket -> PerSocketData::alive
    joined,         \* socket -> PerSocketData::{roomId, peerId, sessionId}
    pending,        \* socket -> PerSocketData::pending{RoomId, PeerId, SessionId}
    wsPeers,        \* WsMap::peers: room -> peer -> socket
    roomPeers,      \* WsMap::roomPeers: room -> set of sockets
    roomDispatch,   \* roomDispatch_: room -> worker
    destroyedRooms, \* destroyedRooms_
    nextSessionId,  \* g_nextSessionId
    running,        \* SignalingServer::running_
    deferred,       \* the loop->defer FIFO
    notified,       \* sockets that were sent serverRestart
    \* WorkerThread w
    taskQueue,      \* w -> taskQueue_
    rooms,          \* w -> rooms of its RoomManager
    deadRouters,    \* w -> its rooms whose Router was closed by a process death
    peerSession,    \* w -> room -> peer -> Peer::sessionId, 0 if no such peer
    mediaBy,        \* w -> room -> peer -> session whose request last acted on it
    statsBy,        \* w -> room -> peer -> session whose clientStats is stored
    roomCount,      \* w -> the published roomCount_
    workerCount,    \* w -> live mediasoup worker processes
    deaths          \* process deaths so far (only for the bound)

socketVars == <<alive, joined, pending, wsPeers, roomPeers, notified>>
dispatchVars == <<roomDispatch, destroyedRooms, nextSessionId, running>>
peerVars == <<peerSession, mediaBy, statsBy>>
roomVars == <<rooms, deadRouters, roomCount>>
procVars == <<workerCount, deaths>>
vars == <<socketVars, dispatchVars, deferred, taskQueue, peerVars, roomVars,
          procVars>>

-----------------------------------------------------------------------------
(* Data *)

Sessions == 0 .. MaxSessions
LiveSessions == 1 .. MaxSessions
Unbound == [room |-> NoRoom, peer |-> NoPeer, session |-> 0]
Bindings ==
    [room : Rooms, peer : Peers, session : LiveSessions] \cup {Unbound}
Bound(r, p, s) == [room |-> r, peer |-> p, session |-> s]

Tasks == [kind : {"join", "leave", "request", "stats"},
          ws : Sockets, room : Rooms, peer : Peers, session : LiveSessions]
Task(k, ws, b) == [kind |-> k, ws |-> ws, room |-> b.room, peer |-> b.peer,
                   session |-> b.session]

Callbacks ==
    [kind : {"created", "destroyed", "serverRestart"},
     worker : Workers, room : Rooms]
    \cup
    [kind : {"joinOk", "joinFailed"}, worker : Workers, ws : Sockets,
     room : Rooms, peer : Peers, session : LiveSessions]
Lifecycle(k, w, r) == [kind |-> k, worker |-> w, room |-> r]
JoinDone(k, w, t) == [kind |-> k, worker |-> w, ws |-> t.ws, room |-> t.room,
                      peer |-> t.peer, session |-> t.session]

PeerTables == [Workers -> [Rooms -> [Peers -> Sessions]]]

SocketTypeOK ==
    /\ alive \in [Sockets -> BOOLEAN]
    /\ joined \in [Sockets -> Bindings]
    /\ pending \in [Sockets -> Bindings]
    /\ wsPeers \in [Rooms -> [Peers -> Sockets \cup {NoSocket}]]
    /\ roomPeers \in [Rooms -> SUBSET Sockets]
    /\ notified \in SUBSET Sockets
DispatchTypeOK ==
    /\ roomDispatch \in [Rooms -> Workers \cup {NoWorker}]
    /\ destroyedRooms \in SUBSET Rooms
    /\ nextSessionId \in 1 .. (MaxSessions + 1)
    /\ running \in BOOLEAN
QueueTypeOK ==
    /\ deferred \in Seq(Callbacks)
    /\ taskQueue \in [Workers -> Seq(Tasks)]
PeerTypeOK ==
    /\ peerSession \in PeerTables
    /\ mediaBy \in PeerTables
    /\ statsBy \in PeerTables
RoomTypeOK ==
    /\ rooms \in [Workers -> SUBSET Rooms]
    /\ deadRouters \in [Workers -> SUBSET Rooms]
    /\ roomCount \in [Workers -> Nat]
ProcTypeOK ==
    /\ workerCount \in [Workers -> 0 .. ProcsPerWorker]
    /\ deaths \in 0 .. MaxDeaths

TypeOK == /\ SocketTypeOK /\ DispatchTypeOK /\ QueueTypeOK
          /\ PeerTypeOK /\ RoomTypeOK /\ ProcTypeOK

NoPeers == [w \in Workers |-> [r \in Rooms |-> [p \in Peers |-> 0]]]

(* The server listens only after EnsureWorkersReady found a live process.  *)
Init ==
    /\ alive = [ws \in Sockets |-> TRUE]
    /\ joined = [ws \in Sockets |-> Unbound]
    /\ pending = [ws \in Sockets |-> Unbound]
    /\ wsPeers = [r \in Rooms |-> [p \in Peers |-> NoSocket]]
    /\ roomPeers = [r \in Rooms |-> {}]
    /\ roomDispatch = [r \in Rooms |-> NoWorker]
    /\ destroyedRooms = {}
    /\ nextSessionId = 1
    /\ running = TRUE
    /\ deferred = <<>>
    /\ notified = {}
    /\ taskQueue = [w \in Workers |-> <<>>]
    /\ rooms = [w \in Workers |-> {}]
    /\ deadRouters = [w \in Workers |-> {}]
    /\ peerSession = NoPeers
    /\ mediaBy = NoPeers
    /\ statsBy = NoPeers
    /\ roomCount = [w \in Workers |-> 0]
    /\ workerCount \in [Workers -> 0 .. ProcsPerWorker]
    /\ \E w \in Workers : workerCount[w] > 0
    /\ deaths = 0

-----------------------------------------------------------------------------
(* Main thread: socket events *)

HasMappedSession(ws) ==
    /\ joined[ws].session # 0
    /\ wsPeers[joined[ws].room][joined[ws].peer] = ws

(* pickLeastLoadedWorkerThread: the first of the least loaded pool members *)
(* that still has a live process.                                          *)
Candidates == {w \in Workers : workerCount[w] > 0}
LeastLoaded(w) ==
    /\ w \in Candidates
    /\ \A v \in Candidates : \/ roomCount[w] < roomCount[v]
                             \/ roomCount[w] = roomCount[v] /\ w <= v

post(w, t) == taskQueue' = [taskQueue EXCEPT ![w] = Append(@, t)]

(* Variant: the duplicate guard looks at the joined session only.          *)
AcceptJoinWhilePending(ws) ==
    /\ alive[ws] /\ ~HasMappedSession(ws)
    /\ nextSessionId <= MaxSessions
    /\ nextSessionId' = nextSessionId + 1

(* The part common to both outcomes of a join request: the duplicate guard *)
(* and the session id, which is drawn before a worker is looked for.       *)
AcceptJoin(ws) ==
    /\ alive[ws] /\ ~HasMappedSession(ws) /\ pending[ws].session = 0
    /\ nextSessionId <= MaxSessions
    /\ nextSessionId' = nextSessionId + 1

DispatchJoin(ws, r, p, w) ==
    LET b == Bound(r, p, nextSessionId)
    IN  /\ pending' = [pending EXCEPT ![ws] = b]
        /\ post(w, Task("join", ws, b))
        /\ UNCHANGED <<alive, joined, wsPeers, roomPeers, notified, running,
                       deferred, peerVars, roomVars, procVars>>

(* Known room: its worker, whatever that worker's load.                    *)
JoinKnownRoom(ws, r, p) ==
    /\ AcceptJoin(ws)
    /\ r \notin destroyedRooms
    /\ roomDispatch[r] # NoWorker
    /\ DispatchJoin(ws, r, p, roomDispatch[r])
    /\ UNCHANGED <<roomDispatch, destroyedRooms>>

(* Unknown or destroyed room: the room is bound to a worker before the     *)
(* task is posted (assignRoom).                                            *)
JoinNewRoom(ws, r, p) ==
    /\ AcceptJoin(ws)
    /\ r \in destroyedRooms \/ roomDispatch[r] = NoWorker
    /\ \E w \in Workers :
        /\ LeastLoaded(w)
        /\ roomDispatch' = [roomDispatch EXCEPT ![r] = w]
        /\ destroyedRooms' = destroyedRooms \ {r}
        /\ DispatchJoin(ws, r, p, w)

(* "no available worker thread": nothing is left behind but the used id.   *)
JoinNoWorker(ws, r) ==
    /\ AcceptJoin(ws)
    /\ r \in destroyedRooms \/ roomDispatch[r] = NoWorker
    /\ Candidates = {}
    /\ UNCHANGED <<socketVars, roomDispatch, destroyedRooms, running, deferred,
                   taskQueue, peerVars, roomVars, procVars>>

(* Any non-join request of a joined socket (createTransport, produce, ...). *)
Request(ws) ==
    /\ alive[ws] /\ joined[ws].session # 0
    /\ LET w == roomDispatch[joined[ws].room]
       IN  /\ w # NoWorker
           /\ Len(taskQueue[w]) < MaxBacklog
           /\ post(w, Task("request", ws, joined[ws]))
    /\ UNCHANGED <<socketVars, dispatchVars, deferred, peerVars, roomVars,
                   procVars>>

(* clientStats: only from the socket the map still names.                  *)
ClientStats(ws) ==
    /\ alive[ws] /\ HasMappedSession(ws)
    /\ LET w == roomDispatch[joined[ws].room]
       IN  /\ w # NoWorker
           /\ Len(taskQueue[w]) < MaxBacklog
           /\ post(w, Task("stats", ws, joined[ws]))
    /\ UNCHANGED <<socketVars, dispatchVars, deferred, peerVars, roomVars,
                   procVars>>

(* What the close handler says to the worker: leave for the joined session *)
(* or else for the pending one, to the worker the dispatch map names.      *)
CloseBinding(ws) ==
    IF joined[ws].session = 0 THEN pending[ws] ELSE joined[ws]

(* Variant: the close handler tells the worker nothing.                    *)
ForgetToLeave(ws, dispatch) == UNCHANGED taskQueue

PostLeave(ws, dispatch) ==
    LET b == CloseBinding(ws)
    IN  IF b.session # 0 /\ dispatch[b.room] # NoWorker
          THEN post(dispatch[b.room], Task("leave", ws, b))
          ELSE UNCHANGED taskQueue

(* Variant: the close handler forgets the map.                             *)
ForgetToUnregister(ws) == UNCHANGED <<wsPeers, roomPeers>>

UnregisterSocketSession(ws) ==
    IF HasMappedSession(ws)
      THEN LET j == joined[ws]
           IN  /\ wsPeers' = [wsPeers EXCEPT ![j.room][j.peer] = NoSocket]
               /\ roomPeers' = [roomPeers EXCEPT ![j.room] = @ \ {ws}]
      ELSE UNCHANGED <<wsPeers, roomPeers>>

Close(ws) ==
    /\ alive[ws]
    /\ alive' = [alive EXCEPT ![ws] = FALSE]
    /\ joined' = [joined EXCEPT ![ws] = Unbound]
    /\ pending' = [pending EXCEPT ![ws] = Unbound]
    /\ UnregisterSocketSession(ws)
    /\ PostLeave(ws, roomDispatch)
    /\ UNCHANGED <<notified, dispatchVars, deferred, peerVars, roomVars,
                   procVars>>

(* The shutdown flag; callbacks already deferred still run.                *)
Stop ==
    /\ running
    /\ running' = FALSE
    /\ UNCHANGED <<socketVars, roomDispatch, destroyedRooms, nextSessionId,
                   deferred, taskQueue, peerVars, roomVars, procVars>>

-----------------------------------------------------------------------------
(* Main thread: deferred callbacks *)

Callback(k) ==
    /\ deferred # <<>>
    /\ Head(deferred).kind = k
    /\ deferred' = Tail(deferred)

OnRoomCreated ==
    /\ Callback("created")
    /\ destroyedRooms' = destroyedRooms \ {Head(deferred).room}
    /\ UNCHANGED <<socketVars, roomDispatch, nextSessionId, running, taskQueue,
                   peerVars, roomVars, procVars>>

OnRoomDestroyed ==
    LET c == Head(deferred)
    IN  /\ Callback("destroyed")
        /\ destroyedRooms' = destroyedRooms \cup {c.room}
        /\ roomDispatch' = [roomDispatch EXCEPT ![c.room] =
                               IF @ = c.worker THEN NoWorker ELSE @]
        /\ UNCHANGED <<socketVars, nextSessionId, running, taskQueue,
                       peerVars, roomVars, procVars>>

(* PostBroadcast of serverRestart: whoever is in the map by now gets it.   *)
OnServerRestart ==
    /\ Callback("serverRestart")
    /\ notified' = notified \cup roomPeers[Head(deferred).room]
    /\ UNCHANGED <<alive, joined, pending, wsPeers, roomPeers, dispatchVars,
                   taskQueue, peerVars, roomVars, procVars>>

unassignRoom(r) == roomDispatch' = [roomDispatch EXCEPT ![r] = NoWorker]

(* Variants: only the session id is cleared; nothing is cleared.           *)
ClearPendingSessionOnly(ws, s) ==
    pending' = [pending EXCEPT ![ws].session = IF @ = s THEN 0 ELSE @]
KeepPending(ws, s) == UNCHANGED pending

ClearPendingSocketJoinIfMatches(ws, s) ==
    pending' = [pending EXCEPT ![ws] = IF @.session = s THEN Unbound ELSE @]

(* Variant: a failed join unassigns the room even if the worker has it.    *)
OnJoinFailedAlwaysUnassigns ==
    LET c == Head(deferred)
    IN  /\ Callback("joinFailed")
        /\ unassignRoom(c.room)
        /\ IF alive[c.ws]
             THEN ClearPendingSocketJoinIfMatches(c.ws, c.session)
             ELSE UNCHANGED pending
        /\ UNCHANGED <<alive, joined, wsPeers, roomPeers, notified,
                       destroyedRooms, nextSessionId, running, taskQueue,
                       peerVars, roomVars, procVars>>

OnJoinFailed ==
    LET c == Head(deferred)
    IN  /\ Callback("joinFailed")
        /\ IF ~running \/ c.room \notin rooms[c.worker]
             THEN unassignRoom(c.room)
             ELSE UNCHANGED roomDispatch
        /\ IF alive[c.ws]
             THEN ClearPendingSocketJoinIfMatches(c.ws, c.session)
             ELSE UNCHANGED pending
        /\ UNCHANGED <<alive, joined, wsPeers, roomPeers, notified,
                       destroyedRooms, nextSessionId, running, taskQueue,
                       peerVars, roomVars, procVars>>

(* The socket closed while its join was in flight: roll the join back on   *)
(* the worker that ran it (unless the server is shutting down).            *)
OnJoinRollback ==
    LET c == Head(deferred)
    IN  /\ Callback("joinOk")
        /\ ~alive[c.ws]
        /\ IF running THEN post(c.worker, Task("leave", c.ws, c))
                      ELSE UNCHANGED taskQueue
        /\ UNCHANGED <<socketVars, dispatchVars, peerVars, roomVars, procVars>>

(* PrepareSocketJoinCommit refuses: the worker is gone.                    *)
OnJoinUnavailable ==
    LET c == Head(deferred)
    IN  /\ Callback("joinOk")
        /\ alive[c.ws] /\ ~running
        /\ ClearPendingSocketJoinIfMatches(c.ws, c.session)
        /\ unassignRoom(c.room)
        /\ UNCHANGED <<alive, joined, wsPeers, roomPeers, notified,
                       destroyedRooms, nextSessionId, running, taskQueue,
                       peerVars, roomVars, procVars>>

(* Variant: the replaced socket is overlooked.                             *)
NoOldWs(ws, r, p) == {}

(* The socket, if any, that a join of ws to peer p of room r replaces.     *)
oldWs(ws, r, p) == {wsPeers[r][p]} \ {NoSocket, ws}

(* Variant: the replaced socket stays in the broadcast set.                *)
RegisterKeepingOld(ws, r, p) ==
    /\ wsPeers' = [wsPeers EXCEPT ![r][p] = ws]
    /\ roomPeers' = [roomPeers EXCEPT ![r] = @ \cup {ws}]

(* The map after the join: no other entry for ws, the old socket dropped.  *)
RegisterJoinedSocket(ws, r, p) ==
    /\ wsPeers' = [x \in Rooms |-> [y \in Peers |->
                    IF x = r /\ y = p THEN ws
                    ELSE IF wsPeers[x][y] = ws THEN NoSocket
                    ELSE wsPeers[x][y]]]
    /\ roomPeers' = [x \in Rooms |->
                    IF x = r THEN (roomPeers[x] \ oldWs(ws, r, p)) \cup {ws}
                    ELSE IF \E y \in Peers : wsPeers[x][y] = ws
                      THEN roomPeers[x] \ {ws}
                    ELSE roomPeers[x]]

(* The commit of a join: register, assignRoom, and kick the socket that    *)
(* held the peer before; oldWs->end() runs the old socket's close handler, *)
(* which finds the map no longer naming it and only posts a leave.         *)
CommitJoin(w, ws, b) ==
    LET kicked == oldWs(ws, b.room, b.peer)
    IN  /\ alive' = [x \in Sockets |-> alive[x] /\ x \notin kicked]
        /\ joined' = [x \in Sockets |->
                        IF x = ws THEN b
                        ELSE IF x \in kicked THEN Unbound ELSE joined[x]]
        /\ pending' = [x \in Sockets |->
                        IF x = ws \/ x \in kicked THEN Unbound ELSE pending[x]]
        /\ RegisterJoinedSocket(ws, b.room, b.peer)
        /\ roomDispatch' = [roomDispatch EXCEPT ![b.room] = w]
        /\ destroyedRooms' = destroyedRooms \ {b.room}
        /\ IF kicked = {}
             THEN UNCHANGED taskQueue
             ELSE \E old \in kicked : PostLeave(old, roomDispatch')

OnJoinCommit ==
    LET c == Head(deferred)
    IN  /\ Callback("joinOk")
        /\ alive[c.ws] /\ running
        /\ CommitJoin(c.worker, c.ws, Bound(c.room, c.peer, c.session))
        /\ UNCHANGED <<notified, nextSessionId, running, peerVars, roomVars,
                       procVars>>

MainNext ==
    \/ \E ws \in Sockets, r \in Rooms, p \in Peers :
        \/ JoinKnownRoom(ws, r, p)
        \/ JoinNewRoom(ws, r, p)
    \/ \E ws \in Sockets, r \in Rooms : JoinNoWorker(ws, r)
    \/ \E ws \in Sockets : Request(ws) \/ ClientStats(ws) \/ Close(ws)
    \/ Stop

DeferredNext ==
    \/ OnRoomCreated
    \/ OnRoomDestroyed
    \/ OnServerRestart
    \/ OnJoinFailed
    \/ OnJoinRollback
    \/ OnJoinUnavailable
    \/ OnJoinCommit

-----------------------------------------------------------------------------
(* WorkerThread tasks *)

TakeTask(w, k) ==
    /\ taskQueue[w] # <<>>
    /\ Head(taskQueue[w]).kind = k
    /\ taskQueue' = [taskQueue EXCEPT ![w] = Tail(@)]

defer(cs) == deferred' = deferred \o cs

(* Variant: the load is not republished.                                   *)
KeepRoomCount(w) == UNCHANGED roomCount

(* updateRoomCount ends every task that may create or remove a room.       *)
updateRoomCount(w) ==
    roomCount' = [roomCount EXCEPT ![w] = Cardinality(rooms'[w])]

(* Redirected, registry unavailable, at capacity, bad rtpCapabilities, or  *)
(* createRoom without a process: nothing was changed.                      *)
RunJoinRefused(w) ==
    /\ TakeTask(w, "join")
    /\ defer(<<JoinDone("joinFailed", w, Head(taskQueue[w]))>>)
    /\ UNCHANGED rooms
    /\ updateRoomCount(w)
    /\ UNCHANGED <<socketVars, dispatchVars, peerVars, deadRouters, procVars>>

(* createRoom: needs a live process unless the room exists, dead or not.   *)
createRoom(w, r) ==
    /\ r \in rooms[w] \/ workerCount[w] > 0
    /\ rooms' = [rooms EXCEPT ![w] = @ \cup {r}]

CreatedNotice(w, r) ==
    IF r \in rooms[w] THEN <<>> ELSE <<Lifecycle("created", w, r)>>

(* The room was created, then the rtpCapabilities did not parse: the empty *)
(* room stays behind for the idle sweep.                                   *)
RunJoinThrows(w) ==
    LET t == Head(taskQueue[w])
    IN  /\ TakeTask(w, "join")
        /\ createRoom(w, t.room)
        /\ defer(CreatedNotice(w, t.room) \o
                 <<JoinDone("joinFailed", w, t)>>)
        /\ updateRoomCount(w)
        /\ UNCHANGED <<socketVars, dispatchVars, peerVars, deadRouters,
                       procVars>>

(* replacePeer drops what the previous peer of that name owned; the new    *)
(* peer is stamped with the request's session.                             *)
RunJoin(w) ==
    LET t == Head(taskQueue[w])
    IN  /\ TakeTask(w, "join")
        /\ createRoom(w, t.room)
        /\ peerSession' = [peerSession EXCEPT ![w][t.room][t.peer] = t.session]
        /\ mediaBy' = [mediaBy EXCEPT ![w][t.room][t.peer] = 0]
        /\ statsBy' = [statsBy EXCEPT ![w][t.room][t.peer] = 0]
        /\ defer(CreatedNotice(w, t.room) \o <<JoinDone("joinOk", w, t)>>)
        /\ updateRoomCount(w)
        /\ UNCHANGED <<socketVars, dispatchVars, deadRouters, procVars>>

IsPeer(w, t) == t.room \in rooms[w] /\ peerSession[w][t.room][t.peer] # 0

(* Variant: whoever asks, the named peer is meant.                         *)
AnySession(w, t) == IsPeer(w, t)

(* The test of leaveIfSessionMatches.                                      *)
LeavesOwnSession(w, t) ==
    IsPeer(w, t) /\ peerSession[w][t.room][t.peer] = t.session

(* leaveIfSessionMatches for a session that is not the peer's: no effect.  *)
RunLeaveStale(w) ==
    LET t == Head(taskQueue[w])
    IN  /\ TakeTask(w, "leave")
        /\ ~LeavesOwnSession(w, t)
        /\ UNCHANGED rooms
        /\ updateRoomCount(w)
        /\ UNCHANGED <<socketVars, dispatchVars, deferred, peerVars,
                       deadRouters, procVars>>

RunLeave(w) ==
    LET t == Head(taskQueue[w])
        last == \A p \in Peers \ {t.peer} : peerSession[w][t.room][p] = 0
        gone == IF last THEN {t.room} ELSE {}
    IN  /\ TakeTask(w, "leave")
        /\ LeavesOwnSession(w, t)
        /\ peerSession' = [peerSession EXCEPT ![w][t.room][t.peer] = 0]
        /\ mediaBy' = [mediaBy EXCEPT ![w][t.room][t.peer] = 0]
        /\ statsBy' = [statsBy EXCEPT ![w][t.room][t.peer] = 0]
        /\ rooms' = [rooms EXCEPT ![w] = @ \ gone]
        /\ deadRouters' = [deadRouters EXCEPT ![w] = @ \ gone]
        /\ defer(IF last THEN <<Lifecycle("destroyed", w, t.room)>> ELSE <<>>)
        /\ updateRoomCount(w)
        /\ UNCHANGED <<socketVars, dispatchVars, procVars>>

(* The "remote login" test of the worker task, and the look-up of the room *)
(* and the peer that every request starts with.                            *)
RequestsOwnSession(w, t) ==
    IsPeer(w, t) /\ peerSession[w][t.room][t.peer] = t.session

(* A request of the peer's own session acts on the peer's media objects,   *)
(* or fails (bad arguments, unknown object, channel error).                *)
RunRequest(w) ==
    LET t == Head(taskQueue[w])
    IN  /\ TakeTask(w, "request")
        /\ RequestsOwnSession(w, t)
        /\ \/ mediaBy' = [mediaBy EXCEPT ![w][t.room][t.peer] = t.session]
           \/ UNCHANGED mediaBy
        /\ UNCHANGED rooms
        /\ updateRoomCount(w)
        /\ UNCHANGED <<socketVars, dispatchVars, deferred, peerSession,
                       statsBy, deadRouters, procVars>>

(* "remote login", or no such room or peer.                                *)
RunRequestRejected(w) ==
    LET t == Head(taskQueue[w])
    IN  /\ TakeTask(w, "request")
        /\ ~RequestsOwnSession(w, t)
        /\ UNCHANGED <<socketVars, dispatchVars, deferred, peerVars, roomVars,
                       procVars>>

(* setClientStats: the task carries no session and the room and the peer   *)
(* are looked up by name; the registry may refuse an old sequence number.  *)
RunStats(w) ==
    LET t == Head(taskQueue[w])
    IN  /\ TakeTask(w, "stats")
        /\ \/ /\ IsPeer(w, t)
              /\ statsBy' = [statsBy EXCEPT ![w][t.room][t.peer] = t.session]
           \/ UNCHANGED statsBy
        /\ UNCHANGED <<socketVars, dispatchVars, deferred, peerSession,
                       mediaBy, roomVars, procVars>>

WorkerTask(w) ==
    \/ RunJoinRefused(w)
    \/ RunJoinThrows(w)
    \/ RunJoin(w)
    \/ RunLeaveStale(w)
    \/ RunLeave(w)
    \/ RunRequest(w)
    \/ RunRequestRejected(w)
    \/ RunStats(w)

-----------------------------------------------------------------------------
(* WorkerThread timers and process deaths *)

(* Variant: destroying a room keeps the tables' entries.                   *)
KeepAll(f, w, gone) == f

Without(f, w, gone) ==
    [f EXCEPT ![w] = [r \in Rooms |->
        IF r \in gone THEN [p \in Peers |-> 0] ELSE f[w][r]]]

(* destroyRoom for each room of gone; notices are the callbacks it defers. *)
destroyRooms(w, gone, notices) ==
    /\ rooms' = [rooms EXCEPT ![w] = @ \ gone]
    /\ deadRouters' = [deadRouters EXCEPT ![w] = @ \ gone]
    /\ peerSession' = Without(peerSession, w, gone)
    /\ mediaBy' = Without(mediaBy, w, gone)
    /\ statsBy' = Without(statsBy, w, gone)
    /\ defer(notices)
    /\ updateRoomCount(w)
    /\ UNCHANGED <<socketVars, dispatchVars, taskQueue, procVars>>

(* The orders in which a loop may visit the rooms of an unordered map.     *)
Orders(R) == Injection(1 .. Cardinality(R), R)

(* Variant: dead rooms are destroyed without telling anybody.              *)
SilentHealthNotices(w, order) ==
    [i \in 1 .. Len(order) |-> Lifecycle("destroyed", w, order[i])]

(* checkRoomHealth: for each dead room, in the map's order, broadcast      *)
(* serverRestart and destroy the room.                                     *)
HealthNotices(w, order) ==
    [i \in 1 .. (2 * Len(order)) |->
        IF i % 2 = 1 THEN Lifecycle("serverRestart", w, order[(i + 1) \div 2])
                     ELSE Lifecycle("destroyed", w, order[i \div 2])]

HealthCheck(w) ==
    /\ deadRouters[w] # {}
    /\ \E order \in Orders(deadRouters[w]) :
        destroyRooms(w, deadRouters[w], HealthNotices(w, order))

IdleRooms(w) ==
    {r \in rooms[w] : \A p \in Peers : peerSession[w][r][p] = 0}

(* cleanIdleRooms: the empty rooms that have been idle long enough.        *)
GcNotices(w, order) ==
    [i \in 1 .. Len(order) |-> Lifecycle("destroyed", w, order[i])]

GcTimer(w) ==
    \E idle \in SUBSET IdleRooms(w) \ {{}} :
        \E order \in Orders(idle) :
            destroyRooms(w, idle, GcNotices(w, order))

(* One process dies: the routers it ran are closed (all of them when it    *)
(* was the last), and it is respawned or, past the respawn rate or on an   *)
(* error, given up.                                                        *)
WorkerDied(w) ==
    /\ workerCount[w] > 0 /\ deaths < MaxDeaths
    /\ deaths' = deaths + 1
    /\ \E hit \in SUBSET rooms[w] :
        /\ workerCount[w] = 1 => hit = rooms[w]
        /\ deadRouters' = [deadRouters EXCEPT ![w] = @ \cup hit]
    /\ \/ UNCHANGED workerCount
       \/ workerCount' = [workerCount EXCEPT ![w] = @ - 1]
    /\ UNCHANGED <<socketVars, dispatchVars, deferred, taskQueue, peerVars,
                   rooms, roomCount>>

Next ==
    \/ MainNext
    \/ DeferredNext
    \/ \E w \in Workers :
        WorkerTask(w) \/ HealthCheck(w) \/ GcTimer(w) \/ WorkerDied(w)

(* Both kinds of queue are drained by loops that never skip an entry, and  *)
(* the health timer is periodic.  Clients and processes owe nothing.       *)
Fairness ==
    /\ WF_vars(DeferredNext)
    /\ \A w \in Workers : WF_vars(WorkerTask(w)) /\ WF_vars(HealthCheck(w))

Spec == Init /\ [][Next]_vars
FairSpec == Spec /\ Fairness

-----------------------------------------------------------------------------
(* Properties *)

(* The sessions of join tasks still queued and of joins whose completion   *)
(* is still deferred.                                                      *)
JoinQueued(ws, s) ==
    \E w \in Workers : \E i \in 1 .. Len(taskQueue[w]) :
        LET t == taskQueue[w][i]
        IN  t.kind = "join" /\ t.ws = ws /\ t.session = s
JoinCompleting(ws, s) ==
    \E i \in 1 .. Len(deferred) :
        LET c == deferred[i]
        IN  c.kind \in {"joinOk", "joinFailed"} /\ c.ws = ws /\ c.session = s

(* A socket in the map is open and carries exactly the room and peer it is *)
(* filed under, so it is filed once, however joins, kicks and closes       *)
(* interleave (SignalingSocketState.h: RegisterJoinedSocket,               *)
(* UnregisterSocketSession; runtime-safety.md: one session per socket).    *)
MapNamesOpenSockets ==
    \A r \in Rooms, p \in Peers :
        LET ws == wsPeers[r][p]
        IN  ws # NoSocket => /\ alive[ws]
                             /\ joined[ws].session # 0
                             /\ joined[ws].room = r
                             /\ joined[ws].peer = p

(* An open socket that was told it joined is the one the map names, so it  *)
(* gets its notifications and a second join on it is refused; the socket   *)
(* it replaced is not left open (RegisterJoinedSocket, close handler).     *)
JoinedSocketIsMapped ==
    \A ws \in Sockets : alive[ws] /\ joined[ws].session # 0 => HasMappedSession(ws)

(* roomPeers, which broadcasts use, agrees with peers, which notifications *)
(* use, after every register, kick and unregister.                         *)
BroadcastSetMatchesMap ==
    \A r \in Rooms :
        roomPeers[r] = {ws \in Sockets : \E p \in Peers : wsPeers[r][p] = ws}

(* The socket map, the sockets and the broadcast sets agree; each of the   *)
(* three is inductive only with the others (RegisterJoinedSocket,          *)
(* UnregisterSocketSession, close handler).                                *)
SocketMapInv ==
    MapNamesOpenSockets /\ JoinedSocketIsMapped /\ BroadcastSetMatchesMap

(* The pending mark of an open socket, which makes it refuse every join,   *)
(* always has a join on its way that will clear it (SetPendingSocketJoin,  *)
(* the completion callback, every failure path of the worker task).        *)
PendingJoinIsInFlight ==
    \A ws \in Sockets :
        pending[ws].session # 0 =>
            \/ JoinQueued(ws, pending[ws].session)
            \/ JoinCompleting(ws, pending[ws].session)

(* The load that pickLeastLoadedWorkerThread reads is the worker's own     *)
(* room count: no task or timer that adds or drops a room forgets          *)
(* updateRoomCount.                                                        *)
PublishedLoadIsCurrent ==
    \A w \in Workers : roomCount[w] = Cardinality(rooms[w])

(* A room that is gone left no peer, no media and no stats behind.         *)
NoStateWithoutRoom ==
    \A w \in Workers, r \in Rooms, p \in Peers :
        /\ r \notin rooms[w] => peerSession[w][r][p] = 0
        /\ peerSession[w][r][p] = 0 => mediaBy[w][r][p] = 0 /\ statsBy[w][r][p] = 0

(* Whatever a peer owns was put there by a request of its own session,     *)
(* although requests of the replaced socket may still be queued behind the *)
(* join that replaced it (the "remote login" test of the worker task).     *)
RequestsActOnOwnSession ==
    \A w \in Workers, r \in Rooms, p \in Peers :
        mediaBy[w][r][p] \in {0, peerSession[w][r][p]}

(* What a worker keeps belongs to a peer of a room it has, and was put     *)
(* there by that peer's own session.                                       *)
PeerStateInv == NoStateWithoutRoom /\ RequestsActOnOwnSession

(* The same for clientStats (docs/architecture_cn.md 10.1: an old request  *)
(* already queued never lands on the new session).                         *)
StatsActOnOwnSession ==
    \A w \in Workers, r \in Rooms, p \in Peers :
        statsBy[w][r][p] \in {0, peerSession[w][r][p]}

(* README.md: "same room -> same WorkerThread".                            *)
RoomOnOneWorker ==
    \A v, w \in Workers : v # w => rooms[v] \cap rooms[w] = {}

(* The socket-side view of the protocol, as SessionDirectory states it.    *)
Phase(ws) == CASE ~alive[ws] -> "closed"
               [] alive[ws] /\ joined[ws].session # 0 -> "joined"
               [] alive[ws] /\ joined[ws].session = 0 /\
                  pending[ws].session # 0 -> "joining"
               [] OTHER -> "idle"
Wanted(ws) == [room |-> CloseBinding(ws).room, peer |-> CloseBinding(ws).peer]

Directory == INSTANCE SessionDirectory WITH
    phase <- [ws \in Sockets |-> Phase(ws)],
    wanted <- [ws \in Sockets |-> Wanted(ws)],
    holder <- wsPeers

(* Every step of the threads and queues is a step of the session directory *)
(* or invisible to it: a join admits the socket to the room and peer it    *)
(* asked for, once, and takes over from the old socket in the same step    *)
(* (join completion callback, close handler).                              *)
ImplementsSessionDirectory == Directory!Spec

-----------------------------------------------------------------------------
(* Properties that a single WorkerThread gives; with two, a room can end   *)
(* up on both (RoomOnOneWorker) and they fail with it.                     *)

LeaveQueued(w, b) ==
    \E i \in 1 .. Len(taskQueue[w]) :
        LET t == taskQueue[w][i]
        IN  t.kind = "leave" /\ Bound(t.room, t.peer, t.session) = b
OpenSocketOf(b) ==
    \E ws \in Sockets : alive[ws] /\ b \in {joined[ws], pending[ws]}
CompletionDeferred(w, b) ==
    \E i \in 1 .. Len(deferred) :
        LET c == deferred[i]
        IN  c.kind = "joinOk" /\ c.worker = w /\
            Bound(c.room, c.peer, c.session) = b

(* No ghosts: every peer on the worker belongs to an open socket, or its   *)
(* leave is queued, or its completion callback will roll it back; so no    *)
(* order of close, join, kick and room destruction loses a leave           *)
(* (runtime-safety.md: rollback of a join whose socket closed).            *)
EveryPeerHasAnOwner ==
    running =>
        \A w \in Workers, r \in Rooms, p \in Peers :
            LET b == Bound(r, p, peerSession[w][r][p])
            IN  b.session # 0 => \/ OpenSocketOf(b)
                                \/ LeaveQueued(w, b)
                                \/ CompletionDeferred(w, b)

HasPeer(ws, w) ==
    /\ alive[ws] /\ joined[ws].session # 0
    /\ peerSession[w][joined[ws].room][joined[ws].peer] = joined[ws].session

(* While the worker has the peer of a joined socket, the dispatch map sends *)
(* the socket's requests there: a late "destroyed" callback or a failed    *)
(* join of somebody else never unbinds a room that is in use.              *)
RequestsReachTheirPeer ==
    running => \A ws \in Sockets, w \in Workers :
        HasPeer(ws, w) => roomDispatch[joined[ws].room] = w

(* The peers of the worker and the sockets of the main thread belong       *)
(* together although neither thread sees the other's state: no ghost peer, *)
(* and no socket whose requests go elsewhere.                              *)
PeersFollowSockets == EveryPeerHasAnOwner /\ RequestsReachTheirPeer

(* A joined socket that stays open loses its peer in one step only to a    *)
(* newer join of that peer or to a dead room, whose serverRestart          *)
(* broadcast is deferred in that very step (leaveIfSessionMatches,         *)
(* replacePeer, checkRoomHealth).                                          *)
PeerLostOnlyToReplacementOrRestart ==
    [][\A ws \in Sockets, w \in Workers :
        HasPeer(ws, w) /\ alive'[ws] /\ ~HasPeer(ws, w)' =>
            \/ peerSession'[w][joined[ws].room][joined[ws].peer]
                  > joined[ws].session
            \/ \E i \in 1 .. Len(deferred') :
                  /\ deferred'[i].kind = "serverRestart"
                  /\ deferred'[i].room = joined[ws].room]_vars

(* Every join a client sends is answered: pending is cleared again.        *)
JoinIsAnswered ==
    \A ws \in Sockets : pending[ws].session # 0 ~> pending[ws].session = 0

(* A peer whose socket is gone is eventually removed from the worker.      *)
ClosedSessionIsRemoved ==
    \A w \in Workers, r \in Rooms, p \in Peers, s \in LiveSessions :
        (peerSession[w][r][p] = s /\ ~OpenSocketOf(Bound(r, p, s)))
            ~> (peerSession[w][r][p] # s \/ ~running)

(* runtime-safety.md: after a worker crash the clients of its rooms are    *)
(* sent serverRestart, unless a newer connection of the peer takes over.   *)
DeadRoomIsAnnounced ==
    \A ws \in Sockets, w \in Workers, r \in Rooms, p \in Peers, s \in LiveSessions :
        (HasPeer(ws, w) /\ r \in deadRouters[w] /\ joined[ws] = Bound(r, p, s))
            ~> (ws \in notified \/ ~alive[ws] \/ peerSession[w][r][p] > s)

Quiescent ==
    deferred = <<>> /\ \A w \in Workers : taskQueue[w] = <<>>

(* README.md, session identity: a new join of a peer replaces the old      *)
(* session and "the old socket is invalidated at once"; so once all queues *)
(* are drained, an open joined socket has its peer or was told to restart. *)
ReplacedSocketIsClosed ==
    Quiescent /\ running =>
        \A ws \in Sockets : alive[ws] /\ joined[ws].session # 0 =>
            ws \in notified \/ \E w \in Workers : HasPeer(ws, w)

=============================================================================
