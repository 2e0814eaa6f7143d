-------------------------- MODULE SignalingProofs --------------------------
(***************************************************************************)
(* Theorems about Signaling for any number of workers, processes, rooms,   *)
(* peers, sockets and sessions.                                            *)
(***************************************************************************)
EXTENDS Signaling, FiniteSetTheorems, TLAPS

-----------------------------------------------------------------------------
(* The records the queues carry *)

(* A binding that names a session names a room and a peer too.             *)
LEMMA BindingFields ==
    ASSUME NEW b \in Bindings, b.session # 0
    PROVE  b.room \in Rooms /\ b.peer \in Peers /\ b.session \in LiveSessions
BY DEF Bindings, Unbound

(* A task made from such a binding is a task.                              *)
LEMMA TaskTyped ==
    ASSUME NEW k \in {"join", "leave", "request", "stats"}, NEW ws \in Sockets,
           NEW b, b.room \in Rooms, b.peer \in Peers, b.session \in LiveSessions
    PROVE  Task(k, ws, b) \in Tasks
BY DEF Task, Tasks

(* A completion callback carries the socket, room, peer and session of its *)
(* join.                                                                   *)
LEMMA CompletionFields ==
    ASSUME NEW c \in Callbacks, c.kind \in {"joinOk", "joinFailed"}
    PROVE  /\ c.worker \in Workers /\ c.ws \in Sockets /\ c.room \in Rooms
           /\ c.peer \in Peers /\ c.session \in LiveSessions
BY DEF Callbacks

(* Every callback names a worker and a room.                               *)
LEMMA CallbackFields ==
    ASSUME NEW c \in Callbacks
    PROVE  c.worker \in Workers /\ c.room \in Rooms
BY DEF Callbacks

LEMMA LifecycleTyped ==
    ASSUME NEW k \in {"created", "destroyed", "serverRestart"},
           NEW w \in Workers, NEW r \in Rooms
    PROVE  Lifecycle(k, w, r) \in Callbacks
BY DEF Lifecycle, Callbacks

LEMMA JoinDoneTyped ==
    ASSUME NEW k \in {"joinOk", "joinFailed"}, NEW w \in Workers,
           NEW t \in Tasks
    PROVE  JoinDone(k, w, t) \in Callbacks
BY DEF JoinDone, Callbacks, Tasks

(* The head of a non-empty queue is one of its entries.                    *)
LEMMA HeadTail ==
    ASSUME NEW S, NEW q \in Seq(S), q # <<>>
    PROVE  Head(q) \in S /\ Tail(q) \in Seq(S)
OBVIOUS

(* The published room count is a natural number.                           *)
LEMMA RoomCountTyped ==
    ASSUME NEW R \in SUBSET Rooms
    PROVE  Cardinality(R) \in Nat
BY FiniteAssumption, FS_Subset, FS_CardinalityType

-----------------------------------------------------------------------------
(* Type correctness *)

LEMMA SessionsTyped == 0 \in Sessions /\ LiveSessions \subseteq Sessions
BY BoundsAssumption DEF Sessions, LiveSessions

LEMMA UnboundTyped == Unbound \in Bindings
BY DEF Bindings

(* The part of the state a step leaves alone stays well typed.             *)
LEMMA Frames ==
    /\ SocketTypeOK /\ UNCHANGED socketVars => SocketTypeOK'
    /\ DispatchTypeOK /\ UNCHANGED dispatchVars => DispatchTypeOK'
    /\ PeerTypeOK /\ UNCHANGED peerVars => PeerTypeOK'
    /\ RoomTypeOK /\ UNCHANGED roomVars => RoomTypeOK'
    /\ ProcTypeOK /\ UNCHANGED procVars => ProcTypeOK'
<1>1. SocketTypeOK /\ UNCHANGED socketVars => SocketTypeOK'
  BY DEF SocketTypeOK, socketVars
<1>2. DispatchTypeOK /\ UNCHANGED dispatchVars => DispatchTypeOK'
  BY DEF DispatchTypeOK, dispatchVars
<1>3. PeerTypeOK /\ UNCHANGED peerVars => PeerTypeOK'
  BY DEF PeerTypeOK, peerVars
<1>4. RoomTypeOK /\ UNCHANGED roomVars => RoomTypeOK'
  BY DEF RoomTypeOK, roomVars
<1>5. ProcTypeOK /\ UNCHANGED procVars => ProcTypeOK'
  BY DEF ProcTypeOK, procVars
<1>6. QED
  BY <1>1, <1>2, <1>3, <1>4, <1>5, SMTT(60), Z3T(60), SMTT(90)

(* Posting a task keeps the queues well typed.                             *)
LEMMA PostTyped ==
    ASSUME QueueTypeOK, NEW w \in Workers, NEW t \in Tasks, post(w, t)
    PROVE  taskQueue' \in [Workers -> Seq(Tasks)]
BY DEF QueueTypeOK, post

(* The leave a closing socket posts, whatever the dispatch map says.       *)
LEMMA PostLeaveTyped ==
    ASSUME TypeOK, NEW ws \in Sockets,
           NEW d \in [Rooms -> Workers \cup {NoWorker}], PostLeave(ws, d)
    PROVE  taskQueue' \in [Workers -> Seq(Tasks)]
<1>1. PICK b \in Bindings :
        IF b.session # 0 /\ d[b.room] # NoWorker
          THEN post(d[b.room], Task("leave", ws, b))
          ELSE UNCHANGED taskQueue
  BY DEF PostLeave, CloseBinding, TypeOK, SocketTypeOK
<1>2. CASE b.session # 0 /\ d[b.room] # NoWorker
  <2>1. b.room \in Rooms /\ b.peer \in Peers /\ b.session \in LiveSessions
    BY <1>2, BindingFields
  <2>2. d[b.room] \in Workers
    BY <1>2, <2>1, SMTT(60), Z3T(60), SMTT(90)
  <2>3. Task("leave", ws, b) \in Tasks
    BY <2>1, TaskTyped
  <2>4. QED
    BY <1>1, <1>2, <2>2, <2>3, PostTyped DEF TypeOK
<1>3. CASE ~(b.session # 0 /\ d[b.room] # NoWorker)
  BY <1>1, <1>3 DEF TypeOK, QueueTypeOK
<1>4. QED
  BY <1>2, <1>3, SMTT(60), Z3T(60), SMTT(90)

LEMMA CloseTyped ==
    ASSUME TypeOK, NEW ws \in Sockets, Close(ws)
    PROVE  TypeOK'
<1>1. taskQueue' \in [Workers -> Seq(Tasks)]
  BY PostLeaveTyped DEF TypeOK, DispatchTypeOK, Close
<1>2. QueueTypeOK'
  BY <1>1 DEF TypeOK, QueueTypeOK, Close
<1>3. wsPeers' \in [Rooms -> [Peers -> Sockets \cup {NoSocket}]]
  <2>1. wsPeers \in [Rooms -> [Peers -> Sockets \cup {NoSocket}]]
    BY DEF TypeOK, SocketTypeOK
  <2>2. \/ wsPeers' = wsPeers
        \/ wsPeers' = [wsPeers EXCEPT ![joined[ws].room][joined[ws].peer]
                                        = NoSocket]
    BY DEF Close, UnregisterSocketSession
  <2>3. QED
    BY <2>1, <2>2
<1>4. roomPeers' \in [Rooms -> SUBSET Sockets]
  <2>1. roomPeers \in [Rooms -> SUBSET Sockets]
    BY DEF TypeOK, SocketTypeOK
  <2>2. \/ roomPeers' = roomPeers
        \/ roomPeers' = [roomPeers EXCEPT ![joined[ws].room] = @ \ {ws}]
    BY DEF Close, UnregisterSocketSession
  <2>3. QED
    BY <2>1, <2>2
<1>5. SocketTypeOK'
  BY <1>3, <1>4, UnboundTyped DEF TypeOK, SocketTypeOK, Close
<1>6. DispatchTypeOK' /\ PeerTypeOK' /\ RoomTypeOK' /\ ProcTypeOK'
  BY Frames DEF TypeOK, Close
<1>7. QED
  BY <1>2, <1>5, <1>6 DEF TypeOK

(* A deferred callback is well typed and leaves the FIFO well typed.       *)
LEMMA CallbackTyped ==
    ASSUME QueueTypeOK, NEW k, Callback(k)
    PROVE  /\ Head(deferred) \in Callbacks /\ Head(deferred).kind = k
           /\ deferred' \in Seq(Callbacks)
BY HeadTail DEF QueueTypeOK, Callback

(* The completion callback at the head of the FIFO, in full.               *)
LEMMA CompletionTyped ==
    ASSUME TypeOK, NEW k \in {"joinOk", "joinFailed"}, Callback(k)
    PROVE  LET c == Head(deferred)
           IN  /\ c.worker \in Workers /\ c.ws \in Sockets /\ c.room \in Rooms
               /\ c.peer \in Peers /\ c.session \in LiveSessions
               /\ deferred' \in Seq(Callbacks)
BY CallbackTyped, CompletionFields DEF TypeOK

(* A task at the head of a queue is well typed, and so is what remains.    *)
LEMMA TakeTaskTyped ==
    ASSUME QueueTypeOK, NEW w \in Workers, NEW k, TakeTask(w, k)
    PROVE  /\ Head(taskQueue[w]) \in Tasks
           /\ taskQueue' \in [Workers -> Seq(Tasks)]
<1>1. taskQueue \in [Workers -> Seq(Tasks)] /\ taskQueue[w] \in Seq(Tasks)
  BY DEF QueueTypeOK
<1>2. Head(taskQueue[w]) \in Tasks /\ Tail(taskQueue[w]) \in Seq(Tasks)
  BY <1>1, HeadTail DEF TakeTask
<1>3. QED
  BY <1>1, <1>2 DEF TakeTask

LEMMA TaskFields ==
    ASSUME NEW t \in Tasks
    PROVE  /\ t.ws \in Sockets /\ t.room \in Rooms /\ t.peer \in Peers
           /\ t.session \in LiveSessions /\ t.session \in Sessions
BY SessionsTyped, SMTT(60), Z3T(60), SMTT(90) DEF Tasks

(* The orders in which a set of rooms may be visited.                      *)
LEMMA OrderTyped ==
    ASSUME NEW R \in SUBSET Rooms, NEW order \in Orders(R)
    PROVE  /\ Len(order) \in Nat
           /\ \A i \in 1 .. Len(order) : order[i] \in R
<1>1. Cardinality(R) \in Nat
  BY RoomCountTyped
<1>2. order \in [1 .. Cardinality(R) -> R]
  BY DEF Orders, Injection
<1>3. order \in Seq(R) /\ Len(order) = Cardinality(R)
  BY <1>1, <1>2
<1>4. QED
  BY <1>1, <1>3

(* What checkRoomHealth defers: two callbacks per room.                    *)
LEMMA HealthNoticesTyped ==
    ASSUME NEW w \in Workers, NEW order, Len(order) \in Nat,
           \A i \in 1 .. Len(order) : order[i] \in Rooms
    PROVE  HealthNotices(w, order) \in Seq(Callbacks)
<1>1. ASSUME NEW i \in 1 .. (2 * Len(order))
      PROVE  HealthNotices(w, order)[i] \in Callbacks
  <2>1. CASE i % 2 = 1
    <3>1. (i + 1) \div 2 \in 1 .. Len(order)
      BY <2>1, SMTT(60), Z3T(60), SMTT(90)
    <3>2. QED
      BY <2>1, <3>1, LifecycleTyped DEF HealthNotices
  <2>2. CASE i % 2 # 1
    <3>1. i \div 2 \in 1 .. Len(order)
      BY <2>2
    <3>2. QED
      BY <2>2, <3>1, LifecycleTyped DEF HealthNotices
  <2>3. QED
    BY <2>1, <2>2, SMTT(60), Z3T(60), SMTT(90)
<1>2. HealthNotices(w, order) =
        [i \in 1 .. (2 * Len(order)) |-> HealthNotices(w, order)[i]]
  BY DEF HealthNotices
<1>3. QED
  BY <1>1, <1>2, SMTT(60), Z3T(60), SMTT(90)

LEMMA TypeStep == TypeOK /\ [Next]_vars => TypeOK'
(* What a join request does to the types, for any worker it is posted to.  *)
<1>DispatchJoinTyped.
    ASSUME TypeOK, NEW ws \in Sockets, NEW r \in Rooms, NEW p \in Peers,
           NEW w \in Workers, AcceptJoin(ws), DispatchJoin(ws, r, p, w),
           roomDispatch' \in [Rooms -> Workers \cup {NoWorker}],
           destroyedRooms' \in SUBSET Rooms
    PROVE  TypeOK'
  <2> USE <1>DispatchJoinTyped
  <2> DEFINE b == Bound(r, p, nextSessionId)
  <2>1. nextSessionId \in LiveSessions /\ nextSessionId' \in 1 .. (MaxSessions + 1)
    BY BoundsAssumption DEF TypeOK, DispatchTypeOK, AcceptJoin, LiveSessions
  <2>2. b \in Bindings /\ Task("join", ws, b) \in Tasks
    BY <2>1, TaskTyped, SMTT(60), Z3T(60), SMTT(90) DEF Bindings, Bound
  <2>3. QueueTypeOK'
    <3>1. taskQueue' \in [Workers -> Seq(Tasks)]
      BY <2>2, PostTyped, SMTT(60), Z3T(60), SMTT(90) DEF DispatchJoin, TypeOK
    <3>2. QED
      BY <3>1 DEF DispatchJoin, TypeOK, QueueTypeOK
  <2>4. SocketTypeOK'
    BY <2>2 DEF TypeOK, SocketTypeOK, DispatchJoin
  <2>5. DispatchTypeOK'
    BY <2>1 DEF TypeOK, DispatchTypeOK, DispatchJoin
  <2>6. PeerTypeOK' /\ RoomTypeOK' /\ ProcTypeOK'
    BY Frames DEF TypeOK, DispatchJoin
  <2>7. QED
    BY <2>3, <2>4, <2>5, <2>6, SMTT(60), Z3T(60), SMTT(90) DEF TypeOK

<1>JoinTyped.
    ASSUME TypeOK, NEW ws \in Sockets, NEW r \in Rooms, NEW p \in Peers,
           JoinKnownRoom(ws, r, p) \/ JoinNewRoom(ws, r, p)
    PROVE  TypeOK'
  <2> USE <1>JoinTyped
  <2>1. CASE JoinKnownRoom(ws, r, p)
    <3>1. /\ roomDispatch[r] \in Workers
          /\ roomDispatch' \in [Rooms -> Workers \cup {NoWorker}]
          /\ destroyedRooms' \in SUBSET Rooms
      BY <2>1 DEF JoinKnownRoom, TypeOK, DispatchTypeOK
    <3>2. AcceptJoin(ws) /\ DispatchJoin(ws, r, p, roomDispatch[r])
      BY <2>1 DEF JoinKnownRoom
    <3>3. QED
      BY <3>1, <3>2, <1>DispatchJoinTyped
  <2>2. CASE JoinNewRoom(ws, r, p)
    <3>1. PICK w \in Workers :
            /\ roomDispatch' = [roomDispatch EXCEPT ![r] = w]
            /\ destroyedRooms' = destroyedRooms \ {r}
            /\ DispatchJoin(ws, r, p, w)
      BY <2>2, ZenonT(60) DEF JoinNewRoom
    <3>2. /\ roomDispatch' \in [Rooms -> Workers \cup {NoWorker}]
          /\ destroyedRooms' \in SUBSET Rooms
      BY <3>1 DEF TypeOK, DispatchTypeOK
    <3>3. AcceptJoin(ws)
      BY <2>2 DEF JoinNewRoom
    <3>4. QED
      BY <3>1, <3>2, <3>3, <1>DispatchJoinTyped
  <2>3. QED
    BY <2>1, <2>2

<1>JoinNoWorkerTyped.
    ASSUME TypeOK, NEW ws \in Sockets, NEW r \in Rooms, JoinNoWorker(ws, r)
    PROVE  TypeOK'
  <2> USE <1>JoinNoWorkerTyped
  <2>1. DispatchTypeOK'
    BY BoundsAssumption DEF TypeOK, DispatchTypeOK, JoinNoWorker, AcceptJoin
  <2>2. QueueTypeOK'
    BY DEF TypeOK, QueueTypeOK, JoinNoWorker
  <2>3. SocketTypeOK' /\ PeerTypeOK' /\ RoomTypeOK' /\ ProcTypeOK'
    BY Frames DEF TypeOK, JoinNoWorker
  <2>4. QED
    BY <2>1, <2>2, <2>3 DEF TypeOK

<1>RequestTyped.
    ASSUME TypeOK, NEW ws \in Sockets, Request(ws) \/ ClientStats(ws)
    PROVE  TypeOK'
  <2> USE <1>RequestTyped
  <2> DEFINE w == roomDispatch[joined[ws].room]
  <2>1. /\ joined[ws].session # 0 /\ w # NoWorker
        /\ \/ post(w, Task("request", ws, joined[ws]))
           \/ post(w, Task("stats", ws, joined[ws]))
        /\ deferred' = deferred
        /\ UNCHANGED <<socketVars, dispatchVars, peerVars, roomVars, procVars>>
    BY DEF Request, ClientStats, HasMappedSession
  <2>2. joined[ws] \in Bindings
    BY DEF TypeOK, SocketTypeOK
  <2>3. /\ joined[ws].room \in Rooms /\ joined[ws].peer \in Peers
        /\ joined[ws].session \in LiveSessions
    BY <2>1, <2>2, BindingFields, SMTT(60), Z3T(60), SMTT(90)
  <2>4. w \in Workers
    BY <2>1, <2>3 DEF TypeOK, DispatchTypeOK
  <2>5. /\ Task("request", ws, joined[ws]) \in Tasks
        /\ Task("stats", ws, joined[ws]) \in Tasks
    BY <2>3, TaskTyped, SMTT(60), Z3T(60), SMTT(90)
  <2>6. taskQueue' \in [Workers -> Seq(Tasks)]
    BY <2>1, <2>4, <2>5, PostTyped, SMTT(60), Z3T(60), SMTT(90) DEF TypeOK
  <2>7. QueueTypeOK'
    BY <2>1, <2>6 DEF TypeOK, QueueTypeOK
  <2>8. QED
    BY <2>1, <2>7, Frames, SMTT(60), Z3T(60), SMTT(90) DEF TypeOK

<1>StopTyped. TypeOK /\ Stop => TypeOK'
  <2> SUFFICES ASSUME TypeOK, Stop PROVE TypeOK'
    OBVIOUS
  <2>1. DispatchTypeOK' /\ QueueTypeOK'
    BY ZenonT(60) DEF TypeOK, DispatchTypeOK, QueueTypeOK, Stop
  <2>2. SocketTypeOK' /\ PeerTypeOK' /\ RoomTypeOK' /\ ProcTypeOK'
    BY Frames DEF TypeOK, Stop
  <2>3. QED
    BY <2>1, <2>2 DEF TypeOK

<1>LifecycleCallbackTyped.
    ASSUME TypeOK, OnRoomCreated \/ OnRoomDestroyed \/ OnServerRestart
    PROVE  TypeOK'
  <2> USE <1>LifecycleCallbackTyped
  <2> DEFINE c == Head(deferred)
  <2>1. c \in Callbacks /\ deferred' \in Seq(Callbacks)
    BY CallbackTyped DEF TypeOK, OnRoomCreated, OnRoomDestroyed, OnServerRestart
  <2>2. c.room \in Rooms
    BY <2>1, CallbackFields, SMTT(60), Z3T(60), SMTT(90)
  <2>3. taskQueue' = taskQueue /\ UNCHANGED <<peerVars, roomVars, procVars>>
    BY DEF OnRoomCreated, OnRoomDestroyed, OnServerRestart
  <2>4. QueueTypeOK' /\ PeerTypeOK' /\ RoomTypeOK' /\ ProcTypeOK'
    BY <2>1, <2>3, Frames DEF TypeOK, QueueTypeOK
  <2>5. SocketTypeOK'
    <3>1. CASE OnServerRestart
      BY <2>2, <3>1, SMTT(60), Z3T(60), SMTT(90) DEF TypeOK, SocketTypeOK, OnServerRestart
    <3>2. CASE OnRoomCreated \/ OnRoomDestroyed
      BY <3>2, Frames DEF TypeOK, OnRoomCreated, OnRoomDestroyed
    <3>3. QED
      BY <3>1, <3>2, SMTT(60), Z3T(60), SMTT(90)
  <2>6. DispatchTypeOK'
    <3>1. CASE OnRoomCreated
      BY <3>1, SMTT(60), Z3T(60), SMTT(90) DEF TypeOK, DispatchTypeOK, OnRoomCreated
    <3>2. CASE OnRoomDestroyed
      <4>1. roomDispatch' \in [Rooms -> Workers \cup {NoWorker}]
        BY <3>2, ZenonT(60) DEF TypeOK, DispatchTypeOK, OnRoomDestroyed
      <4>2. QED
        BY <2>2, <3>2, <4>1 DEF TypeOK, DispatchTypeOK, OnRoomDestroyed
    <3>3. CASE OnServerRestart
      BY <3>3, Frames DEF TypeOK, OnServerRestart
    <3>4. QED
      BY <3>1, <3>2, <3>3
  <2>7. QED
    BY <2>4, <2>5, <2>6 DEF TypeOK

(* Clearing a pending join leaves a binding.                               *)
<1>ClearPendingTyped.
    ASSUME SocketTypeOK, NEW ws \in Sockets, NEW s,
           ClearPendingSocketJoinIfMatches(ws, s)
    PROVE  pending' \in [Sockets -> Bindings]
  BY <1>ClearPendingTyped, UnboundTyped DEF SocketTypeOK, ClearPendingSocketJoinIfMatches

<1>JoinNotCommittedTyped.
    ASSUME TypeOK, OnJoinFailed \/ OnJoinUnavailable
    PROVE  TypeOK'
  <2> USE <1>JoinNotCommittedTyped
  <2> DEFINE c == Head(deferred)
  <2>1. /\ c.ws \in Sockets /\ c.room \in Rooms
        /\ deferred' \in Seq(Callbacks)
    BY CompletionTyped DEF OnJoinFailed, OnJoinUnavailable
  <2>2. /\ UNCHANGED <<alive, joined, wsPeers, roomPeers, notified,
                       destroyedRooms, nextSessionId, running, taskQueue>>
        /\ UNCHANGED <<peerVars, roomVars, procVars>>
        /\ pending' = pending \/ ClearPendingSocketJoinIfMatches(c.ws, c.session)
        /\ \/ roomDispatch' = roomDispatch
           \/ roomDispatch' = [roomDispatch EXCEPT ![c.room] = NoWorker]
    BY SMTT(60), Z3T(60), SMTT(90) DEF OnJoinFailed, OnJoinUnavailable, unassignRoom
  <2>3. pending' \in [Sockets -> Bindings]
    BY <2>1, <2>2, <1>ClearPendingTyped DEF TypeOK, SocketTypeOK
  <2>4. SocketTypeOK'
    BY <2>2, <2>3, SMTT(60), Z3T(60), SMTT(90) DEF TypeOK, SocketTypeOK
  <2>5. DispatchTypeOK'
    BY <2>1, <2>2 DEF TypeOK, DispatchTypeOK
  <2>6. QueueTypeOK' /\ PeerTypeOK' /\ RoomTypeOK' /\ ProcTypeOK'
    BY <2>1, <2>2, Frames DEF TypeOK, QueueTypeOK
  <2>7. QED
    BY <2>4, <2>5, <2>6, SMTT(60), Z3T(60), SMTT(90) DEF TypeOK

<1>JoinRollbackTyped.
    ASSUME TypeOK, OnJoinRollback
    PROVE  TypeOK'
  <2> USE <1>JoinRollbackTyped
  <2> DEFINE c == Head(deferred)
  <2>1. /\ c.worker \in Workers /\ c.ws \in Sockets /\ c.room \in Rooms
        /\ c.peer \in Peers /\ c.session \in LiveSessions
        /\ deferred' \in Seq(Callbacks)
    BY CompletionTyped DEF OnJoinRollback
  <2>2. Task("leave", c.ws, c) \in Tasks
    BY <2>1, TaskTyped
  <2>3. taskQueue' = taskQueue \/ post(c.worker, Task("leave", c.ws, c))
    BY DEF OnJoinRollback
  <2>4. taskQueue' \in [Workers -> Seq(Tasks)]
    BY <2>1, <2>2, <2>3, PostTyped DEF TypeOK, QueueTypeOK
  <2>5. QueueTypeOK'
    BY <2>1, <2>4 DEF QueueTypeOK
  <2>6. QED
    BY <2>5, Frames DEF TypeOK, OnJoinRollback

(* The state after a commit, for any worker, socket and binding.           *)
<1>CommitJoinTyped.
    ASSUME TypeOK, NEW w \in Workers, NEW ws \in Sockets,
           NEW b \in Bindings, b.session # 0, CommitJoin(w, ws, b),
           UNCHANGED <<notified, nextSessionId, running>>
    PROVE  /\ SocketTypeOK' /\ DispatchTypeOK'
           /\ taskQueue' \in [Workers -> Seq(Tasks)]
  <2> USE <1>CommitJoinTyped
  <2>1. b.room \in Rooms /\ b.peer \in Peers
    BY BindingFields
  <2>2. oldWs(ws, b.room, b.peer) \in SUBSET Sockets
    BY <2>1, SMTT(60), Z3T(60), SMTT(90) DEF oldWs, TypeOK, SocketTypeOK
  <2>3. /\ alive' \in [Sockets -> BOOLEAN]
        /\ joined' \in [Sockets -> Bindings]
        /\ pending' \in [Sockets -> Bindings]
    BY UnboundTyped, SMTT(60), Z3T(60), SMTT(90) DEF CommitJoin, TypeOK, SocketTypeOK
  <2>4. wsPeers' \in [Rooms -> [Peers -> Sockets \cup {NoSocket}]]
    BY SMTT(60), Z3T(60), SMTT(90) DEF CommitJoin, RegisterJoinedSocket, TypeOK, SocketTypeOK
  <2>5. roomPeers' \in [Rooms -> SUBSET Sockets]
    BY DEF CommitJoin, RegisterJoinedSocket, TypeOK, SocketTypeOK
  <2>6. SocketTypeOK'
    BY <2>3, <2>4, <2>5, SMTT(60), Z3T(60), SMTT(90) DEF TypeOK, SocketTypeOK
  <2>7. DispatchTypeOK'
    BY <2>1, SMTT(60), Z3T(60), SMTT(90) DEF CommitJoin, TypeOK, DispatchTypeOK
  <2>8. taskQueue' \in [Workers -> Seq(Tasks)]
    BY <2>2, <2>7, PostLeaveTyped, ZenonT(60)
       DEF CommitJoin, TypeOK, QueueTypeOK, DispatchTypeOK
  <2>9. QED
    BY <2>6, <2>7, <2>8

<1>JoinCommitTyped.
    ASSUME TypeOK, OnJoinCommit
    PROVE  TypeOK'
  <2> USE <1>JoinCommitTyped
  <2>1. PICK w \in Workers, ws \in Sockets, b \in Bindings :
          b.session # 0 /\ CommitJoin(w, ws, b)
    <3> DEFINE c == Head(deferred)
    <3>1. /\ c.worker \in Workers /\ c.ws \in Sockets /\ c.room \in Rooms
          /\ c.peer \in Peers /\ c.session \in LiveSessions
      BY CompletionTyped DEF OnJoinCommit
    <3>2. /\ Bound(c.room, c.peer, c.session) \in Bindings
          /\ Bound(c.room, c.peer, c.session).session # 0
      BY <3>1, BoundsAssumption, SMTT(60), Z3T(60), SMTT(90) DEF Bindings, Bound, LiveSessions
    <3>3. CommitJoin(c.worker, c.ws, Bound(c.room, c.peer, c.session))
      BY DEF OnJoinCommit
    <3>4. QED
      BY <3>1, <3>2, <3>3, SMTT(60), Z3T(60), SMTT(90)
  <2>2. /\ UNCHANGED <<notified, nextSessionId, running>>
        /\ UNCHANGED <<peerVars, roomVars, procVars>>
        /\ deferred' \in Seq(Callbacks)
    BY CompletionTyped DEF OnJoinCommit
  <2>3. /\ SocketTypeOK' /\ DispatchTypeOK'
        /\ taskQueue' \in [Workers -> Seq(Tasks)]
    BY <2>1, <2>2, <1>CommitJoinTyped
  <2>4. QED
    BY <2>2, <2>3, Frames, SMTT(60), Z3T(60), SMTT(90) DEF TypeOK, QueueTypeOK

(* Deferring callbacks keeps the FIFO well typed.                          *)
<1>DeferTyped.
    ASSUME QueueTypeOK, NEW cs \in Seq(Callbacks), defer(cs)
    PROVE  deferred' \in Seq(Callbacks)
  BY <1>DeferTyped DEF QueueTypeOK, defer

(* Republishing the room count after any change of the rooms.              *)
<1>UpdateRoomCountTyped.
    ASSUME RoomTypeOK, NEW w \in Workers, updateRoomCount(w),
           rooms' \in [Workers -> SUBSET Rooms]
    PROVE  roomCount' \in [Workers -> Nat]
  <2> USE <1>UpdateRoomCountTyped
  <2>1. Cardinality(rooms'[w]) \in Nat
    BY RoomCountTyped
  <2>2. QED
    BY <2>1 DEF RoomTypeOK, updateRoomCount

(* Setting one peer's entry in a per-worker table of sessions.             *)
<1>PeerTableTyped.
    ASSUME NEW f \in PeerTables, NEW w \in Workers, NEW r \in Rooms,
           NEW p \in Peers, NEW s \in Sessions
    PROVE  [f EXCEPT ![w][r][p] = s] \in PeerTables
  BY <1>PeerTableTyped DEF PeerTables

(* A join task: refused, thrown out after the room was created, or run.    *)
<1>RunJoinTyped.
    ASSUME TypeOK, NEW w \in Workers
    PROVE  (RunJoinRefused(w) \/ RunJoinThrows(w) \/ RunJoin(w)) => TypeOK'
  <2> USE <1>RunJoinTyped
  <2>a. SUFFICES ASSUME RunJoinRefused(w) \/ RunJoinThrows(w) \/ RunJoin(w) PROVE TypeOK'
    OBVIOUS
  <2>0. TakeTask(w, "join")
    BY <2>a, ZenonT(60) DEF RunJoinRefused, RunJoinThrows, RunJoin
  <2>1. taskQueue' \in [Workers -> Seq(Tasks)]
    BY <2>0, TakeTaskTyped DEF TypeOK
  <2>2. PICK t \in Tasks : t = Head(taskQueue[w])
    BY <2>0, TakeTaskTyped, SMTT(60), Z3T(60), SMTT(90) DEF TypeOK
  <2>3. /\ updateRoomCount(w)
        /\ rooms' = rooms \/ rooms' = [rooms EXCEPT ![w] = @ \cup {t.room}]
        /\ \/ UNCHANGED peerVars
           \/ /\ peerSession' = [peerSession EXCEPT ![w][t.room][t.peer] = t.session]
              /\ mediaBy' = [mediaBy EXCEPT ![w][t.room][t.peer] = 0]
              /\ statsBy' = [statsBy EXCEPT ![w][t.room][t.peer] = 0]
        /\ \/ defer(<<JoinDone("joinFailed", w, t)>>)
           \/ defer(CreatedNotice(w, t.room) \o <<JoinDone("joinFailed", w, t)>>)
           \/ defer(CreatedNotice(w, t.room) \o <<JoinDone("joinOk", w, t)>>)
        /\ UNCHANGED <<socketVars, dispatchVars, deadRouters, procVars>>
    BY <2>a, <2>2, ZenonT(60) DEF RunJoinRefused, RunJoinThrows, RunJoin, createRoom
  <2>4. t.room \in Rooms /\ t.peer \in Peers /\ t.session \in Sessions
    BY TaskFields, SMTT(60), Z3T(60), SMTT(90)
  <2>5. rooms' \in [Workers -> SUBSET Rooms]
    BY <2>3, <2>4, SMTT(60), Z3T(60), SMTT(90) DEF TypeOK, RoomTypeOK
  <2>6. roomCount' \in [Workers -> Nat]
    BY <2>3, <2>5, <1>UpdateRoomCountTyped, SMTT(60), Z3T(60), SMTT(90) DEF TypeOK
  <2>7. RoomTypeOK'
    BY <2>3, <2>5, <2>6, SMTT(60), Z3T(60), SMTT(90) DEF TypeOK, RoomTypeOK
  <2>8. PeerTypeOK'
    BY <2>3, <2>4, SessionsTyped, <1>PeerTableTyped, Frames, SMTT(60), Z3T(60), SMTT(90)
       DEF TypeOK, PeerTypeOK
  <2>9. deferred' \in Seq(Callbacks)
    <3>1. /\ <<JoinDone("joinFailed", w, t)>> \in Seq(Callbacks)
          /\ <<JoinDone("joinOk", w, t)>> \in Seq(Callbacks)
      BY JoinDoneTyped
    <3>2. CreatedNotice(w, t.room) \in Seq(Callbacks)
      BY <2>4, LifecycleTyped DEF CreatedNotice
    <3>3. /\ CreatedNotice(w, t.room) \o <<JoinDone("joinFailed", w, t)>>
                \in Seq(Callbacks)
          /\ CreatedNotice(w, t.room) \o <<JoinDone("joinOk", w, t)>>
                \in Seq(Callbacks)
      BY <3>1, <3>2
    <3>4. QED
      BY <2>3, <3>1, <3>3, <1>DeferTyped, ZenonT(60) DEF TypeOK
  <2>10. QED
    BY <2>1, <2>3, <2>7, <2>8, <2>9, Frames, SMTT(60), Z3T(60), SMTT(90) DEF TypeOK, QueueTypeOK

<1>RunLeaveStaleTyped.
    ASSUME TypeOK, NEW w \in Workers
    PROVE  RunLeaveStale(w) => TypeOK'
  <2> USE <1>RunLeaveStaleTyped
  <2>a. SUFFICES ASSUME RunLeaveStale(w) PROVE TypeOK'
    OBVIOUS
  <2>1. taskQueue' \in [Workers -> Seq(Tasks)]
    BY <2>a, TakeTaskTyped DEF TypeOK, RunLeaveStale
  <2>2. /\ rooms' = rooms /\ updateRoomCount(w) /\ deferred' = deferred
        /\ deadRouters' = deadRouters
        /\ UNCHANGED <<socketVars, dispatchVars, peerVars, procVars>>
    BY <2>a, SMTT(60), Z3T(60), SMTT(90) DEF RunLeaveStale
  <2>3. RoomTypeOK'
    BY <2>2, <1>UpdateRoomCountTyped, SMTT(60), Z3T(60), SMTT(90) DEF TypeOK, RoomTypeOK
  <2>4. QED
    BY <2>1, <2>2, <2>3, Frames DEF TypeOK, QueueTypeOK

<1>RunLeaveTyped.
    ASSUME TypeOK, NEW w \in Workers
    PROVE  RunLeave(w) => TypeOK'
  <2> USE <1>RunLeaveTyped
  <2>a. SUFFICES ASSUME RunLeave(w) PROVE TypeOK'
    OBVIOUS
  <2>0. TakeTask(w, "leave")
    BY <2>a, ZenonT(60) DEF RunLeave
  <2>1. taskQueue' \in [Workers -> Seq(Tasks)]
    BY <2>0, TakeTaskTyped DEF TypeOK
  <2>2. PICK t \in Tasks : t = Head(taskQueue[w])
    BY <2>0, TakeTaskTyped, SMTT(60), Z3T(60), SMTT(90) DEF TypeOK
  <2>3. /\ \E gone : /\ rooms' = [rooms EXCEPT ![w] = @ \ gone]
                     /\ deadRouters' = [deadRouters EXCEPT ![w] = @ \ gone]
        /\ updateRoomCount(w)
        /\ peerSession' = [peerSession EXCEPT ![w][t.room][t.peer] = 0]
        /\ mediaBy' = [mediaBy EXCEPT ![w][t.room][t.peer] = 0]
        /\ statsBy' = [statsBy EXCEPT ![w][t.room][t.peer] = 0]
        /\ defer(<<Lifecycle("destroyed", w, t.room)>>) \/ defer(<<>>)
        /\ UNCHANGED <<socketVars, dispatchVars, procVars>>
    BY <2>a, <2>2, ZenonT(60) DEF RunLeave
  <2>4. t.room \in Rooms /\ t.peer \in Peers
    BY TaskFields, SMTT(60), Z3T(60), SMTT(90)
  <2>5. /\ rooms' \in [Workers -> SUBSET Rooms]
        /\ deadRouters' \in [Workers -> SUBSET Rooms]
    BY <2>3, SMTT(60), Z3T(60), SMTT(90) DEF TypeOK, RoomTypeOK
  <2>6. roomCount' \in [Workers -> Nat]
    BY <2>3, <2>5, <1>UpdateRoomCountTyped DEF TypeOK
  <2>7. PeerTypeOK'
    BY <2>3, <2>4, SessionsTyped, <1>PeerTableTyped, ZenonT(60) DEF TypeOK, PeerTypeOK
  <2>8. deferred' \in Seq(Callbacks)
    <3>1. <<Lifecycle("destroyed", w, t.room)>> \in Seq(Callbacks) /\
          <<>> \in Seq(Callbacks)
      BY <2>4, LifecycleTyped, SMTT(60), Z3T(60), SMTT(90)
    <3>2. QED
      BY <2>3, <3>1, <1>DeferTyped, ZenonT(60) DEF TypeOK
  <2>9. QED
    BY <2>1, <2>3, <2>5, <2>6, <2>7, <2>8, Frames, SMTT(60), Z3T(60), SMTT(90)
       DEF TypeOK, QueueTypeOK, RoomTypeOK

<1>RunRequestTyped.
    ASSUME TypeOK, NEW w \in Workers
    PROVE  (RunRequest(w) \/ RunRequestRejected(w) \/ RunStats(w)) => TypeOK'
  <2> USE <1>RunRequestTyped
  <2>a. SUFFICES ASSUME RunRequest(w) \/ RunRequestRejected(w) \/ RunStats(w) PROVE TypeOK'
    OBVIOUS
  <2>0. TakeTask(w, "request") \/ TakeTask(w, "stats")
    BY <2>a, ZenonT(60) DEF RunRequest, RunRequestRejected, RunStats
  <2>1. taskQueue' \in [Workers -> Seq(Tasks)]
    BY <2>0, TakeTaskTyped DEF TypeOK
  <2>2. PICK t \in Tasks : t = Head(taskQueue[w])
    BY <2>0, TakeTaskTyped, SMTT(60), Z3T(60), SMTT(90) DEF TypeOK
  <2>3. /\ \/ UNCHANGED roomVars
           \/ rooms' = rooms /\ deadRouters' = deadRouters /\ updateRoomCount(w)
        /\ peerSession' = peerSession
        /\ \/ mediaBy' = mediaBy
           \/ mediaBy' = [mediaBy EXCEPT ![w][t.room][t.peer] = t.session]
        /\ \/ statsBy' = statsBy
           \/ statsBy' = [statsBy EXCEPT ![w][t.room][t.peer] = t.session]
        /\ deferred' = deferred
        /\ UNCHANGED <<socketVars, dispatchVars, procVars>>
    BY <2>a, <2>2, ZenonT(60) DEF RunRequest, RunRequestRejected, RunStats, peerVars
  <2>4. t.room \in Rooms /\ t.peer \in Peers /\ t.session \in Sessions
    BY TaskFields
  <2>5. RoomTypeOK'
    BY <2>3, <1>UpdateRoomCountTyped, Frames, SMTT(60), Z3T(60), SMTT(90) DEF TypeOK, RoomTypeOK
  <2>6. PeerTypeOK'
    BY <2>3, <2>4, <1>PeerTableTyped, SMTT(60), Z3T(60), SMTT(90) DEF TypeOK, PeerTypeOK
  <2>7. QED
    BY <2>1, <2>3, <2>5, <2>6, Frames, SMTT(60), Z3T(60), SMTT(90) DEF TypeOK, QueueTypeOK

(* Destroying rooms, whatever well-typed callbacks it defers.              *)
<1>DestroyRoomsTyped.
    ASSUME TypeOK, NEW w \in Workers, NEW gone, NEW notices \in Seq(Callbacks),
           destroyRooms(w, gone, notices)
    PROVE  TypeOK'
  <2> USE <1>DestroyRoomsTyped
  <2>1. /\ rooms' \in [Workers -> SUBSET Rooms]
        /\ deadRouters' \in [Workers -> SUBSET Rooms]
    BY DEF destroyRooms, TypeOK, RoomTypeOK
  <2>2. roomCount' \in [Workers -> Nat]
    BY <2>1, <1>UpdateRoomCountTyped DEF destroyRooms, TypeOK
  <2>3. ASSUME NEW f \in PeerTables
        PROVE  Without(f, w, gone) \in PeerTables
    BY SessionsTyped DEF Without, PeerTables
  <2>4. PeerTypeOK'
    BY <2>3 DEF destroyRooms, TypeOK, PeerTypeOK
  <2>5. deferred' \in Seq(Callbacks)
    BY <1>DeferTyped DEF destroyRooms, TypeOK
  <2>6. /\ UNCHANGED <<socketVars, dispatchVars, procVars>>
        /\ taskQueue' = taskQueue
    BY DEF destroyRooms
  <2>7. QED
    BY <2>1, <2>2, <2>4, <2>5, <2>6, Frames, SMTT(60), Z3T(60), SMTT(90)
       DEF TypeOK, RoomTypeOK, QueueTypeOK

<1>HealthCheckTyped.
    ASSUME TypeOK, NEW w \in Workers, HealthCheck(w)
    PROVE  TypeOK'
  <2> USE <1>HealthCheckTyped
  <2>1. PICK order \in Orders(deadRouters[w]) :
          destroyRooms(w, deadRouters[w], HealthNotices(w, order))
    BY DEF HealthCheck
  <2>2. deadRouters[w] \in SUBSET Rooms
    BY DEF TypeOK, RoomTypeOK
  <2>3. Len(order) \in Nat /\ \A i \in 1 .. Len(order) : order[i] \in Rooms
    BY <2>2, OrderTyped
  <2>4. HealthNotices(w, order) \in Seq(Callbacks)
    BY <2>3, HealthNoticesTyped
  <2>5. QED
    BY <2>1, <2>4, <1>DestroyRoomsTyped, SMTT(60), Z3T(60), SMTT(90)

<1>GcTimerTyped.
    ASSUME TypeOK, NEW w \in Workers, GcTimer(w)
    PROVE  TypeOK'
  <2> USE <1>GcTimerTyped
  <2>1. PICK idle \in SUBSET IdleRooms(w) : \E order \in Orders(idle) :
          destroyRooms(w, idle, GcNotices(w, order))
    BY DEF GcTimer
  <2>2. PICK order \in Orders(idle) :
          destroyRooms(w, idle, GcNotices(w, order))
    BY <2>1, SMTT(60), Z3T(60), SMTT(90)
  <2>3. idle \in SUBSET Rooms
    BY DEF TypeOK, RoomTypeOK, IdleRooms
  <2>4. Len(order) \in Nat /\ \A i \in 1 .. Len(order) : order[i] \in Rooms
    BY <2>3, OrderTyped, SMTT(60), Z3T(60), SMTT(90)
  <2>5. GcNotices(w, order) \in Seq(Callbacks)
    BY <2>4, LifecycleTyped DEF GcNotices
  <2>6. QED
    BY <2>2, <2>5, <1>DestroyRoomsTyped, SMTT(60), Z3T(60), SMTT(90)

<1>WorkerDiedTyped.
    ASSUME TypeOK, NEW w \in Workers, WorkerDied(w)
    PROVE  TypeOK'
  <2> USE <1>WorkerDiedTyped
  <2>1. deadRouters' \in [Workers -> SUBSET Rooms]
    BY DEF WorkerDied, TypeOK, RoomTypeOK
  <2>2. RoomTypeOK'
    BY <2>1 DEF WorkerDied, TypeOK, RoomTypeOK
  <2>3. workerCount' \in [Workers -> 0 .. ProcsPerWorker]
    <3>1. /\ workerCount \in [Workers -> 0 .. ProcsPerWorker]
          /\ workerCount[w] > 0
          /\ \/ workerCount' = workerCount
             \/ workerCount' = [workerCount EXCEPT ![w] = @ - 1]
      BY DEF WorkerDied, TypeOK, ProcTypeOK
    <3>2. workerCount[w] - 1 \in 0 .. ProcsPerWorker
      BY <3>1, PoolAssumption, SMTT(60), Z3T(60), SMTT(90)
    <3>3. QED
      BY <3>1, <3>2, SMTT(60), Z3T(60), SMTT(90)
  <2>4. ProcTypeOK'
    BY <2>3, BoundsAssumption, SMTT(60), Z3T(60), SMTT(90) DEF WorkerDied, TypeOK, ProcTypeOK
  <2>5. QueueTypeOK'
    BY SMTT(60), Z3T(60), SMTT(90) DEF WorkerDied, TypeOK, QueueTypeOK
  <2>6. SocketTypeOK' /\ DispatchTypeOK' /\ PeerTypeOK'
    BY Frames DEF WorkerDied, TypeOK
  <2>7. QED
    BY <2>2, <2>4, <2>5, <2>6, SMTT(60), Z3T(60), SMTT(90) DEF TypeOK

<1> SUFFICES ASSUME TypeOK, [Next]_vars PROVE TypeOK'
  OBVIOUS
<1>1. CASE MainNext
  BY <1>1, <1>JoinTyped, <1>JoinNoWorkerTyped, <1>RequestTyped, CloseTyped, <1>StopTyped, SMTT(60),
     Z3T(60),
     Z3T(60)
     DEF MainNext
<1>2. CASE DeferredNext
  BY <1>2, <1>LifecycleCallbackTyped, <1>JoinNotCommittedTyped, <1>JoinRollbackTyped,
     <1>JoinCommitTyped, SMTT(60), Z3T(60), SMTT(90) DEF DeferredNext
<1>3. ASSUME NEW w \in Workers, WorkerTask(w) PROVE TypeOK'
  BY <1>3, <1>RunJoinTyped, <1>RunLeaveStaleTyped, <1>RunLeaveTyped, <1>RunRequestTyped, SMTT(60),
     Z3T(60),
     Z3T(60)
     DEF WorkerTask
<1>4. CASE UNCHANGED vars
  <2>1. /\ UNCHANGED <<socketVars, dispatchVars, peerVars, roomVars, procVars>>
        /\ deferred' = deferred /\ taskQueue' = taskQueue
    BY <1>4 DEF vars
  <2>2. QED
    BY <2>1, Frames DEF TypeOK, QueueTypeOK
<1>5. QED
  BY <1>1, <1>2, <1>3, <1>4, <1>HealthCheckTyped, <1>GcTimerTyped, <1>WorkerDiedTyped, SMTT(60),
     Z3T(60),
     Z3T(60)
     DEF Next

(* Every variable keeps its type in every behaviour, for any pool size and *)
(* any set of rooms, peers and sockets; in particular no action ever posts *)
(* a task, or defers a callback, without a room, a peer and a session.     *)
THEOREM TypeCorrect == Spec => []TypeOK
<1>TypeInit. Init => TypeOK
  <2> SUFFICES ASSUME Init PROVE TypeOK
    OBVIOUS
  <2>1. SocketTypeOK
    BY UnboundTyped DEF Init, SocketTypeOK
  <2>2. DispatchTypeOK
    BY BoundsAssumption DEF Init, DispatchTypeOK
  <2>3. QueueTypeOK
    BY DEF Init, QueueTypeOK
  <2>4. PeerTypeOK
    BY SessionsTyped DEF Init, PeerTypeOK, NoPeers, PeerTables
  <2>5. RoomTypeOK
    BY DEF Init, RoomTypeOK
  <2>6. ProcTypeOK
    BY BoundsAssumption DEF Init, ProcTypeOK
  <2>7. QED
    BY <2>1, <2>2, <2>3, <2>4, <2>5, <2>6, SMTT(60), Z3T(60), SMTT(90) DEF TypeOK

<1> QED
  BY <1>TypeInit, TypeStep, PTL DEF Spec

-----------------------------------------------------------------------------
(* The socket map is right in every reachable state. *)

(* A socket in the map is open and has joined under that room and peer.    *)
LEMMA MappedIsJoined ==
    ASSUME SocketMapInv, NEW r \in Rooms, NEW p \in Peers, wsPeers[r][p] # NoSocket
    PROVE  /\ alive[wsPeers[r][p]] /\ joined[wsPeers[r][p]].session # 0
           /\ joined[wsPeers[r][p]].room = r /\ joined[wsPeers[r][p]].peer = p
BY SMTT(60), Z3T(60), SMTT(90) DEF SocketMapInv, MapNamesOpenSockets

(* The close handler takes the socket out of the map wherever it is.       *)
LEMMA CloseUnmaps ==
    ASSUME TypeOK, SocketMapInv, NEW ws \in Sockets, Close(ws),
           NEW r \in Rooms, NEW p \in Peers
    PROVE  wsPeers'[r][p] = IF wsPeers[r][p] = ws THEN NoSocket ELSE wsPeers[r][p]
<1>0. /\ joined \in [Sockets -> Bindings]
      /\ wsPeers \in [Rooms -> [Peers -> Sockets \cup {NoSocket}]]
  BY DEF TypeOK, SocketTypeOK
<1>1. CASE HasMappedSession(ws)
  <2>1. wsPeers' = [wsPeers EXCEPT ![joined[ws].room][joined[ws].peer] = NoSocket]
    BY <1>1, SMTT(60), Z3T(60), SMTT(90) DEF Close, UnregisterSocketSession
  <2>2. wsPeers[joined[ws].room][joined[ws].peer] = ws
    BY <1>1, SMTT(60), Z3T(60), SMTT(90) DEF HasMappedSession
  <2>3. wsPeers[r][p] = ws => r = joined[ws].room /\ p = joined[ws].peer
    BY NullsAssumption DEF SocketMapInv, MapNamesOpenSockets
  <2>4. QED
    BY <1>0, <2>1, <2>2, <2>3, SMTT(60), Z3T(60), SMTT(90)
<1>2. CASE ~HasMappedSession(ws)
  <2>1. wsPeers' = wsPeers
    BY <1>2, SMTT(60), Z3T(60), SMTT(90) DEF Close, UnregisterSocketSession
  <2>2. wsPeers[r][p] # ws
    BY <1>2, NullsAssumption
       DEF SocketMapInv, MapNamesOpenSockets, HasMappedSession
  <2>3. QED
    BY <2>1, <2>2
<1>3. QED
  BY <1>1, <1>2

LEMMA MapStep == TypeOK /\ SocketMapInv /\ [Next]_vars => SocketMapInv'
(* Only the close handler and the commit of a join touch the map.          *)
<1>MapFrame.
    ASSUME SocketMapInv, UNCHANGED <<alive, joined, wsPeers, roomPeers>>
    PROVE  SocketMapInv'
  BY <1>MapFrame, SMTT(60), Z3T(60), SMTT(90)
     DEF SocketMapInv, MapNamesOpenSockets, JoinedSocketIsMapped,
         BroadcastSetMatchesMap, HasMappedSession

<1>MapClose.
    ASSUME TypeOK, SocketMapInv, NEW ws \in Sockets, Close(ws)
    PROVE  SocketMapInv'
  <2> USE <1>MapClose
  <2>1. /\ alive \in [Sockets -> BOOLEAN] /\ joined \in [Sockets -> Bindings]
        /\ wsPeers \in [Rooms -> [Peers -> Sockets \cup {NoSocket}]]
        /\ roomPeers \in [Rooms -> SUBSET Sockets]
    BY DEF TypeOK, SocketTypeOK
  <2>2. \A r \in Rooms, p \in Peers :
          wsPeers'[r][p] = IF wsPeers[r][p] = ws THEN NoSocket ELSE wsPeers[r][p]
    BY CloseUnmaps
  <2>3. ASSUME NEW r \in Rooms
        PROVE  roomPeers'[r] = roomPeers[r] \ {ws}
    <3>1. CASE HasMappedSession(ws)
      <4>1. roomPeers' = [roomPeers EXCEPT ![joined[ws].room] = @ \ {ws}]
        BY <3>1, SMTT(60), Z3T(60), SMTT(90) DEF Close, UnregisterSocketSession
      <4>2. r # joined[ws].room => ws \notin roomPeers[r]
        BY NullsAssumption
           DEF SocketMapInv, MapNamesOpenSockets, BroadcastSetMatchesMap
      <4>3. QED
        BY <2>1, <4>1, <4>2, SMTT(60), Z3T(60), SMTT(90)
    <3>2. CASE ~HasMappedSession(ws)
      <4>1. roomPeers' = roomPeers
        BY <3>2, SMTT(60), Z3T(60), SMTT(90) DEF Close, UnregisterSocketSession
      <4>2. ws \notin roomPeers[r]
        BY <3>2, NullsAssumption DEF SocketMapInv, MapNamesOpenSockets,
           BroadcastSetMatchesMap, HasMappedSession
      <4>3. QED
        BY <4>1, <4>2
    <3>3. QED
      BY <3>1, <3>2
  <2>4. \A x \in Sockets : /\ alive'[x] <=> alive[x] /\ x # ws
                           /\ x # ws => joined'[x] = joined[x]
    BY <2>1, SMTT(60), Z3T(60), SMTT(90) DEF Close
  <2>5. MapNamesOpenSockets'
    BY <2>1, <2>2, <2>4, SMTT(60), Z3T(60), SMTT(90) DEF SocketMapInv, MapNamesOpenSockets
  <2>6. JoinedSocketIsMapped'
    <3> SUFFICES ASSUME NEW x \in Sockets, alive'[x], joined'[x].session # 0
                 PROVE  wsPeers'[joined'[x].room][joined'[x].peer] = x
      BY DEF JoinedSocketIsMapped, HasMappedSession
    <3>1. /\ x # ws /\ alive[x] /\ joined'[x] = joined[x]
          /\ joined[x].session # 0
      BY <2>4
    <3>2. joined[x].room \in Rooms /\ joined[x].peer \in Peers
      BY <2>1, <3>1, BindingFields, SMTT(60), Z3T(60), SMTT(90)
    <3>3. wsPeers[joined[x].room][joined[x].peer] = x
      BY <3>1 DEF SocketMapInv, JoinedSocketIsMapped, HasMappedSession
    <3>4. QED
      BY <2>2, <3>1, <3>2, <3>3, SMTT(60), Z3T(60), SMTT(90)
  <2>7. BroadcastSetMatchesMap'
    BY <2>2, <2>3, NullsAssumption DEF SocketMapInv, BroadcastSetMatchesMap
  <2>8. QED
    BY <2>5, <2>6, <2>7 DEF SocketMapInv

<1>MapCommit.
    ASSUME TypeOK, SocketMapInv, NEW w \in Workers, NEW ws \in Sockets,
           NEW b \in Bindings, b.session # 0, alive[ws]
    PROVE  CommitJoin(w, ws, b) => SocketMapInv'
  <2> USE <1>MapCommit
  <2>a. SUFFICES ASSUME CommitJoin(w, ws, b) PROVE SocketMapInv'
    OBVIOUS
  <2>1. /\ alive \in [Sockets -> BOOLEAN] /\ joined \in [Sockets -> Bindings]
        /\ wsPeers \in [Rooms -> [Peers -> Sockets \cup {NoSocket}]]
        /\ roomPeers \in [Rooms -> SUBSET Sockets]
    BY DEF TypeOK, SocketTypeOK
  <2>2. b.room \in Rooms /\ b.peer \in Peers
    BY BindingFields
  <2>3. PICK kicked : kicked = oldWs(ws, b.room, b.peer)
    BY SMTT(60), Z3T(60), SMTT(90)
  <2>4. \A x \in Sockets : x \in kicked <=> x = wsPeers[b.room][b.peer] /\ x # ws
    BY <2>3, NullsAssumption DEF oldWs
  <2>5. \A x \in Sockets :
          /\ alive'[x] <=> alive[x] /\ x \notin kicked
          /\ joined'[x] = IF x = ws THEN b
                          ELSE IF x \in kicked THEN Unbound ELSE joined[x]
    BY <2>a, <2>3, ZenonT(60) DEF CommitJoin
  <2>6. \A r \in Rooms, p \in Peers :
          wsPeers'[r][p] = IF r = b.room /\ p = b.peer THEN ws
                           ELSE IF wsPeers[r][p] = ws THEN NoSocket
                           ELSE wsPeers[r][p]
    BY <2>a DEF CommitJoin, RegisterJoinedSocket
  <2>8. /\ MapNamesOpenSockets /\ JoinedSocketIsMapped /\ BroadcastSetMatchesMap
    BY SMTT(60), Z3T(60), SMTT(90) DEF SocketMapInv
  <2>7. /\ roomPeers'[b.room] = (roomPeers[b.room] \ kicked) \cup {ws}
        /\ \A r \in Rooms : r # b.room => roomPeers'[r] = roomPeers[r] \ {ws}
    <3>1. roomPeers'[b.room] = (roomPeers[b.room] \ kicked) \cup {ws}
      BY <2>a, <2>2, <2>3, ZenonT(60) DEF CommitJoin, RegisterJoinedSocket
    <3>2. ASSUME NEW r \in Rooms, r # b.room
          PROVE  roomPeers'[r] = roomPeers[r] \ {ws}
      <4>1. CASE \E p \in Peers : wsPeers[r][p] = ws
        BY <2>a, <3>2, <4>1, ZenonT(60) DEF CommitJoin, RegisterJoinedSocket
      <4>2. CASE ~ \E p \in Peers : wsPeers[r][p] = ws
        <5>1. roomPeers'[r] = roomPeers[r]
          BY <2>a, <3>2, <4>2, ZenonT(60) DEF CommitJoin, RegisterJoinedSocket
        <5>2. ws \notin roomPeers[r]
          BY <2>8, <4>2, SMTT(60), Z3T(60), SMTT(90) DEF BroadcastSetMatchesMap
        <5>3. QED
          BY <5>1, <5>2, SMTT(60), Z3T(60), SMTT(90)
      <4>3. QED
        BY <4>1, <4>2, SMTT(60), Z3T(60), SMTT(90)
    <3>3. QED
      BY <3>1, <3>2, SMTT(60), Z3T(60), SMTT(90)
  (* A socket filed elsewhere is not the kicked one: it is filed once.       *)
  <2>9. \A r \in Rooms, p \in Peers :
          wsPeers[r][p] \in kicked => r = b.room /\ p = b.peer
    BY <2>1, <2>2, <2>3, <2>8, SMTT(60), Z3T(60), SMTT(90) DEF oldWs, MapNamesOpenSockets
  <2>10. MapNamesOpenSockets'
    <3> SUFFICES ASSUME NEW r \in Rooms, NEW p \in Peers,
                        wsPeers'[r][p] # NoSocket
                 PROVE  /\ alive'[wsPeers'[r][p]]
                        /\ joined'[wsPeers'[r][p]].session # 0
                        /\ joined'[wsPeers'[r][p]].room = r
                        /\ joined'[wsPeers'[r][p]].peer = p
      BY SMTT(60), Z3T(60), SMTT(90) DEF MapNamesOpenSockets
    <3>1. CASE r = b.room /\ p = b.peer
      BY <2>4, <2>5, <2>6, <3>1, SMTT(60), Z3T(60), SMTT(90)
    <3>2. CASE ~(r = b.room /\ p = b.peer)
      <4>1. wsPeers'[r][p] = wsPeers[r][p] /\ wsPeers[r][p] # ws
        BY <2>6, <3>2, SMTT(60), Z3T(60), SMTT(90)
      <4>2. wsPeers[r][p] \in Sockets /\ wsPeers[r][p] \notin kicked
        BY <2>1, <2>9, <3>2, <4>1, SMTT(60), Z3T(60), SMTT(90)
      <4>3. QED
        BY <2>5, <2>8, <4>1, <4>2, SMTT(60), Z3T(60), SMTT(90) DEF MapNamesOpenSockets
    <3>3. QED
      BY <3>1, <3>2, SMTT(60), Z3T(60), SMTT(90)
  <2>11. JoinedSocketIsMapped'
    <3> SUFFICES ASSUME NEW x \in Sockets, alive'[x], joined'[x].session # 0
                 PROVE  wsPeers'[joined'[x].room][joined'[x].peer] = x
      BY SMTT(60), Z3T(60), SMTT(90) DEF JoinedSocketIsMapped, HasMappedSession
    <3>1. CASE x = ws
      BY <2>2, <2>5, <2>6, <3>1, SMTT(60), Z3T(60), SMTT(90)
    <3>2. CASE x # ws
      <4>1. x \notin kicked /\ alive[x] /\ joined'[x] = joined[x]
        BY <2>5, <3>2, SMTT(60), Z3T(60), SMTT(90)
      <4>2. joined[x].room \in Rooms /\ joined[x].peer \in Peers
        BY <2>1, <4>1, BindingFields, SMTT(60), Z3T(60), SMTT(90)
      <4>3. wsPeers[joined[x].room][joined[x].peer] = x
        BY <2>8, <4>1, SMTT(60), Z3T(60), SMTT(90) DEF JoinedSocketIsMapped, HasMappedSession
      <4>4. ~(joined[x].room = b.room /\ joined[x].peer = b.peer)
        BY <2>4, <3>2, <4>1, <4>3, SMTT(60), Z3T(60), SMTT(90)
      <4>5. QED
        BY <2>6, <3>2, <4>1, <4>2, <4>3, <4>4, SMTT(60), Z3T(60), SMTT(90)
    <3>3. QED
      BY <3>1, <3>2, SMTT(60), Z3T(60), SMTT(90)
  <2>12. BroadcastSetMatchesMap'
    <3> SUFFICES ASSUME NEW r \in Rooms, NEW x
                 PROVE  x \in roomPeers'[r] <=>
                          x \in Sockets /\ \E p \in Peers : wsPeers'[r][p] = x
      <4>1. \A r \in Rooms : roomPeers'[r] \subseteq Sockets
        BY <2>1, <2>7, SMTT(60), Z3T(60), SMTT(90)
      <4>2. QED
        BY <4>1, SMTT(60), Z3T(60), SMTT(90) DEF BroadcastSetMatchesMap
    <3>1. x \in roomPeers[r] <=>
            x \in Sockets /\ \E p \in Peers : wsPeers[r][p] = x
      BY <2>8, SMTT(60), Z3T(60), SMTT(90) DEF BroadcastSetMatchesMap
    <3>2. CASE r = b.room
      <4>1. x \in roomPeers'[r] <=> x = ws \/ (x \in roomPeers[r] /\ x \notin kicked)
        BY <2>7, <3>2, SMTT(60), Z3T(60), SMTT(90)
      <4>2. CASE x = ws
        BY <2>2, <2>6, <3>2, <4>1, <4>2, SMTT(60), Z3T(60), SMTT(90)
      <4>3. CASE x # ws /\ x \in Sockets
        <5>1. ASSUME NEW p \in Peers
              PROVE  wsPeers'[r][p] = x <=> wsPeers[r][p] = x /\ x \notin kicked
          BY <2>2, <2>4, <2>6, <2>9, <3>2, <4>3, NullsAssumption, SMTT(60), Z3T(60), SMTT(90)
        <5>2. QED
          BY <3>1, <4>1, <4>3, <5>1, SMTT(60), Z3T(60), SMTT(90)
      <4>4. QED
        BY <3>1, <4>1, <4>2, <4>3, SMTT(60), Z3T(60), SMTT(90)
    <3>3. CASE r # b.room
      <4>1. x \in roomPeers'[r] <=> x \in roomPeers[r] /\ x # ws
        BY <2>7, <3>1, <3>3, SMTT(60), Z3T(60), SMTT(90)
      <4>2. ASSUME NEW p \in Peers, x \in Sockets
            PROVE  wsPeers'[r][p] = x <=> wsPeers[r][p] = x /\ x # ws
        BY <2>6, <3>3, <4>2, NullsAssumption, SMTT(60), Z3T(60), SMTT(90)
      <4>3. QED
        BY <3>1, <4>1, <4>2, SMTT(60), Z3T(60), SMTT(90)
    <3>4. QED
      BY <3>2, <3>3
  <2>13. QED
    BY <2>10, <2>11, <2>12 DEF SocketMapInv

<1>MapOnJoinCommit.
    ASSUME TypeOK, SocketMapInv, OnJoinCommit
    PROVE  SocketMapInv'
  <2> USE <1>MapOnJoinCommit
  <2> DEFINE c == Head(deferred)
  <2>1. /\ c.worker \in Workers /\ c.ws \in Sockets /\ c.room \in Rooms
        /\ c.peer \in Peers /\ c.session \in LiveSessions
    BY CompletionTyped, ZenonT(60) DEF OnJoinCommit
  <2>2. /\ Bound(c.room, c.peer, c.session) \in Bindings
        /\ Bound(c.room, c.peer, c.session).session # 0
    BY <2>1, BoundsAssumption, SMTT(60), Z3T(60), SMTT(90) DEF Bindings, Bound, LiveSessions
  <2>3. /\ alive[c.ws]
        /\ CommitJoin(c.worker, c.ws, Bound(c.room, c.peer, c.session))
    BY DEF OnJoinCommit
  <2>4. QED
    BY <2>1, <2>2, <2>3, <1>MapCommit, ZenonT(60)

<1> SUFFICES ASSUME TypeOK, SocketMapInv, [Next]_vars PROVE SocketMapInv'
  BY SMTT(60), Z3T(60), SMTT(90)
<1>1. ASSUME NEW ws \in Sockets, NEW r \in Rooms, NEW p \in Peers,
             JoinKnownRoom(ws, r, p) \/ JoinNewRoom(ws, r, p)
      PROVE  SocketMapInv'
  BY <1>1, <1>MapFrame, SMTT(60), Z3T(60), SMTT(90) DEF JoinKnownRoom, JoinNewRoom, DispatchJoin
<1>2. ASSUME NEW ws \in Sockets, NEW r \in Rooms, JoinNoWorker(ws, r)
      PROVE  SocketMapInv'
  BY <1>2, <1>MapFrame, SMTT(60), Z3T(60), SMTT(90) DEF JoinNoWorker, socketVars
<1>3. ASSUME NEW ws \in Sockets, Request(ws) \/ ClientStats(ws) \/ Stop
      PROVE  SocketMapInv'
  BY <1>3, <1>MapFrame, ZenonT(60) DEF Request, ClientStats, Stop, socketVars
<1>4. CASE Stop
  BY <1>4, <1>MapFrame, SMTT(60), Z3T(60), SMTT(90) DEF Stop, socketVars
<1>5. CASE MainNext
  BY <1>1, <1>2, <1>3, <1>4, <1>5, <1>MapClose, SMTT(60), Z3T(60), SMTT(90) DEF MainNext
<1>6. CASE OnRoomCreated \/ OnRoomDestroyed \/ OnServerRestart
  BY <1>6, <1>MapFrame, SMTT(60), Z3T(60), SMTT(90)
     DEF OnRoomCreated, OnRoomDestroyed, OnServerRestart, socketVars
<1>7. CASE OnJoinFailed \/ OnJoinRollback \/ OnJoinUnavailable
  BY <1>7, <1>MapFrame
     DEF OnJoinFailed, OnJoinRollback, OnJoinUnavailable, socketVars
<1>8. CASE DeferredNext
  BY <1>6, <1>7, <1>8, <1>MapOnJoinCommit DEF DeferredNext
<1>9. ASSUME NEW w \in Workers, WorkerTask(w)
      PROVE  SocketMapInv'
  <2>1. UNCHANGED socketVars
    BY <1>9, ZenonT(60) DEF WorkerTask, RunJoinRefused, RunJoinThrows, RunJoin,
       RunLeaveStale, RunLeave, RunRequest, RunRequestRejected, RunStats
  <2>2. QED
    BY <2>1, <1>MapFrame DEF socketVars
<1>10. ASSUME NEW w \in Workers, HealthCheck(w) \/ GcTimer(w) \/ WorkerDied(w)
       PROVE  SocketMapInv'
  <2>1. UNCHANGED socketVars
    BY <1>10 DEF HealthCheck, GcTimer, WorkerDied, destroyRooms
  <2>2. QED
    BY <2>1, <1>MapFrame DEF socketVars
<1>11. CASE UNCHANGED vars
  BY <1>11, <1>MapFrame DEF vars, socketVars
<1>12. QED
  BY <1>5, <1>8, <1>9, <1>10, <1>11, SMTT(60), Z3T(60), SMTT(90) DEF Next

(* However joins, kicks, closes, failures, crashes and room destructions   *)
(* interleave, the map names open sockets only, each under the room and    *)
(* peer it joined; every joined open socket is in it; and the broadcast    *)
(* sets agree with it.                                                     *)
THEOREM SocketMapCorrect ==
    Spec => []SocketMapInv
<1>MapInit. Init => SocketMapInv
  <2> SUFFICES ASSUME Init PROVE SocketMapInv
    BY SMTT(60), Z3T(60), SMTT(90)
  <2>1. MapNamesOpenSockets
    BY SMTT(60), Z3T(60), SMTT(90) DEF Init, MapNamesOpenSockets
  <2>2. JoinedSocketIsMapped
    BY DEF Init, JoinedSocketIsMapped, Unbound
  <2>3. BroadcastSetMatchesMap
    BY NullsAssumption, SMTT(60), Z3T(60), SMTT(90) DEF Init, BroadcastSetMatchesMap
  <2>4. QED
    BY <2>1, <2>2, <2>3 DEF SocketMapInv

<1>1. TypeOK /\ SocketMapInv /\ TypeOK' /\ [Next]_vars => SocketMapInv'
  BY MapStep, SMTT(60), Z3T(60), SMTT(90)
<1>2. QED
  BY <1>1, <1>MapInit, TypeCorrect, PTL DEF Spec

-----------------------------------------------------------------------------
(* What a WorkerThread keeps: nothing outlives its room or its peer, and   *)
(* nothing is owned by a session other than the peer's                     *)

(* g is f with one entry changed, or with the entries of some rooms zeroed. *)
Put(f, g, w, r, p, s) ==
    \A v \in Workers, x \in Rooms, y \in Peers :
        g[v][x][y] = IF v = w /\ x = r /\ y = p THEN s ELSE f[v][x][y]
Zeroed(f, g, w, gone) ==
    \A v \in Workers, x \in Rooms, y \in Peers :
        g[v][x][y] = IF v = w /\ x \in gone THEN 0 ELSE f[v][x][y]

LEMMA ExceptIsPut ==
    ASSUME NEW f \in PeerTables, NEW w \in Workers, NEW r \in Rooms,
           NEW p \in Peers, NEW s, NEW g, g = [f EXCEPT ![w][r][p] = s]
    PROVE  Put(f, g, w, r, p, s)
BY DEF PeerTables, Put

LEMMA WithoutIsZeroed ==
    ASSUME NEW f \in PeerTables, NEW w \in Workers, NEW gone
    PROVE  Zeroed(f, Without(f, w, gone), w, gone)
BY DEF PeerTables, Without, Zeroed

-----------------------------------------------------------------------------
(* The published load *)

LEMMA LoadStep ==
    TypeOK /\ PublishedLoadIsCurrent /\ [Next]_vars => PublishedLoadIsCurrent'
<1> SUFFICES ASSUME TypeOK, PublishedLoadIsCurrent, [Next]_vars
             PROVE  PublishedLoadIsCurrent'
  OBVIOUS
<1>1. CASE UNCHANGED <<rooms, roomCount>>
  BY <1>1, SMTT(60), Z3T(60), SMTT(90) DEF PublishedLoadIsCurrent
<1>2. ASSUME NEW w \in Workers, updateRoomCount(w),
             \A v \in Workers \ {w} : rooms'[v] = rooms[v]
      PROVE  PublishedLoadIsCurrent'
  BY <1>2 DEF PublishedLoadIsCurrent, updateRoomCount, TypeOK, RoomTypeOK
<1>3. CASE MainNext
  <2>1. UNCHANGED roomVars
    BY <1>3, ZenonT(60), SMTT(60), Z3T(60), SMTT(90)
       DEF MainNext, JoinKnownRoom, JoinNewRoom, JoinNoWorker,
       DispatchJoin, Request, ClientStats, Close, Stop
  <2>2. QED
    BY <1>1, <2>1, SMTT(60), Z3T(60), SMTT(90) DEF roomVars
<1>4. CASE DeferredNext
  <2>1. UNCHANGED roomVars
    BY <1>4, ZenonT(60) DEF DeferredNext, OnRoomCreated, OnRoomDestroyed, OnServerRestart,
       OnJoinFailed, OnJoinRollback, OnJoinUnavailable, OnJoinCommit
  <2>2. QED
    BY <1>1, <2>1 DEF roomVars
<1>5. ASSUME NEW w \in Workers, WorkerTask(w) PROVE PublishedLoadIsCurrent'
  <2>1. CASE RunRequestRejected(w) \/ RunStats(w)
    BY <1>1, <2>1, SMTT(60), Z3T(60), SMTT(90) DEF RunRequestRejected, RunStats, roomVars
  <2>2. CASE RunJoinRefused(w) \/ RunLeaveStale(w) \/ RunRequest(w)
    BY <1>2, <2>2 DEF RunJoinRefused, RunLeaveStale, RunRequest
  <2>3. CASE RunJoinThrows(w) \/ RunJoin(w)
    BY <1>2, <2>3, ZenonT(60) DEF RunJoinThrows, RunJoin, createRoom, TypeOK, RoomTypeOK
  <2>4. CASE RunLeave(w)
    BY <1>2, <2>4, ZenonT(60) DEF RunLeave, TypeOK, RoomTypeOK
  <2>5. QED
    BY <1>5, <2>1, <2>2, <2>3, <2>4, SMTT(60), Z3T(60), SMTT(90) DEF WorkerTask
<1>6. ASSUME NEW w \in Workers, HealthCheck(w) \/ GcTimer(w)
      PROVE  PublishedLoadIsCurrent'
  BY <1>2, <1>6, ZenonT(60) DEF HealthCheck, GcTimer, destroyRooms, TypeOK, RoomTypeOK
<1>7. ASSUME NEW w \in Workers, WorkerDied(w) PROVE PublishedLoadIsCurrent'
  BY <1>1, <1>7, ZenonT(60) DEF WorkerDied
<1>8. CASE UNCHANGED vars
  BY <1>1, <1>8 DEF vars, roomVars
<1>9. QED
  BY <1>3, <1>4, <1>5, <1>6, <1>7, <1>8, SMTT(60), Z3T(60), SMTT(90) DEF Next

(* The load a join is placed by is always the worker's real room count: no *)
(* task, timer or crash changes the rooms of a worker without republishing *)
(* its count (WorkerThread::updateRoomCount).                              *)
THEOREM LoadCorrect == Spec => []PublishedLoadIsCurrent
<1>1. Init => PublishedLoadIsCurrent
  BY FS_EmptySet, SMTT(60), Z3T(60), SMTT(90) DEF Init, PublishedLoadIsCurrent
<1>2. TypeOK /\ PublishedLoadIsCurrent /\ TypeOK' /\ [Next]_vars
        => PublishedLoadIsCurrent'
  BY LoadStep, SMTT(60), Z3T(60), SMTT(90)
<1>3. QED
  BY <1>1, <1>2, TypeCorrect, PTL DEF Spec

-----------------------------------------------------------------------------
(* The peers' state *)

PeerStateAt(v, x, y) ==
    /\ x \notin rooms[v] => peerSession[v][x][y] = 0
    /\ peerSession[v][x][y] = 0 => mediaBy[v][x][y] = 0 /\ statsBy[v][x][y] = 0
    /\ mediaBy[v][x][y] \in {0, peerSession[v][x][y]}

LEMMA PeerStateStep == TypeOK /\ PeerStateInv /\ [Next]_vars => PeerStateInv'
<1>PeerStatePointwise.
    /\ PeerStateInv <=>
         \A v \in Workers, x \in Rooms, y \in Peers : PeerStateAt(v, x, y)
    /\ PeerStateInv' <=>
         \A v \in Workers, x \in Rooms, y \in Peers : PeerStateAt(v, x, y)'
  BY ZenonT(60) DEF PeerStateInv, NoStateWithoutRoom, RequestsActOnOwnSession, PeerStateAt

<1>PeerStateFrame.
    ASSUME PeerStateInv, UNCHANGED <<rooms, peerVars>>
    PROVE  PeerStateInv'
  BY <1>PeerStateFrame, ZenonT(60)
     DEF PeerStateInv, NoStateWithoutRoom, RequestsActOnOwnSession, peerVars

<1>PeerStateJoin.
    ASSUME PeerStateInv, NEW w \in Workers, NEW r \in Rooms,
           NEW p \in Peers, NEW s \in LiveSessions,
           \A v \in Workers, x \in Rooms :
              x \in rooms'[v] <=> x \in rooms[v] \/ (v = w /\ x = r),
           Put(peerSession, peerSession', w, r, p, s),
           Put(mediaBy, mediaBy', w, r, p, 0),
           Put(statsBy, statsBy', w, r, p, 0)
    PROVE  PeerStateInv'
  <2> USE <1>PeerStateJoin
  <2> SUFFICES ASSUME NEW v \in Workers, NEW x \in Rooms, NEW y \in Peers
               PROVE  PeerStateAt(v, x, y)'
    BY <1>PeerStatePointwise, ZenonT(60)
  <2>1. PeerStateAt(v, x, y)
    BY <1>PeerStatePointwise, ZenonT(60)
  <2>2. /\ peerSession'[v][x][y] =
              IF v = w /\ x = r /\ y = p THEN s ELSE peerSession[v][x][y]
        /\ mediaBy'[v][x][y] =
              IF v = w /\ x = r /\ y = p THEN 0 ELSE mediaBy[v][x][y]
        /\ statsBy'[v][x][y] =
              IF v = w /\ x = r /\ y = p THEN 0 ELSE statsBy[v][x][y]
    BY ZenonT(60) DEF Put
  <2>3. s # 0
    BY SMTT(60), Z3T(60), SMTT(90) DEF LiveSessions
  <2>4. QED
    BY <2>1, <2>2, <2>3, ZenonT(60) DEF PeerStateAt

<1>PeerStateLeave.
    ASSUME PeerStateInv, NEW w \in Workers, NEW r \in Rooms,
           NEW p \in Peers, NEW gone,
           \A x : x \in gone <=>
              x = r /\ \A q \in Peers \ {p} : peerSession[w][r][q] = 0,
           \A v \in Workers, x \in Rooms :
              x \in rooms'[v] <=> x \in rooms[v] /\ ~(v = w /\ x \in gone),
           Put(peerSession, peerSession', w, r, p, 0),
           Put(mediaBy, mediaBy', w, r, p, 0),
           Put(statsBy, statsBy', w, r, p, 0)
    PROVE  PeerStateInv'
  <2> USE <1>PeerStateLeave
  <2> SUFFICES ASSUME NEW v \in Workers, NEW x \in Rooms, NEW y \in Peers
               PROVE  PeerStateAt(v, x, y)'
    BY <1>PeerStatePointwise, ZenonT(60)
  <2>1. PeerStateAt(v, x, y)
    BY <1>PeerStatePointwise, ZenonT(60)
  <2>2. /\ peerSession'[v][x][y] =
              IF v = w /\ x = r /\ y = p THEN 0 ELSE peerSession[v][x][y]
        /\ mediaBy'[v][x][y] =
              IF v = w /\ x = r /\ y = p THEN 0 ELSE mediaBy[v][x][y]
        /\ statsBy'[v][x][y] =
              IF v = w /\ x = r /\ y = p THEN 0 ELSE statsBy[v][x][y]
    BY ZenonT(60) DEF Put
  <2>3. x \notin rooms'[v] => peerSession'[v][x][y] = 0
    BY <2>1, <2>2, ZenonT(60) DEF PeerStateAt
  <2>4. QED
    BY <2>1, <2>2, <2>3, ZenonT(60) DEF PeerStateAt

<1>PeerStateRequest.
    ASSUME PeerStateInv, NEW w \in Workers, NEW r \in Rooms, NEW p \in Peers,
           peerSession[w][r][p] # 0,
           rooms' = rooms, peerSession' = peerSession, statsBy' = statsBy,
           Put(mediaBy, mediaBy', w, r, p, peerSession[w][r][p])
    PROVE  PeerStateInv'
  <2> USE <1>PeerStateRequest
  <2> SUFFICES ASSUME NEW v \in Workers, NEW x \in Rooms, NEW y \in Peers
               PROVE  PeerStateAt(v, x, y)'
    BY <1>PeerStatePointwise, ZenonT(60)
  <2>1. PeerStateAt(v, x, y)
    BY <1>PeerStatePointwise, ZenonT(60)
  <2>2. mediaBy'[v][x][y] = IF v = w /\ x = r /\ y = p THEN peerSession[w][r][p]
                            ELSE mediaBy[v][x][y]
    BY ZenonT(60) DEF Put
  <2>3. QED
    BY <2>1, <2>2, ZenonT(60), SMTT(60), Z3T(60), SMTT(90) DEF PeerStateAt

<1>PeerStateStats.
    ASSUME PeerStateInv, NEW w \in Workers, NEW r \in Rooms, NEW p \in Peers,
           NEW s, peerSession[w][r][p] # 0,
           rooms' = rooms, peerSession' = peerSession, mediaBy' = mediaBy,
           Put(statsBy, statsBy', w, r, p, s)
    PROVE  PeerStateInv'
  <2> USE <1>PeerStateStats
  <2> SUFFICES ASSUME NEW v \in Workers, NEW x \in Rooms, NEW y \in Peers
               PROVE  PeerStateAt(v, x, y)'
    BY <1>PeerStatePointwise, ZenonT(60)
  <2>1. PeerStateAt(v, x, y)
    BY <1>PeerStatePointwise, ZenonT(60)
  <2>2. statsBy'[v][x][y] = IF v = w /\ x = r /\ y = p THEN s ELSE statsBy[v][x][y]
    BY ZenonT(60) DEF Put
  <2>3. QED
    BY <2>1, <2>2, ZenonT(60), SMTT(60), Z3T(60), SMTT(90) DEF PeerStateAt

<1>PeerStateDestroy.
    ASSUME PeerStateInv, NEW w \in Workers, NEW gone,
           \A v \in Workers, x \in Rooms :
              x \in rooms'[v] <=> x \in rooms[v] /\ ~(v = w /\ x \in gone),
           Zeroed(peerSession, peerSession', w, gone),
           Zeroed(mediaBy, mediaBy', w, gone),
           Zeroed(statsBy, statsBy', w, gone)
    PROVE  PeerStateInv'
  <2> USE <1>PeerStateDestroy
  <2> SUFFICES ASSUME NEW v \in Workers, NEW x \in Rooms, NEW y \in Peers
               PROVE  PeerStateAt(v, x, y)'
    BY <1>PeerStatePointwise, ZenonT(60)
  <2>1. PeerStateAt(v, x, y)
    BY <1>PeerStatePointwise, ZenonT(60)
  <2>2. /\ peerSession'[v][x][y] = IF v = w /\ x \in gone THEN 0 ELSE peerSession[v][x][y]
        /\ mediaBy'[v][x][y] = IF v = w /\ x \in gone THEN 0 ELSE mediaBy[v][x][y]
        /\ statsBy'[v][x][y] = IF v = w /\ x \in gone THEN 0 ELSE statsBy[v][x][y]
    BY ZenonT(60) DEF Zeroed
  <2>3. QED
    BY <2>1, <2>2, ZenonT(60), SMTT(60), Z3T(60), SMTT(90) DEF PeerStateAt

(* Adding a room to a worker, and taking rooms from it.                    *)
<1>RoomsPointwise.
    ASSUME TypeOK, NEW w \in Workers, NEW R
    PROVE  /\ rooms' = [rooms EXCEPT ![w] = @ \cup R] =>
                \A v \in Workers, x \in Rooms :
                   x \in rooms'[v] <=> x \in rooms[v] \/ (v = w /\ x \in R)
           /\ rooms' = [rooms EXCEPT ![w] = @ \ R] =>
                \A v \in Workers, x \in Rooms :
                   x \in rooms'[v] <=> x \in rooms[v] /\ ~(v = w /\ x \in R)
  <2> USE <1>RoomsPointwise
  <2>1. rooms \in [Workers -> SUBSET Rooms]
    BY SMTT(60), Z3T(60), SMTT(90) DEF TypeOK, RoomTypeOK
  <2>2. ASSUME rooms' = [rooms EXCEPT ![w] = @ \cup R]
        PROVE  \A v \in Workers, x \in Rooms :
                 x \in rooms'[v] <=> x \in rooms[v] \/ (v = w /\ x \in R)
    BY <2>1, <2>2, SMTT(60), Z3T(60), SMTT(90)
  <2>3. ASSUME rooms' = [rooms EXCEPT ![w] = @ \ R]
        PROVE  \A v \in Workers, x \in Rooms :
                 x \in rooms'[v] <=> x \in rooms[v] /\ ~(v = w /\ x \in R)
    BY <2>1, <2>3, SMTT(60), Z3T(60), SMTT(90)
  <2>4. QED
    BY <2>2, <2>3, SMTT(60), Z3T(60), SMTT(90)

<1>PeerStateTask.
    ASSUME TypeOK, PeerStateInv, NEW w \in Workers, WorkerTask(w)
    PROVE  PeerStateInv'
  <2> USE <1>PeerStateTask
  <2>1. PICK t : t = Head(taskQueue[w])
    BY SMTT(60), Z3T(60), SMTT(90)
  <2>2. t.room \in Rooms /\ t.peer \in Peers /\ t.session \in LiveSessions
    <3>1. \E k : TakeTask(w, k)
      BY ZenonT(60) DEF WorkerTask, RunJoinRefused, RunJoinThrows, RunJoin,
         RunLeaveStale, RunLeave, RunRequest, RunRequestRejected, RunStats
    <3>2. t \in Tasks
      BY <2>1, <3>1, TakeTaskTyped, SMTT(60), Z3T(60), SMTT(90) DEF TypeOK
    <3>3. QED
      BY <3>2 DEF Tasks
  <2>3. /\ peerSession \in PeerTables
        /\ mediaBy \in PeerTables
        /\ statsBy \in PeerTables
    BY DEF TypeOK, PeerTypeOK
  <2>4. CASE RunJoinRefused(w) \/ RunLeaveStale(w) \/ RunRequestRejected(w)
    BY <2>4, <1>PeerStateFrame, ZenonT(60)
       DEF RunJoinRefused, RunLeaveStale, RunRequestRejected, roomVars
  <2>5. CASE RunJoinThrows(w)
    <3>1. /\ rooms' = [rooms EXCEPT ![w] = @ \cup {t.room}]
          /\ UNCHANGED peerVars
      BY <2>1, <2>5, ZenonT(60) DEF RunJoinThrows, createRoom
    <3>2. \A v \in Workers, x \in Rooms : x \notin rooms'[v] => x \notin rooms[v]
      BY <3>1, <1>RoomsPointwise
    <3>3. peerSession' = peerSession /\ mediaBy' = mediaBy /\ statsBy' = statsBy
      BY <3>1, SMTT(60), Z3T(60), SMTT(90) DEF peerVars
    <3>4. QED
      BY <3>2, <3>3, ZenonT(60)
         DEF PeerStateInv, NoStateWithoutRoom, RequestsActOnOwnSession
  <2>6. CASE RunJoin(w)
    <3>1. rooms' = [rooms EXCEPT ![w] = @ \cup {t.room}]
      BY <2>1, <2>6, ZenonT(60) DEF RunJoin, createRoom
    <3>2. peerSession' = [peerSession EXCEPT ![w][t.room][t.peer] = t.session]
      BY <2>1, <2>6, ZenonT(60) DEF RunJoin
    <3>3. mediaBy' = [mediaBy EXCEPT ![w][t.room][t.peer] = 0]
      BY <2>1, <2>6, ZenonT(60) DEF RunJoin
    <3>4. statsBy' = [statsBy EXCEPT ![w][t.room][t.peer] = 0]
      BY <2>1, <2>6, ZenonT(60) DEF RunJoin
    <3>5. \A v \in Workers, x \in Rooms :
            x \in rooms'[v] <=> x \in rooms[v] \/ (v = w /\ x = t.room)
      <4>1. \A v \in Workers, x \in Rooms :
              x \in rooms'[v] <=> x \in rooms[v] \/ (v = w /\ x \in {t.room})
        BY <3>1, <1>RoomsPointwise, ZenonT(60)
      <4>2. QED
        BY <4>1, ZenonT(60)
    <3>6. Put(peerSession, peerSession', w, t.room, t.peer, t.session)
      BY <2>2, <2>3, <3>2, ExceptIsPut, ZenonT(60)
    <3>7. Put(mediaBy, mediaBy', w, t.room, t.peer, 0)
      BY <2>2, <2>3, <3>3, ExceptIsPut, ZenonT(60)
    <3>8. Put(statsBy, statsBy', w, t.room, t.peer, 0)
      BY <2>2, <2>3, <3>4, ExceptIsPut, ZenonT(60)
    <3>9. QED
      BY <2>2, <3>5, <3>6, <3>7, <3>8, <1>PeerStateJoin, ZenonT(60)
  <2>7. CASE RunLeave(w)
    <3>1. PICK gone :
          /\ gone = IF \A q \in Peers \ {t.peer} : peerSession[w][t.room][q] = 0
                      THEN {t.room} ELSE {}
          /\ rooms' = [rooms EXCEPT ![w] = @ \ gone]
      BY <2>1, <2>7, ZenonT(60) DEF RunLeave
    <3>2. /\ peerSession' = [peerSession EXCEPT ![w][t.room][t.peer] = 0]
          /\ mediaBy' = [mediaBy EXCEPT ![w][t.room][t.peer] = 0]
          /\ statsBy' = [statsBy EXCEPT ![w][t.room][t.peer] = 0]
      BY <2>1, <2>7, ZenonT(60) DEF RunLeave
    <3>3. \A x : x \in gone <=>
            x = t.room /\ \A q \in Peers \ {t.peer} : peerSession[w][t.room][q] = 0
      BY <3>1, ZenonT(60)
    <3>4. \A v \in Workers, x \in Rooms :
            x \in rooms'[v] <=> x \in rooms[v] /\ ~(v = w /\ x \in gone)
      BY <3>1, <1>RoomsPointwise, SMTT(60), Z3T(60), SMTT(90), ZenonT(60)
    <3>5. /\ Put(peerSession, peerSession', w, t.room, t.peer, 0)
          /\ Put(mediaBy, mediaBy', w, t.room, t.peer, 0)
          /\ Put(statsBy, statsBy', w, t.room, t.peer, 0)
      BY <2>2, <2>3, <3>2, ExceptIsPut, ZenonT(60)
    <3>6. QED
      BY <2>2, <3>3, <3>4, <3>5, <1>PeerStateLeave, ZenonT(60)
  <2>8. CASE RunRequest(w)
    <3>1. /\ rooms' = rooms /\ peerSession' = peerSession /\ statsBy' = statsBy
          /\ peerSession[w][t.room][t.peer] # 0
          /\ t.session = peerSession[w][t.room][t.peer]
          /\ \/ mediaBy' = [mediaBy EXCEPT ![w][t.room][t.peer] = t.session]
             \/ mediaBy' = mediaBy
      BY <2>1, <2>8, ZenonT(60) DEF RunRequest, RequestsOwnSession, IsPeer
    <3>2. \/ Put(mediaBy, mediaBy', w, t.room, t.peer, peerSession[w][t.room][t.peer])
          \/ mediaBy' = mediaBy
      BY <2>2, <2>3, <3>1, ExceptIsPut, ZenonT(60)
    <3>3. QED
      BY <2>2, <3>1, <3>2, <1>PeerStateRequest, <1>PeerStateFrame, ZenonT(60) DEF peerVars
  <2>9. CASE RunStats(w)
    <3>1. /\ UNCHANGED roomVars /\ peerSession' = peerSession
          /\ mediaBy' = mediaBy
          /\ \/ /\ statsBy' = [statsBy EXCEPT ![w][t.room][t.peer] = t.session]
                /\ peerSession[w][t.room][t.peer] # 0
             \/ statsBy' = statsBy
      BY <2>1, <2>9, ZenonT(60) DEF RunStats, IsPeer
    <3>2. rooms' = rooms
      BY <3>1 DEF roomVars
    <3>3. \/ /\ Put(statsBy, statsBy', w, t.room, t.peer, t.session)
             /\ peerSession[w][t.room][t.peer] # 0
          \/ statsBy' = statsBy
      BY <2>2, <2>3, <3>1, ExceptIsPut, ZenonT(60)
    <3>4. QED
      BY <2>2, <3>1, <3>2, <3>3, <1>PeerStateStats, <1>PeerStateFrame, ZenonT(60)
         DEF peerVars
  <2>10. QED
    BY <2>4, <2>5, <2>6, <2>7, <2>8, <2>9, ZenonT(60) DEF WorkerTask

<1> SUFFICES ASSUME TypeOK, PeerStateInv, [Next]_vars PROVE PeerStateInv'
  OBVIOUS
<1>1. CASE UNCHANGED <<roomVars, peerVars>>
  BY <1>1, <1>PeerStateFrame, SMTT(60), Z3T(60), SMTT(90) DEF roomVars
<1>2. CASE MainNext
  BY <1>1, <1>2, ZenonT(60) DEF MainNext, JoinKnownRoom, JoinNewRoom, JoinNoWorker,
     DispatchJoin, Request, ClientStats, Close, Stop
<1>3. CASE DeferredNext
  BY <1>1, <1>3, ZenonT(60) DEF DeferredNext, OnRoomCreated, OnRoomDestroyed,
     OnServerRestart, OnJoinFailed, OnJoinRollback, OnJoinUnavailable,
     OnJoinCommit
<1>4. ASSUME NEW w \in Workers, HealthCheck(w) \/ GcTimer(w)
      PROVE  PeerStateInv'
  <2>1. PICK gone : /\ rooms' = [rooms EXCEPT ![w] = @ \ gone]
                    /\ peerSession' = Without(peerSession, w, gone)
                    /\ mediaBy' = Without(mediaBy, w, gone)
                    /\ statsBy' = Without(statsBy, w, gone)
    BY <1>4, ZenonT(60) DEF HealthCheck, GcTimer, destroyRooms
  <2>2. \A v \in Workers, x \in Rooms :
          x \in rooms'[v] <=> x \in rooms[v] /\ ~(v = w /\ x \in gone)
    BY <2>1, <1>RoomsPointwise, ZenonT(60)
  <2>3. /\ peerSession \in PeerTables
        /\ mediaBy \in PeerTables
        /\ statsBy \in PeerTables
    BY DEF TypeOK, PeerTypeOK
  <2>4. /\ Zeroed(peerSession, peerSession', w, gone)
        /\ Zeroed(mediaBy, mediaBy', w, gone)
        /\ Zeroed(statsBy, statsBy', w, gone)
    BY <2>1, <2>3, WithoutIsZeroed, ZenonT(60)
  <2>5. QED
    BY <2>2, <2>4, <1>PeerStateDestroy, ZenonT(60)
<1>5. ASSUME NEW w \in Workers, WorkerDied(w) PROVE PeerStateInv'
  BY <1>5, <1>PeerStateFrame DEF WorkerDied
<1>6. CASE UNCHANGED vars
  BY <1>1, <1>6, SMTT(60), Z3T(60), SMTT(90) DEF vars
<1>7. QED
  BY <1>2, <1>3, <1>4, <1>5, <1>6, <1>PeerStateTask, SMTT(60), Z3T(60), SMTT(90) DEF Next

(* Nothing a worker keeps outlives its room or its peer, and everything a  *)
(* peer owns was put there by its own session, whatever stale requests     *)
(* were queued when the peer was replaced.                                 *)
THEOREM PeerStateCorrect ==
    Spec => []PeerStateInv
<1>1. Init => PeerStateInv
  BY DEF Init, NoPeers, PeerStateInv, NoStateWithoutRoom,
     RequestsActOnOwnSession
<1>2. TypeOK /\ PeerStateInv /\ TypeOK' /\ [Next]_vars => PeerStateInv'
  BY PeerStateStep
<1>3. QED
  BY <1>1, <1>2, TypeCorrect, PTL DEF Spec
=============================================================================
