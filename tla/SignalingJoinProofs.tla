------------------------ MODULE SignalingJoinProofs ------------------------
(***************************************************************************)
(* Joins between the main thread and the workers: every pending mark has   *)
(* its join on the way, and the whole protocol implements the session      *)
(* directory, for any number of workers, rooms, peers and sockets.         *)
(***************************************************************************)
EXTENDS SignalingProofs

Finished == {"joinOk", "joinFailed"}

(* A join on its way: queued as a task, or run and its completion deferred. *)
Joins == [ws : Sockets, room : Rooms, peer : Peers, session : LiveSessions]
JoinOf(x) == [ws |-> x.ws, room |-> x.room, peer |-> x.peer, session |-> x.session]

Queued(tq) ==
    {x \in Joins : \E w \in Workers : \E i \in 1 .. Len(tq[w]) :
                      tq[w][i].kind = "join" /\ JoinOf(tq[w][i]) = x}
Done(df) ==
    {x \in Joins : \E i \in 1 .. Len(df) : df[i].kind \in Finished /\ JoinOf(df[i]) = x}
InFlight == Queued(taskQueue) \cup Done(deferred)

(* No session is on its way twice.                                         *)
DistinctTasks(tq) ==
    \A v, w \in Workers : \A i \in 1 .. Len(tq[v]), j \in 1 .. Len(tq[w]) :
        tq[v][i].kind = "join" /\ tq[w][j].kind = "join" /\
        tq[v][i].session = tq[w][j].session => v = w /\ i = j
DistinctDone(df) ==
    \A i, j \in 1 .. Len(df) :
        df[i].kind \in Finished /\ df[j].kind \in Finished /\
        df[i].session = df[j].session => i = j
Fresh(s, joins) == \A x \in joins : x.session # s
Distinct(tq, df) ==
    /\ DistinctTasks(tq) /\ DistinctDone(df)
    /\ \A x \in Queued(tq) : Fresh(x.session, Done(df))

(* The inductive invariant: the joins on their way carry different         *)
(* sessions, and an open socket has at most the one its pending mark is    *)
(* for; the mark is gone once the socket is joined or closed.              *)
JoinInv ==
    /\ Distinct(taskQueue, deferred)
    /\ \A x \in InFlight :
         /\ x.session < nextSessionId
         /\ alive[x.ws] => pending[x.ws] = Bound(x.room, x.peer, x.session)
    /\ \A ws \in Sockets : pending[ws].session # 0 =>
         /\ joined[ws].session = 0
         /\ \E x \in InFlight : x.ws = ws /\ x.session = pending[ws].session
    /\ \A ws \in Sockets : ~alive[ws] => pending[ws] = Unbound /\ joined[ws] = Unbound

-----------------------------------------------------------------------------
(* The joins in the queues *)

LEMMA JoinOfTask ==
    ASSUME NEW t \in Tasks
    PROVE  JoinOf(t) \in Joins /\ JoinOf(t).session = t.session
BY DEF Tasks, JoinOf, Joins

LEMMA JoinOfCallback ==
    ASSUME NEW c \in Callbacks, c.kind \in Finished
    PROVE  JoinOf(c) \in Joins /\ JoinOf(c).session = c.session
BY CompletionFields DEF Finished, JoinOf, Joins

(* A join in a queue is one of the joins on their way.                     *)
LEMMA QueuedMember ==
    ASSUME NEW tq \in [Workers -> Seq(Tasks)], NEW w \in Workers,
           NEW i \in 1 .. Len(tq[w]), tq[w][i].kind = "join"
    PROVE  JoinOf(tq[w][i]) \in Queued(tq) /\ JoinOf(tq[w][i]).session = tq[w][i].session
<1>1. tq[w] \in Seq(Tasks)
    OBVIOUS
<1>2. tq[w][i] \in Tasks
    BY <1>1
<1> QED
    BY <1>2, JoinOfTask DEF Queued

LEMMA DoneMember ==
    ASSUME NEW df \in Seq(Callbacks), NEW i \in 1 .. Len(df), df[i].kind \in Finished
    PROVE  JoinOf(df[i]) \in Done(df) /\ JoinOf(df[i]).session = df[i].session
<1>1. df[i] \in Callbacks
    OBVIOUS
<1> QED
    BY <1>1, JoinOfCallback DEF Done

LEMMA AppendFacts ==
    ASSUME NEW S, NEW q \in Seq(S), NEW t \in S
    PROVE  /\ Append(q, t) \in Seq(S)
           /\ Len(q) \in Nat /\ Len(Append(q, t)) = Len(q) + 1
           /\ \A i \in 1 .. Len(q) : Append(q, t)[i] = q[i]
           /\ Append(q, t)[Len(q) + 1] = t
OBVIOUS

LEMMA TailFacts ==
    ASSUME NEW S, NEW q \in Seq(S), q # <<>>
    PROVE  /\ Tail(q) \in Seq(S) /\ Head(q) \in S /\ Head(q) = q[1]
           /\ Len(q) \in Nat \ {0} /\ Len(Tail(q)) = Len(q) - 1
           /\ \A i \in 1 .. (Len(q) - 1) : Tail(q)[i] = q[i + 1]
<1>1. Len(q) \in Nat \ {0}
    OBVIOUS
<1>2. Tail(q) \in Seq(S) /\ Head(q) = q[1] /\ Len(Tail(q)) = Len(q) - 1
    BY <1>1
<1>3. Head(q) \in S
    BY <1>1
<1>4. \A i \in 1 .. (Len(q) - 1) : Tail(q)[i] = q[i + 1]
    BY <1>1
<1> QED
    BY <1>1, <1>2, <1>3, <1>4, SMTT(60), Z3T(60), SMTT(90)

(* What post and TakeTask do to the queues.                                *)
Posted(tq, tq2, w, t) == tq2 = [tq EXCEPT ![w] = Append(@, t)]
Taken(tq, tq2, w) == tq2 = [tq EXCEPT ![w] = Tail(@)]

(* A task is posted.                                                       *)
LEMMA PostJoins ==
    ASSUME NEW tq \in [Workers -> Seq(Tasks)], NEW w \in Workers, NEW t \in Tasks,
           NEW tq2, Posted(tq, tq2, w, t)
    PROVE  /\ Queued(tq2) = Queued(tq) \cup (IF t.kind = "join" THEN {JoinOf(t)} ELSE {})
           /\ DistinctTasks(tq) /\ (t.kind = "join" => Fresh(t.session, Queued(tq)))
                => DistinctTasks(tq2)
<1> USE DEF Posted
<1> DEFINE n == Len(tq[w])
<1>1. tq[w] \in Seq(Tasks)
    OBVIOUS
<1>2. /\ n \in Nat /\ tq2[w] = Append(tq[w], t) /\ Len(tq2[w]) = n + 1
      /\ tq2[w][n + 1] = t /\ \A i \in 1 .. n : tq2[w][i] = tq[w][i]
    BY <1>1, AppendFacts
<1>3. \A v \in Workers : v # w => tq2[v] = tq[v]
    OBVIOUS
<1>4. ASSUME NEW v \in Workers, NEW i \in 1 .. Len(tq2[v])
      PROVE  \/ i \in 1 .. Len(tq[v]) /\ tq2[v][i] = tq[v][i]
             \/ v = w /\ i = n + 1 /\ tq2[v][i] = t
    BY <1>2, <1>3
<1>5. ASSUME NEW v \in Workers, NEW i \in 1 .. Len(tq[v])
      PROVE  i \in 1 .. Len(tq2[v]) /\ tq2[v][i] = tq[v][i]
    BY <1>2, <1>3
<1> HIDE DEF n
<1>6. ASSUME NEW x
      PROVE  x \in Queued(tq2) <=> x \in Queued(tq) \/ (t.kind = "join" /\ x = JoinOf(t))
    <2>1. ASSUME x \in Queued(tq2)
          PROVE  x \in Queued(tq) \/ (t.kind = "join" /\ x = JoinOf(t))
        BY <1>4, <2>1 DEF Queued
    <2>2. ASSUME x \in Queued(tq) PROVE x \in Queued(tq2)
        BY <1>5, <2>2 DEF Queued
    <2>3. ASSUME t.kind = "join", x = JoinOf(t) PROVE x \in Queued(tq2)
        <3>1. n + 1 \in 1 .. Len(tq2[w]) /\ tq2[w][n + 1] = t
            BY <1>2
        <3> QED
            BY <2>3, <3>1, JoinOfTask DEF Queued
    <2> QED
        BY <2>1, <2>2, <2>3
<1>7. ASSUME DistinctTasks(tq), t.kind = "join" => Fresh(t.session, Queued(tq)),
             NEW v \in Workers, NEW u \in Workers,
             NEW i \in 1 .. Len(tq2[v]), NEW j \in 1 .. Len(tq2[u]),
             tq2[v][i].kind = "join", tq2[u][j].kind = "join",
             tq2[v][i].session = tq2[u][j].session
      PROVE  v = u /\ i = j
    <2>1. CASE tq2[v][i] = tq[v][i] /\ i \in 1 .. Len(tq[v])
               /\ tq2[u][j] = tq[u][j] /\ j \in 1 .. Len(tq[u])
        BY <1>7, <2>1 DEF DistinctTasks
    <2>2. CASE v = w /\ i = n + 1 /\ tq2[v][i] = t /\ u = w /\ j = n + 1
        BY <2>2
    <2>3. ASSUME NEW y \in Workers, NEW k \in 1 .. Len(tq[y]), tq[y][k].kind = "join",
                 tq[y][k].session = t.session, t.kind = "join"
          PROVE  FALSE
        <3>1. JoinOf(tq[y][k]) \in Queued(tq) /\ JoinOf(tq[y][k]).session = tq[y][k].session
            BY <2>3, QueuedMember, ZenonT(60)
        <3> QED
            BY <1>7, <2>3, <3>1, ZenonT(60) DEF Fresh
    <2> QED
        BY <1>4, <1>7, <2>1, <2>2, <2>3, SMTT(60), Z3T(60), SMTT(90)
<1>8. DistinctTasks(tq) /\ (t.kind = "join" => Fresh(t.session, Queued(tq)))
        => DistinctTasks(tq2)
    BY <1>7 DEF DistinctTasks
<1> QED
    BY <1>6, <1>8, ZenonT(60)

(* The callback at the head runs.                                          *)
LEMMA RunDone ==
    ASSUME NEW df \in Seq(Callbacks), df # <<>>, DistinctDone(df),
           NEW c, c = Head(df)
    PROVE  /\ DistinctDone(Tail(df))
           /\ c.kind \notin Finished => Done(Tail(df)) = Done(df)
           /\ c.kind \in Finished => /\ Done(df) = Done(Tail(df)) \cup {JoinOf(c)}
                                     /\ Fresh(c.session, Done(Tail(df)))
<1> DEFINE n == Len(df)
           d2 == Tail(df)
<1>1. /\ n \in Nat \ {0} /\ Len(d2) = n - 1 /\ c = df[1] /\ c \in Callbacks
      /\ \A i \in 1 .. (n - 1) : d2[i] = df[i + 1]
    BY TailFacts
<1> HIDE DEF d2
<1>2. ASSUME NEW i \in 1 .. Len(d2)
      PROVE  i + 1 \in 1 .. Len(df) /\ d2[i] = df[i + 1] /\ i + 1 # 1 /\ i \in Nat
    BY <1>1
<1>3. ASSUME NEW i \in 1 .. Len(df), i # 1
      PROVE  \E j \in 1 .. Len(d2) : d2[j] = df[i]
    <2>1. i - 1 \in 1 .. (n - 1) /\ (i - 1) + 1 = i
        BY <1>1, <1>3
    <2> QED
        BY <1>1, <2>1, ZenonT(60)
<1>4. 1 \in 1 .. Len(df)
    BY <1>1
<1>5. DistinctDone(d2)
    <2> SUFFICES ASSUME NEW i \in 1 .. Len(d2), NEW j \in 1 .. Len(d2),
                        d2[i].kind \in Finished, d2[j].kind \in Finished,
                        d2[i].session = d2[j].session
                 PROVE  i = j
        BY DEF DistinctDone
    <2>1. i + 1 = j + 1
        BY <1>2 DEF DistinctDone
    <2> QED
        BY <1>2, <2>1
<1>6. ASSUME NEW x \in Done(d2) PROVE x \in Done(df)
    BY <1>2 DEF Done
<1>7. ASSUME NEW x \in Done(df), ~(c.kind \in Finished /\ x = JoinOf(c)) PROVE x \in Done(d2)
    <2>1. PICK i \in 1 .. Len(df) : df[i].kind \in Finished /\ JoinOf(df[i]) = x
        BY DEF Done
    <2>2. i # 1
        BY <1>1, <1>7, <2>1, SMTT(60), Z3T(60), SMTT(90)
    <2>3. PICK j \in 1 .. Len(d2) : d2[j] = df[i]
        BY <1>3, <2>2, SMTT(60), Z3T(60), SMTT(90)
    <2> QED
        BY <2>1, <2>3 DEF Done
<1>8. ASSUME c.kind \in Finished PROVE JoinOf(c) \in Done(df)
    BY <1>1, <1>4, <1>8, DoneMember, SMTT(60), Z3T(60), SMTT(90)
<1>9. ASSUME c.kind \in Finished, NEW x \in Done(d2) PROVE x.session # c.session
    <2>1. PICK i \in 1 .. Len(d2) : d2[i].kind \in Finished /\ JoinOf(d2[i]) = x
        BY DEF Done
    <2>2. x.session = d2[i].session
        BY <2>1, SMTT(60), Z3T(60), SMTT(90) DEF JoinOf
    <2> QED
        BY <1>1, <1>2, <1>4, <1>9, <2>1, <2>2, SMTT(60), Z3T(60), SMTT(90) DEF DistinctDone
<1> QED
    BY <1>5, <1>6, <1>7, <1>8, <1>9, ZenonT(60) DEF Fresh, d2

-----------------------------------------------------------------------------
(* The steps *)

LEMMA QueueTypes ==
    ASSUME TypeOK
    PROVE  deferred \in Seq(Callbacks) /\ taskQueue \in [Workers -> Seq(Tasks)]
BY DEF TypeOK, QueueTypeOK

(* The mark of the socket whose completion comes first in the queue.       *)
LEMMA CompletionMark ==
    ASSUME TypeOK, JoinInv, NEW k \in Finished, Callback(k), NEW c, c = Head(deferred)
    PROVE  /\ deferred # <<>> /\ deferred' = Tail(deferred)
           /\ c \in Callbacks /\ c.kind = k /\ c.kind \in Finished
           /\ c.worker \in Workers /\ c.ws \in Sockets /\ c.room \in Rooms
           /\ c.peer \in Peers /\ c.session \in LiveSessions
           /\ alive[c.ws] => /\ pending[c.ws] = Bound(c.room, c.peer, c.session)
                             /\ pending[c.ws].session = c.session
                             /\ joined[c.ws].session = 0
           /\ ~alive[c.ws] => pending[c.ws] = Unbound /\ joined[c.ws] = Unbound
<1>1. /\ deferred # <<>> /\ deferred' = Tail(deferred) /\ c \in Callbacks /\ c.kind = k
    BY CallbackTyped DEF Callback, TypeOK
<1>2. /\ c.worker \in Workers /\ c.ws \in Sockets /\ c.room \in Rooms
      /\ c.peer \in Peers /\ c.session \in LiveSessions
    BY <1>1, CompletionFields DEF Finished
<1>3. JoinOf(c) \in InFlight
    <2>1. Done(deferred) = Done(Tail(deferred)) \cup {JoinOf(c)}
        BY <1>1, QueueTypes, RunDone, SMTT(60), Z3T(60), SMTT(90) DEF JoinInv, Distinct
    <2> QED
        BY <2>1, SMTT(60), Z3T(60), SMTT(90) DEF InFlight
<1>4. ASSUME alive[c.ws]
      PROVE  /\ pending[c.ws] = Bound(c.room, c.peer, c.session)
             /\ pending[c.ws].session = c.session
             /\ joined[c.ws].session = 0
    <2>1. pending[c.ws] = Bound(c.room, c.peer, c.session)
        BY <1>3, <1>4, ZenonT(60) DEF JoinInv, JoinOf
    <2>2. pending[c.ws].session = c.session /\ c.session # 0
        BY <1>2, <2>1, SMTT(60), Z3T(60), SMTT(90) DEF Bound, LiveSessions
    <2> QED
        BY <1>2, <2>1, <2>2, SMTT(60), Z3T(60), SMTT(90) DEF JoinInv
<1> QED
    BY <1>1, <1>2, <1>4, ZenonT(60) DEF JoinInv

LEMMA ClearsMark ==
    ASSUME TypeOK, NEW ws \in Sockets, NEW s, pending[ws].session = s,
           ClearPendingSocketJoinIfMatches(ws, s)
    PROVE  \A x \in Sockets : pending'[x] = IF x = ws THEN Unbound ELSE pending[x]
BY SMTT(60), Z3T(60), SMTT(90) DEF ClearPendingSocketJoinIfMatches, TypeOK, SocketTypeOK

(* What a commit does to the sockets.                                      *)
Committed(ws, b, K) ==
    /\ K \in SUBSET Sockets /\ ws \notin K
    /\ \A x \in Sockets :
        /\ alive'[x] <=> alive[x] /\ x \notin K
        /\ joined'[x] = IF x = ws THEN b ELSE IF x \in K THEN Unbound ELSE joined[x]
        /\ pending'[x] = IF x = ws \/ x \in K THEN Unbound ELSE pending[x]

(* A join that commits has that effect, with the replaced socket as K.     *)
LEMMA CommitEffect ==
    ASSUME TypeOK, NEW w \in Workers, NEW ws \in Sockets, NEW b \in Bindings, b.session # 0,
           CommitJoin(w, ws, b), NEW K, K = oldWs(ws, b.room, b.peer)
    PROVE  Committed(ws, b, K)
<1>1. b.room \in Rooms /\ b.peer \in Peers
    BY BindingFields
<1>2. wsPeers[b.room][b.peer] \in Sockets \cup {NoSocket}
    BY <1>1 DEF TypeOK, SocketTypeOK
<1>3. K \in SUBSET Sockets /\ ws \notin K
    BY <1>2 DEF oldWs
<1>4. /\ alive' = [x \in Sockets |-> alive[x] /\ x \notin K]
      /\ joined' = [x \in Sockets |-> IF x = ws THEN b
                                      ELSE IF x \in K THEN Unbound ELSE joined[x]]
      /\ pending' = [x \in Sockets |->
                       IF x = ws \/ x \in K THEN Unbound ELSE pending[x]]
    BY ZenonT(60) DEF CommitJoin
<1> QED
    BY <1>3, <1>4, ZenonT(60) DEF Committed

-----------------------------------------------------------------------------
(* The worker's steps *)

LEMMA LifecycleKind ==
    ASSUME NEW k \in {"created", "destroyed", "serverRestart"}, NEW w, NEW r
    PROVE  Lifecycle(k, w, r).kind \notin Finished
BY SMTT(60), Z3T(60), SMTT(90) DEF Lifecycle, Finished

LEMMA HealthKinds ==
    ASSUME NEW w \in Workers, NEW order, Len(order) \in Nat,
           NEW i \in 1 .. (2 * Len(order))
    PROVE  HealthNotices(w, order)[i].kind \notin Finished
<1>1. CASE i % 2 = 1
    BY <1>1, LifecycleKind, SMTT(60), Z3T(60), SMTT(90) DEF HealthNotices
<1>2. CASE i % 2 # 1
    BY <1>2, LifecycleKind, SMTT(60), Z3T(60), SMTT(90) DEF HealthNotices
<1> QED
    BY <1>1, <1>2, SMTT(60), Z3T(60), SMTT(90)

-----------------------------------------------------------------------------

LEMMA JoinStep ==
    TypeOK /\ TypeOK' /\ SocketMapInv /\ JoinInv /\ [Next]_vars => JoinInv'
(* A task is taken off its queue.                                          *)
<1>TakeJoins.
    ASSUME NEW tq \in [Workers -> Seq(Tasks)], NEW w \in Workers, tq[w] # <<>>,
           NEW tq2, Taken(tq, tq2, w), DistinctTasks(tq),
           NEW t, t = Head(tq[w])
    PROVE  /\ t \in Tasks
           /\ DistinctTasks(tq2)
           /\ t.kind # "join" => Queued(tq2) = Queued(tq)
           /\ t.kind = "join" => /\ Queued(tq) = Queued(tq2) \cup {JoinOf(t)}
                                 /\ Fresh(t.session, Queued(tq2))
  <2> USE <1>TakeJoins
  <2> USE DEF Taken
  <2> DEFINE n == Len(tq[w])
  <2>1. tq[w] \in Seq(Tasks)
      OBVIOUS
  <2>2. /\ n \in Nat \ {0} /\ tq2[w] = Tail(tq[w]) /\ Len(tq2[w]) = n - 1
        /\ t = tq[w][1] /\ t \in Tasks
        /\ \A i \in 1 .. (n - 1) : tq2[w][i] = tq[w][i + 1]
      BY <2>1, TailFacts, SMTT(60), Z3T(60), SMTT(90)
  <2>3. \A v \in Workers : v # w => tq2[v] = tq[v]
      OBVIOUS
  <2> DEFINE old(v, i) == IF v = w THEN i + 1 ELSE i
  <2>4. ASSUME NEW v \in Workers, NEW i \in 1 .. Len(tq2[v])
        PROVE  /\ old(v, i) \in 1 .. Len(tq[v]) /\ tq2[v][i] = tq[v][old(v, i)]
               /\ v = w => old(v, i) # 1
      BY <2>2, <2>3, SMTT(60), Z3T(60), SMTT(90)
  <2>5. ASSUME NEW v \in Workers, NEW i \in 1 .. Len(tq[v]), ~(v = w /\ i = 1)
        PROVE  \E j \in 1 .. Len(tq2[v]) : tq2[v][j] = tq[v][i]
      <3>1. CASE v = w
          <4>1. i - 1 \in 1 .. (n - 1) /\ (i - 1) + 1 = i
              BY <2>2, <2>5, <3>1
          <4> QED
              BY <2>2, <3>1, <4>1, ZenonT(60)
      <3>2. CASE v # w
          BY <2>3, <3>2
      <3> QED
          BY <3>1, <3>2, ZenonT(60)
  <2>6. DistinctTasks(tq2)
      <3> SUFFICES ASSUME NEW v \in Workers, NEW u \in Workers,
                          NEW i \in 1 .. Len(tq2[v]), NEW j \in 1 .. Len(tq2[u]),
                          tq2[v][i].kind = "join", tq2[u][j].kind = "join",
                          tq2[v][i].session = tq2[u][j].session
                   PROVE  v = u /\ i = j
          BY SMTT(60), Z3T(60), SMTT(90) DEF DistinctTasks
      <3>1. v = u /\ old(v, i) = old(u, j)
          <4> HIDE DEF old
          <4> QED
              BY <2>4, SMTT(60), Z3T(60), SMTT(90) DEF DistinctTasks
      <3>2. i \in Nat /\ j \in Nat
          <4>1. Len(tq2[v]) \in Nat /\ Len(tq2[u]) \in Nat
              BY <2>2, <2>3, SMTT(60), Z3T(60), SMTT(90)
          <4> QED
              BY <4>1, SMTT(60), Z3T(60), SMTT(90)
      <3> QED
          BY <3>1, <3>2, SMTT(60), Z3T(60), SMTT(90)
  <2> HIDE DEF old
  <2>7. ASSUME NEW x \in Queued(tq2) PROVE x \in Queued(tq)
      <3>0. PICK v \in Workers : \E i \in 1 .. Len(tq2[v]) :
              tq2[v][i].kind = "join" /\ JoinOf(tq2[v][i]) = x
          BY ZenonT(60) DEF Queued
      <3>1. PICK i \in 1 .. Len(tq2[v]) : tq2[v][i].kind = "join" /\ JoinOf(tq2[v][i]) = x
          BY <3>0, ZenonT(60)
      <3>2. PICK j \in 1 .. Len(tq[v]) : tq2[v][i] = tq[v][j]
          BY <2>4, SMTT(60), Z3T(60), SMTT(90)
      <3>3. x \in Joins
          BY SMTT(60), Z3T(60), SMTT(90) DEF Queued
      <3> QED
          BY <3>1, <3>2, <3>3, SMTT(60), Z3T(60), SMTT(90) DEF Queued
  <2>8. ASSUME NEW x \in Queued(tq), ~(t.kind = "join" /\ x = JoinOf(t)) PROVE x \in Queued(tq2)
      <3>0. PICK v \in Workers : \E i \in 1 .. Len(tq[v]) :
              tq[v][i].kind = "join" /\ JoinOf(tq[v][i]) = x
          BY DEF Queued
      <3>1. PICK i \in 1 .. Len(tq[v]) : tq[v][i].kind = "join" /\ JoinOf(tq[v][i]) = x
          BY <3>0
      <3>2. ~(v = w /\ i = 1)
          BY <2>2, <2>8, <3>1
      <3>3. PICK j \in 1 .. Len(tq2[v]) : tq2[v][j] = tq[v][i]
          BY <2>5, <3>2, ZenonT(60)
      <3> QED
          BY <3>1, <3>3, ZenonT(60) DEF Queued
  <2>9. 1 \in 1 .. Len(tq[w])
      BY <2>2
  <2>10. ASSUME t.kind = "join" PROVE JoinOf(t) \in Queued(tq)
      BY <2>2, <2>9, <2>10, QueuedMember, SMTT(60), Z3T(60), SMTT(90)
  <2>11. ASSUME t.kind = "join", NEW x \in Queued(tq2) PROVE x.session # t.session
      <3>0. PICK v \in Workers : \E i \in 1 .. Len(tq2[v]) :
              tq2[v][i].kind = "join" /\ JoinOf(tq2[v][i]) = x
          BY ZenonT(60) DEF Queued
      <3>1. PICK i \in 1 .. Len(tq2[v]) : tq2[v][i].kind = "join" /\ JoinOf(tq2[v][i]) = x
          BY <3>0, ZenonT(60)
      <3>2. x.session = tq2[v][i].session
          BY <3>1, SMTT(60), Z3T(60), SMTT(90) DEF JoinOf
      <3>3. /\ old(v, i) \in 1 .. Len(tq[v]) /\ tq2[v][i] = tq[v][old(v, i)]
            /\ v = w => old(v, i) # 1
          BY <2>4, SMTT(60), Z3T(60), SMTT(90)
      <3> QED
          BY <2>2, <2>9, <2>11, <3>1, <3>2, <3>3, SMTT(60), Z3T(60), SMTT(90) DEF DistinctTasks
  <2> QED
      BY <2>2, <2>6, <2>7, <2>8, <2>10, <2>11, ZenonT(60) DEF Fresh

(* Callbacks that end no join are deferred.                                *)
<1>DeferNotices.
    ASSUME NEW df \in Seq(Callbacks), NEW cs \in Seq(Callbacks),
           \A i \in 1 .. Len(cs) : cs[i].kind \notin Finished
    PROVE  /\ df \o cs \in Seq(Callbacks)
           /\ Done(df \o cs) = Done(df)
           /\ DistinctDone(df) => DistinctDone(df \o cs)
  <2> USE <1>DeferNotices
  <2> DEFINE d2 == df \o cs
  <2>1. /\ Len(df) \in Nat /\ Len(cs) \in Nat /\ Len(d2) = Len(df) + Len(cs)
        /\ d2 \in Seq(Callbacks)
      BY SMTT(60), Z3T(60), SMTT(90)
  <2>2. ASSUME NEW i \in 1 .. Len(d2)
        PROVE  \/ i \in 1 .. Len(df) /\ d2[i] = df[i]
               \/ d2[i].kind \notin Finished
      <3>1. CASE i \in 1 .. Len(df)
          BY <2>1, <3>1, SMTT(60), Z3T(60), SMTT(90)
      <3>2. CASE i \notin 1 .. Len(df)
          <4>1. i - Len(df) \in 1 .. Len(cs) /\ d2[i] = cs[i - Len(df)]
              BY <2>1, <3>2, SMTT(60), Z3T(60), SMTT(90)
          <4> QED
              BY <4>1, SMTT(60), Z3T(60), SMTT(90)
      <3> QED
          BY <3>1, <3>2, SMTT(60), Z3T(60), SMTT(90)
  <2>3. ASSUME NEW i \in 1 .. Len(df) PROVE i \in 1 .. Len(d2) /\ d2[i] = df[i]
      BY <2>1, SMTT(60), Z3T(60), SMTT(90)
  <2> HIDE DEF d2
  <2>4. Done(d2) = Done(df)
      BY <2>2, <2>3, SMTT(60), Z3T(60), SMTT(90) DEF Done
  <2>5. DistinctDone(df) => DistinctDone(d2)
      BY <2>2, SMTT(60), Z3T(60), SMTT(90) DEF DistinctDone
  <2> QED
      BY <2>1, <2>4, <2>5, SMTT(60), Z3T(60), SMTT(90) DEF d2

(* The completion of a join is deferred.                                   *)
<1>DeferDone.
    ASSUME NEW df \in Seq(Callbacks), NEW c \in Callbacks, c.kind \in Finished,
           DistinctDone(df), Fresh(c.session, Done(df))
    PROVE  /\ Done(Append(df, c)) = Done(df) \cup {JoinOf(c)}
           /\ DistinctDone(Append(df, c))
  <2> USE <1>DeferDone
  <2> DEFINE d2 == Append(df, c)
             n == Len(df)
  <2>1. /\ n \in Nat /\ Len(d2) = n + 1 /\ d2[n + 1] = c
        /\ \A i \in 1 .. n : d2[i] = df[i]
      BY AppendFacts
  <2> HIDE DEF d2
  <2>2. ASSUME NEW i \in 1 .. Len(d2)
        PROVE  \/ i \in 1 .. Len(df) /\ d2[i] = df[i]
               \/ i = n + 1 /\ d2[i] = c
      BY <2>1
  <2>3. ASSUME NEW i \in 1 .. Len(df) PROVE i \in 1 .. Len(d2) /\ d2[i] = df[i]
      BY <2>1
  <2>4. n + 1 \in 1 .. Len(d2)
      BY <2>1
  <2>5. JoinOf(c) \in Joins
      BY JoinOfCallback
  <2> HIDE DEF n
  <2>6. ASSUME NEW x \in Done(d2) PROVE x \in Done(df) \cup {JoinOf(c)}
      BY <2>2 DEF Done
  <2>7. ASSUME NEW x \in Done(df) \cup {JoinOf(c)} PROVE x \in Done(d2)
      BY <2>1, <2>3, <2>4, <2>5, SMTT(60), Z3T(60), SMTT(90) DEF Done
  <2>8. DistinctDone(d2)
      <3>1. ASSUME NEW i \in 1 .. Len(df), df[i].kind \in Finished
            PROVE  df[i].session # c.session
          BY <3>1, DoneMember, SMTT(60), Z3T(60), SMTT(90) DEF Fresh
      <3> QED
          BY <2>2, <3>1, SMTT(60), Z3T(60), SMTT(90) DEF DistinctDone
  <2> QED
      BY <2>6, <2>7, <2>8, SMTT(60), Z3T(60), SMTT(90) DEF d2

<1>JoinKeep.
    ASSUME TypeOK, TypeOK', JoinInv, Distinct(taskQueue', deferred'), InFlight' = InFlight,
           UNCHANGED <<alive, joined, pending>>, nextSessionId' >= nextSessionId
    PROVE  JoinInv'
  <2> USE <1>JoinKeep
  <2>1. \A x \in InFlight : x.session \in Nat /\ x.session < nextSessionId'
      <3>1. \A x \in InFlight : x.session \in Nat
          BY DEF InFlight, Queued, Done, Joins, LiveSessions
      <3>2. nextSessionId \in Nat /\ nextSessionId' \in Nat
          BY DEF TypeOK, DispatchTypeOK
      <3> QED
          BY <3>1, <3>2, SMTT(60), Z3T(60), SMTT(90) DEF JoinInv
  <2> QED
      BY <2>1 DEF JoinInv

(* A task that is no join is posted, and the callbacks stay.               *)
<1>PostKeeps.
    ASSUME TypeOK, JoinInv, NEW w \in Workers, NEW t \in Tasks, t.kind # "join", post(w, t)
    PROVE  Queued(taskQueue') = Queued(taskQueue) /\ DistinctTasks(taskQueue')
  <2> USE <1>PostKeeps
  <2> DEFINE more == IF t.kind = "join" THEN {JoinOf(t)} ELSE {}
  <2>1. Posted(taskQueue, taskQueue', w, t) /\ DistinctTasks(taskQueue)
      BY DEF post, Posted, JoinInv, Distinct
  <2>2. Queued(taskQueue') = Queued(taskQueue) \cup more /\ DistinctTasks(taskQueue')
      BY <2>1, QueueTypes, PostJoins, SMTT(60), Z3T(60), SMTT(90)
  <2> QED
      BY <2>2

(* The close handler's leave, if any.                                      *)
<1>PostLeaveKeeps.
    ASSUME TypeOK, JoinInv, NEW ws \in Sockets,
           NEW d \in [Rooms -> Workers \cup {NoWorker}], PostLeave(ws, d)
    PROVE  Queued(taskQueue') = Queued(taskQueue) /\ DistinctTasks(taskQueue')
  <2> USE <1>PostLeaveKeeps
  <2>1. PICK b \in Bindings :
          IF b.session # 0 /\ d[b.room] # NoWorker
            THEN post(d[b.room], Task("leave", ws, b))
            ELSE UNCHANGED taskQueue
      BY SMTT(60), Z3T(60), SMTT(90) DEF PostLeave, CloseBinding, TypeOK, SocketTypeOK
  <2>2. CASE b.session # 0 /\ d[b.room] # NoWorker
      <3>1. b.room \in Rooms /\ b.peer \in Peers /\ b.session \in LiveSessions
          BY <2>2, BindingFields, SMTT(60), Z3T(60), SMTT(90)
      <3>2. Task("leave", ws, b) \in Tasks /\ d[b.room] \in Workers
          BY <2>2, <3>1, TaskTyped, SMTT(60), Z3T(60), SMTT(90)
      <3>3. Task("leave", ws, b).kind # "join"
          BY SMTT(60), Z3T(60), SMTT(90) DEF Task
      <3> QED
          BY <2>1, <2>2, <3>2, <3>3, <1>PostKeeps, SMTT(60), Z3T(60), SMTT(90)
  <2>3. CASE ~(b.session # 0 /\ d[b.room] # NoWorker)
      BY <2>1, <2>3, SMTT(60), Z3T(60), SMTT(90) DEF JoinInv, Distinct
  <2> QED
      BY <2>2, <2>3, SMTT(60), Z3T(60), SMTT(90)

<1>JoinMain.
    ASSUME TypeOK, SocketMapInv, JoinInv, NEW ws \in Sockets, NEW r \in Rooms,
           NEW p \in Peers, NEW w \in Workers, AcceptJoin(ws), DispatchJoin(ws, r, p, w)
    PROVE  JoinInv'
  <2> USE <1>JoinMain
  <2> DEFINE b == Bound(r, p, nextSessionId)
             t == Task("join", ws, b)
  <2>1. /\ alive[ws] /\ pending[ws].session = 0 /\ nextSessionId' = nextSessionId + 1
        /\ nextSessionId \in LiveSessions /\ nextSessionId \in Nat
        /\ pending' = [pending EXCEPT ![ws] = b] /\ post(w, t)
        /\ UNCHANGED <<alive, joined, deferred>>
      BY SMTT(60), Z3T(60), SMTT(90)
         DEF AcceptJoin, DispatchJoin, TypeOK, DispatchTypeOK, LiveSessions
  <2>2. joined[ws].session = 0
      BY <2>1, SMTT(60), Z3T(60), SMTT(90) DEF AcceptJoin, SocketMapInv, JoinedSocketIsMapped
  <2>3. /\ t \in Tasks /\ t.kind = "join" /\ t.session = nextSessionId
        /\ b.session = nextSessionId
        /\ JoinOf(t).ws = ws /\ b = Bound(JoinOf(t).room, JoinOf(t).peer, JoinOf(t).session)
        /\ JoinOf(t).session = nextSessionId
      BY <2>1, SMTT(60), Z3T(60), SMTT(90) DEF Task, Tasks, Bound, JoinOf
  <2> HIDE DEF t, b
  <2>4. \A x \in InFlight : /\ x.session # nextSessionId /\ x.session \in Nat
                            /\ x.session < nextSessionId' /\ x.ws \in Sockets
                            /\ x.session # 0
      <3>1. \A x \in InFlight : x.session \in Nat /\ x.ws \in Sockets /\ x.session # 0
          <4>1. \A x \in Joins : x.session \in Nat /\ x.ws \in Sockets /\ x.session # 0
              BY SMTT(60), Z3T(60), SMTT(90) DEF Joins, LiveSessions
          <4>2. \A x \in InFlight : x \in Joins
              BY ZenonT(60) DEF InFlight, Queued, Done
          <4> QED
              BY <4>1, <4>2, ZenonT(60)
      <3>2. \A x \in InFlight : x.session < nextSessionId
          BY ZenonT(60) DEF JoinInv
      <3> QED
          BY <2>1, <3>1, <3>2, SMTT(60), Z3T(60), SMTT(90)
  <2>5. Queued(taskQueue') = Queued(taskQueue) \cup {JoinOf(t)} /\ DistinctTasks(taskQueue')
      <3>1. Fresh(t.session, Queued(taskQueue)) /\ DistinctTasks(taskQueue)
          BY <2>3, <2>4 DEF Fresh, InFlight, JoinInv, Distinct
      <3> DEFINE more == IF t.kind = "join" THEN {JoinOf(t)} ELSE {}
      <3>2. Posted(taskQueue, taskQueue', w, t)
          BY <2>1, SMTT(60), Z3T(60), SMTT(90) DEF post, Posted
      <3>3. Queued(taskQueue') = Queued(taskQueue) \cup more /\ DistinctTasks(taskQueue')
          BY <2>3, <3>1, <3>2, QueueTypes, PostJoins, SMTT(60), Z3T(60), SMTT(90)
      <3> QED
          BY <2>3, <3>3
  <2>6. Distinct(taskQueue', deferred')
      BY <2>1, <2>3, <2>4, <2>5, ZenonT(60) DEF Distinct, JoinInv, Fresh, InFlight
  <2>7. InFlight' = InFlight \cup {JoinOf(t)}
      BY <2>1, <2>5 DEF InFlight
  <2>8. \A x \in Sockets : pending'[x] = IF x = ws THEN b ELSE pending[x]
      BY <2>1, SMTT(60), Z3T(60), SMTT(90) DEF TypeOK, SocketTypeOK
  <2>9. ASSUME NEW x \in InFlight'
        PROVE  /\ x.session < nextSessionId'
               /\ alive'[x.ws] => pending'[x.ws] = Bound(x.room, x.peer, x.session)
      <3>1. CASE x = JoinOf(t)
          <4>1. nextSessionId < nextSessionId'
              BY <2>1, SMTT(60), Z3T(60), SMTT(90)
          <4>2. x.ws = ws /\ pending'[ws] = b
              BY <2>3, <2>8, <3>1, ZenonT(60)
          <4> QED
              BY <2>3, <3>1, <4>1, <4>2, ZenonT(60)
      <3>2. CASE x \in InFlight
          <4>1. alive[x.ws] => pending[x.ws] = Bound(x.room, x.peer, x.session)
              BY <3>2, SMTT(60), Z3T(60), SMTT(90) DEF JoinInv
          <4>2. alive[x.ws] => x.ws # ws
              BY <2>1, <2>4, <3>2, <4>1, SMTT(60), Z3T(60), SMTT(90) DEF Bound
          <4> QED
              BY <2>1, <2>4, <2>8, <3>2, <4>1, <4>2
      <3> QED
          BY <2>7, <3>1, <3>2, SMTT(60), Z3T(60), SMTT(90)
  <2>10. ASSUME NEW x \in Sockets, pending'[x].session # 0
         PROVE  /\ joined'[x].session = 0
                /\ \E y \in InFlight' : y.ws = x /\ y.session = pending'[x].session
      <3>1. CASE x = ws
          BY <2>1, <2>2, <2>3, <2>7, <2>8, <3>1, ZenonT(60)
      <3>2. CASE x # ws
          <4>1. pending'[x] = pending[x] /\ joined'[x] = joined[x]
              BY <2>1, <2>8, <3>2, ZenonT(60)
          <4>2. /\ joined[x].session = 0
                /\ \E y \in InFlight : y.ws = x /\ y.session = pending[x].session
              BY <2>10, <4>1, ZenonT(60) DEF JoinInv
          <4> QED
              BY <2>7, <4>1, <4>2, ZenonT(60)
      <3> QED
          BY <3>1, <3>2, SMTT(60), Z3T(60), SMTT(90)
  <2>11. \A x \in Sockets : ~alive'[x] => pending'[x] = Unbound /\ joined'[x] = Unbound
      <3>1. \A x \in Sockets : ~alive[x] => pending[x] = Unbound /\ joined[x] = Unbound
          BY ZenonT(60) DEF JoinInv
      <3> QED
          BY <2>1, <2>8, <3>1, SMTT(60), Z3T(60), SMTT(90)
  <2> QED
      BY <2>6, <2>9, <2>10, <2>11, ZenonT(60) DEF JoinInv

<1>JoinClose.
    ASSUME TypeOK, JoinInv, NEW ws \in Sockets, Close(ws)
    PROVE  JoinInv'
  <2> USE <1>JoinClose
  <2>1. Queued(taskQueue') = Queued(taskQueue) /\ DistinctTasks(taskQueue')
      BY <1>PostLeaveKeeps DEF Close, TypeOK, DispatchTypeOK
  <2>2. deferred' = deferred /\ nextSessionId' = nextSessionId
      BY SMTT(60), Z3T(60), SMTT(90) DEF Close, dispatchVars
  <2>3. InFlight' = InFlight /\ Distinct(taskQueue', deferred')
      BY <2>1, <2>2, SMTT(60), Z3T(60), SMTT(90) DEF InFlight, Distinct, JoinInv
  <2>4. \A x \in Sockets : /\ alive'[x] <=> alive[x] /\ x # ws
                           /\ joined'[x] = IF x = ws THEN Unbound ELSE joined[x]
                           /\ pending'[x] = IF x = ws THEN Unbound ELSE pending[x]
      BY DEF Close, TypeOK, SocketTypeOK
  <2>5. Unbound.session = 0
      BY DEF Unbound
  <2>6. \A x \in InFlight : x.ws \in Sockets
      BY SMTT(60), Z3T(60), SMTT(90) DEF InFlight, Queued, Done, Joins
  <2> QED
      BY <2>2, <2>3, <2>4, <2>5, <2>6, SMTT(60), Z3T(60), SMTT(90) DEF JoinInv

(* A completion callback runs: the socket's mark is cleared, the sockets   *)
(* of K are closed, and no other join of the socket was on its way.        *)
<1>JoinEnds.
    ASSUME TypeOK, JoinInv, deferred # <<>>, NEW c \in Callbacks, c = Head(deferred),
           c.kind \in Finished, deferred' = Tail(deferred),
           Queued(taskQueue') = Queued(taskQueue), DistinctTasks(taskQueue'),
           nextSessionId' = nextSessionId,
           NEW K \in SUBSET Sockets, c.ws \notin K,
           \A x \in Sockets : alive'[x] <=> alive[x] /\ x \notin K,
           \A x \in Sockets :
               pending'[x] = IF x = c.ws \/ x \in K THEN Unbound ELSE pending[x],
           \A x \in Sockets : x # c.ws =>
               joined'[x] = IF x \in K THEN Unbound ELSE joined[x],
           ~alive[c.ws] => joined'[c.ws] = Unbound
    PROVE  JoinInv'
  <2> USE <1>JoinEnds
  <2>1. /\ DistinctDone(deferred') /\ Done(deferred) = Done(deferred') \cup {JoinOf(c)}
        /\ Fresh(c.session, Done(deferred'))
      <3>1. DistinctDone(deferred)
          BY ZenonT(60) DEF JoinInv, Distinct
      <3>2. deferred \in Seq(Callbacks)
          BY QueueTypes, ZenonT(60)
      <3>3. PICK rest : rest = Tail(deferred)
          BY ZenonT(60)
      <3>4. /\ DistinctDone(rest) /\ Done(deferred) = Done(rest) \cup {JoinOf(c)}
            /\ Fresh(c.session, Done(rest))
          BY <3>1, <3>2, <3>3, RunDone, ZenonT(60)
      <3> QED
          BY <3>3, <3>4, ZenonT(60)
  <2>2. /\ JoinOf(c) \in Joins /\ JoinOf(c).session = c.session /\ JoinOf(c).ws = c.ws
        /\ Bound(JoinOf(c).room, JoinOf(c).peer, JoinOf(c).session).session = c.session
      BY JoinOfCallback, SMTT(60), Z3T(60), SMTT(90) DEF JoinOf, Bound
  <2>3. Distinct(taskQueue', deferred')
      BY <2>1, SMTT(60), Z3T(60), SMTT(90) DEF Distinct, JoinInv, Fresh
  <2>4. InFlight = InFlight' \cup {JoinOf(c)}
      BY <2>1, ZenonT(60) DEF InFlight
  <2>5. \A x \in InFlight' : x.session # c.session
      BY <2>1, <2>2, SMTT(60), Z3T(60), SMTT(90) DEF InFlight, Fresh, JoinInv, Distinct
  <2>6. \A x \in InFlight' : x \in InFlight /\ x.ws \in Sockets
      BY <2>4, ZenonT(60) DEF InFlight, Queued, Done, Joins
  <2>7. Unbound.session = 0
      BY SMTT(60), Z3T(60), SMTT(90) DEF Unbound
  <2>8. c.ws \in Sockets
      BY <2>2, ZenonT(60) DEF Joins
  <2>9. ASSUME NEW x \in InFlight'
        PROVE  /\ x.session < nextSessionId'
               /\ alive'[x.ws] => pending'[x.ws] = Bound(x.room, x.peer, x.session)
      <3>1. /\ x.session < nextSessionId
            /\ alive[x.ws] => pending[x.ws] = Bound(x.room, x.peer, x.session)
          BY <2>6, SMTT(60), Z3T(60), SMTT(90) DEF JoinInv
      <3>2. alive[c.ws] => pending[c.ws].session = c.session
          BY <2>2, <2>4, SMTT(60), Z3T(60), SMTT(90) DEF JoinInv
      <3>3. alive[x.ws] => x.ws # c.ws
          <4>1. Bound(x.room, x.peer, x.session).session = x.session
              BY SMTT(60), Z3T(60), SMTT(90) DEF Bound
          <4> QED
              BY <2>5, <3>1, <3>2, <4>1, SMTT(60), Z3T(60), SMTT(90)
      <3> QED
          BY <2>6, <3>1, <3>3, SMTT(60), Z3T(60), SMTT(90)
  <2>10. ASSUME NEW x \in Sockets, pending'[x].session # 0
         PROVE  /\ joined'[x].session = 0
                /\ \E y \in InFlight' : y.ws = x /\ y.session = pending'[x].session
      <3>1. x # c.ws /\ x \notin K /\ pending'[x] = pending[x] /\ joined'[x] = joined[x]
          BY <2>7, <2>10, SMTT(60), Z3T(60), SMTT(90)
      <3>2. joined[x].session = 0
          BY <2>10, <3>1, ZenonT(60) DEF JoinInv
      <3>3. PICK y \in InFlight : y.ws = x /\ y.session = pending[x].session
          <4>1. pending[x].session # 0
              BY <2>10, <3>1, ZenonT(60)
          <4>2. \A w \in Sockets : pending[w].session # 0 =>
                    \E y \in InFlight : y.ws = w /\ y.session = pending[w].session
              BY ZenonT(60) DEF JoinInv
          <4> QED
              BY <4>1, <4>2, ZenonT(60)
      <3>4. y # JoinOf(c)
          BY <2>2, <3>1, <3>3, SMTT(60), Z3T(60), SMTT(90)
      <3>5. y \in InFlight'
          BY <2>4, <3>3, <3>4, SMTT(60), Z3T(60), SMTT(90)
      <3> QED
          BY <3>1, <3>2, <3>3, <3>5, SMTT(60), Z3T(60), SMTT(90)
  <2>11. ASSUME NEW x \in Sockets, ~alive'[x] PROVE pending'[x] = Unbound /\ joined'[x] = Unbound
      <3>1. x \in K \/ ~alive[x]
          BY <2>11, SMTT(60), Z3T(60), SMTT(90)
      <3>2. CASE x \in K
          BY <3>2, SMTT(60), Z3T(60), SMTT(90)
      <3>3. CASE x \notin K /\ ~alive[x]
          BY <3>3, SMTT(60), Z3T(60), SMTT(90) DEF JoinInv
      <3> QED
          BY <3>1, <3>2, <3>3, SMTT(60), Z3T(60), SMTT(90)
  <2> QED
      BY <2>3, <2>9, <2>10, <2>11, ZenonT(60) DEF JoinInv

<1>JoinRefused.
    ASSUME TypeOK, JoinInv, OnJoinFailed \/ OnJoinUnavailable
    PROVE  JoinInv'
  <2> USE <1>JoinRefused
  <2> DEFINE c == Head(deferred)
  <2>1. PICK k \in Finished : Callback(k)
      BY ZenonT(60) DEF OnJoinFailed, OnJoinUnavailable, Finished
  <2>2. /\ deferred # <<>> /\ deferred' = Tail(deferred) /\ c \in Callbacks
        /\ c.kind \in Finished /\ c.ws \in Sockets
        /\ alive[c.ws] => pending[c.ws].session = c.session
        /\ ~alive[c.ws] => pending[c.ws] = Unbound /\ joined[c.ws] = Unbound
      BY <2>1, CompletionMark, SMTT(60), Z3T(60), SMTT(90)
  <2>3. /\ alive' = alive /\ joined' = joined /\ taskQueue' = taskQueue
        /\ nextSessionId' = nextSessionId
      BY DEF OnJoinFailed, OnJoinUnavailable
  <2>4. \A x \in Sockets : pending'[x] = IF x = c.ws THEN Unbound ELSE pending[x]
      <3>1. CASE alive[c.ws]
          <4>1. ClearPendingSocketJoinIfMatches(c.ws, c.session)
              BY <3>1, SMTT(60), Z3T(60), SMTT(90) DEF OnJoinFailed, OnJoinUnavailable
          <4> QED
              BY <2>2, <3>1, <4>1, ClearsMark, SMTT(60), Z3T(60), SMTT(90)
      <3>2. CASE ~alive[c.ws]
          <4>1. pending' = pending
              BY <3>2, SMTT(60), Z3T(60), SMTT(90) DEF OnJoinFailed, OnJoinUnavailable
          <4> QED
              BY <2>2, <3>2, <4>1, SMTT(60), Z3T(60), SMTT(90)
      <3> QED
          BY <3>1, <3>2, SMTT(60), Z3T(60), SMTT(90)
  <2>5. DistinctTasks(taskQueue') /\ Queued(taskQueue') = Queued(taskQueue)
      BY <2>3 DEF JoinInv, Distinct
  <2> HIDE DEF c
  <2>6. c = Head(deferred)
      BY DEF c
  <2> DEFINE K == {}
  <2>7. /\ K \in SUBSET Sockets /\ c.ws \notin K
        /\ \A x \in Sockets :
          /\ alive'[x] <=> alive[x] /\ x \notin K
          /\ pending'[x] = IF x = c.ws \/ x \in K THEN Unbound ELSE pending[x]
          /\ x # c.ws => joined'[x] = IF x \in K THEN Unbound ELSE joined[x]
      BY <2>3, <2>4, SMTT(60), Z3T(60), SMTT(90)
  <2>8. ~alive[c.ws] => joined'[c.ws] = Unbound
      BY <2>2, <2>3, SMTT(60), Z3T(60), SMTT(90)
  <2> HIDE DEF K
  <2> QED
      BY <2>2, <2>3, <2>5, <2>6, <2>7, <2>8, <1>JoinEnds, SMTT(60), Z3T(60), SMTT(90)

<1>JoinRolledBack.
    ASSUME TypeOK, JoinInv, OnJoinRollback
    PROVE  JoinInv'
  <2> USE <1>JoinRolledBack
  <2> DEFINE c == Head(deferred)
  <2>1. Callback("joinOk") /\ "joinOk" \in Finished
      BY SMTT(60), Z3T(60), SMTT(90) DEF OnJoinRollback, Finished
  <2>2. /\ deferred # <<>> /\ deferred' = Tail(deferred) /\ c \in Callbacks
        /\ c.kind \in Finished
        /\ c.worker \in Workers /\ c.ws \in Sockets /\ c.room \in Rooms
        /\ c.peer \in Peers /\ c.session \in LiveSessions
        /\ ~alive[c.ws] => pending[c.ws] = Unbound /\ joined[c.ws] = Unbound
      BY <2>1, CompletionMark, ZenonT(60)
  <2>3. ~alive[c.ws] /\ alive' = alive /\ joined' = joined /\ pending' = pending
        /\ nextSessionId' = nextSessionId
        /\ \/ post(c.worker, Task("leave", c.ws, c))
           \/ UNCHANGED taskQueue
      BY ZenonT(60) DEF OnJoinRollback, socketVars, dispatchVars
  <2>4. Task("leave", c.ws, c) \in Tasks /\ Task("leave", c.ws, c).kind # "join"
      BY <2>2, SMTT(60), Z3T(60), SMTT(90) DEF Task, Tasks
  <2>5. DistinctTasks(taskQueue') /\ Queued(taskQueue') = Queued(taskQueue)
      <3>1. CASE post(c.worker, Task("leave", c.ws, c))
          BY <2>2, <2>4, <3>1, <1>PostKeeps, SMTT(60), Z3T(60), SMTT(90)
      <3>2. CASE UNCHANGED taskQueue
          BY <3>2 DEF JoinInv, Distinct
      <3> QED
          BY <2>3, <3>1, <3>2, SMTT(60), Z3T(60), SMTT(90)
  <2> HIDE DEF c
  <2>6. c = Head(deferred)
      BY SMTT(60), Z3T(60), SMTT(90) DEF c
  <2> DEFINE K == {}
  <2>7. /\ K \in SUBSET Sockets /\ c.ws \notin K
        /\ \A x \in Sockets :
          /\ alive'[x] <=> alive[x] /\ x \notin K
          /\ pending'[x] = IF x = c.ws \/ x \in K THEN Unbound ELSE pending[x]
          /\ x # c.ws => joined'[x] = IF x \in K THEN Unbound ELSE joined[x]
      BY <2>2, <2>3, SMTT(60), Z3T(60), SMTT(90)
  <2>8. ~alive[c.ws] => joined'[c.ws] = Unbound
      BY <2>2, <2>3, SMTT(60), Z3T(60), SMTT(90)
  <2> HIDE DEF K
  <2> QED
      BY <2>2, <2>3, <2>5, <2>6, <2>7, <2>8, <1>JoinEnds, SMTT(60), Z3T(60), SMTT(90)

<1>JoinCommitted.
    ASSUME TypeOK, TypeOK', JoinInv, OnJoinCommit
    PROVE  JoinInv'
  <2> USE <1>JoinCommitted
  <2> DEFINE c == Head(deferred)
             b == Bound(c.room, c.peer, c.session)
             K == oldWs(c.ws, b.room, b.peer)
  <2>1. Callback("joinOk") /\ "joinOk" \in Finished
      BY SMTT(60), Z3T(60), SMTT(90) DEF OnJoinCommit, Finished
  <2>2. /\ deferred # <<>> /\ deferred' = Tail(deferred) /\ c \in Callbacks
        /\ c.kind \in Finished
        /\ c.worker \in Workers /\ c.ws \in Sockets /\ c.room \in Rooms
        /\ c.peer \in Peers /\ c.session \in LiveSessions
      BY <2>1, CompletionMark, SMTT(60), Z3T(60), SMTT(90)
  <2>3. /\ alive[c.ws] /\ CommitJoin(c.worker, c.ws, b) /\ nextSessionId' = nextSessionId
      BY ZenonT(60) DEF OnJoinCommit
  <2>4. b \in Bindings /\ b.session # 0
      BY <2>2, SMTT(60), Z3T(60), SMTT(90) DEF Bindings, Bound, LiveSessions
  <2> HIDE DEF c, b
  <2>5. /\ K \in SUBSET Sockets /\ c.ws \notin K
        /\ \A x \in Sockets :
             /\ alive'[x] <=> alive[x] /\ x \notin K
             /\ joined'[x] = IF x = c.ws THEN b
                             ELSE IF x \in K THEN Unbound ELSE joined[x]
             /\ pending'[x] = IF x = c.ws \/ x \in K THEN Unbound ELSE pending[x]
      <3>1. Committed(c.ws, b, K)
          BY <2>2, <2>3, <2>4, CommitEffect, ZenonT(60), SMTT(60), Z3T(60), SMTT(90)
      <3> QED
          BY <3>1, ZenonT(60) DEF Committed
  <2>6. DistinctTasks(taskQueue') /\ Queued(taskQueue') = Queued(taskQueue)
      <3>1. CASE K = {}
          <4>1. UNCHANGED taskQueue
              BY <2>3, <3>1, ZenonT(60) DEF CommitJoin
          <4> QED
              BY <4>1, ZenonT(60) DEF JoinInv, Distinct
      <3>2. CASE K # {}
          <4>1. PICK old \in K : PostLeave(old, roomDispatch')
              BY <2>3, <3>2, ZenonT(60) DEF CommitJoin
          <4>2. old \in Sockets
              BY <2>5, ZenonT(60)
          <4>3. roomDispatch' \in [Rooms -> Workers \cup {NoWorker}]
              BY DEF TypeOK, DispatchTypeOK
          <4> QED
              BY <4>1, <4>2, <4>3, <1>PostLeaveKeeps, SMTT(60), Z3T(60), SMTT(90)
      <3> QED
          BY <3>1, <3>2, SMTT(60), Z3T(60), SMTT(90)
  <2> HIDE DEF K
  <2>7. c = Head(deferred)
      BY SMTT(60), Z3T(60), SMTT(90) DEF c
  <2>8. \A x \in Sockets : x # c.ws => joined'[x] = IF x \in K THEN Unbound ELSE joined[x]
      BY <2>5, SMTT(60), Z3T(60), SMTT(90)
  <2> QED
      BY <2>2, <2>3, <2>5, <2>6, <2>7, <2>8, <1>JoinEnds, SMTT(60), Z3T(60), SMTT(90)

(* A request or a report is posted for the session the socket is joined    *)
(* with.                                                                   *)
<1>JoinRequest.
    ASSUME TypeOK, TypeOK', JoinInv, NEW ws \in Sockets, Request(ws) \/ ClientStats(ws)
    PROVE  JoinInv'
  <2> USE <1>JoinRequest
  <2> DEFINE w == roomDispatch[joined[ws].room]
  <2>1. joined[ws].session # 0
      BY SMTT(60), Z3T(60), SMTT(90) DEF Request, ClientStats, HasMappedSession
  <2>2. /\ joined[ws] \in Bindings /\ joined[ws].room \in Rooms /\ joined[ws].peer \in Peers
        /\ joined[ws].session \in LiveSessions
      BY <2>1, BindingFields, SMTT(60), Z3T(60), SMTT(90) DEF TypeOK, SocketTypeOK
  <2>3. PICK k \in {"request", "stats"} : w # NoWorker /\ post(w, Task(k, ws, joined[ws]))
      BY SMTT(60), Z3T(60), SMTT(90) DEF Request, ClientStats
  <2>4. w \in Workers
      BY <2>2, <2>3, SMTT(60), Z3T(60), SMTT(90) DEF TypeOK, DispatchTypeOK
  <2>5. Task(k, ws, joined[ws]) \in Tasks /\ Task(k, ws, joined[ws]).kind # "join"
      BY <2>2, <2>3, ZenonT(60) DEF Task, Tasks
  <2>6. Queued(taskQueue') = Queued(taskQueue) /\ DistinctTasks(taskQueue')
      BY <2>3, <2>4, <2>5, <1>PostKeeps, ZenonT(60)
  <2>7. UNCHANGED <<alive, joined, pending, deferred, nextSessionId>>
      BY ZenonT(60) DEF Request, ClientStats, socketVars, dispatchVars
  <2>8. InFlight' = InFlight /\ Distinct(taskQueue', deferred')
      BY <2>6, <2>7, ZenonT(60) DEF InFlight, Distinct, JoinInv
  <2>9. nextSessionId' >= nextSessionId
      BY <2>7, SMTT(60), Z3T(60), SMTT(90) DEF TypeOK, DispatchTypeOK
  <2> QED
      BY <2>7, <2>8, <2>9, <1>JoinKeep, SMTT(60), Z3T(60), SMTT(90)

(* Steps that leave both queues alone.                                     *)
<1>JoinQuiet.
    ASSUME TypeOK, TypeOK', JoinInv, UNCHANGED <<alive, joined, pending, taskQueue, deferred>>,
           nextSessionId' = nextSessionId \/ nextSessionId' = nextSessionId + 1
    PROVE  JoinInv'
  <2> USE <1>JoinQuiet
  <2>1. InFlight' = InFlight /\ Distinct(taskQueue', deferred')
      BY SMTT(60), Z3T(60), SMTT(90) DEF InFlight, JoinInv
  <2>2. nextSessionId' >= nextSessionId
      BY DEF TypeOK, DispatchTypeOK
  <2> QED
      BY <2>1, <2>2, <1>JoinKeep, SMTT(60), Z3T(60), SMTT(90)

(* A callback about a room runs.                                           *)
<1>JoinLifecycle.
    ASSUME TypeOK, TypeOK', JoinInv, OnRoomCreated \/ OnRoomDestroyed \/ OnServerRestart
    PROVE  JoinInv'
  <2> USE <1>JoinLifecycle
  <2> DEFINE c == Head(deferred)
  <2>1. /\ deferred # <<>> /\ deferred' = Tail(deferred) /\ c.kind \notin Finished
      BY SMTT(60), Z3T(60), SMTT(90)
         DEF OnRoomCreated, OnRoomDestroyed, OnServerRestart, Callback, Finished
  <2>2. UNCHANGED <<alive, joined, pending, taskQueue, nextSessionId>>
      BY SMTT(60), Z3T(60), SMTT(90)
         DEF OnRoomCreated, OnRoomDestroyed, OnServerRestart, socketVars, dispatchVars
  <2>3. DistinctDone(deferred') /\ Done(deferred') = Done(deferred)
      BY <2>1, QueueTypes, RunDone, SMTT(60), Z3T(60), SMTT(90) DEF JoinInv, Distinct
  <2>4. InFlight' = InFlight /\ Distinct(taskQueue', deferred')
      BY <2>2, <2>3, ZenonT(60) DEF InFlight, Distinct, JoinInv
  <2>5. nextSessionId' >= nextSessionId
      BY <2>2, SMTT(60), Z3T(60), SMTT(90) DEF TypeOK, DispatchTypeOK
  <2> QED
      BY <2>2, <2>4, <2>5, <1>JoinKeep, SMTT(60), Z3T(60), SMTT(90)

(* Callbacks about rooms are deferred, and perhaps a task other than a     *)
(* join was taken.                                                         *)
<1>JoinNotices.
    ASSUME TypeOK, TypeOK', JoinInv, UNCHANGED <<socketVars, dispatchVars>>,
           Queued(taskQueue') = Queued(taskQueue), DistinctTasks(taskQueue'),
           NEW cs \in Seq(Callbacks), \A i \in 1 .. Len(cs) : cs[i].kind \notin Finished,
           deferred' = deferred \o cs
    PROVE  JoinInv'
  <2> USE <1>JoinNotices
  <2>1. DistinctDone(deferred') /\ Done(deferred') = Done(deferred)
      BY QueueTypes, <1>DeferNotices, SMTT(60), Z3T(60), SMTT(90) DEF JoinInv, Distinct
  <2>2. InFlight' = InFlight /\ Distinct(taskQueue', deferred')
      BY <2>1, ZenonT(60) DEF InFlight, Distinct, JoinInv
  <2>3. UNCHANGED <<alive, joined, pending, nextSessionId>>
      BY SMTT(60), Z3T(60), SMTT(90) DEF socketVars, dispatchVars
  <2>4. nextSessionId' >= nextSessionId
      BY <2>3, SMTT(60), Z3T(60), SMTT(90) DEF TypeOK, DispatchTypeOK
  <2> QED
      BY <2>2, <2>3, <2>4, <1>JoinKeep, SMTT(60), Z3T(60), SMTT(90)

<1>TakeOther.
    ASSUME TypeOK, JoinInv, NEW w \in Workers, NEW k, k # "join", TakeTask(w, k)
    PROVE  Queued(taskQueue') = Queued(taskQueue) /\ DistinctTasks(taskQueue')
  <2> USE <1>TakeOther
  <2>1. /\ taskQueue[w] # <<>> /\ Head(taskQueue[w]).kind # "join"
        /\ Taken(taskQueue, taskQueue', w)
      BY DEF TakeTask, Taken
  <2> QED
      <3>1. DistinctTasks(taskQueue) /\ taskQueue \in [Workers -> Seq(Tasks)]
          BY QueueTypes, ZenonT(60) DEF JoinInv, Distinct
      <3>2. PICK t : t = Head(taskQueue[w])
          BY ZenonT(60)
      <3> QED
          BY <2>1, <3>1, <3>2, <1>TakeJoins, SMTT(60), Z3T(60), SMTT(90)

(* A task other than a join that defers nothing.                           *)
<1>JoinTaskQuiet.
    ASSUME TypeOK, TypeOK', JoinInv, NEW w \in Workers,
           RunLeaveStale(w) \/ RunRequest(w) \/ RunRequestRejected(w) \/ RunStats(w)
    PROVE  JoinInv'
  <2> USE <1>JoinTaskQuiet
  <2>1. PICK k \in {"leave", "request", "stats"} : TakeTask(w, k)
      BY ZenonT(60) DEF RunLeaveStale, RunRequest, RunRequestRejected, RunStats
  <2>2. UNCHANGED <<socketVars, dispatchVars>> /\ deferred' = deferred
      BY ZenonT(60) DEF RunLeaveStale, RunRequest, RunRequestRejected, RunStats
  <2>3. Queued(taskQueue') = Queued(taskQueue) /\ DistinctTasks(taskQueue')
      BY <2>1, <1>TakeOther, SMTT(60), Z3T(60), SMTT(90)
  <2>4. InFlight' = InFlight /\ Distinct(taskQueue', deferred')
      BY <2>2, <2>3, ZenonT(60) DEF InFlight, Distinct, JoinInv
  <2>5. UNCHANGED <<alive, joined, pending, nextSessionId>>
      BY <2>2, SMTT(60), Z3T(60), SMTT(90) DEF socketVars, dispatchVars
  <2>6. nextSessionId' >= nextSessionId
      BY <2>5, SMTT(60), Z3T(60), SMTT(90) DEF TypeOK, DispatchTypeOK
  <2> QED
      BY <2>4, <2>5, <2>6, <1>JoinKeep

<1>OneNotice.
    ASSUME NEW k \in {"created", "destroyed", "serverRestart"},
           NEW w \in Workers, NEW r \in Rooms, NEW cs, cs = <<Lifecycle(k, w, r)>>
    PROVE  cs \in Seq(Callbacks) /\ \A i \in 1 .. Len(cs) : cs[i].kind \notin Finished
  <2> USE <1>OneNotice
  <2>1. PICK c \in Callbacks : c = Lifecycle(k, w, r) /\ c.kind \notin Finished
      BY LifecycleTyped, LifecycleKind, SMTT(60), Z3T(60), SMTT(90)
  <2>2. cs = <<c>>
      BY <2>1
  <2>3. cs \in Seq(Callbacks) /\ Len(cs) = 1 /\ cs[1] = c
      BY <2>2, SMTT(60), Z3T(60), SMTT(90)
  <2> QED
      BY <2>1, <2>3, SMTT(60), Z3T(60), SMTT(90)

<1>JoinLeave.
    ASSUME TypeOK, TypeOK', JoinInv, NEW w \in Workers, RunLeave(w)
    PROVE  JoinInv'
  <2> USE <1>JoinLeave
  <2> DEFINE t == Head(taskQueue[w])
  <2>1. t \in Tasks /\ t.room \in Rooms
      BY TakeTaskTyped, TaskFields, ZenonT(60) DEF RunLeave, TypeOK
  <2>2. PICK cs \in {<<>>, <<Lifecycle("destroyed", w, t.room)>>} : defer(cs)
      BY ZenonT(60) DEF RunLeave
  <2>3. cs \in Seq(Callbacks) /\ \A i \in 1 .. Len(cs) : cs[i].kind \notin Finished
      <3>1. CASE cs = <<>>
          BY <3>1, SMTT(60), Z3T(60), SMTT(90)
      <3>2. CASE cs = <<Lifecycle("destroyed", w, t.room)>>
          BY <2>1, <3>2, <1>OneNotice, ZenonT(60)
      <3> QED
          BY <2>2, <3>1, <3>2, SMTT(60), Z3T(60), SMTT(90)
  <2>4. Queued(taskQueue') = Queued(taskQueue) /\ DistinctTasks(taskQueue')
      BY <1>TakeOther, ZenonT(60) DEF RunLeave
  <2>5. UNCHANGED <<socketVars, dispatchVars>> /\ deferred' = deferred \o cs
      BY <2>2, ZenonT(60) DEF RunLeave, defer
  <2> QED
      BY <2>3, <2>4, <2>5, <1>JoinNotices, SMTT(60), Z3T(60), SMTT(90)

(* A join runs: it leaves its queue and its completion is deferred, behind *)
(* the notice of the room it created.                                      *)
<1>JoinTask.
    ASSUME TypeOK, TypeOK', JoinInv, NEW w \in Workers, TakeTask(w, "join"),
           UNCHANGED <<socketVars, dispatchVars>>,
           NEW t, t = Head(taskQueue[w]),
           NEW cs \in Seq(Callbacks), \A i \in 1 .. Len(cs) : cs[i].kind \notin Finished,
           NEW k \in Finished, deferred' = deferred \o (cs \o <<JoinDone(k, w, t)>>)
    PROVE  JoinInv'
  <2> USE <1>JoinTask
  <2> DEFINE d == JoinDone(k, w, t)
             mid == deferred \o cs
  <2>1. taskQueue[w] # <<>> /\ t.kind = "join" /\ Taken(taskQueue, taskQueue', w)
      BY SMTT(60), Z3T(60), SMTT(90) DEF TakeTask, Taken
  <2>2. /\ t \in Tasks /\ DistinctTasks(taskQueue')
        /\ Queued(taskQueue) = Queued(taskQueue') \cup {JoinOf(t)}
        /\ Fresh(t.session, Queued(taskQueue'))
      BY <2>1, QueueTypes, <1>TakeJoins, ZenonT(60) DEF JoinInv, Distinct
  <2>3. d \in Callbacks /\ d.kind \in Finished /\ d.session = t.session /\ JoinOf(d) = JoinOf(t)
      BY <2>2, JoinDoneTyped, ZenonT(60) DEF Finished, JoinDone, JoinOf
  <2>4. JoinOf(t).session = t.session
      BY SMTT(60), Z3T(60), SMTT(90) DEF JoinOf
  <2>5. mid \in Seq(Callbacks) /\ Done(mid) = Done(deferred) /\ DistinctDone(mid)
      BY QueueTypes, <1>DeferNotices, ZenonT(60) DEF JoinInv, Distinct
  <2> HIDE DEF d
  <2>6. deferred' = Append(mid, d)
      <3>1. deferred \in Seq(Callbacks)
          BY QueueTypes, SMTT(60), Z3T(60), SMTT(90)
      <3>2. deferred \o (cs \o <<d>>) = Append(deferred \o cs, d)
          BY <2>3, <3>1, SMTT(60), Z3T(60), SMTT(90)
      <3> QED
          BY <3>2, SMTT(60), Z3T(60), SMTT(90) DEF d
  <2> HIDE DEF mid
  <2>7. Fresh(d.session, Done(mid))
      BY <2>2, <2>3, <2>4, <2>5, ZenonT(60) DEF JoinInv, Distinct
  <2>8. Done(deferred') = Done(deferred) \cup {JoinOf(t)} /\ DistinctDone(deferred')
      BY <2>3, <2>5, <2>6, <2>7, <1>DeferDone, ZenonT(60)
  <2>9. InFlight' = InFlight
      BY <2>2, <2>8, SMTT(60), Z3T(60), SMTT(90) DEF InFlight
  <2>10. Distinct(taskQueue', deferred')
      BY <2>2, <2>4, <2>8, ZenonT(60) DEF Distinct, JoinInv, Fresh
  <2>11. UNCHANGED <<alive, joined, pending, nextSessionId>>
      BY SMTT(60), Z3T(60), SMTT(90) DEF socketVars, dispatchVars
  <2>12. nextSessionId' >= nextSessionId
      BY <2>11 DEF TypeOK, DispatchTypeOK
  <2> QED
      BY <2>9, <2>10, <2>11, <2>12, <1>JoinKeep, SMTT(60), Z3T(60), SMTT(90)

<1>JoinRuns.
    ASSUME TypeOK, TypeOK', JoinInv, NEW w \in Workers,
           RunJoinRefused(w) \/ RunJoinThrows(w) \/ RunJoin(w)
    PROVE  JoinInv'
  <2> USE <1>JoinRuns
  <2> DEFINE t == Head(taskQueue[w])
  <2>1. TakeTask(w, "join") /\ UNCHANGED <<socketVars, dispatchVars>>
      BY ZenonT(60) DEF RunJoinRefused, RunJoinThrows, RunJoin
  <2>2. t \in Tasks /\ t.room \in Rooms
      BY <2>1, TakeTaskTyped, TaskFields, SMTT(60), Z3T(60), SMTT(90) DEF TypeOK
  <2>3. <<>> \in Seq(Callbacks) /\ \A i \in 1 .. Len(<<>>) : <<>>[i].kind \notin Finished
      BY SMTT(60), Z3T(60), SMTT(90)
  <2>4. /\ CreatedNotice(w, t.room) \in Seq(Callbacks)
        /\ \A i \in 1 .. Len(CreatedNotice(w, t.room)) :
              CreatedNotice(w, t.room)[i].kind \notin Finished
      <3>1. CASE t.room \in rooms[w]
          BY <3>1, SMTT(60), Z3T(60), SMTT(90) DEF CreatedNotice
      <3>2. CASE t.room \notin rooms[w]
          <4>1. CreatedNotice(w, t.room) = <<Lifecycle("created", w, t.room)>>
              BY <3>2 DEF CreatedNotice
          <4> QED
              BY <2>2, <4>1, <1>OneNotice, SMTT(60), Z3T(60), SMTT(90)
      <3> QED
          BY <3>1, <3>2, SMTT(60), Z3T(60), SMTT(90)
  <2> HIDE DEF t
  <2>5. t = Head(taskQueue[w]) /\ "joinFailed" \in Finished /\ "joinOk" \in Finished
      BY SMTT(60), Z3T(60), SMTT(90) DEF t, Finished
  <2>6. CASE RunJoinRefused(w)
      <3>1. deferred' = deferred \o <<JoinDone("joinFailed", w, t)>>
          BY <2>6 DEF RunJoinRefused, defer, t
      <3>2. deferred' = deferred \o (<<>> \o <<JoinDone("joinFailed", w, t)>>)
          BY <3>1, SMTT(60), Z3T(60), SMTT(90)
      <3> QED
          BY <2>1, <2>3, <2>5, <3>2, <1>JoinTask, ZenonT(60)
  <2>7. CASE RunJoinThrows(w)
      <3>1. deferred' = deferred \o (CreatedNotice(w, t.room) \o <<JoinDone("joinFailed", w, t)>>)
          BY <2>7, ZenonT(60) DEF RunJoinThrows, defer, t
      <3> QED
          BY <2>1, <2>4, <2>5, <3>1, <1>JoinTask, ZenonT(60)
  <2>8. CASE RunJoin(w)
      <3>1. deferred' = deferred \o (CreatedNotice(w, t.room) \o <<JoinDone("joinOk", w, t)>>)
          BY <2>8, ZenonT(60) DEF RunJoin, defer, t
      <3> QED
          BY <2>1, <2>4, <2>5, <3>1, <1>JoinTask, ZenonT(60)
  <2> QED
      BY <2>6, <2>7, <2>8, SMTT(60), Z3T(60), SMTT(90)

<1>JoinDestroy.
    ASSUME TypeOK, TypeOK', JoinInv, NEW w \in Workers, NEW gone,
           NEW notices \in Seq(Callbacks),
           \A i \in 1 .. Len(notices) : notices[i].kind \notin Finished,
           destroyRooms(w, gone, notices)
    PROVE  JoinInv'
  <2> USE <1>JoinDestroy
  <2>1. /\ UNCHANGED <<socketVars, dispatchVars>> /\ taskQueue' = taskQueue
        /\ deferred' = deferred \o notices
      BY SMTT(60), Z3T(60), SMTT(90) DEF destroyRooms, defer
  <2>2. Queued(taskQueue') = Queued(taskQueue) /\ DistinctTasks(taskQueue')
      BY <2>1 DEF JoinInv, Distinct
  <2> QED
      BY <2>1, <2>2, <1>JoinNotices, SMTT(60), Z3T(60), SMTT(90)

<1>JoinTimers.
    ASSUME TypeOK, TypeOK', JoinInv, NEW w \in Workers, HealthCheck(w) \/ GcTimer(w)
    PROVE  JoinInv'
  <2> USE <1>JoinTimers
  <2>1. CASE HealthCheck(w)
      <3>1. PICK order \in Orders(deadRouters[w]) :
              destroyRooms(w, deadRouters[w], HealthNotices(w, order))
          BY <2>1, ZenonT(60) DEF HealthCheck
      <3>2. deadRouters[w] \in SUBSET Rooms
          BY SMTT(60), Z3T(60), SMTT(90) DEF TypeOK, RoomTypeOK
      <3>3. Len(order) \in Nat /\ \A i \in 1 .. Len(order) : order[i] \in Rooms
          BY <3>2, OrderTyped, SMTT(60), Z3T(60), SMTT(90)
      <3> DEFINE notices == HealthNotices(w, order)
      <3>4. notices \in Seq(Callbacks)
          BY <3>3, HealthNoticesTyped, SMTT(60), Z3T(60), SMTT(90)
      <3>5. Len(notices) = 2 * Len(order)
          BY <3>3, SMTT(60), Z3T(60), SMTT(90) DEF HealthNotices
      <3>6. \A i \in 1 .. Len(notices) : notices[i].kind \notin Finished
          BY <3>3, <3>5, HealthKinds, SMTT(60), Z3T(60), SMTT(90)
      <3> QED
          BY <3>1, <3>4, <3>6, <1>JoinDestroy, SMTT(60), Z3T(60), SMTT(90)
  <2>2. CASE GcTimer(w)
      <3>1. PICK idle \in SUBSET IdleRooms(w) : \E order \in Orders(idle) :
              destroyRooms(w, idle, GcNotices(w, order))
          BY <2>2, SMTT(60), Z3T(60), SMTT(90) DEF GcTimer
      <3>2. PICK order \in Orders(idle) : destroyRooms(w, idle, GcNotices(w, order))
          BY <3>1, SMTT(60), Z3T(60), SMTT(90)
      <3>3. idle \in SUBSET Rooms
          BY DEF TypeOK, RoomTypeOK, IdleRooms
      <3>4. Len(order) \in Nat /\ \A i \in 1 .. Len(order) : order[i] \in Rooms
          BY <3>3, OrderTyped, SMTT(60), Z3T(60), SMTT(90)
      <3> DEFINE notices == GcNotices(w, order)
      <3>5. notices \in Seq(Callbacks)
          BY <3>4, LifecycleTyped, SMTT(60), Z3T(60), SMTT(90) DEF GcNotices
      <3>6. Len(notices) = Len(order)
          BY <3>4, SMTT(60), Z3T(60), SMTT(90) DEF GcNotices
      <3>7. \A i \in 1 .. Len(notices) : notices[i].kind \notin Finished
          <4>1. \A i \in 1 .. Len(order) : notices[i] = Lifecycle("destroyed", w, order[i])
              BY SMTT(60), Z3T(60), SMTT(90) DEF GcNotices
          <4> QED
              BY <3>6, <4>1, LifecycleKind, SMTT(60), Z3T(60), SMTT(90)
      <3> QED
          BY <3>2, <3>5, <3>7, <1>JoinDestroy, SMTT(60), Z3T(60), SMTT(90)
  <2> QED
      BY <2>1, <2>2, SMTT(60), Z3T(60), SMTT(90)

<1> SUFFICES ASSUME TypeOK, TypeOK', SocketMapInv, JoinInv, [Next]_vars PROVE JoinInv'
    BY SMTT(60), Z3T(60), SMTT(90)
<1>1. ASSUME NEW ws \in Sockets, NEW r \in Rooms, NEW p \in Peers,
             JoinKnownRoom(ws, r, p) \/ JoinNewRoom(ws, r, p)
      PROVE  JoinInv'
    <2>1. PICK w \in Workers : AcceptJoin(ws) /\ DispatchJoin(ws, r, p, w)
        <3>1. roomDispatch[r] # NoWorker => roomDispatch[r] \in Workers
            BY SMTT(60), Z3T(60), SMTT(90) DEF TypeOK, DispatchTypeOK
        <3> QED
            BY <1>1, <3>1, SMTT(60), Z3T(60), SMTT(90) DEF JoinKnownRoom, JoinNewRoom
    <2> QED
        BY <2>1, <1>JoinMain, SMTT(60), Z3T(60), SMTT(90)
<1>2. ASSUME NEW ws \in Sockets, NEW r \in Rooms, JoinNoWorker(ws, r) PROVE JoinInv'
    BY <1>2, <1>JoinQuiet, SMTT(60), Z3T(60), SMTT(90) DEF JoinNoWorker, AcceptJoin, socketVars
<1>3. CASE Stop
    BY <1>3, <1>JoinQuiet, SMTT(60), Z3T(60), SMTT(90) DEF Stop, socketVars
<1>4. CASE MainNext
    BY <1>1, <1>2, <1>3, <1>4, <1>JoinRequest, <1>JoinClose, SMTT(60), Z3T(60), SMTT(90)
       DEF MainNext
<1>5. CASE DeferredNext
    BY <1>5, <1>JoinLifecycle, <1>JoinRefused, <1>JoinRolledBack, <1>JoinCommitted, SMTT(60),
       Z3T(60),
       Z3T(60) DEF DeferredNext
<1>6. ASSUME NEW w \in Workers, WorkerTask(w) PROVE JoinInv'
    BY <1>6, <1>JoinRuns, <1>JoinTaskQuiet, <1>JoinLeave, SMTT(60), Z3T(60), SMTT(90) DEF WorkerTask
<1>7. ASSUME NEW w \in Workers, WorkerDied(w) PROVE JoinInv'
    BY <1>7, <1>JoinQuiet, SMTT(60), Z3T(60), SMTT(90) DEF WorkerDied, socketVars, dispatchVars
<1>8. CASE UNCHANGED vars
    BY <1>8, <1>JoinQuiet DEF vars, socketVars, dispatchVars
<1> QED
    BY <1>4, <1>5, <1>6, <1>7, <1>8, <1>JoinTimers, SMTT(60), Z3T(60), SMTT(90) DEF Next

LEMMA JoinCorrect == Spec => [](TypeOK /\ SocketMapInv /\ JoinInv)
<1>JoinInit. Init => JoinInv
  <2> SUFFICES ASSUME Init PROVE JoinInv
      OBVIOUS
  <2>1. \A w \in Workers : taskQueue[w] = <<>>
      BY SMTT(60), Z3T(60), SMTT(90) DEF Init
  <2>2. Queued(taskQueue) = {} /\ DistinctTasks(taskQueue)
      <3>1. \A w \in Workers : Len(taskQueue[w]) = 0
          BY <2>1, SMTT(60), Z3T(60), SMTT(90)
      <3> QED
          BY <3>1, SMTT(60), Z3T(60), SMTT(90) DEF Queued, DistinctTasks
  <2>3. Done(deferred) = {} /\ DistinctDone(deferred)
      BY SMTT(60), Z3T(60), SMTT(90) DEF Init, Done, DistinctDone
  <2>4. Unbound.session = 0
      BY SMTT(60), Z3T(60), SMTT(90) DEF Unbound
  <2> QED
      BY <2>2, <2>3, <2>4, SMTT(60), Z3T(60), SMTT(90) DEF JoinInv, Distinct, InFlight, Init

<1>1. TypeOK /\ SocketMapInv /\ TypeOK' /\ JoinInv /\ [Next]_vars => JoinInv'
    BY JoinStep
<1> QED
    BY <1>1, <1>JoinInit, TypeCorrect, SocketMapCorrect, PTL DEF Spec

(* A socket marked as joining refuses every other join, and its mark is    *)
(* never left without the join that will clear it: the join is queued at a *)
(* worker, or its completion is deferred to the main thread, whatever      *)
(* closes, kicks, failures, process deaths and room destructions happen    *)
(* meanwhile (SetPendingSocketJoin, the join completion callback).         *)
THEOREM PendingJoinsAreOnTheirWay == Spec => []PendingJoinIsInFlight
(* A join that is on its way is one the run's property names.              *)
<1>InFlightIsOnItsWay.
    ASSUME NEW x \in InFlight
    PROVE  JoinQueued(x.ws, x.session) \/ JoinCompleting(x.ws, x.session)
  <2> USE <1>InFlightIsOnItsWay
  <2>1. CASE x \in Queued(taskQueue)
      <3>1. PICK w \in Workers : \E i \in 1 .. Len(taskQueue[w]) :
              taskQueue[w][i].kind = "join" /\ JoinOf(taskQueue[w][i]) = x
          BY <2>1, SMTT(60), Z3T(60), SMTT(90) DEF Queued
      <3>2. PICK i \in 1 .. Len(taskQueue[w]) :
              taskQueue[w][i].kind = "join" /\ JoinOf(taskQueue[w][i]) = x
          BY <3>1, SMTT(60), Z3T(60), SMTT(90)
      <3>3. taskQueue[w][i].ws = x.ws /\ taskQueue[w][i].session = x.session
          BY <3>2, SMTT(60), Z3T(60), SMTT(90) DEF JoinOf
      <3> QED
          BY <3>2, <3>3, SMTT(60), Z3T(60), SMTT(90) DEF JoinQueued
  <2>2. CASE x \in Done(deferred)
      <3>1. PICK i \in 1 .. Len(deferred) :
              deferred[i].kind \in Finished /\ JoinOf(deferred[i]) = x
          BY <2>2, SMTT(60), Z3T(60), SMTT(90) DEF Done
      <3>2. deferred[i].ws = x.ws /\ deferred[i].session = x.session
          BY <3>1 DEF JoinOf
      <3> QED
          BY <3>1, <3>2, SMTT(60), Z3T(60), SMTT(90) DEF JoinCompleting, Finished
  <2> QED
      BY <2>1, <2>2, SMTT(60), Z3T(60), SMTT(90) DEF InFlight

<1>1. JoinInv => PendingJoinIsInFlight
    BY <1>InFlightIsOnItsWay DEF JoinInv, PendingJoinIsInFlight
<1> QED
    BY <1>1, JoinCorrect, PTL

-----------------------------------------------------------------------------
(* The protocol implements the session directory.  The mapping reads       *)
(* phase and wanted off the sockets' marks, and holder off the map.        *)

LEMMA PhaseIs ==
    ASSUME NEW x \in Sockets
    PROVE  /\ ~alive[x] => Phase(x) = "closed"
           /\ alive[x] /\ joined[x].session # 0 => Phase(x) = "joined"
           /\ alive[x] /\ joined[x].session = 0 /\ pending[x].session # 0
                => Phase(x) = "joining"
           /\ alive[x] /\ joined[x].session = 0 /\ pending[x].session = 0
                => Phase(x) = "idle"
BY DEF Phase

LEMMA DirectoryStep ==
    TypeOK /\ TypeOK' /\ SocketMapInv /\ JoinInv /\ [Next]_vars
        => [Directory!Next]_(Directory!vars)
<1>PhaseWillBe.
    ASSUME NEW x \in Sockets
    PROVE  /\ ~alive'[x] => Phase(x)' = "closed"
           /\ alive'[x] /\ joined'[x].session # 0 => Phase(x)' = "joined"
           /\ alive'[x] /\ joined'[x].session = 0 /\ pending'[x].session # 0
                => Phase(x)' = "joining"
           /\ alive'[x] /\ joined'[x].session = 0 /\ pending'[x].session = 0
                => Phase(x)' = "idle"
  BY <1>PhaseWillBe, SMTT(60), Z3T(60), SMTT(90) DEF Phase

<1>WillWantNothing.
    ASSUME NEW x \in Sockets, joined'[x].session = 0 \/ joined'[x] = Unbound,
           pending'[x] = Unbound
    PROVE  Wanted(x)' = Directory!Nothing
  <2> USE <1>WillWantNothing
  <2>1. CloseBinding(x)' = Unbound
      BY ZenonT(60) DEF CloseBinding
  <2>2. Unbound.room = NoRoom /\ Unbound.peer = NoPeer
      BY ZenonT(60) DEF Unbound
  <2> QED
      BY <2>1, <2>2, ZenonT(60) DEF Wanted, Directory!Nothing

(* A socket that a step leaves alone looks the same to the directory.      *)
<1>SameSocket.
    ASSUME NEW x \in Sockets, alive'[x] <=> alive[x], joined'[x] = joined[x],
           pending'[x] = pending[x]
    PROVE  Phase(x)' = Phase(x) /\ Wanted(x)' = Wanted(x)
  <2> USE <1>SameSocket
  <2>1. Phase(x)' = Phase(x)
      BY PhaseIs, <1>PhaseWillBe, SMTT(60), Z3T(60), SMTT(90)
  <2>2. Wanted(x)' = Wanted(x)
      BY DEF Wanted, CloseBinding
  <2> QED
      BY <2>1, <2>2, SMTT(60), Z3T(60), SMTT(90)

<1>DirectoryStutters.
    ASSUME UNCHANGED <<alive, joined, pending, wsPeers>>
    PROVE  UNCHANGED Directory!vars
  BY <1>DirectoryStutters DEF Directory!vars, Phase, Wanted, CloseBinding

(* A join request is the directory's Ask.                                  *)
<1>JoinIsAsk.
    ASSUME TypeOK, SocketMapInv, NEW ws \in Sockets, NEW r \in Rooms, NEW p \in Peers,
           NEW w \in Workers, AcceptJoin(ws), DispatchJoin(ws, r, p, w)
    PROVE  Directory!Ask(ws, r, p)
  <2> USE <1>JoinIsAsk
  <2> DEFINE b == Bound(r, p, nextSessionId)
  <2>1. /\ alive[ws] /\ pending[ws].session = 0
        /\ pending' = [pending EXCEPT ![ws] = b]
        /\ UNCHANGED <<alive, joined, wsPeers>>
      BY DEF AcceptJoin, DispatchJoin
  <2>2. joined[ws].session = 0
      BY <2>1 DEF AcceptJoin, SocketMapInv, JoinedSocketIsMapped
  <2>3. \A x \in Sockets : pending'[x] = IF x = ws THEN b ELSE pending[x]
      BY <2>1, SMTT(60), Z3T(60), SMTT(90) DEF TypeOK, SocketTypeOK
  <2>4. b.session # 0 /\ b.room = r /\ b.peer = p
      BY SMTT(60), Z3T(60), SMTT(90) DEF Bound, TypeOK, DispatchTypeOK
  <2>5. Phase(ws) = "idle" /\ Phase(ws)' = "joining"
      BY <2>1, <2>2, <2>3, <2>4, PhaseIs, <1>PhaseWillBe, ZenonT(60)
  <2>6. Wanted(ws)' = [room |-> r, peer |-> p]
      BY <2>1, <2>2, <2>3, <2>4, ZenonT(60) DEF Wanted, CloseBinding
  <2>7. \A x \in Sockets : x # ws => Phase(x)' = Phase(x) /\ Wanted(x)' = Wanted(x)
      BY <2>1, <2>3, <1>SameSocket, ZenonT(60)
  <2> QED
      BY <2>1, <2>5, <2>6, <2>7, ZenonT(60) DEF Directory!Ask

(* A refused join is the directory's Refuse, unless the socket closed.     *)
<1>FailureIsRefuse.
    ASSUME TypeOK, JoinInv, OnJoinFailed \/ OnJoinUnavailable
    PROVE  \/ \E ws \in Sockets : Directory!Refuse(ws)
           \/ UNCHANGED Directory!vars
  <2> USE <1>FailureIsRefuse
  <2> DEFINE c == Head(deferred)
  <2>1. PICK k \in Finished : Callback(k)
      BY ZenonT(60) DEF OnJoinFailed, OnJoinUnavailable, Finished
  <2>2. PICK ws \in Sockets, s \in LiveSessions :
          /\ ws = c.ws /\ s = c.session
          /\ alive[ws] => pending[ws].session = s /\ joined[ws].session = 0
      BY <2>1, CompletionMark, SMTT(60), Z3T(60), SMTT(90)
  <2>3. alive' = alive /\ joined' = joined /\ wsPeers' = wsPeers
      BY SMTT(60), Z3T(60), SMTT(90) DEF OnJoinFailed, OnJoinUnavailable
  <2>4. CASE alive[ws]
      <3>1. ClearPendingSocketJoinIfMatches(ws, s)
          BY <2>2, <2>4, ZenonT(60) DEF OnJoinFailed, OnJoinUnavailable
      <3>2. \A x \in Sockets : pending'[x] = IF x = ws THEN Unbound ELSE pending[x]
          BY <2>2, <2>4, <3>1, ClearsMark, ZenonT(60)
      <3>3. pending[ws].session # 0
          BY <2>2, <2>4, SMTT(60), Z3T(60), SMTT(90) DEF LiveSessions
      <3>4. Phase(ws) = "joining" /\ Phase(ws)' = "idle"
          <4>1. Unbound.session = 0
              BY ZenonT(60) DEF Unbound
          <4>2. alive'[ws] /\ joined'[ws].session = 0 /\ pending'[ws].session = 0
              BY <2>2, <2>3, <2>4, <3>2, <4>1, ZenonT(60)
          <4>3. Phase(ws)' = "idle"
              BY <4>2, <1>PhaseWillBe, ZenonT(60)
          <4>4. Phase(ws) = "joining"
              BY <2>2, <2>4, <3>3, PhaseIs, ZenonT(60)
          <4> QED
              BY <4>3, <4>4, ZenonT(60)
      <3>5. Wanted(ws)' = Directory!Nothing
          <4>1. joined'[ws].session = 0 /\ pending'[ws] = Unbound
              BY <2>2, <2>3, <2>4, <3>2, ZenonT(60)
          <4> QED
              BY <4>1, <1>WillWantNothing, ZenonT(60)
      <3>6. \A x \in Sockets : x # ws => Phase(x)' = Phase(x) /\ Wanted(x)' = Wanted(x)
          BY <2>3, <3>2, <1>SameSocket
      <3>7. Directory!Refuse(ws)
          BY <2>2, <2>3, <3>4, <3>5, <3>6, ZenonT(60) DEF Directory!Refuse
      <3> QED
          BY <2>2, <3>7, SMTT(60), Z3T(60), SMTT(90)
  <2>5. CASE ~alive[ws]
      <3>1. pending' = pending
          BY <2>2, <2>5, ZenonT(60) DEF OnJoinFailed, OnJoinUnavailable
      <3> QED
          BY <2>3, <3>1, <1>DirectoryStutters, SMTT(60), Z3T(60), SMTT(90)
  <2> QED
      BY <2>4, <2>5, SMTT(60), Z3T(60), SMTT(90)

(* A close, the client's or the server's, is the directory's Disconnect.   *)
<1>CloseIsDisconnect.
    ASSUME TypeOK, SocketMapInv, NEW ws \in Sockets, Close(ws)
    PROVE  Directory!Disconnect(ws)
  <2> USE <1>CloseIsDisconnect
  <2>1. /\ alive[ws]
        /\ \A x \in Sockets : /\ alive'[x] <=> alive[x] /\ x # ws
                              /\ joined'[x] = IF x = ws THEN Unbound ELSE joined[x]
                              /\ pending'[x] = IF x = ws THEN Unbound ELSE pending[x]
      BY ZenonT(60) DEF Close, TypeOK, SocketTypeOK
  <2>2. Phase(ws) # "closed" /\ Phase(ws)' = "closed"
      BY <2>1, PhaseIs, <1>PhaseWillBe, ZenonT(60)
  <2>3. Wanted(ws)' = Directory!Nothing
      <3>1. joined'[ws] = Unbound /\ pending'[ws] = Unbound
          BY <2>1, ZenonT(60)
      <3> QED
          BY <3>1, <1>WillWantNothing, ZenonT(60)
  <2>4. \A x \in Sockets : x # ws => Phase(x)' = Phase(x) /\ Wanted(x)' = Wanted(x)
      BY <2>1, <1>SameSocket, ZenonT(60)
  <2>5. wsPeers' = [r \in Rooms |-> [p \in Peers |->
                      IF wsPeers[r][p] = ws THEN NoSocket ELSE wsPeers[r][p]]]
      <3>1. wsPeers' \in [Rooms -> [Peers -> Sockets \cup {NoSocket}]]
          BY CloseTyped, SMTT(60), Z3T(60), SMTT(90) DEF TypeOK, SocketTypeOK
      <3> QED
          BY <3>1, CloseUnmaps, SMTT(60), Z3T(60), SMTT(90)
  <2> QED
      BY <2>2, <2>3, <2>4, <2>5, ZenonT(60) DEF Directory!Disconnect

(* The commit of a join is the directory's Admit: the socket gets what it  *)
(* asked for, and the socket that held it is closed in the same step.      *)
<1>CommitIsAdmit.
    ASSUME TypeOK, SocketMapInv, JoinInv, OnJoinCommit
    PROVE  \E ws \in Sockets : Directory!Admit(ws)
  <2> USE <1>CommitIsAdmit
  <2>1. Callback("joinOk") /\ "joinOk" \in Finished
      BY SMTT(60), Z3T(60), SMTT(90) DEF OnJoinCommit, Finished
  <2>2. PICK ws \in Sockets, r \in Rooms, p \in Peers, s \in LiveSessions, w \in Workers :
          /\ alive[ws] /\ joined[ws].session = 0 /\ pending[ws] = Bound(r, p, s)
          /\ CommitJoin(w, ws, Bound(r, p, s))
      BY <2>1, CompletionMark, ZenonT(60) DEF OnJoinCommit
  <2>3. PICK old \in Sockets \cup {NoSocket} : old = wsPeers[r][p]
      BY SMTT(60), Z3T(60), SMTT(90) DEF TypeOK, SocketTypeOK
  <2> DEFINE b == Bound(r, p, s)
  <2>4. b \in Bindings /\ b.session # 0 /\ b.room = r /\ b.peer = p
      BY SMTT(60), Z3T(60), SMTT(90) DEF Bindings, Bound, LiveSessions
  <2>5. \A x \in Rooms, y \in Peers : wsPeers[x][y] # ws
      <3>1. ASSUME NEW x \in Rooms, NEW y \in Peers, wsPeers[x][y] = ws PROVE FALSE
          <4>1. ws # NoSocket
              BY NullsAssumption, ZenonT(60)
          <4> QED
              BY <2>2, <3>1, <4>1, MappedIsJoined, ZenonT(60)
      <3> QED
          BY <3>1, ZenonT(60)
  <2>6. oldWs(ws, r, p) = {old} \ {NoSocket} /\ old # ws
      BY <2>3, <2>5 DEF oldWs
  <2>7. wsPeers' = [wsPeers EXCEPT ![r][p] = ws]
      <3>1. wsPeers' = [x \in Rooms |-> [y \in Peers |->
                          IF x = r /\ y = p THEN ws ELSE wsPeers[x][y]]]
          BY <2>2, <2>4, <2>5, ZenonT(60) DEF CommitJoin, RegisterJoinedSocket
      <3>2. wsPeers \in [Rooms -> [Peers -> Sockets \cup {NoSocket}]]
          BY SMTT(60), Z3T(60), SMTT(90) DEF TypeOK, SocketTypeOK
      <3> QED
          BY <3>1, <3>2, ZenonT(60)
  <2> HIDE DEF b
  <2>8. \A x \in Sockets :
          /\ alive'[x] <=> alive[x] /\ x # old
          /\ joined'[x] = IF x = ws THEN b ELSE IF x = old THEN Unbound ELSE joined[x]
          /\ pending'[x] = IF x = ws \/ x = old THEN Unbound ELSE pending[x]
      <3> DEFINE K == oldWs(ws, b.room, b.peer)
      <3>1. CommitJoin(w, ws, b)
          BY <2>2, ZenonT(60) DEF b
      <3>2. \A x \in Sockets :
                  /\ alive'[x] <=> alive[x] /\ x \notin K
                  /\ joined'[x] = IF x = ws THEN b
                                  ELSE IF x \in K THEN Unbound ELSE joined[x]
                  /\ pending'[x] = IF x = ws \/ x \in K THEN Unbound ELSE pending[x]
          <4>1. Committed(ws, b, K)
              BY <2>4, <3>1, CommitEffect, ZenonT(60), SMTT(60), Z3T(60), SMTT(90)
          <4> QED
              BY <4>1, ZenonT(60) DEF Committed
      <3>3. \A x \in Sockets : x \in K <=> x = old
          BY <2>4, <2>6, NullsAssumption
      <3> HIDE DEF K
      <3> QED
          BY <3>2, <3>3, ZenonT(60)
  <2>9. pending[ws] = b
      BY <2>2, ZenonT(60) DEF b
  <2>10. Phase(ws) = "joining" /\ Phase(ws)' = "joined"
      BY <2>2, <2>4, <2>6, <2>8, <2>9, PhaseIs, <1>PhaseWillBe, ZenonT(60)
  <2>11. /\ Wanted(ws) = [room |-> r, peer |-> p]
         /\ Wanted(ws)' = [room |-> r, peer |-> p]
      <3>1. CloseBinding(ws) = b
          BY <2>2, <2>9, ZenonT(60) DEF CloseBinding
      <3>2. CloseBinding(ws)' = b
          BY <2>4, <2>8, SMTT(60), Z3T(60), SMTT(90) DEF CloseBinding
      <3> QED
          BY <2>4, <3>1, <3>2, SMTT(60), Z3T(60), SMTT(90) DEF Wanted
  <2>12. old \in Sockets => Phase(old)' = "closed" /\ Wanted(old)' = Directory!Nothing
      <3>1. ASSUME old \in Sockets PROVE Phase(old)' = "closed"
          BY <2>8, <3>1, <1>PhaseWillBe, ZenonT(60)
      <3>2. ASSUME old \in Sockets PROVE Wanted(old)' = Directory!Nothing
          <4>1. joined'[old] = Unbound /\ pending'[old] = Unbound
              BY <2>6, <2>8, <3>2, ZenonT(60)
          <4> QED
              BY <3>2, <4>1, <1>WillWantNothing, ZenonT(60)
      <3> QED
          BY <3>1, <3>2, SMTT(60), Z3T(60), SMTT(90)
  <2>13. \A x \in Sockets : x # ws /\ x # old =>
              Phase(x)' = Phase(x) /\ Wanted(x)' = Wanted(x)
      BY <2>8, <1>SameSocket, ZenonT(60)
  <2>14. Directory!Admit(ws)
      <3> DEFINE ph == [x \in Sockets |-> Phase(x)]
                 wa == [x \in Sockets |-> Wanted(x)]
      <3>1. wa[ws].room = r /\ wa[ws].peer = p /\ ph[ws] = "joining"
          <4>1. wa[ws] = [room |-> r, peer |-> p] /\ ph[ws] = "joining"
              BY <2>10, <2>11, ZenonT(60)
          <4> HIDE DEF wa, ph
          <4> QED
              BY <4>1, SMTT(60), Z3T(60), SMTT(90)
      <3>2. ph' = [x \in Sockets |-> CASE x = ws -> "joined"
                                       [] x = old -> "closed"
                                       [] OTHER -> ph[x]]
          BY <2>6, <2>10, <2>12, <2>13, SMTT(60), Z3T(60), SMTT(90)
      <3>3. wa' = [x \in Sockets |-> IF x = old THEN Directory!Nothing ELSE wa[x]]
          BY <2>6, <2>11, <2>12, <2>13, ZenonT(60)
      <3> DEFINE o == wsPeers[wa[ws].room][wa[ws].peer]
      <3>4. /\ ph[ws] = "joining"
            /\ ph' = [x \in Sockets |-> CASE x = ws -> "joined"
                                         [] x = o -> "closed"
                                         [] OTHER -> ph[x]]
            /\ wa' = [x \in Sockets |-> IF x = o THEN Directory!Nothing ELSE wa[x]]
            /\ wsPeers' = [wsPeers EXCEPT ![wa[ws].room][wa[ws].peer] = ws]
          <4> HIDE DEF ph, wa
          <4> QED
              BY <2>3, <2>7, <3>1, <3>2, <3>3, SMTT(60), Z3T(60), SMTT(90)
      <3> QED
          BY <3>4, ZenonT(60) DEF Directory!Admit
  <2> QED
      BY <2>14, SMTT(60), Z3T(60), SMTT(90)

<1> SUFFICES ASSUME TypeOK, SocketMapInv, JoinInv, [Next]_vars
             PROVE  Directory!Next \/ UNCHANGED Directory!vars
    BY SMTT(60), Z3T(60), SMTT(90)
<1>1. ASSUME NEW ws \in Sockets, NEW r \in Rooms, NEW p \in Peers,
             JoinKnownRoom(ws, r, p) \/ JoinNewRoom(ws, r, p)
      PROVE  Directory!Next
    <2>1. PICK w \in Workers : AcceptJoin(ws) /\ DispatchJoin(ws, r, p, w)
        <3>1. roomDispatch[r] # NoWorker => roomDispatch[r] \in Workers
            BY SMTT(60), Z3T(60), SMTT(90) DEF TypeOK, DispatchTypeOK
        <3> QED
            BY <1>1, <3>1, SMTT(60), Z3T(60), SMTT(90) DEF JoinKnownRoom, JoinNewRoom
    <2>2. Directory!Ask(ws, r, p)
        BY <2>1, <1>JoinIsAsk, SMTT(60), Z3T(60), SMTT(90)
    <2> QED
        BY <2>2, SMTT(60), Z3T(60), SMTT(90) DEF Directory!Next
<1>2. ASSUME NEW ws \in Sockets, Close(ws) PROVE Directory!Next
    BY <1>2, <1>CloseIsDisconnect, SMTT(60), Z3T(60), SMTT(90) DEF Directory!Next
<1>3. CASE OnJoinFailed \/ OnJoinUnavailable
    BY <1>3, <1>FailureIsRefuse, SMTT(60), Z3T(60), SMTT(90) DEF Directory!Next
<1>4. CASE OnJoinCommit
    BY <1>4, <1>CommitIsAdmit, SMTT(60), Z3T(60), SMTT(90) DEF Directory!Next
<1>5. ASSUME NEW ws \in Sockets, NEW r \in Rooms,
             JoinNoWorker(ws, r) \/ Request(ws) \/ ClientStats(ws)
      PROVE  UNCHANGED Directory!vars
    <2>1. UNCHANGED socketVars
        BY <1>5, ZenonT(60) DEF JoinNoWorker, Request, ClientStats
    <2> QED
        BY <2>1, <1>DirectoryStutters, SMTT(60), Z3T(60), SMTT(90) DEF socketVars
<1>6. CASE Stop \/ OnRoomCreated \/ OnRoomDestroyed \/ OnJoinRollback
    <2>1. UNCHANGED socketVars
        BY <1>6, ZenonT(60) DEF Stop, OnRoomCreated, OnRoomDestroyed, OnJoinRollback
    <2> QED
        BY <2>1, <1>DirectoryStutters, SMTT(60), Z3T(60), SMTT(90) DEF socketVars
<1>7. CASE OnServerRestart
    BY <1>7, <1>DirectoryStutters, ZenonT(60) DEF OnServerRestart
<1>8. ASSUME NEW w \in Workers,
             WorkerTask(w) \/ HealthCheck(w) \/ GcTimer(w) \/ WorkerDied(w)
      PROVE  UNCHANGED Directory!vars
    <2>1. CASE WorkerTask(w)
        <3>1. UNCHANGED socketVars
            BY <2>1, ZenonT(60) DEF WorkerTask, RunJoinRefused, RunJoinThrows, RunJoin,
               RunLeaveStale, RunLeave, RunRequest, RunRequestRejected, RunStats
        <3> QED
            BY <3>1, <1>DirectoryStutters, SMTT(60), Z3T(60), SMTT(90) DEF socketVars
    <2>2. CASE HealthCheck(w) \/ GcTimer(w) \/ WorkerDied(w)
        <3>1. UNCHANGED socketVars
            BY <2>2, ZenonT(60) DEF HealthCheck, GcTimer, WorkerDied, destroyRooms
        <3> QED
            BY <3>1, <1>DirectoryStutters DEF socketVars
    <2> QED
        BY <1>8, <2>1, <2>2, SMTT(60), Z3T(60), SMTT(90)
<1>9. CASE UNCHANGED vars
    BY <1>9, <1>DirectoryStutters, SMTT(60), Z3T(60), SMTT(90) DEF vars, socketVars
<1>10. CASE MainNext
    <2>1. ASSUME NEW ws \in Sockets, Request(ws) \/ ClientStats(ws)
          PROVE  UNCHANGED Directory!vars
        <3>1. UNCHANGED socketVars
            BY <2>1, ZenonT(60) DEF Request, ClientStats
        <3> QED
            BY <3>1, <1>DirectoryStutters, SMTT(60), Z3T(60), SMTT(90) DEF socketVars
    <2> QED
        BY <1>1, <1>2, <1>5, <1>6, <1>10, <2>1, SMTT(60), Z3T(60), SMTT(90) DEF MainNext
<1>11. CASE DeferredNext
    BY <1>3, <1>4, <1>6, <1>7, <1>11, SMTT(60), Z3T(60), SMTT(90) DEF DeferredNext
<1> QED
    BY <1>8, <1>9, <1>10, <1>11, SMTT(60), Z3T(60), SMTT(90) DEF Next

(* Whatever the threads, the queues, the processes and the rooms do, the   *)
(* clients see a session directory: a socket asks once, is admitted to     *)
(* exactly the room and peer it asked for or refused, and takes the peer   *)
(* over from its previous socket in the step that closes that socket (join *)
(* completion callback, RegisterJoinedSocket, close handler).              *)
THEOREM DirectoryImplemented == Spec => ImplementsSessionDirectory
(* A socket without a mark asks for nothing.                               *)
<1>WantsNothing.
    ASSUME NEW x \in Sockets, joined[x] = Unbound, pending[x] = Unbound
    PROVE  Wanted(x) = Directory!Nothing
  <2> USE <1>WantsNothing
  <2>1. CloseBinding(x) = Unbound
      BY ZenonT(60) DEF CloseBinding
  <2>2. Unbound.room = NoRoom /\ Unbound.peer = NoPeer
      BY ZenonT(60) DEF Unbound
  <2> QED
      BY <2>1, <2>2, ZenonT(60) DEF Wanted, Directory!Nothing

<1>DirectoryInit. Init => Directory!Init
  <2> SUFFICES ASSUME Init PROVE Directory!Init
      OBVIOUS
  <2>1. \A x \in Sockets : Phase(x) = "idle" /\ Wanted(x) = Directory!Nothing
      <3>1. \A x \in Sockets : alive[x] /\ joined[x] = Unbound /\ pending[x] = Unbound
          BY DEF Init
      <3> QED
          <4>1. Unbound.session = 0
              BY ZenonT(60) DEF Unbound
          <4> QED
              BY <3>1, <4>1, PhaseIs, <1>WantsNothing, ZenonT(60)
  <2>2. wsPeers = [r \in Rooms |-> [p \in Peers |-> NoSocket]]
      BY SMTT(60), Z3T(60), SMTT(90) DEF Init
  <2> QED
      BY <2>1, <2>2, SMTT(60), Z3T(60), SMTT(90) DEF Directory!Init

<1>1. TypeOK /\ SocketMapInv /\ JoinInv /\ TypeOK' /\ [Next]_vars
        => [Directory!Next]_(Directory!vars)
    BY DirectoryStep
<1>2. Spec => Directory!Init /\ [][Directory!Next]_(Directory!vars)
    BY <1>1, <1>DirectoryInit, JoinCorrect, PTL DEF Spec
<1> QED
    BY <1>2 DEF ImplementsSessionDirectory, Directory!Spec
=============================================================================
