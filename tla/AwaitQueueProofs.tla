-------------------------- MODULE AwaitQueueProofs --------------------------
(***************************************************************************)
(* The queue runs its commands one at a time, in the order of push(), and  *)
(* never stalls: proofs for every sequence of push(), stop(), remove() and *)
(* settling commands, of any length.                                       *)
(***************************************************************************)
EXTENDS AwaitQueue, Integers, TLAPS

(* The inductive invariant.  OnlyHeadExecutes alone is not inductive: that *)
(* push() hands out an id never used before, and that an id occurs once in *)
(* the queue, needs the order of the ids and their bound.                  *)
QueueInv ==
    /\ QueueTypeOK
    /\ OnlyHeadExecutes
    /\ PushOrder
    /\ \A k \in 1 .. Len(pendingTasks) : pendingTasks[k] < nextTaskId
    /\ \A id \in executed : id < nextTaskId

(* Map.delete: Without drops position k and keeps the order.               *)
LEMMA WithoutProps ==
    ASSUME NEW queue \in Seq(Nat), NEW k \in 1 .. Len(queue)
    PROVE  /\ Without(queue, k) \in Seq(Nat)
           /\ Len(Without(queue, k)) = Len(queue) - 1
           /\ \A j \in 1 .. Len(queue) - 1 :
                Without(queue, k)[j] = IF j < k THEN queue[j] ELSE queue[j + 1]
<1>1. Len(queue) \in Nat /\ Len(queue) - 1 \in Nat
    OBVIOUS
<1>2. \A j \in 1 .. Len(queue) - 1 :
        (IF j < k THEN queue[j] ELSE queue[j + 1]) \in Nat
    BY <1>1
<1>. QED
    BY <1>1, <1>2 DEF Without

(* resolve() and reject() of the task at position k, which leaves running  *)
(* when it has settled: whatever the position, the queue's invariant is    *)
(* kept, since the task at the head has been called or is called now.      *)
LEMMA CompleteKeepsInv ==
    ASSUME QueueInv, NEW k \in 1 .. Len(pendingTasks), NEW leaving,
           leaving = {} \/ leaving = {pendingTasks[k]},
           complete(k, leaving)
    PROVE  QueueInv'
<1>. DEFINE Q == Without(pendingTasks, k)
<1>1. /\ Q \in Seq(Nat) /\ Len(Q) = Len(pendingTasks) - 1
      /\ \A j \in 1 .. Len(pendingTasks) - 1 :
            Q[j] = IF j < k THEN pendingTasks[j] ELSE pendingTasks[j + 1]
    BY WithoutProps DEF QueueInv, QueueTypeOK
<1>2. /\ pendingTasks' = Q /\ nextTaskId' = nextTaskId
      /\ executed' = executed \cup Next1(Q)
      /\ running' = (running \ leaving) \cup Next1(Q)
    BY DEF complete, execute
<1>3. Len(pendingTasks) \in Nat /\ Len(Q) \in Nat
    BY <1>1 DEF QueueInv, QueueTypeOK
<1>. HIDE DEF Q
<1>3a. ASSUME NEW j \in 1 .. Len(Q)
      PROVE  Q[j] \in Nat /\ Q[j] < nextTaskId /\ Q[j] # pendingTasks[k]
    <2>1. /\ j \in 1 .. Len(pendingTasks) /\ j + 1 \in 1 .. Len(pendingTasks)
          /\ Q[j] = IF j < k THEN pendingTasks[j] ELSE pendingTasks[j + 1]
        BY <1>1, <1>3
    <2>2. \A i \in 1 .. Len(pendingTasks) :
            pendingTasks[i] \in Nat /\ pendingTasks[i] < nextTaskId
        BY DEF QueueInv, QueueTypeOK
    <2>3. CASE j < k
        BY <2>1, <2>2, <2>3 DEF QueueInv, PushOrder
    <2>4. CASE ~(j < k)
        <3>1. k < j + 1
            BY <2>1, <2>4, <1>3
        <3>. QED
            BY <2>1, <2>2, <2>4, <3>1 DEF QueueInv, PushOrder
    <2>. QED
        BY <2>3, <2>4
<1>4. \A j \in 1 .. Len(Q) : Q[j] \in Nat /\ Q[j] < nextTaskId
    BY <1>3a
<1>3b. \A j \in 1 .. Len(Q) :
        /\ j \in 1 .. Len(pendingTasks) /\ j + 1 \in 1 .. Len(pendingTasks)
        /\ Q[j] = IF j < k THEN pendingTasks[j] ELSE pendingTasks[j + 1]
    BY <1>1, <1>3
<1>5. ASSUME NEW i \in 1 .. Len(Q), NEW j \in 1 .. Len(Q), i < j
      PROVE  Q[i] < Q[j]
    <2>1. /\ i \in 1 .. Len(pendingTasks) /\ i + 1 \in 1 .. Len(pendingTasks)
          /\ j \in 1 .. Len(pendingTasks) /\ j + 1 \in 1 .. Len(pendingTasks)
          /\ Q[i] = IF i < k THEN pendingTasks[i] ELSE pendingTasks[i + 1]
          /\ Q[j] = IF j < k THEN pendingTasks[j] ELSE pendingTasks[j + 1]
        BY <1>3b
    <2>2. i < j + 1 /\ i + 1 < j + 1
        BY <1>3, <1>5
    <2>3. \A a, b \in 1 .. Len(pendingTasks) :
            a < b => pendingTasks[a] < pendingTasks[b]
        BY DEF QueueInv, PushOrder
    <2>4. CASE j < k
        <3>1. i < k
            BY <1>3, <1>5, <2>4
        <3>. QED
            BY <1>5, <2>1, <2>3, <2>4, <3>1
    <2>5. CASE ~(j < k) /\ i < k
        BY <2>1, <2>2, <2>3, <2>5
    <2>6. CASE ~(j < k) /\ ~(i < k)
        BY <2>1, <2>2, <2>3, <2>6
    <2>. QED
        BY <2>4, <2>5, <2>6
<1>6. Next1(Q) \subseteq Nat /\ \A id \in Next1(Q) : id < nextTaskId
    BY <1>3, <1>4 DEF Next1
<1>7. QueueTypeOK'
    BY <1>1, <1>2, <1>6 DEF QueueInv, QueueTypeOK
<1>8. PushOrder'
    BY <1>2, <1>5 DEF PushOrder
<1>9. \A j \in 1 .. Len(Q) : Q[j] \notin leaving
    BY <1>3a
<1>10. \A j \in 1 .. Len(Q) : j # 1 => Q[j] \notin executed /\ Q[j] \notin running
    BY <1>1, <1>3 DEF QueueInv, OnlyHeadExecutes
<1>11. \A j \in 1 .. Len(Q) : j # 1 => Q[j] \notin Next1(Q)
    BY <1>3, <1>4, <1>5 DEF Next1
<1>12. \A j \in 1 .. Len(Q) : j = 1 =>
         Q[j] \in executed \cup Next1(Q) /\ Q[j] \in running \cup Next1(Q)
    <2>. SUFFICES ASSUME 1 \in 1 .. Len(Q)
                  PROVE  Q[1] \in executed \cup Next1(Q) /\ Q[1] \in running \cup Next1(Q)
        OBVIOUS
    <2>1. CASE Q[1] \in executed
        <3>1. Q[1] = pendingTasks[1] \/ Q[1] = pendingTasks[2]
            BY <1>1, <1>3
        <3>2. Q[1] = pendingTasks[1]
            BY <2>1, <3>1, <1>1, <1>3 DEF QueueInv, OnlyHeadExecutes
        <3>. QED
            BY <2>1, <3>2, <1>1, <1>3 DEF QueueInv, OnlyHeadExecutes
    <2>2. CASE Q[1] \notin executed
        BY <2>2, <1>3 DEF Next1
    <2>. QED
        BY <2>1, <2>2
<1>13. OnlyHeadExecutes'
    BY <1>2, <1>9, <1>10, <1>11, <1>12 DEF OnlyHeadExecutes
<1>. QED
    BY <1>2, <1>4, <1>6, <1>7, <1>8, <1>13 DEF QueueInv

(* push() calls the new task at once exactly when nothing is pending.      *)
LEMMA PushKeepsInv ==
    ASSUME QueueInv, push
    PROVE  QueueInv'
<1>. DEFINE n == Len(pendingTasks)
<1>1. /\ pendingTasks' = Append(pendingTasks, nextTaskId)
      /\ nextTaskId' = nextTaskId + 1
      /\ executed' = executed \cup (IF n = 0 THEN {nextTaskId} ELSE {})
      /\ running' = running \cup (IF n = 0 THEN {nextTaskId} ELSE {})
    BY DEF push, execute
<1>2. /\ n \in Nat /\ Len(pendingTasks') = n + 1
      /\ \A j \in 1 .. n : pendingTasks'[j] = pendingTasks[j]
      /\ pendingTasks'[n + 1] = nextTaskId
      /\ pendingTasks' \in Seq(Nat)
    BY <1>1 DEF QueueInv, QueueTypeOK
<1>3. nextTaskId \in Nat /\ nextTaskId \notin executed /\ nextTaskId \notin running
    BY DEF QueueInv, QueueTypeOK
<1>4. QueueTypeOK'
    BY <1>1, <1>2, <1>3 DEF QueueInv, QueueTypeOK
<1>5. \A j \in 1 .. n : pendingTasks[j] < nextTaskId /\ pendingTasks[j] \in Nat
    BY <1>2 DEF QueueInv, QueueTypeOK
<1>6. PushOrder'
    <2>. SUFFICES ASSUME NEW i \in 1 .. n + 1, NEW j \in 1 .. n + 1, i < j
                  PROVE  pendingTasks'[i] < pendingTasks'[j]
        BY <1>2 DEF PushOrder
    <2>1. i \in 1 .. n /\ pendingTasks'[i] = pendingTasks[i]
        BY <1>2
    <2>2. CASE j = n + 1
        BY <1>2, <1>5, <2>1, <2>2
    <2>3. CASE j \in 1 .. n
        <3>1. pendingTasks'[j] = pendingTasks[j]
            BY <1>2, <2>3
        <3>. QED
            BY <2>1, <2>3, <3>1 DEF QueueInv, PushOrder
    <2>. QED
        BY <1>2, <2>2, <2>3
<1>7. \A j \in 1 .. n : pendingTasks[j] # nextTaskId
    BY <1>3, <1>5
<1>8. OnlyHeadExecutes'
    BY <1>1, <1>2, <1>3, <1>7 DEF QueueInv, OnlyHeadExecutes
<1>9. /\ \A k \in 1 .. n + 1 : pendingTasks'[k] < nextTaskId'
      /\ \A id \in executed' : id < nextTaskId'
    BY <1>1, <1>2, <1>3, <1>5 DEF QueueInv, QueueTypeOK
<1>. QED
    BY <1>2, <1>4, <1>6, <1>8, <1>9 DEF QueueInv

LEMMA InitEstablishesInv == QueueInit => QueueInv
    BY DEF QueueInit, QueueInv, QueueTypeOK, OnlyHeadExecutes, PushOrder

LEMMA NextKeepsInv == QueueInv /\ [QueueNext]_queueVars => QueueInv'
<1>. SUFFICES ASSUME QueueInv, [QueueNext]_queueVars
              PROVE  QueueInv'
    OBVIOUS
<1>1. CASE push
    BY <1>1, PushKeepsInv
<1>2. ASSUME NEW id \in running, settle(id)
      PROVE  QueueInv'
    <2>1. CASE ~Known(id)
        <3>1. \A k \in 1 .. Len(pendingTasks) : pendingTasks[k] # id
            BY <2>1 DEF Known
        <3>2. /\ running' = running \ {id}
              /\ UNCHANGED <<pendingTasks, nextTaskId, executed>>
            BY <1>2, <3>1 DEF settle
        <3>. QED
            BY <3>1, <3>2 DEF QueueInv, QueueTypeOK, OnlyHeadExecutes, PushOrder
    <2>2. CASE Known(id)
        <3>1. PICK k \in 1 .. Len(pendingTasks) :
                pendingTasks[k] = id /\ complete(k, {id})
            BY <1>2, <2>2 DEF settle
        <3>. QED
            BY <3>1, CompleteKeepsInv
    <2>. QED
        BY <2>1, <2>2
<1>3. CASE stop
    BY <1>3 DEF stop, QueueInv, QueueTypeOK, OnlyHeadExecutes, PushOrder
<1>4. ASSUME NEW k \in 1 .. Len(pendingTasks), remove(k)
      PROVE  QueueInv'
    BY <1>4, CompleteKeepsInv DEF remove
<1>5. CASE UNCHANGED queueVars
    BY <1>5 DEF queueVars, QueueInv, QueueTypeOK, OnlyHeadExecutes, PushOrder
<1>. QED
    BY <1>1, <1>2, <1>3, <1>4, <1>5 DEF QueueNext

(* Commands run one at a time, in order, and never stall.                  *)
THEOREM QueueSerialises == QueueSpec => [](OnlyHeadExecutes /\ PushOrder)
<1>1. QueueInv => OnlyHeadExecutes /\ PushOrder
    BY DEF QueueInv
<1>. QED
    BY <1>1, InitEstablishesInv, NextKeepsInv, PTL DEF QueueSpec

(* No command is executed twice, and none overtakes an earlier one.        *)
THEOREM QueueExecutesOnce == QueueSpec => ExecutedOnceInOrder
<1>. DEFINE StartsInOrder ==
        \A id \in running' \ running :
            /\ id \notin executed
            /\ \A k \in 1 .. Len(pendingTasks') : id <= pendingTasks'[k]
<1>1. QueueInv /\ QueueInv' /\ [QueueNext]_queueVars => [StartsInOrder]_queueVars
    <2>. SUFFICES ASSUME QueueInv, QueueInv', QueueNext,
                         NEW id \in running', id \notin running
                  PROVE  /\ id \notin executed
                         /\ \A k \in 1 .. Len(pendingTasks') : id <= pendingTasks'[k]
        OBVIOUS
    <2>1. /\ pendingTasks' \in Seq(Nat)
          /\ \A j, k \in 1 .. Len(pendingTasks') :
                j < k => pendingTasks'[j] < pendingTasks'[k]
        BY DEF QueueInv, QueueTypeOK, PushOrder
    <2>2. Len(pendingTasks') > 0 /\ id = pendingTasks'[1] /\ id \notin executed
        <3>1. CASE push
            BY <3>1 DEF push, execute, QueueInv, QueueTypeOK
        <3>2. ASSUME NEW k \in 1 .. Len(pendingTasks), NEW leaving, complete(k, leaving)
              PROVE  Len(pendingTasks') > 0 /\ id = pendingTasks'[1] /\ id \notin executed
            BY <3>2 DEF complete, execute, Next1
        <3>3. ASSUME NEW d \in running, settle(d)
              PROVE  Len(pendingTasks') > 0 /\ id = pendingTasks'[1] /\ id \notin executed
            BY <3>2, <3>3 DEF settle
        <3>4. CASE stop
            BY <3>4 DEF stop
        <3>5. ASSUME NEW k \in 1 .. Len(pendingTasks), remove(k)
              PROVE  Len(pendingTasks') > 0 /\ id = pendingTasks'[1] /\ id \notin executed
            BY <3>2, <3>5 DEF remove
        <3>. QED
            BY <3>1, <3>3, <3>4, <3>5 DEF QueueNext
    <2>3. \A k \in 1 .. Len(pendingTasks') : pendingTasks'[1] <= pendingTasks'[k]
        BY <2>1
    <2>. QED
        BY <2>2, <2>3
<1>. QED
    BY <1>1, InitEstablishesInv, NextKeepsInv, PTL DEF QueueSpec, ExecutedOnceInOrder

=============================================================================
