----------------------------- MODULE AwaitQueue -----------------------------
(***************************************************************************)
(* The awaitqueue package bundled with the client: the queue that every    *)
(* Transport uses to run its commands one at a time.  A command is a       *)
(* function that returns a promise; the command at the head is executed,   *)
(* and the next one when its promise settles.                              *)
(*                                                                         *)
(* A task is its id.  Calling the task function starts it, and it stays in *)
(* running until its promise settles, whether or not the queue still knows *)
(* it: stop() and remove() reject the promise push() returned, but cannot  *)
(* interrupt the function.                                                 *)
(***************************************************************************)
EXTENDS Naturals, Sequences

VARIABLES
    pendingTasks,  \* pendingTasks: the ids, in insertion order
    nextTaskId,    \* nextTaskId
    executed,      \* ids whose executedAt is set
    running        \* ids whose task function has not settled

queueVars == <<pendingTasks, nextTaskId, executed, running>>

Known(id) == \E k \in 1 .. Len(pendingTasks) : pendingTasks[k] = id

QueueInit ==
    /\ pendingTasks = <<>>
    /\ nextTaskId = 0
    /\ executed = {}
    /\ running = {}

(* Map.delete keeps the order of the others.                               *)
Without(queue, k) ==
    [j \in 1 .. Len(queue) - 1 |-> IF j < k THEN queue[j] ELSE queue[j + 1]]

(* Variant: executedAt is not recorded.                                    *)
executeUnmarked(ids, leaving) ==
    /\ executed' = executed
    /\ running' = (running \ leaving) \cup ids

(* execute(): a task is called once, and is called at once.                *)
execute(ids, leaving) ==
    /\ executed' = executed \cup ids
    /\ running' = (running \ leaving) \cup ids

(* The head of the queue when it has not been executed.                    *)
Next1(queue) ==
    IF Len(queue) > 0 /\ queue[1] \notin executed THEN {queue[1]} ELSE {}

(* Variant: every task is executed at once.                                *)
pushExecuting ==
    /\ pendingTasks' = Append(pendingTasks, nextTaskId)
    /\ nextTaskId' = nextTaskId + 1
    /\ execute({nextTaskId}, {})

push ==
    /\ pendingTasks' = Append(pendingTasks, nextTaskId)
    /\ nextTaskId' = nextTaskId + 1
    /\ execute(IF Len(pendingTasks) = 0 THEN {nextTaskId} ELSE {}, {})

(* The resolve and reject functions of the pending task at position k.     *)
complete(k, leaving) ==
    /\ pendingTasks' = Without(pendingTasks, k)
    /\ execute(Next1(Without(pendingTasks, k)), leaving)
    /\ UNCHANGED nextTaskId

(* The promise of a running task settles.  One that is no longer pending   *)
(* was completed before: its resolve and reject return at once.            *)
settle(id) ==
    /\ id \in running
    /\ \/ \E k \in 1 .. Len(pendingTasks) :
            /\ pendingTasks[k] = id
            /\ complete(k, {id})
       \/ /\ ~Known(id)
          /\ running' = running \ {id}
          /\ UNCHANGED <<pendingTasks, nextTaskId, executed>>

(* stop(): every pending task is rejected, and none is executed.           *)
stop ==
    /\ pendingTasks' = <<>>
    /\ UNCHANGED <<nextTaskId, executed, running>>

remove(taskIdx) ==
    /\ taskIdx \in 1 .. Len(pendingTasks)
    /\ complete(taskIdx, {})

QueueNext ==
    \/ push
    \/ \E id \in running : settle(id)
    \/ stop
    \/ \E k \in 1 .. Len(pendingTasks) : remove(k)

QueueSpec == QueueInit /\ [][QueueNext]_queueVars

-----------------------------------------------------------------------------
QueueTypeOK ==
    /\ pendingTasks \in Seq(Nat)
    /\ nextTaskId \in Nat
    /\ executed \subseteq Nat
    /\ running \subseteq executed

(* Commands run one at a time and in the order of push(): of the pending   *)
(* tasks exactly the head has been executed, and it is still running, so   *)
(* the queue neither overtakes nor stalls (push, complete, execute).       *)
OnlyHeadExecutes ==
    \A k \in 1 .. Len(pendingTasks) :
        /\ pendingTasks[k] \in executed <=> k = 1
        /\ pendingTasks[k] \in running <=> k = 1

(* The queue holds its tasks in the order of their push() calls.           *)
PushOrder ==
    \A j, k \in 1 .. Len(pendingTasks) :
        j < k => pendingTasks[j] < pendingTasks[k]

(* An executed task is never executed again, and a task starts only when   *)
(* no pending task was pushed before it (execute).                         *)
ExecutedOnceInOrder ==
    [][\A id \in running' \ running :
        /\ id \notin executed
        /\ \A k \in 1 .. Len(pendingTasks') : id <= pendingTasks'[k]]_queueVars

=============================================================================
