----------------------------- MODULE ChannelPump -----------------------------
(***************************************************************************)
(* A non-threaded Channel: the pipe to one mediasoup worker process, read  *)
(* by the epoll loop and, re-entrantly, by every request that waits for    *)
(* its response.  A notification callback may itself issue a request, so   *)
(* activations of processAvailableData and waitForResponse nest: calls is  *)
(* the call stack of the thread, its last element running.                 *)
(*                                                                         *)
(* The worker's messages form a byte stream.  A frame is FrameLen bytes    *)
(* long, so a read can end inside one; since bytes are only appended to    *)
(* and erased from the front of recvBuf_, the buffer is the part of the    *)
(* stream between the positions erased and received.                       *)
(***************************************************************************)
EXTENDS Integers, Sequences

CONSTANTS
    MaxMsgs,      \* bound: messages the worker writes
    MaxRequests,  \* bound: requests issued
    MaxDepth,     \* bound: nesting of calls
    MaxBuffer,    \* RECV_BUFFER_MAX_LEN
    MaxId         \* largest request id (2^32 - 1)

HeaderLen == 1    \* bytes of a frame's length field
FrameLen == 2     \* bytes of a frame

Requests == 1 .. MaxRequests
Ids == 1 .. MaxId
Settled == {"accepted", "refused", "timeout", "closed"}

ASSUME BoundsAssumption ==
    /\ MaxMsgs \in Nat /\ MaxRequests \in Nat /\ MaxDepth \in Nat
    /\ MaxBuffer \in Nat /\ MaxId \in Nat \ {0}

VARIABLES
    msgs,        \* messages the worker has begun to write
    written,     \* bytes written to the pipe
    eof,         \* the worker process is dead
    inbox,       \* requests the worker has received and not answered
    received,    \* bytes read from the pipe
    erased,      \* bytes erased from the front of recvBuf_
    offset,      \* recvBufDispatchOffset_
    processing,  \* recvBufProcessing_
    closed,      \* closed_
    nextId,      \* nextId_
    sents,       \* sents_: the request pending under each id, 0 for none
    issued,      \* number of requests issued
    outcome,     \* the state of each request's promise
    calls,       \* the call stack
    dispatched   \* history: the messages given to processMessage

workerVars == <<msgs, written, eof>>
bufVars == <<received, erased, offset, processing>>
reqVars == <<closed, nextId, sents, issued, outcome>>
vars == <<workerVars, inbox, bufVars, reqVars, calls, dispatched>>

Message == [kind : {"response"}, id : Ids, to : Requests, ok : BOOLEAN]
           \cup [kind : {"notification", "invalid"}]
Pumps == [kind : {"pump"}, outermost : BOOLEAN]
Waits == [kind : {"wait"}, req : Requests, pumped : BOOLEAN]

TypeOK ==
    /\ msgs \in Seq(Message) /\ written \in Nat /\ eof \in BOOLEAN
    /\ inbox \in SUBSET (Requests \X Ids)
    /\ received \in Nat /\ erased \in Nat /\ offset \in Nat
    /\ processing \in BOOLEAN /\ closed \in BOOLEAN
    /\ nextId \in 0 .. MaxId
    /\ sents \in [Ids -> 0 .. MaxRequests] /\ issued \in 0 .. MaxRequests
    /\ outcome \in [Requests -> {"unissued", "pending"} \cup Settled]
    /\ calls \in Seq(Pumps \cup Waits)
    /\ dispatched \in Seq(Nat)

Init ==
    /\ msgs = <<>> /\ written = 0 /\ eof = FALSE /\ inbox = {}
    /\ received = 0 /\ erased = 0 /\ offset = 0 /\ processing = FALSE
    /\ closed = FALSE /\ nextId = 0
    /\ sents = [i \in Ids |-> 0] /\ issued = 0
    /\ outcome = [n \in Requests |-> "unissued"]
    /\ calls = <<>> /\ dispatched = <<>>

Top == calls[Len(calls)]
Running(kind) == calls # <<>> /\ Top.kind = kind
Pop == SubSeq(calls, 1, Len(calls) - 1)

-----------------------------------------------------------------------------
(* The worker process *)

(* It begins a message once the previous one is out.                       *)
Write(m) ==
    /\ ~eof /\ Len(msgs) < MaxMsgs /\ written = FrameLen * Len(msgs)
    /\ msgs' = Append(msgs, m)
    /\ \E n \in 1 .. FrameLen : written' = written + n
    /\ UNCHANGED eof

WorkerResponds ==
    \E r \in inbox, ok \in BOOLEAN :
        /\ Write([kind |-> "response", id |-> r[2], to |-> r[1], ok |-> ok])
        /\ inbox' = inbox \ {r}
        /\ UNCHANGED <<bufVars, reqVars, calls, dispatched>>

WorkerNotifies ==
    \E k \in {"notification", "invalid"} :
        /\ Write([kind |-> k])
        /\ UNCHANGED <<inbox, bufVars, reqVars, calls, dispatched>>

WorkerContinues ==
    /\ ~eof /\ written < FrameLen * Len(msgs)
    /\ written' = written + 1
    /\ UNCHANGED <<msgs, eof, inbox, bufVars, reqVars, calls, dispatched>>

WorkerDies ==
    /\ ~eof
    /\ eof' = TRUE /\ inbox' = {}
    /\ UNCHANGED <<msgs, written, bufVars, reqVars, calls, dispatched>>

-----------------------------------------------------------------------------
(* Requests *)

(* Channel::close rejects what is pending.                                 *)
CloseChannel(pending, out) ==
    /\ closed' = TRUE
    /\ sents' = [i \in Ids |-> 0]
    /\ outcome' = [n \in Requests |->
                     IF \E i \in Ids : pending[i] = n /\ out[n] = "pending"
                     THEN "closed" ELSE out[n]]

(* Variant: the last id is tried again first.                              *)
NthIdFromLast(d) == 1 + ((nextId + MaxId + d - 2) % MaxId)
(* nextId_ runs through 1 .. MaxId and skips the ids that are pending.     *)
NthId(d) == 1 + ((nextId + d - 1) % MaxId)
FreeId(i) ==
    \E d \in Ids : /\ i = NthId(d) /\ sents[i] = 0
                  /\ \A e \in 1 .. (d - 1) : sents[NthId(e)] # 0

(* requestBuildWait up to the wait: the request is registered, then sent;  *)
(* the write to a dead worker fails and closes the channel.  A closed      *)
(* channel, or an id space without a free id, throws before that.          *)
BeginRequest(stack) ==
    \E i \in Ids : LET n == issued + 1 IN
        /\ ~closed /\ n \in Requests /\ FreeId(i)
        /\ nextId' = i /\ issued' = n
        /\ calls' = Append(stack, [kind |-> "wait", req |-> n, pumped |-> FALSE])
        /\ IF eof
           THEN /\ CloseChannel([sents EXCEPT ![i] = n],
                                [outcome EXCEPT ![n] = "pending"])
                /\ UNCHANGED inbox
           ELSE /\ sents' = [sents EXCEPT ![i] = n]
                /\ outcome' = [outcome EXCEPT ![n] = "pending"]
                /\ inbox' = inbox \cup {<<n, i>>}
                /\ UNCHANGED closed

(* A task of the epoll loop sends a request.                               *)
Request ==
    /\ calls = <<>>
    /\ BeginRequest(calls)
    /\ UNCHANGED <<workerVars, bufVars, dispatched>>

-----------------------------------------------------------------------------
(* processAvailableData *)

(* The reads: everything in the pipe goes into recvBuf_, unless that would *)
(* exceed its limit, which closes the channel in the middle of the reads.  *)
Overflow == ~closed /\ written - erased > MaxBuffer
Reads ==
    /\ closed => UNCHANGED received
    /\ Overflow => received' \in (erased + MaxBuffer + 1) .. written
    /\ ~closed /\ ~Overflow => received' = written

(* On a closed channel, on overflow and at EOF the call returns false at   *)
(* once.  Otherwise the dispatch loop starts, resetting the shared offset  *)
(* if this is the outermost activation.                                    *)
EnterPump(stack) ==
    IF closed \/ eof \/ Overflow
    THEN calls' = stack /\ UNCHANGED <<offset, processing>>
    ELSE /\ calls' = Append(stack, [kind |-> "pump", outermost |-> ~processing])
         /\ processing' = TRUE
         /\ offset' = IF processing THEN offset ELSE 0

(* Variant: the loop waits for the bytes of a whole frame.                 *)
LoopPumpWholeFrames ==
    /\ calls = <<>> /\ ~closed
    /\ eof \/ written >= received + FrameLen
    /\ Reads /\ EnterPump(calls)
    /\ IF eof \/ Overflow
       THEN CloseChannel(sents, outcome) /\ UNCHANGED <<nextId, issued>>
       ELSE UNCHANGED reqVars
    /\ UNCHANGED <<workerVars, inbox, erased, dispatched>>

(* The epoll loop handles its readable descriptor; a false return there    *)
(* means the worker is dead, and the channel is destroyed.                 *)
LoopPump ==
    /\ calls = <<>> /\ ~closed
    /\ eof \/ written > received
    /\ Reads /\ EnterPump(calls)
    /\ IF eof \/ Overflow
       THEN CloseChannel(sents, outcome) /\ UNCHANGED <<nextId, issued>>
       ELSE UNCHANGED reqVars
    /\ UNCHANGED <<workerVars, inbox, erased, dispatched>>

BufLen == received - erased
Complete == offset + FrameLen <= BufLen
CurrentMsg == (erased + offset) \div FrameLen + 1
InvalidHeader == /\ offset + HeaderLen <= BufLen
                 /\ msgs[CurrentMsg].kind = "invalid"

(* Variant: the offset moves on only after the message was dispatched.     *)
AdvanceLate == offset' = IF msgs[CurrentMsg].kind = "notification"
                         THEN offset ELSE offset + FrameLen
(* The offset moves on before the message is dispatched.                   *)
Advance == offset' = offset + FrameLen

(* A response settles the promise it is for, if that is still pending.     *)
DispatchResponse ==
    /\ Running("pump") /\ Complete
    /\ LET m == msgs[CurrentMsg] IN
        /\ m.kind = "response"
        /\ IF sents[m.id] # 0
           THEN /\ sents' = [sents EXCEPT ![m.id] = 0]
                /\ outcome' = [outcome EXCEPT ![sents[m.id]] =
                                 IF m.ok THEN "accepted" ELSE "refused"]
           ELSE UNCHANGED <<sents, outcome>>
    /\ Advance
    /\ dispatched' = Append(dispatched, CurrentMsg)
    /\ UNCHANGED <<workerVars, inbox, received, erased, processing, closed, nextId,
                   issued, calls>>

(* A notification runs its callback, which may issue a request.            *)
DispatchNotification ==
    /\ Running("pump") /\ Complete
    /\ msgs[CurrentMsg].kind = "notification"
    /\ Advance
    /\ dispatched' = Append(dispatched, CurrentMsg)
    /\ \/ UNCHANGED <<reqVars, calls, inbox>>
       \/ Len(calls) < MaxDepth /\ BeginRequest(calls)
    /\ UNCHANGED <<workerVars, received, erased, processing>>

(* Variants: the flag stays set; the offset is stepped back, not reset.    *)
EraseKeepingFlag ==
    IF Top.outermost
    THEN erased' = erased + offset /\ offset' = 0 /\ UNCHANGED processing
    ELSE UNCHANGED <<erased, offset, processing>>
EraseAndStepBack ==
    IF Top.outermost
    THEN erased' = erased + offset /\ offset' = offset - FrameLen /\ processing' = FALSE
    ELSE UNCHANGED <<erased, offset, processing>>
(* Only the outermost activation erases what has been consumed.            *)
EraseConsumed ==
    IF Top.outermost
    THEN erased' = erased + offset /\ offset' = 0 /\ processing' = FALSE
    ELSE UNCHANGED <<erased, offset, processing>>

(* A frame with an invalid length closes the channel and ends the loop.    *)
InvalidFrame ==
    /\ Running("pump") /\ InvalidHeader
    /\ CloseChannel(sents, outcome)
    /\ EraseConsumed
    /\ calls' = Pop
    /\ UNCHANGED <<workerVars, inbox, received, nextId, issued, dispatched>>

(* No complete message is left.                                            *)
PumpReturns ==
    /\ Running("pump") /\ ~Complete /\ ~InvalidHeader
    /\ EraseConsumed
    /\ calls' = Pop
    /\ UNCHANGED <<workerVars, inbox, received, reqVars, dispatched>>

-----------------------------------------------------------------------------
(* waitForResponse *)

(* The waiting request pumps the pipe itself, first at once and then after *)
(* every poll.                                                             *)
WaitPump ==
    /\ Running("wait")
    /\ outcome[Top.req] = "pending" \/ ~Top.pumped
    /\ Reads
    /\ EnterPump(Append(Pop, [Top EXCEPT !.pumped = TRUE]))
    /\ IF Overflow
       THEN CloseChannel(sents, outcome) /\ UNCHANGED <<nextId, issued>>
       ELSE UNCHANGED reqVars
    /\ UNCHANGED <<workerVars, inbox, erased, dispatched>>

(* The future is ready: the call returns its value or throws.              *)
WaitReturns ==
    /\ Running("wait") /\ Top.pumped /\ outcome[Top.req] # "pending"
    /\ calls' = Pop
    /\ UNCHANGED <<workerVars, inbox, bufVars, reqVars, dispatched>>

(* Variant: the entry of a request that timed out stays in sents_.         *)
ForgetNothing(n) == UNCHANGED sents
(* The entry of a request that timed out is erased.                        *)
ForgetRequest(n) == sents' = [i \in Ids |-> IF sents[i] = n THEN 0 ELSE sents[i]]

(* Variant: the deadline is tested only while the worker lives.            *)
WaitTimesOutIfAlive ==
    /\ Running("wait") /\ Top.pumped /\ outcome[Top.req] = "pending" /\ ~eof
    /\ outcome' = [outcome EXCEPT ![Top.req] = "timeout"]
    /\ ForgetRequest(Top.req)
    /\ calls' = Pop
    /\ UNCHANGED <<workerVars, inbox, bufVars, closed, nextId, issued, dispatched>>

(* The deadline of the wait has passed.                                    *)
WaitTimesOut ==
    /\ Running("wait") /\ Top.pumped /\ outcome[Top.req] = "pending"
    /\ outcome' = [outcome EXCEPT ![Top.req] = "timeout"]
    /\ ForgetRequest(Top.req)
    /\ calls' = Pop
    /\ UNCHANGED <<workerVars, inbox, bufVars, closed, nextId, issued, dispatched>>

-----------------------------------------------------------------------------
Worker == WorkerResponds \/ WorkerNotifies \/ WorkerContinues \/ WorkerDies

(* The thread inside the channel.                                          *)
Inside == \/ DispatchResponse \/ DispatchNotification \/ InvalidFrame
          \/ PumpReturns \/ WaitPump \/ WaitReturns

Next == Worker \/ Request \/ LoopPump \/ Inside \/ WaitTimesOut

Spec == Init /\ [][Next]_vars

(* The thread is scheduled, epoll reports a readable pipe and a live       *)
(* worker finishes the frame it is writing.  A deadline that has passed    *)
(* stays passed, so a wait that checks it again and again times out.       *)
Fairness == /\ WF_vars(LoopPump) /\ WF_vars(Inside) /\ SF_vars(WaitTimesOut)
            /\ WF_vars(WorkerContinues)
FairSpec == Spec /\ Fairness

-----------------------------------------------------------------------------
(* Properties *)

(* Messages are dispatched in the order the worker wrote them, none twice  *)
(* and none skipped, however activations of the pump nest.                 *)
DispatchedInOrder == \A k \in 1 .. Len(dispatched) : dispatched[k] = k

(* When the thread is back in the epoll loop, the buffer starts at a fresh *)
(* frame, no complete message of a live channel is left in it, and the     *)
(* re-entrancy state is reset.                                             *)
IdleBufferIsDrained ==
    calls = <<>> =>
        /\ offset = 0 /\ ~processing
        /\ BufLen >= FrameLen => closed \/ eof

(* Both: no message is lost, doubled or left behind by nested pumps.       *)
BufferIsConsumed == DispatchedInOrder /\ IdleBufferIsDrained

(* sents_ and the call stack agree: a promise is pending exactly if it is  *)
(* registered under one id, and then its wait is on the stack to settle    *)
(* or time it out.  In particular no id is given out while it is pending.  *)
PendingIsAwaited ==
    \A n \in Requests :
        /\ outcome[n] = "pending" <=> \E i \in Ids : sents[i] = n
        /\ \A i, j \in Ids : sents[i] = n /\ sents[j] = n => i = j
        /\ outcome[n] = "pending" =>
             \E k \in 1 .. Len(calls) : calls[k].kind = "wait" /\ calls[k].req = n

(* A promise is settled at most once, whatever order response, timeout and *)
(* close come in (a second set_value would throw in the pump).             *)
SettledOnce ==
    [][\A n \in Requests : outcome[n] \in Settled => outcome'[n] = outcome[n]]_vars

(* An answer is the worker's answer to this request, not a late one to an  *)
(* earlier request.  Once the ids have wrapped, a response that is a whole *)
(* cycle of ids late can answer another request, so this is about the      *)
(* requests of the first cycle.                                            *)
AnswerIsForRequest ==
    \A n \in Requests : n <= MaxId /\ outcome[n] \in {"accepted", "refused"} =>
        \E k \in 1 .. Len(dispatched) :
            /\ msgs[dispatched[k]].kind = "response"
            /\ msgs[dispatched[k]].to = n
            /\ msgs[dispatched[k]].ok <=> outcome[n] = "accepted"

(* The thread always comes back to the epoll loop.                         *)
CallsReturn == calls # <<>> ~> calls = <<>>

(* A message completely written to the pipe of a live channel reaches its  *)
(* handler.                                                                *)
MessagesArrive ==
    \A k \in 1 .. MaxMsgs :
        written >= FrameLen * k ~> Len(dispatched) >= k \/ closed \/ eof

(* What the comment on processAvailableData says: a call processes all     *)
(* complete messages, so none is left in the buffer when control is back   *)
(* in the epoll loop, an invalid frame aside.                              *)
CompleteMessagesAreProcessed ==
    calls = <<>> => BufLen < FrameLen \/ \E k \in 1 .. Len(msgs) : msgs[k].kind = "invalid"
=============================================================================
