------------------------- MODULE ChannelPumpProofs -------------------------
(***************************************************************************)
(* Theorems about ChannelPump for any number of messages and requests, any *)
(* nesting of the calls, any size of the buffer and any number of ids.     *)
(***************************************************************************)
EXTENDS ChannelPump, TLAPS

-----------------------------------------------------------------------------
(* The inductive invariants *)

(* The channel is never ahead of the worker: bytes are consumed after they *)
(* were received, received after they were written, and written only of a  *)
(* message that was begun.  An open channel has not exceeded its buffer.   *)
StreamInv ==
    /\ erased + offset <= received
    /\ received <= written
    /\ written <= FrameLen * Len(msgs)
    /\ ~closed => BufLen <= MaxBuffer

PumpAt(stack, k) == stack[k].kind = "pump"

(* recvBufProcessing_ is set exactly while an activation of the pump is on *)
(* the stack, and the activation that will erase is the lowest one.        *)
StackInv ==
    /\ processing <=> \E k \in 1 .. Len(calls) : PumpAt(calls, k)
    /\ \A k \in 1 .. Len(calls) : PumpAt(calls, k) =>
         (calls[k].outermost <=> \A j \in 1 .. (k - 1) : ~PumpAt(calls, j))

(* What was consumed is what was dispatched, and between activations of    *)
(* the pump no complete message of a live channel is left.                 *)
BufferInv ==
    /\ erased + offset = FrameLen * Len(dispatched)
    /\ DispatchedInOrder
    /\ ~processing => /\ offset = 0
                      /\ BufLen >= FrameLen => closed \/ eof

(* What is registered was issued, and what was not issued is untouched.    *)
IssueInv ==
    /\ \A i \in Ids : sents[i] <= issued
    /\ \A n \in Requests : n > issued <=> outcome[n] = "unissued"

(* In the first cycle request n has id n.  A request of a later cycle was  *)
(* given an id only after the request of the first cycle had given it up.  *)
IdIsOf(i, n) ==
    /\ n <= issued
    /\ n <= MaxId => i = n
    /\ n > MaxId => sents[i] = 0 \/ sents[i] > MaxId

IdInv ==
    /\ issued <= MaxId => nextId = issued
    /\ \A i \in Ids : sents[i] # 0 => IdIsOf(i, sents[i])
    /\ \A r \in inbox : IdIsOf(r[2], r[1])
    /\ \A k \in 1 .. Len(msgs) :
         msgs[k].kind = "response" => IdIsOf(msgs[k].id, msgs[k].to)

-----------------------------------------------------------------------------
(* Types and the call stack *)

(* Elements and prefixes of a sequence that is not empty.                  *)
LEMMA LastAndFront ==
    ASSUME NEW S, NEW s \in Seq(S), s # <<>>
    PROVE  /\ Len(s) \in Nat \ {0}
           /\ s[Len(s)] \in S
           /\ SubSeq(s, 1, Len(s) - 1) \in Seq(S)
           /\ Len(SubSeq(s, 1, Len(s) - 1)) = Len(s) - 1
           /\ \A k \in 1 .. (Len(s) - 1) : SubSeq(s, 1, Len(s) - 1)[k] = s[k]
<1>1. Len(s) \in Nat \ {0}
    OBVIOUS
<1>2. s[Len(s)] \in S
    BY <1>1
<1>3. SubSeq(s, 1, Len(s) - 1) \in Seq(S)
    <2>1. \A k \in 1 .. (Len(s) - 1) : s[k] \in S
        BY <1>1
    <2> QED
        BY <1>1, <2>1
<1>5. Len(SubSeq(s, 1, Len(s) - 1)) = Len(s) - 1
    <2> DEFINE n == Len(s) - 1
    <2>1. n \in Nat /\ n <= Len(s)
        BY <1>1
    <2> HIDE DEF n
    <2>2. Len(SubSeq(s, 1, n)) = n
        BY <1>1, <2>1
    <2> QED
        BY <2>2 DEF n
<1>4. \A k \in 1 .. (Len(s) - 1) : SubSeq(s, 1, Len(s) - 1)[k] = s[k]
    BY <1>1
<1> QED
    BY <1>1, <1>2, <1>3, <1>4, <1>5

(* Returning from the running call leaves the calls below it.              *)
LEMMA PopFacts ==
    ASSUME calls \in Seq(Pumps \cup Waits), calls # <<>>
    PROVE  /\ Len(calls) \in Nat \ {0}
           /\ Top \in Pumps \cup Waits
           /\ Pop \in Seq(Pumps \cup Waits)
           /\ Len(Pop) = Len(calls) - 1
           /\ \A k \in 1 .. (Len(calls) - 1) : Pop[k] = calls[k]
BY LastAndFront, ZenonT(60) DEF Top, Pop

(* A call that starts goes on top.                                         *)
LEMMA PushFacts ==
    ASSUME NEW stack \in Seq(Pumps \cup Waits), NEW c \in Pumps \cup Waits
    PROVE  /\ Append(stack, c) \in Seq(Pumps \cup Waits)
           /\ Len(Append(stack, c)) = Len(stack) + 1
           /\ \A k \in 1 .. Len(stack) : Append(stack, c)[k] = stack[k]
           /\ Append(stack, c)[Len(stack) + 1] = c
OBVIOUS

(* The stack of a wait that has begun to pump.                             *)
Pumping == Append(Pop, [Top EXCEPT !.pumped = TRUE])

LEMMA PumpingFacts ==
    ASSUME calls \in Seq(Pumps \cup Waits), Running("wait")
    PROVE  /\ Pumping \in Seq(Pumps \cup Waits)
           /\ Len(Pumping) = Len(calls)
           /\ \A k \in 1 .. Len(calls) :
                /\ Pumping[k].kind = calls[k].kind
                /\ calls[k].kind = "wait" => Pumping[k].req = calls[k].req
                /\ calls[k].kind = "pump" => Pumping[k].outermost = calls[k].outermost
<1>1. /\ Len(calls) \in Nat \ {0} /\ Top \in Pumps \cup Waits
      /\ Pop \in Seq(Pumps \cup Waits) /\ Len(Pop) = Len(calls) - 1
      /\ \A k \in 1 .. (Len(calls) - 1) : Pop[k] = calls[k]
    BY PopFacts DEF Running
<1>2. Top \in Waits
    BY <1>1 DEF Running, Pumps, Waits
<1>3. DEFINE c == [Top EXCEPT !.pumped = TRUE]
<1>4. c \in Waits /\ c.kind = "wait" /\ c.req = Top.req
    BY <1>2, ZenonT(60) DEF Waits
<1> HIDE DEF c
<1>5. /\ Pumping = Append(Pop, c)
    BY DEF Pumping, c
<1>6. /\ Pumping \in Seq(Pumps \cup Waits) /\ Len(Pumping) = Len(calls)
      /\ \A k \in 1 .. (Len(calls) - 1) : Pumping[k] = Pop[k]
      /\ Pumping[Len(calls)] = c
    BY <1>1, <1>4, <1>5
<1>7. ASSUME NEW k \in 1 .. Len(calls)
      PROVE  /\ Pumping[k].kind = calls[k].kind
             /\ calls[k].kind = "wait" => Pumping[k].req = calls[k].req
             /\ calls[k].kind = "pump" => Pumping[k].outermost = calls[k].outermost
    <2>1. CASE k = Len(calls)
        <3>1. Pumping[k] = c /\ calls[k] = Top
            BY <1>6, <2>1 DEF Top
        <3>2. Top.kind = "wait"
            BY DEF Running
        <3> QED
            BY <3>1, <3>2, <1>4
    <2>2. CASE k # Len(calls)
        <3>1. k \in 1 .. (Len(calls) - 1)
            BY <1>1, <2>2
        <3> QED
            BY <3>1, <1>1, <1>6
    <2> QED
        BY <2>1, <2>2
<1> QED
    BY <1>6, <1>7

LEMMA TypeInit ==
    Init => TypeOK
<1> SUFFICES ASSUME Init PROVE TypeOK
    OBVIOUS
<1>1. /\ msgs \in Seq(Message) /\ calls \in Seq(Pumps \cup Waits)
      /\ dispatched \in Seq(Nat)
    BY DEF Init
<1>2. /\ written \in Nat /\ received \in Nat /\ erased \in Nat /\ offset \in Nat
      /\ nextId \in 0 .. MaxId /\ issued \in 0 .. MaxRequests
    BY BoundsAssumption DEF Init
<1>3. /\ eof \in BOOLEAN /\ processing \in BOOLEAN /\ closed \in BOOLEAN
      /\ inbox \in SUBSET (Requests \X Ids)
    BY ZenonT(60) DEF Init
<1>4. sents \in [Ids -> 0 .. MaxRequests]
    BY BoundsAssumption DEF Init
<1>5. outcome \in [Requests -> {"unissued", "pending"} \cup Settled]
    BY DEF Init
<1> QED
    BY <1>1, <1>2, <1>3, <1>4, <1>5 DEF TypeOK

LEMMA CloseTyped ==
    ASSUME NEW pending,
           NEW out \in [Requests -> {"unissued", "pending"} \cup Settled],
           CloseChannel(pending, out)
    PROVE  /\ closed' \in BOOLEAN
           /\ sents' \in [Ids -> 0 .. MaxRequests]
           /\ outcome' \in [Requests -> {"unissued", "pending"} \cup Settled]
BY BoundsAssumption DEF CloseChannel, Settled

LEMMA BeginTyped ==
    ASSUME TypeOK, BeginRequest(calls)
    PROVE  /\ inbox' \in SUBSET (Requests \X Ids)
           /\ closed' \in BOOLEAN /\ nextId' \in 0 .. MaxId
           /\ sents' \in [Ids -> 0 .. MaxRequests] /\ issued' \in 0 .. MaxRequests
           /\ outcome' \in [Requests -> {"unissued", "pending"} \cup Settled]
           /\ calls' \in Seq(Pumps \cup Waits)
<1> DEFINE n == issued + 1
<1>1. PICK i \in Ids :
        /\ ~closed /\ n \in Requests /\ FreeId(i)
        /\ nextId' = i /\ issued' = n
        /\ calls' = Append(calls, [kind |-> "wait", req |-> n, pumped |-> FALSE])
        /\ IF eof
           THEN /\ CloseChannel([sents EXCEPT ![i] = n],
                                [outcome EXCEPT ![n] = "pending"])
                /\ UNCHANGED inbox
           ELSE /\ sents' = [sents EXCEPT ![i] = n]
                /\ outcome' = [outcome EXCEPT ![n] = "pending"]
                /\ inbox' = inbox \cup {<<n, i>>}
                /\ UNCHANGED closed
    BY ZenonT(60) DEF BeginRequest
<1>2. n \in 0 .. MaxRequests /\ n \in Requests /\ i \in 0 .. MaxId
    BY <1>1, BoundsAssumption DEF Requests, Ids
<1> HIDE DEF n
<1>3. calls' \in Seq(Pumps \cup Waits)
    <2>1. [kind |-> "wait", req |-> n, pumped |-> FALSE] \in Pumps \cup Waits
        BY <1>2 DEF Waits
    <2> QED
        BY <1>1, <2>1 DEF TypeOK
<1>4. [outcome EXCEPT ![n] = "pending"] \in [Requests -> {"unissued", "pending"} \cup Settled]
    BY ZenonT(60) DEF TypeOK
<1>5. CASE eof
    BY <1>1, <1>2, <1>3, <1>4, <1>5, CloseTyped, ZenonT(60) DEF TypeOK
<1>6. CASE ~eof
    <2>1. inbox' \in SUBSET (Requests \X Ids)
        BY <1>1, <1>2, <1>6, SMTT(60), Z3T(60) DEF TypeOK
    <2>2. sents' \in [Ids -> 0 .. MaxRequests]
        BY <1>1, <1>2, <1>6, ZenonT(60) DEF TypeOK
    <2>3. closed' \in BOOLEAN
        BY <1>1, <1>6, ZenonT(60) DEF TypeOK
    <2> QED
        BY <1>1, <1>2, <1>3, <1>4, <1>6, <2>1, <2>2, <2>3
<1> QED
    BY <1>5, <1>6

(* The reads leave a position in the stream.                               *)
LEMMA ReadsTyped ==
    ASSUME TypeOK, Reads
    PROVE  received' \in Nat
BY BoundsAssumption DEF TypeOK, Reads, Overflow

LEMMA EnterTyped ==
    ASSUME TypeOK, NEW stack \in Seq(Pumps \cup Waits), EnterPump(stack)
    PROVE  /\ calls' \in Seq(Pumps \cup Waits)
           /\ offset' \in Nat /\ processing' \in BOOLEAN
<1>1. [kind |-> "pump", outermost |-> ~processing] \in Pumps \cup Waits
    BY DEF Pumps, TypeOK
<1>2. calls' \in Seq(Pumps \cup Waits)
    BY <1>1, SMTT(60), Z3T(60) DEF EnterPump
<1>3. offset' \in Nat
    BY SMTT(60), Z3T(60) DEF EnterPump, TypeOK
<1>4. processing' \in BOOLEAN
    BY ZenonT(60) DEF EnterPump, TypeOK
<1> QED
    BY <1>2, <1>3, <1>4

LEMMA EraseTyped ==
    ASSUME TypeOK, EraseConsumed
    PROVE  erased' \in Nat /\ offset' \in Nat /\ processing' \in BOOLEAN
<1>1. erased' \in Nat /\ offset' \in Nat
    BY SMTT(60), Z3T(60) DEF EraseConsumed, TypeOK
<1>2. processing' \in BOOLEAN
    BY ZenonT(60) DEF EraseConsumed, TypeOK
<1> QED
    BY <1>1, <1>2

LEMMA WriteTyped ==
    ASSUME TypeOK, NEW m \in Message, Write(m)
    PROVE  msgs' \in Seq(Message) /\ written' \in Nat /\ eof' \in BOOLEAN
<1>1. msgs' \in Seq(Message) /\ written' \in Nat
    BY SMTT(60), Z3T(60) DEF Write, TypeOK, FrameLen
<1>2. eof' \in BOOLEAN
    BY ZenonT(60) DEF Write, TypeOK
<1> QED
    BY <1>1, <1>2

LEMMA WorkerTyped ==
    TypeOK /\ Worker => TypeOK'
<1> SUFFICES ASSUME TypeOK, Worker PROVE TypeOK'
    OBVIOUS
<1> USE DEF bufVars, reqVars, workerVars
<1>1. CASE WorkerResponds
    <2>1. PICK r \in inbox, ok \in BOOLEAN :
            /\ Write([kind |-> "response", id |-> r[2], to |-> r[1], ok |-> ok])
            /\ inbox' = inbox \ {r}
        BY <1>1 DEF WorkerResponds
    <2>2. r[1] \in Requests /\ r[2] \in Ids
        BY DEF TypeOK
    <2>3. [kind |-> "response", id |-> r[2], to |-> r[1], ok |-> ok] \in Message
        BY <2>2 DEF Message
    <2>4. msgs' \in Seq(Message) /\ written' \in Nat /\ eof' \in BOOLEAN
        BY <2>1, <2>3, WriteTyped
    <2>5. inbox' \in SUBSET (Requests \X Ids)
        BY <2>1 DEF TypeOK
    <2> QED
        BY <1>1, <2>4, <2>5, SMTT(60), Z3T(60) DEF WorkerResponds, TypeOK
<1>2. CASE WorkerNotifies
    <2>1. PICK k \in {"notification", "invalid"} : Write([kind |-> k])
        BY <1>2 DEF WorkerNotifies
    <2>2. [kind |-> k] \in Message
        BY DEF Message
    <2>3. msgs' \in Seq(Message) /\ written' \in Nat /\ eof' \in BOOLEAN
        BY <2>1, <2>2, WriteTyped
    <2> QED
        BY <1>2, <2>3 DEF WorkerNotifies, TypeOK
<1>3. CASE WorkerContinues
    BY <1>3 DEF WorkerContinues, TypeOK
<1>4. CASE WorkerDies
    BY <1>4 DEF WorkerDies, TypeOK
<1> QED
    BY <1>1, <1>2, <1>3, <1>4 DEF Worker

LEMMA PumpTyped ==
    TypeOK /\ (LoopPump \/ WaitPump) => TypeOK'
<1> SUFFICES ASSUME TypeOK, LoopPump \/ WaitPump PROVE TypeOK'
    OBVIOUS
<1>1. Reads /\ UNCHANGED <<workerVars, inbox, erased, dispatched, nextId, issued>>
    BY DEF LoopPump, WaitPump, reqVars
<1>2. received' \in Nat
    BY <1>1, ReadsTyped
<1>3. PICK stack \in Seq(Pumps \cup Waits) : EnterPump(stack)
    <2>1. CASE LoopPump
        BY <2>1, ZenonT(60) DEF LoopPump, TypeOK
    <2>2. CASE WaitPump
        BY <2>2, PumpingFacts, ZenonT(60) DEF WaitPump, Pumping, TypeOK
    <2> QED
        BY <2>1, <2>2
<1>4. CloseChannel(sents, outcome) \/ UNCHANGED <<closed, sents, outcome>>
    BY DEF LoopPump, WaitPump, reqVars
<1>5. /\ closed' \in BOOLEAN /\ sents' \in [Ids -> 0 .. MaxRequests]
      /\ outcome' \in [Requests -> {"unissued", "pending"} \cup Settled]
    BY <1>4, CloseTyped, SMTT(60), Z3T(60) DEF TypeOK
<1> QED
    BY <1>1, <1>2, <1>3, <1>5, EnterTyped, ZenonT(60) DEF TypeOK, workerVars

LEMMA DispatchTyped ==
    TypeOK /\ (DispatchResponse \/ DispatchNotification) => TypeOK'
<1> SUFFICES ASSUME TypeOK, DispatchResponse \/ DispatchNotification PROVE TypeOK'
    OBVIOUS
<1>1. offset' \in Nat /\ dispatched' \in Seq(Nat)
    <2>1. CurrentMsg \in Nat
        BY DEF CurrentMsg, TypeOK, FrameLen
    <2>2. offset' = offset + FrameLen /\ dispatched' = Append(dispatched, CurrentMsg)
        BY ZenonT(60) DEF DispatchResponse, DispatchNotification, Advance
    <2> QED
        BY <2>1, <2>2 DEF TypeOK, FrameLen
<1>2. CASE DispatchResponse
    <2>1. sents' \in [Ids -> 0 .. MaxRequests]
        <3>1. sents' = sents \/ sents' = [sents EXCEPT ![msgs[CurrentMsg].id] = 0]
            BY <1>2, ZenonT(60) DEF DispatchResponse
        <3>2. 0 \in 0 .. MaxRequests
            BY BoundsAssumption
        <3>3. CASE sents' = [sents EXCEPT ![msgs[CurrentMsg].id] = 0]
            BY <3>2, <3>3, ZenonT(60) DEF TypeOK
        <3> QED
            BY <3>1, <3>3 DEF TypeOK
    <2>2. outcome' \in [Requests -> {"unissued", "pending"} \cup Settled]
        BY <1>2, ZenonT(60) DEF DispatchResponse, TypeOK, Settled
    <2> QED
        BY <1>1, <1>2, <2>1, <2>2, SMTT(60), Z3T(60) DEF DispatchResponse, TypeOK, workerVars
<1>3. CASE DispatchNotification
    <2>1. CASE UNCHANGED <<reqVars, calls, inbox>>
        BY <1>1, <1>3, <2>1, SMTT(60), Z3T(60) DEF DispatchNotification, TypeOK, workerVars, reqVars
    <2>2. CASE BeginRequest(calls)
        BY <1>1, <1>3, <2>2, BeginTyped, ZenonT(60) DEF DispatchNotification, TypeOK, workerVars
    <2> QED
        BY <1>3, <2>1, <2>2 DEF DispatchNotification
<1> QED
    BY <1>2, <1>3

LEMMA ReturnTyped ==
    TypeOK /\ (InvalidFrame \/ PumpReturns \/ WaitReturns \/ WaitTimesOut) => TypeOK'
<1> SUFFICES ASSUME TypeOK, InvalidFrame \/ PumpReturns \/ WaitReturns \/ WaitTimesOut
             PROVE  TypeOK'
    OBVIOUS
<1>1. calls' \in Seq(Pumps \cup Waits)
    BY PopFacts DEF InvalidFrame, PumpReturns, WaitReturns, WaitTimesOut, Running, TypeOK
<1>2. CASE InvalidFrame
    BY <1>1, <1>2, EraseTyped, CloseTyped, ZenonT(60) DEF InvalidFrame, TypeOK, workerVars
<1>3. CASE PumpReturns
    BY <1>1, <1>3, EraseTyped, SMTT(60), Z3T(60) DEF PumpReturns, TypeOK, workerVars, reqVars
<1>4. CASE WaitReturns
    BY <1>1, <1>4 DEF WaitReturns, TypeOK, workerVars, bufVars, reqVars
<1>5. CASE WaitTimesOut
    <2>1. sents' \in [Ids -> 0 .. MaxRequests]
        BY <1>5, BoundsAssumption DEF WaitTimesOut, ForgetRequest, TypeOK
    <2>2. outcome' \in [Requests -> {"unissued", "pending"} \cup Settled]
        BY <1>5, ZenonT(60) DEF WaitTimesOut, TypeOK, Settled
    <2> QED
        BY <1>1, <1>5, <2>1, <2>2 DEF WaitTimesOut, TypeOK, workerVars, bufVars
<1> QED
    BY <1>2, <1>3, <1>4, <1>5

LEMMA TypeStep ==
    TypeOK /\ [Next]_vars => TypeOK'
<1> SUFFICES ASSUME TypeOK, [Next]_vars PROVE TypeOK'
    OBVIOUS
<1>1. CASE Request
    BY <1>1, BeginTyped DEF Request, TypeOK, workerVars, bufVars
<1>2. CASE UNCHANGED vars
    BY <1>2 DEF TypeOK, vars, workerVars, bufVars, reqVars
<1> QED
    BY <1>1, <1>2, WorkerTyped, PumpTyped, DispatchTyped, ReturnTyped DEF Next, Inside

(* Every variable of the channel keeps its type.                           *)
THEOREM TypeCorrect ==
    Spec => []TypeOK
BY TypeInit, TypeStep, PTL DEF Spec

-----------------------------------------------------------------------------
(* The stream *)

(* What one call of processAvailableData does to the channel, whether the  *)
(* epoll loop or a waiting request makes it.                               *)
LEMMA PumpFacts ==
    ASSUME TypeOK, LoopPump \/ WaitPump
    PROVE  /\ Reads
           /\ UNCHANGED <<msgs, written, eof, inbox, erased, dispatched, nextId, issued>>
           /\ offset' = offset \/ (~processing /\ offset' = 0)
           /\ CloseChannel(sents, outcome) \/ UNCHANGED <<closed, sents, outcome>>
           /\ closed \/ Overflow => closed'
<1>1. /\ Reads /\ UNCHANGED <<msgs, written, eof, inbox, erased, dispatched, nextId, issued>>
    BY DEF LoopPump, WaitPump, reqVars, workerVars
<1>2. offset' = offset \/ (~processing /\ offset' = 0)
    BY DEF LoopPump, WaitPump, EnterPump
<1>3. CloseChannel(sents, outcome) \/ UNCHANGED <<closed, sents, outcome>>
    BY DEF LoopPump, WaitPump, reqVars
<1>4. closed \/ Overflow => closed'
    BY DEF LoopPump, WaitPump, reqVars, CloseChannel
<1> QED
    BY <1>1, <1>2, <1>3, <1>4

(* The positions in the stream.                                            *)
LEMMA PositionTypes ==
    ASSUME TypeOK
    PROVE  /\ written \in Nat /\ received \in Nat /\ erased \in Nat /\ offset \in Nat
           /\ Len(msgs) \in Nat /\ Len(dispatched) \in Nat /\ Len(calls) \in Nat
BY DEF TypeOK

(* A read only moves forward.                                              *)
LEMMA ReadsForward ==
    ASSUME TypeOK, StreamInv, Reads
    PROVE  /\ received <= received' /\ received' <= written
           /\ ~closed /\ ~Overflow => received' = written /\ written - erased <= MaxBuffer
BY BoundsAssumption DEF TypeOK, StreamInv, Reads, Overflow, BufLen

LEMMA StreamInit ==
    Init => StreamInv
BY BoundsAssumption DEF Init, StreamInv, FrameLen, BufLen

LEMMA StreamFrame ==
    ASSUME TypeOK, StreamInv, UNCHANGED <<msgs, written, received>>,
           erased' + offset' = erased + offset, erased' \in Nat, erased' >= erased,
           closed => closed'
    PROVE  StreamInv'
<1>1. Len(msgs') = Len(msgs)
    OBVIOUS
<1> QED
    BY <1>1, PositionTypes, BoundsAssumption, SMTT(60), Z3T(60) DEF StreamInv, BufLen, FrameLen

LEMMA StreamWrite ==
    ASSUME TypeOK, StreamInv, NEW m, Write(m), UNCHANGED <<received, erased, offset, closed>>
    PROVE  StreamInv'
<1>1. Len(msgs) \in Nat /\ Len(msgs') = Len(msgs) + 1
    BY DEF Write, TypeOK
<1>2. PICK n \in 1 .. FrameLen : written' = written + n
    BY DEF Write
<1> QED
    BY <1>1, <1>2, SMTT(60), Z3T(60) DEF StreamInv, TypeOK, BufLen, FrameLen, Write

LEMMA StreamWorker ==
    TypeOK /\ StreamInv /\ Worker => StreamInv'
<1> SUFFICES ASSUME TypeOK, StreamInv, Worker PROVE StreamInv'
    OBVIOUS
<1> USE DEF bufVars, reqVars
<1>1. CASE WorkerResponds
    <2>1. \E m : Write(m)
        BY <1>1, ZenonT(60) DEF WorkerResponds
    <2> QED
        BY <1>1, <2>1, StreamWrite DEF WorkerResponds
<1>2. CASE WorkerNotifies
    BY <1>2, StreamWrite DEF WorkerNotifies
<1>3. CASE WorkerContinues
    BY <1>3 DEF WorkerContinues, StreamInv, TypeOK, BufLen, FrameLen
<1>4. CASE WorkerDies
    BY <1>4 DEF WorkerDies, StreamInv, TypeOK, BufLen
<1> QED
    BY <1>1, <1>2, <1>3, <1>4 DEF Worker

(* A request changes closed_ at most from false to true.                   *)
LEMMA ClosedStays ==
    ASSUME TypeOK, NEW stack, BeginRequest(stack)
    PROVE  ~closed
BY DEF BeginRequest

LEMMA StreamDispatch ==
    TypeOK /\ StreamInv /\ (DispatchResponse \/ DispatchNotification) => StreamInv'
<1> SUFFICES ASSUME TypeOK, StreamInv, DispatchResponse \/ DispatchNotification
             PROVE  StreamInv'
    OBVIOUS
<1>1. /\ offset' = offset + FrameLen /\ Complete
      /\ UNCHANGED <<msgs, written, received, erased>>
    BY SMTT(60), Z3T(60) DEF DispatchResponse, DispatchNotification, Advance, workerVars
<1>2. closed => closed'
    BY ClosedStays, ZenonT(60) DEF DispatchResponse, DispatchNotification, reqVars
<1> QED
    BY <1>1, <1>2 DEF StreamInv, TypeOK, BufLen, FrameLen, Complete

(* Erasing leaves the dispatch position in the stream where it was.        *)
LEMMA EraseFacts ==
    ASSUME TypeOK, EraseConsumed
    PROVE  erased' + offset' = erased + offset /\ erased' \in Nat /\ erased' >= erased
BY SMTT(60), Z3T(60) DEF EraseConsumed, TypeOK

LEMMA StreamReturn ==
    TypeOK /\ StreamInv /\ (InvalidFrame \/ PumpReturns \/ WaitReturns \/ WaitTimesOut)
        => StreamInv'
<1> SUFFICES ASSUME TypeOK, StreamInv,
                    InvalidFrame \/ PumpReturns \/ WaitReturns \/ WaitTimesOut
             PROVE  StreamInv'
    OBVIOUS
<1>1. UNCHANGED <<msgs, written, received>>
    BY DEF InvalidFrame, PumpReturns, WaitReturns, WaitTimesOut, workerVars, bufVars
<1>2. EraseConsumed \/ UNCHANGED <<erased, offset>>
    BY DEF InvalidFrame, PumpReturns, WaitReturns, WaitTimesOut, bufVars
<1>3. closed => closed'
    BY ZenonT(60) DEF InvalidFrame, PumpReturns, WaitReturns, WaitTimesOut, reqVars, CloseChannel
<1>4. erased' + offset' = erased + offset /\ erased' \in Nat /\ erased' >= erased
    BY <1>2, EraseFacts, SMTT(60), Z3T(60) DEF TypeOK
<1> QED
    BY <1>1, <1>3, <1>4, StreamFrame

LEMMA StreamStep ==
    TypeOK /\ StreamInv /\ [Next]_vars => StreamInv'
<1> SUFFICES ASSUME TypeOK, StreamInv, [Next]_vars PROVE StreamInv'
    OBVIOUS
<1>1. CASE Request
    BY <1>1, ClosedStays, StreamFrame DEF Request, TypeOK, workerVars, bufVars
<1>2. CASE LoopPump \/ WaitPump
    <2>1. /\ Reads /\ UNCHANGED <<msgs, written, erased>>
          /\ offset' = offset \/ (~processing /\ offset' = 0)
          /\ closed \/ Overflow => closed'
        BY <1>2, PumpFacts
    <2>2. /\ received <= received' /\ received' <= written
          /\ ~closed /\ ~Overflow => received' = written /\ written - erased <= MaxBuffer
        BY <2>1, ReadsForward
    <2>3. received' \in Nat
        BY <2>1, ReadsTyped
    <2> QED
        BY <2>1, <2>2, <2>3, PositionTypes, BoundsAssumption, SMTT(60), Z3T(60)
        DEF StreamInv, BufLen, FrameLen
<1>3. CASE UNCHANGED vars
    BY <1>3 DEF StreamInv, BufLen, vars, workerVars, bufVars, reqVars
<1> QED
    BY <1>1, <1>2, <1>3, StreamWorker, StreamDispatch, StreamReturn DEF Next, Inside

-----------------------------------------------------------------------------
(* Nested activations of the pump *)

(* Two stacks with the same activations of the pump at the same places.    *)
SamePumps(stack) ==
    /\ Len(stack) = Len(calls)
    /\ \A k \in 1 .. Len(calls) :
         /\ stack[k].kind = calls[k].kind
         /\ calls[k].kind = "pump" => stack[k].outermost = calls[k].outermost

LEMMA StackFrame ==
    ASSUME StackInv, SamePumps(calls'), UNCHANGED processing
    PROVE  StackInv'
<1>1. \A k \in 1 .. Len(calls) : PumpAt(calls', k) <=> PumpAt(calls, k)
    BY DEF SamePumps, PumpAt
<1>2. Len(calls') = Len(calls)
    BY DEF SamePumps
<1>3. processing' <=> \E k \in 1 .. Len(calls') : PumpAt(calls', k)
    BY <1>1, <1>2 DEF StackInv
<1>4. ASSUME NEW k \in 1 .. Len(calls'), PumpAt(calls', k)
      PROVE  calls'[k].outermost <=> \A j \in 1 .. (k - 1) : ~PumpAt(calls', j)
    <2>1. k \in 1 .. Len(calls) /\ PumpAt(calls, k)
        BY <1>1, <1>2, <1>4
    <2>2. calls'[k].outermost = calls[k].outermost
        BY <2>1 DEF SamePumps, PumpAt
    <2> QED
        BY <1>1, <2>1, <2>2 DEF StackInv
<1> QED
    BY <1>3, <1>4 DEF StackInv

(* A request that begins puts a wait on the stack.                         *)
LEMMA StackBegin ==
    ASSUME TypeOK, StackInv, BeginRequest(calls), UNCHANGED processing
    PROVE  StackInv'
<1>1. PICK n \in Requests :
        calls' = Append(calls, [kind |-> "wait", req |-> n, pumped |-> FALSE])
    BY ZenonT(60) DEF BeginRequest
<1> DEFINE c == [kind |-> "wait", req |-> n, pumped |-> FALSE]
<1>2. c \in Pumps \cup Waits /\ c.kind = "wait"
    BY DEF Waits
<1> HIDE DEF c
<1>3. /\ Len(calls') = Len(calls) + 1 /\ calls'[Len(calls) + 1] = c
      /\ \A k \in 1 .. Len(calls) : calls'[k] = calls[k]
    BY <1>1, <1>2, PushFacts DEF TypeOK, c
<1>4. Len(calls) \in Nat
    BY PositionTypes
<1>5. ~PumpAt(calls', Len(calls) + 1) /\ \A k \in 1 .. Len(calls) : PumpAt(calls',
k) <=> PumpAt(calls, k)
    BY <1>2, <1>3 DEF PumpAt
<1>6. processing' <=> \E k \in 1 .. Len(calls') : PumpAt(calls', k)
    BY <1>3, <1>4, <1>5 DEF StackInv
<1>7. ASSUME NEW k \in 1 .. Len(calls'), PumpAt(calls', k)
      PROVE  calls'[k].outermost <=> \A j \in 1 .. (k - 1) : ~PumpAt(calls', j)
    <2>1. k \in 1 .. Len(calls)
        BY <1>3, <1>4, <1>5, <1>7
    <2> QED
        BY <1>3, <1>4, <1>5, <1>7, <2>1 DEF StackInv
<1> QED
    BY <1>6, <1>7 DEF StackInv

(* Entering the pump.                                                      *)
LEMMA StackEnter ==
    ASSUME TypeOK, StackInv, NEW stack \in Seq(Pumps \cup Waits), SamePumps(stack),
           EnterPump(stack)
    PROVE  StackInv'
<1>1. CASE closed \/ eof \/ Overflow
    BY <1>1, StackFrame DEF EnterPump
<1>2. CASE ~(closed \/ eof \/ Overflow)
    <2> DEFINE c == [kind |-> "pump", outermost |-> ~processing]
    <2>1. c \in Pumps \cup Waits /\ c.kind = "pump" /\ (c.outermost <=> ~processing)
        BY ZenonT(60) DEF Pumps, TypeOK
    <2>2. calls' = Append(stack, c) /\ processing'
        BY <1>2 DEF EnterPump
    <2> HIDE DEF c
    <2>3. /\ Len(calls') = Len(calls) + 1 /\ calls'[Len(calls) + 1] = c
          /\ \A k \in 1 .. Len(calls) : calls'[k] = stack[k]
        BY <2>1, <2>2, PushFacts DEF SamePumps
    <2>4. Len(calls) \in Nat
        BY PositionTypes
    <2>5. PumpAt(calls', Len(calls) + 1) /\ \A k \in 1 .. Len(calls) : PumpAt(calls',
    k) <=> PumpAt(calls, k)
        BY <2>1, <2>3, SMTT(60), Z3T(60) DEF PumpAt, SamePumps
    <2>6. processing' <=> \E k \in 1 .. Len(calls') : PumpAt(calls', k)
        BY <2>2, <2>3, <2>4, <2>5
    <2>7. ASSUME NEW k \in 1 .. Len(calls'), PumpAt(calls', k)
          PROVE  calls'[k].outermost <=> \A j \in 1 .. (k - 1) : ~PumpAt(calls', j)
        <3>1. CASE k = Len(calls) + 1
            <4>1. calls'[k].outermost <=> ~processing
                BY <2>1, <2>3, <3>1
            <4> QED
                BY <2>4, <2>5, <3>1, <4>1 DEF StackInv
        <3>2. CASE k # Len(calls) + 1
            <4>1. k \in 1 .. Len(calls) /\ PumpAt(calls, k)
                BY <2>3, <2>4, <2>5, <2>7, <3>2
            <4>2. calls'[k].outermost = calls[k].outermost
                BY <2>3, <4>1 DEF SamePumps, PumpAt
            <4> QED
                BY <2>4, <2>5, <4>1, <4>2, SMTT(60), Z3T(60) DEF StackInv
        <3> QED
            BY <3>1, <3>2
    <2> QED
        BY <2>6, <2>7, SMTT(60), Z3T(60) DEF StackInv
<1> QED
    BY <1>1, <1>2

(* Returning: of a wait, or of a pump that erases if it is the lowest.     *)
LEMMA StackPop ==
    ASSUME TypeOK, StackInv, calls # <<>>, calls' = Pop,
           \/ Running("wait") /\ UNCHANGED processing
           \/ Running("pump") /\ EraseConsumed
    PROVE  StackInv'
<1> DEFINE n == Len(calls)
<1>1. /\ n \in Nat \ {0} /\ Len(calls') = n - 1
      /\ \A k \in 1 .. (n - 1) : calls'[k] = calls[k]
    BY PopFacts DEF TypeOK
<1>2. \A k \in 1 .. (n - 1) : PumpAt(calls', k) <=> PumpAt(calls, k)
    BY <1>1 DEF PumpAt
<1>3. ASSUME NEW k \in 1 .. Len(calls'), PumpAt(calls', k)
      PROVE  calls'[k].outermost <=> \A j \in 1 .. (k - 1) : ~PumpAt(calls', j)
    <2>1. k \in 1 .. Len(calls) /\ PumpAt(calls, k) /\ calls'[k] = calls[k]
        BY <1>1, <1>2, <1>3
    <2>2. \A j \in 1 .. (k - 1) : PumpAt(calls', j) <=> PumpAt(calls, j)
        BY <1>1, <1>2
    <2> QED
        BY <2>1, <2>2 DEF StackInv
<1>4. processing' <=> \E k \in 1 .. (n - 1) : PumpAt(calls, k)
    <2>1. CASE Running("wait") /\ UNCHANGED processing
        <3>1. ~PumpAt(calls, n)
            BY <2>1 DEF Running, Top, PumpAt
        <3> QED
            BY <1>1, <2>1, <3>1 DEF StackInv
    <2>2. CASE Running("pump") /\ EraseConsumed
        <3>1. PumpAt(calls, n) /\ n \in 1 .. Len(calls)
            BY <1>1, <2>2 DEF Running, Top, PumpAt
        <3>2. Top.outermost <=> \A j \in 1 .. (n - 1) : ~PumpAt(calls, j)
            BY <3>1 DEF StackInv, Top
        <3>3. processing
            BY <3>1 DEF StackInv
        <3>4. processing' <=> ~Top.outermost
            BY <2>2, <3>3, ZenonT(60) DEF EraseConsumed
        <3> QED
            BY <3>2, <3>4
    <2> QED
        BY <2>1, <2>2
<1>5. processing' <=> \E k \in 1 .. Len(calls') : PumpAt(calls', k)
    BY <1>1, <1>2, <1>4
<1> QED
    BY <1>3, <1>5 DEF StackInv

LEMMA StackStep ==
    TypeOK /\ StackInv /\ [Next]_vars => StackInv'
<1> SUFFICES ASSUME TypeOK, StackInv, [Next]_vars PROVE StackInv'
    OBVIOUS
<1>1. CASE Request
    BY <1>1, StackBegin DEF Request, bufVars
<1>2. SamePumps(calls)
    BY DEF SamePumps
<1>3. CASE LoopPump
    BY <1>2, <1>3, StackEnter, ZenonT(60) DEF LoopPump, TypeOK
<1>4. CASE WaitPump
    <2>1. Pumping \in Seq(Pumps \cup Waits) /\ SamePumps(Pumping) /\ EnterPump(Pumping)
        BY <1>4, PumpingFacts, SMTT(60), Z3T(60) DEF WaitPump, Pumping, SamePumps, TypeOK
    <2> QED
        BY <2>1, StackEnter
<1>5. CASE UNCHANGED <<processing, calls>>
    BY <1>5 DEF StackInv, PumpAt
<1>6. CASE DispatchNotification
    <2>1. UNCHANGED processing
        BY <1>6 DEF DispatchNotification
    <2>2. UNCHANGED calls \/ BeginRequest(calls)
        BY <1>6 DEF DispatchNotification
    <2> QED
        BY <1>5, <2>1, <2>2, StackBegin
<1>7. CASE InvalidFrame \/ PumpReturns
    BY <1>7, StackPop DEF InvalidFrame, PumpReturns, Running
<1>8. CASE WaitReturns \/ WaitTimesOut
    BY <1>8, StackPop, SMTT(60), Z3T(60) DEF WaitReturns, WaitTimesOut, Running, bufVars
<1>9. Worker \/ DispatchResponse \/ UNCHANGED vars => UNCHANGED <<processing, calls>>
    BY ZenonT(60) DEF Worker, WorkerResponds, WorkerNotifies, WorkerContinues, WorkerDies,
           DispatchResponse, vars, bufVars
<1> QED
    BY <1>1, <1>3, <1>4, <1>5, <1>6, <1>7, <1>8, <1>9 DEF Next, Inside

-----------------------------------------------------------------------------
(* Every message once, in order *)

LEMMA BufferFrame ==
    ASSUME BufferInv, UNCHANGED <<received, erased, offset, dispatched>>,
           processing => processing', closed => closed', eof => eof'
    PROVE  BufferInv'
BY DEF BufferInv, DispatchedInOrder, BufLen

(* A dispatched message is the next one of the stream.                     *)
LEMMA CurrentIsNext ==
    ASSUME TypeOK, BufferInv
    PROVE  CurrentMsg = Len(dispatched) + 1
<1>1. Len(dispatched) \in Nat /\ erased + offset = 2 * Len(dispatched)
    BY PositionTypes DEF BufferInv, FrameLen
<1> QED
    BY <1>1 DEF CurrentMsg, FrameLen

LEMMA BufferDispatch ==
    TypeOK /\ StackInv /\ BufferInv /\ (DispatchResponse \/ DispatchNotification)
        => BufferInv'
<1> SUFFICES ASSUME TypeOK, StackInv, BufferInv, DispatchResponse \/ DispatchNotification
             PROVE  BufferInv'
    OBVIOUS
<1>1. /\ offset' = offset + FrameLen /\ dispatched' = Append(dispatched, CurrentMsg)
      /\ erased' = erased /\ processing' = processing /\ Running("pump")
    BY ZenonT(60) DEF DispatchResponse, DispatchNotification, Advance
<1>2. processing'
    <2>1. calls # <<>> /\ PumpAt(calls, Len(calls))
        BY <1>1 DEF Running, Top, PumpAt
    <2>2. Len(calls) \in 1 .. Len(calls)
        BY <2>1, SMTT(60), Z3T(60) DEF TypeOK
    <2> QED
        BY <1>1, <2>1, <2>2 DEF StackInv
<1>3. /\ dispatched \in Seq(Nat) /\ Len(dispatched) \in Nat
      /\ dispatched' = Append(dispatched, Len(dispatched) + 1)
    BY <1>1, CurrentIsNext, SMTT(60), Z3T(60) DEF TypeOK
<1>4. /\ Len(dispatched') = Len(dispatched) + 1
      /\ \A k \in 1 .. Len(dispatched') : dispatched'[k] = k
    BY <1>3 DEF BufferInv, DispatchedInOrder
<1>5. erased' + offset' = FrameLen * Len(dispatched')
    BY <1>1, <1>3, <1>4, PositionTypes, SMTT(60), Z3T(60) DEF BufferInv, FrameLen
<1> QED
    BY <1>2, <1>4, <1>5 DEF BufferInv, DispatchedInOrder

(* The loop ends for want of a complete message, or closes the channel.    *)
LEMMA BufferPumpReturns ==
    TypeOK /\ StackInv /\ BufferInv /\ (InvalidFrame \/ PumpReturns) => BufferInv'
<1> SUFFICES ASSUME TypeOK, StackInv, BufferInv, InvalidFrame \/ PumpReturns
             PROVE  BufferInv'
    OBVIOUS
<1>1. /\ EraseConsumed /\ UNCHANGED <<received, dispatched, eof>> /\ Running("pump")
      /\ ~Complete \/ closed'
    BY DEF InvalidFrame, PumpReturns, CloseChannel, workerVars
<1>2. erased' + offset' = FrameLen * Len(dispatched')
    BY <1>1, EraseFacts DEF BufferInv
<1>3. processing
    <2>1. calls # <<>> /\ PumpAt(calls, Len(calls))
        BY <1>1 DEF Running, Top, PumpAt
    <2>2. Len(calls) \in 1 .. Len(calls)
        BY <2>1 DEF TypeOK
    <2> QED
        BY <2>1, <2>2 DEF StackInv
<1>4. ~processing' => erased' = erased + offset /\ offset' = 0
    BY <1>1, <1>3, ZenonT(60) DEF EraseConsumed
<1>5. ~processing' /\ BufLen' >= FrameLen => closed'
    BY <1>1, <1>4, PositionTypes, SMTT(60), Z3T(60) DEF Complete, BufLen, FrameLen
<1> QED
    BY <1>1, <1>2, <1>4, <1>5 DEF BufferInv, DispatchedInOrder

LEMMA BufferPump ==
    TypeOK /\ BufferInv /\ (LoopPump \/ WaitPump) => BufferInv'
<1> SUFFICES ASSUME TypeOK, BufferInv, LoopPump \/ WaitPump
             PROVE  BufferInv'
    OBVIOUS
<1>1. /\ Reads /\ UNCHANGED <<eof, erased, dispatched>>
      /\ offset' = offset \/ (~processing /\ offset' = 0)
      /\ closed \/ Overflow => closed'
    BY PumpFacts
<1>2. offset' = offset
    BY <1>1 DEF BufferInv
<1>3. processing' \/ (~processing' /\ ~processing /\ (closed' \/ eof'))
    <2>1. PICK stack : EnterPump(stack)
        BY ZenonT(60) DEF LoopPump, WaitPump
    <2>2. processing' \/ (processing' = processing /\ (closed \/ eof \/ Overflow))
        BY <2>1 DEF EnterPump
    <2> QED
        BY <1>1, <2>2 DEF TypeOK
<1> QED
    BY <1>1, <1>2, <1>3 DEF BufferInv, DispatchedInOrder

LEMMA BufferStep ==
    TypeOK /\ StackInv /\ BufferInv /\ [Next]_vars => BufferInv'
<1> SUFFICES ASSUME TypeOK, StackInv, BufferInv, [Next]_vars PROVE BufferInv'
    OBVIOUS
<1>1. CASE Request
    BY <1>1, BufferFrame, ClosedStays, SMTT(60), Z3T(60) DEF Request, bufVars, workerVars
<1>2. CASE WaitReturns \/ WaitTimesOut
    BY <1>2, BufferFrame DEF WaitReturns, WaitTimesOut, bufVars, workerVars, reqVars
<1>3. CASE Worker
    <2>1. eof => eof'
        BY <1>3, SMTT(60), Z3T(60)
           DEF Worker, WorkerResponds, WorkerNotifies, WorkerContinues, WorkerDies, Write
    <2>2. UNCHANGED <<received, erased, offset, processing, closed, dispatched>>
        BY <1>3, ZenonT(60) DEF Worker, WorkerResponds, WorkerNotifies, WorkerContinues, WorkerDies,
                    bufVars, reqVars
    <2> QED
        BY <2>1, <2>2, BufferFrame, SMTT(60), Z3T(60)
<1>4. CASE UNCHANGED vars
    BY <1>4, BufferFrame DEF vars, bufVars, workerVars, reqVars
<1> QED
    BY <1>1, <1>2, <1>3, <1>4, BufferDispatch, BufferPumpReturns, BufferPump
    DEF Next, Inside

(* However activations of processAvailableData nest through requests made  *)
(* by notification callbacks, split frames, overflow and the worker's      *)
(* death: every message is dispatched once and in order, and none that is  *)
(* complete is left behind in a live channel when the loop is back.        *)
THEOREM MessagesAreConsumed ==
    Spec => []BufferIsConsumed
<1>1. Init => StackInv /\ BufferInv
    BY DEF Init, StackInv, BufferInv, DispatchedInOrder, BufLen, FrameLen
<1>2. TypeOK /\ StackInv /\ BufferInv => BufferIsConsumed
    BY SMTT(60), Z3T(60) DEF TypeOK, StackInv, BufferInv, BufferIsConsumed, IdleBufferIsDrained
<1> QED
    BY <1>1, <1>2, TypeInit, TypeStep, StackStep, BufferStep, PTL DEF Spec

-----------------------------------------------------------------------------
(* Promises *)

Awaited(stack, n) ==
    \E k \in 1 .. Len(stack) : stack[k].kind = "wait" /\ stack[k].req = n

PromiseInv == PendingIsAwaited /\ IssueInv

(* A complete frame is a message the worker has written.                   *)
LEMMA CurrentInRange ==
    ASSUME TypeOK, StreamInv, Complete
    PROVE  CurrentMsg \in 1 .. Len(msgs) /\ msgs[CurrentMsg] \in Message
<1>1. erased + offset + 2 <= 2 * Len(msgs)
    BY PositionTypes, SMTT(60), Z3T(60) DEF StreamInv, Complete, BufLen, FrameLen
<1>2. (erased + offset) \div 2 + 1 \in 1 .. Len(msgs)
    BY <1>1, PositionTypes, SMTT(60), Z3T(60)
<1>3. CurrentMsg \in 1 .. Len(msgs)
    BY <1>2 DEF CurrentMsg, FrameLen
<1> QED
    BY <1>3 DEF TypeOK

LEMMA ResponseFields ==
    ASSUME NEW m \in Message, m.kind = "response"
    PROVE  m.id \in Ids /\ m.to \in Requests /\ m.ok \in BOOLEAN
BY DEF Message

(* A promise is pending only with an entry in sents_, and closing rejects  *)
(* every entry.                                                            *)
LEMMA CloseSettlesAll ==
    ASSUME NEW pending, NEW out, CloseChannel(pending, out),
           \A n \in Requests : out[n] = "pending" => \E i \in Ids : pending[i] = n
    PROVE  /\ \A i \in Ids : sents'[i] = 0
           /\ \A n \in Requests : outcome'[n] = IF out[n] = "pending" THEN "closed" ELSE out[n]
<1>1. \A i \in Ids : sents'[i] = 0
    BY DEF CloseChannel
<1>2. ASSUME NEW n \in Requests
      PROVE  outcome'[n] = IF out[n] = "pending" THEN "closed" ELSE out[n]
    <2>1. outcome'[n] = IF \E i \in Ids : pending[i] = n /\ out[n] = "pending"
                        THEN "closed" ELSE out[n]
        BY DEF CloseChannel
    <2> QED
        BY <2>1
<1> QED
    BY <1>1, <1>2

(* Nothing is pending any more, whatever the stack is.                     *)
LEMMA NothingPending ==
    ASSUME \A i \in Ids : sents'[i] = 0,
           \A n \in Requests : outcome'[n] # "pending"
    PROVE  PendingIsAwaited'
<1>1. 0 \notin Requests
    BY DEF Requests
<1> QED
    BY <1>1 DEF PendingIsAwaited

(* The channel is closed and no request begins.                            *)
LEMMA PromiseClose ==
    ASSUME TypeOK, PromiseInv, CloseChannel(sents, outcome), UNCHANGED issued
    PROVE  PromiseInv'
<1>1. /\ \A i \in Ids : sents'[i] = 0
      /\ \A n \in Requests :
           outcome'[n] = IF outcome[n] = "pending" THEN "closed" ELSE outcome[n]
    BY CloseSettlesAll, SMTT(60), Z3T(60) DEF PromiseInv, PendingIsAwaited
<1>2. PendingIsAwaited'
    BY <1>1, NothingPending
<1>3. IssueInv'
    <2>1. issued \in 0 .. MaxRequests
        BY DEF TypeOK
    <2>2. \A i \in Ids : sents'[i] <= issued'
        BY <1>1, <2>1
    <2>3. \A n \in Requests : n > issued' <=> outcome'[n] = "unissued"
        BY <1>1 DEF PromiseInv, IssueInv
    <2> QED
        BY <2>2, <2>3 DEF IssueInv
<1> QED
    BY <1>2, <1>3, SMTT(60), Z3T(60) DEF PromiseInv

(* The promises do not change, and the waits are still on the stack.       *)
LEMMA PromiseFrame ==
    ASSUME PromiseInv, UNCHANGED <<sents, outcome, issued>>,
           \A n \in Requests :
             outcome[n] = "pending" /\ Awaited(calls, n) => Awaited(calls', n)
    PROVE  PromiseInv'
<1>1. \A n \in Requests : outcome[n] = "pending" => Awaited(calls', n)
    BY SMTT(60), Z3T(60) DEF PromiseInv, PendingIsAwaited, Awaited
<1>2. PendingIsAwaited'
    BY <1>1 DEF PromiseInv, PendingIsAwaited, Awaited
<1>3. IssueInv'
    BY DEF PromiseInv, IssueInv
<1> QED
    BY <1>2, <1>3 DEF PromiseInv

(* A request begins: its promise is new, its id was free.                  *)
LEMMA PromiseBegin ==
    ASSUME TypeOK, PromiseInv, BeginRequest(calls)
    PROVE  PromiseInv'
<1> DEFINE n == issued + 1
           c == [kind |-> "wait", req |-> n, pumped |-> FALSE]
<1>1. PICK i \in Ids :
        /\ n \in Requests /\ sents[i] = 0 /\ issued' = n
        /\ calls' = Append(calls, c)
        /\ IF eof
           THEN CloseChannel([sents EXCEPT ![i] = n], [outcome EXCEPT ![n] = "pending"])
           ELSE /\ sents' = [sents EXCEPT ![i] = n]
                /\ outcome' = [outcome EXCEPT ![n] = "pending"]
    BY ZenonT(60) DEF BeginRequest, FreeId
<1>2. /\ issued \in Nat /\ n \in Nat /\ n > issued /\ n # 0
      /\ sents \in [Ids -> 0 .. MaxRequests]
      /\ outcome \in [Requests -> {"unissued", "pending"} \cup Settled]
      /\ Requests \subseteq Nat
    BY DEF TypeOK, Requests
<1>3. \A j \in Ids : sents[j] # n
    BY <1>2 DEF PromiseInv, IssueInv
<1>4. \A m \in Requests : m > n <=> m # n /\ m > issued
    BY <1>2
<1>5. c \in Pumps \cup Waits /\ c.kind = "wait" /\ c.req = n
    BY <1>1 DEF Waits
<1>6. \A m \in Requests : m = n \/ Awaited(calls, m) => Awaited(calls', m)
    <2> HIDE DEF c
    <2>1. /\ Len(calls') = Len(calls) + 1 /\ calls'[Len(calls) + 1] = c
          /\ \A k \in 1 .. Len(calls) : calls'[k] = calls[k]
          /\ Len(calls) \in Nat
        BY <1>1, <1>5, PushFacts, PositionTypes, SMTT(60), Z3T(60) DEF TypeOK
    <2>2. Awaited(calls', n)
        BY <1>5, <2>1 DEF Awaited
    <2> QED
        BY <2>1, <2>2, SMTT(60), Z3T(60) DEF Awaited
<1> DEFINE pending == [sents EXCEPT ![i] = n]
           out == [outcome EXCEPT ![n] = "pending"]
<1>7. /\ \A j \in Ids : pending[j] = IF j = i THEN n ELSE sents[j]
      /\ \A m \in Requests : out[m] = IF m = n THEN "pending" ELSE outcome[m]
    BY <1>2, SMTT(60), Z3T(60)
<1>8. IF eof THEN CloseChannel(pending, out) ELSE sents' = pending /\ outcome' = out
    BY <1>1, SMTT(60), Z3T(60)
<1> HIDE DEF n, c, pending, out
<1>9. CASE eof
    <2>1. \A m \in Requests : out[m] = "pending" => \E j \in Ids : pending[j] = m
        <3>1. 0 \notin Requests
            BY DEF Requests
        <3> QED
            BY <1>1, <1>7, <3>1, SMTT(60), Z3T(60) DEF PromiseInv, PendingIsAwaited
    <2>2. /\ \A j \in Ids : sents'[j] = 0
          /\ \A m \in Requests : outcome'[m] = IF out[m] = "pending" THEN "closed" ELSE out[m]
        BY <1>8, <1>9, <2>1, CloseSettlesAll, SMTT(60), Z3T(60)
    <2>3. PendingIsAwaited'
        BY <2>2, NothingPending
    <2>4. \A m \in Requests : m > issued' <=> outcome'[m] = "unissued"
        BY <1>1, <1>4, <1>7, <2>2 DEF PromiseInv, IssueInv
    <2> QED
        BY <1>1, <1>2, <2>2, <2>3, <2>4, SMTT(60), Z3T(60) DEF PromiseInv, IssueInv
<1>10. CASE ~eof
    <2>1. sents' = pending /\ outcome' = out
        BY <1>8, <1>10
    <2>2. IssueInv'
        <3>1. ASSUME NEW j \in Ids PROVE sents'[j] <= issued'
            <4>1. sents[j] \in Nat /\ sents[j] <= issued
                BY <1>2 DEF PromiseInv, IssueInv
            <4> QED
                BY <1>1, <1>2, <1>7, <2>1, <4>1
        <3>2. \A m \in Requests : m > issued' <=> outcome'[m] = "unissued"
            BY <1>1, <1>4, <1>7, <2>1, SMTT(60), Z3T(60) DEF PromiseInv, IssueInv
        <3> QED
            BY <3>1, <3>2 DEF IssueInv
    <2>3. ASSUME NEW m \in Requests
          PROVE  /\ outcome'[m] = "pending" <=> \E j \in Ids : sents'[j] = m
                 /\ \A j, k \in Ids : sents'[j] = m /\ sents'[k] = m => j = k
                 /\ outcome'[m] = "pending" => Awaited(calls', m)
        <3>1. CASE m = n
            BY <1>1, <1>3, <1>6, <1>7, <2>1, <3>1, SMTT(60), Z3T(60)
        <3>2. CASE m # n
            <4>1. outcome'[m] = outcome[m] /\ \A j \in Ids : sents'[j] = m <=> sents[j] = m
                BY <1>1, <1>7, <2>1, <2>3, <3>2, SMTT(60), Z3T(60) DEF Requests
            <4>2. outcome[m] = "pending" => Awaited(calls', m)
                BY <1>6 DEF PromiseInv, PendingIsAwaited, Awaited
            <4> QED
                BY <4>1, <4>2 DEF PromiseInv, PendingIsAwaited
        <3> QED
            BY <3>1, <3>2, SMTT(60), Z3T(60)
    <2>4. PendingIsAwaited'
        BY <2>3 DEF PendingIsAwaited, Awaited
    <2> QED
        BY <2>2, <2>4 DEF PromiseInv
<1> QED
    BY <1>9, <1>10, SMTT(60), Z3T(60)

(* The promise n gets another state, and its entry is erased.              *)
LEMMA PromiseSettle ==
    ASSUME TypeOK, PromiseInv, UNCHANGED issued,
           NEW n \in Requests, outcome[n] = "pending", NEW v \in Settled,
           outcome' = [outcome EXCEPT ![n] = v],
           \A i \in Ids : sents'[i] = IF sents[i] = n THEN 0 ELSE sents[i],
           \A m \in Requests : m # n /\ Awaited(calls, m) => Awaited(calls', m)
    PROVE  PromiseInv'
<1>1. /\ v # "pending" /\ v # "unissued" /\ 0 \notin Requests
      /\ issued \in 0 .. MaxRequests
    BY DEF Settled, Requests, TypeOK
<1>2. \A m \in Requests : outcome'[m] = IF m = n THEN v ELSE outcome[m]
    BY SMTT(60), Z3T(60) DEF TypeOK
<1>3. IssueInv'
    <2>1. \A i \in Ids : sents'[i] <= issued'
        BY <1>1 DEF PromiseInv, IssueInv
    <2>2. \A m \in Requests : m > issued' <=> outcome'[m] = "unissued"
        BY <1>1, <1>2, SMTT(60), Z3T(60) DEF PromiseInv, IssueInv
    <2> QED
        BY <2>1, <2>2 DEF IssueInv
<1>4. ASSUME NEW m \in Requests
      PROVE  /\ outcome'[m] = "pending" <=> \E j \in Ids : sents'[j] = m
             /\ \A j, k \in Ids : sents'[j] = m /\ sents'[k] = m => j = k
             /\ outcome'[m] = "pending" => Awaited(calls', m)
    <2>1. CASE m = n
        BY <1>1, <1>2, <2>1, SMTT(60), Z3T(60)
    <2>2. CASE m # n
        <3>1. outcome'[m] = outcome[m] /\ \A j \in Ids : sents'[j] = m <=> sents[j] = m
            BY <1>1, <1>2, <2>2
        <3>2. outcome[m] = "pending" => Awaited(calls', m)
            BY <2>2, SMTT(60), Z3T(60) DEF PromiseInv, PendingIsAwaited, Awaited
        <3> QED
            BY <3>1, <3>2 DEF PromiseInv, PendingIsAwaited
    <2> QED
        BY <2>1, <2>2, SMTT(60), Z3T(60)
<1>5. PendingIsAwaited'
    BY <1>4, SMTT(60), Z3T(60) DEF PendingIsAwaited, Awaited
<1> QED
    BY <1>3, <1>5 DEF PromiseInv

(* The response settles the request registered under its id, which is      *)
(* pending under no other.                                                 *)
LEMMA ResponseSettles ==
    ASSUME TypeOK, StreamInv, PromiseInv, DispatchResponse, NEW m, m = msgs[CurrentMsg]
    PROVE  /\ m \in Message /\ m.kind = "response" /\ m.id \in Ids
           /\ \/ sents[m.id] = 0 /\ UNCHANGED <<sents, outcome>>
              \/ \E n \in Requests, v \in Settled :
                   /\ n = sents[m.id] /\ outcome[n] = "pending"
                   /\ v = IF m.ok THEN "accepted" ELSE "refused"
                   /\ outcome' = [outcome EXCEPT ![n] = v]
                   /\ \A i \in Ids : sents'[i] = IF sents[i] = n THEN 0 ELSE sents[i]
<1>1. m \in Message /\ m.kind = "response"
    BY CurrentInRange DEF DispatchResponse
<1>2. m.id \in Ids
    BY <1>1, ResponseFields, SMTT(60), Z3T(60)
<1>3. CASE sents[m.id] = 0
    BY <1>1, <1>2, <1>3, ZenonT(60) DEF DispatchResponse
<1>4. CASE sents[m.id] # 0
    <2> DEFINE n == sents[m.id]
               v == IF m.ok THEN "accepted" ELSE "refused"
    <2>1. n \in Requests
        BY <1>2, <1>4, BoundsAssumption DEF TypeOK, Requests
    <2>2. outcome[n] = "pending" /\ \A i \in Ids : sents[i] = n => i = m.id
        BY <1>2, <2>1 DEF PromiseInv, PendingIsAwaited
    <2>3. /\ sents' = [sents EXCEPT ![m.id] = 0]
          /\ outcome' = [outcome EXCEPT ![n] = v]
        BY <1>4 DEF DispatchResponse
    <2>4. \A i \in Ids : sents'[i] = IF sents[i] = n THEN 0 ELSE sents[i]
        BY <1>2, <2>2, <2>3 DEF TypeOK
    <2>5. v \in Settled
        BY DEF Settled
    <2> HIDE DEF n, v
    <2>6. n = sents[m.id] /\ v = IF m.ok THEN "accepted" ELSE "refused"
        BY DEF n, v
    <2> QED
        BY <1>1, <1>2, <2>1, <2>2, <2>3, <2>4, <2>5, <2>6, ZenonT(60)
<1> QED
    BY <1>3, <1>4, SMTT(60), Z3T(60)

LEMMA PopAwaited ==
    ASSUME TypeOK, Running("wait") \/ Running("pump"), calls' = Pop, NEW m \in Requests,
           Awaited(calls, m), Running("wait") => m # Top.req
    PROVE  Awaited(calls', m)
<1>1. /\ Len(calls) \in Nat \ {0} /\ Len(calls') = Len(calls) - 1
      /\ \A k \in 1 .. (Len(calls) - 1) : calls'[k] = calls[k]
    BY PopFacts DEF TypeOK, Running
<1>2. PICK k \in 1 .. Len(calls) : calls[k].kind = "wait" /\ calls[k].req = m
    BY DEF Awaited
<1>3. k # Len(calls)
    BY <1>2 DEF Running, Top
<1> QED
    BY <1>1, <1>2, <1>3 DEF Awaited

(* Entering the pump leaves every wait on the stack.                       *)
LEMMA EnterAwaited ==
    ASSUME TypeOK, LoopPump \/ WaitPump, NEW m \in Requests, Awaited(calls, m)
    PROVE  Awaited(calls', m)
<1>1. PICK stack \in Seq(Pumps \cup Waits) : EnterPump(stack) /\ Awaited(stack, m)
    <2>1. CASE LoopPump
        BY <2>1, ZenonT(60) DEF LoopPump, TypeOK
    <2>2. CASE WaitPump
        <3>1. /\ Pumping \in Seq(Pumps \cup Waits) /\ Len(Pumping) = Len(calls)
              /\ \A k \in 1 .. Len(calls) :
                   /\ Pumping[k].kind = calls[k].kind
                   /\ calls[k].kind = "wait" => Pumping[k].req = calls[k].req
            BY <2>2, PumpingFacts DEF WaitPump, TypeOK
        <3>2. Awaited(Pumping, m)
            BY <3>1, SMTT(60), Z3T(60) DEF Awaited
        <3>3. EnterPump(Pumping)
            BY <2>2, ZenonT(60) DEF WaitPump, Pumping
        <3> QED
            BY <3>1, <3>2, <3>3
    <2> QED
        BY <2>1, <2>2
<1>2. CASE calls' = stack
    BY <1>1, <1>2
<1>3. CASE calls' # stack
    <2> DEFINE c == [kind |-> "pump", outermost |-> ~processing]
    <2>1. c \in Pumps \cup Waits
        BY DEF Pumps, TypeOK
    <2>2. calls' = Append(stack, c)
        BY <1>1, <1>3 DEF EnterPump
    <2> HIDE DEF c
    <2>3. /\ Len(calls') = Len(stack) + 1 /\ Len(stack) \in Nat
          /\ \A k \in 1 .. Len(stack) : calls'[k] = stack[k]
        BY <2>1, <2>2, PushFacts
    <2> QED
        BY <1>1, <2>3, SMTT(60), Z3T(60) DEF Awaited
<1> QED
    BY <1>2, <1>3

(* Everything but a request that begins leaves the waits below the running *)
(* call where they are.                                                    *)
LEMMA PromiseReturn ==
    TypeOK /\ PromiseInv /\ (InvalidFrame \/ PumpReturns \/ WaitReturns \/ WaitTimesOut)
        => PromiseInv'
<1> SUFFICES ASSUME TypeOK, PromiseInv,
                    InvalidFrame \/ PumpReturns \/ WaitReturns \/ WaitTimesOut
             PROVE  PromiseInv'
    OBVIOUS
<1>1. CASE InvalidFrame
    BY <1>1, PromiseClose DEF InvalidFrame
<1>2. CASE PumpReturns
    <2>1. ~Running("wait")
        BY <1>2 DEF PumpReturns, Running
    <2>2. \A m \in Requests : Awaited(calls, m) => Awaited(calls', m)
        BY <1>2, <2>1, PopAwaited, SMTT(60), Z3T(60) DEF PumpReturns
    <2> QED
        BY <1>2, <2>2, PromiseFrame DEF PumpReturns, reqVars
<1>3. CASE WaitReturns
    <2>1. \A m \in Requests :
            outcome[m] = "pending" /\ Awaited(calls, m) => Awaited(calls', m)
        BY <1>3, PopAwaited, SMTT(60), Z3T(60) DEF WaitReturns
    <2> QED
        BY <1>3, <2>1, PromiseFrame, SMTT(60), Z3T(60) DEF WaitReturns, reqVars
<1>4. CASE WaitTimesOut
    <2>1. calls # <<>> /\ Top.kind = "wait" /\ calls \in Seq(Pumps \cup Waits)
        BY <1>4 DEF WaitTimesOut, Running, TypeOK
    <2>2. Top.req \in Requests
        BY <2>1, PopFacts DEF Pumps, Waits
    <2>3. \A m \in Requests : m # Top.req /\ Awaited(calls, m) => Awaited(calls', m)
        BY <1>4, PopAwaited DEF WaitTimesOut
    <2>4. \A i \in Ids : sents'[i] = IF sents[i] = Top.req THEN 0 ELSE sents[i]
        BY <1>4 DEF WaitTimesOut, ForgetRequest
    <2>5. "timeout" \in Settled
        BY DEF Settled
    <2>6. /\ outcome[Top.req] = "pending" /\ UNCHANGED issued
          /\ outcome' = [outcome EXCEPT ![Top.req] = "timeout"]
        BY <1>4 DEF WaitTimesOut
    <2> QED
        BY <2>2, <2>3, <2>4, <2>5, <2>6, PromiseSettle, ZenonT(60)
<1> QED
    BY <1>1, <1>2, <1>3, <1>4

LEMMA PromiseStep ==
    TypeOK /\ StreamInv /\ PromiseInv /\ [Next]_vars => PromiseInv'
<1> SUFFICES ASSUME TypeOK, StreamInv, PromiseInv, [Next]_vars PROVE PromiseInv'
    OBVIOUS
<1>1. CASE Request
    BY <1>1, PromiseBegin DEF Request
<1>2. CASE LoopPump \/ WaitPump
    <2>1. UNCHANGED issued /\ (CloseChannel(sents, outcome) \/ UNCHANGED <<closed, sents, outcome>>)
        BY <1>2, PumpFacts
    <2>2. CASE CloseChannel(sents, outcome)
        BY <2>1, <2>2, PromiseClose
    <2>3. CASE UNCHANGED <<closed, sents, outcome>>
        BY <1>2, <2>1, <2>3, EnterAwaited, PromiseFrame
    <2> QED
        BY <2>1, <2>2, <2>3
<1>3. CASE DispatchNotification
    <2>1. CASE UNCHANGED <<reqVars, calls, inbox>>
        BY <2>1, PromiseFrame DEF reqVars
    <2> QED
        BY <1>3, <2>1, PromiseBegin DEF DispatchNotification
<1>4. CASE DispatchResponse
    <2>1. UNCHANGED <<issued, calls>>
        BY <1>4 DEF DispatchResponse
    <2>2. CASE UNCHANGED <<sents, outcome>>
        BY <2>1, <2>2, PromiseFrame, SMTT(60), Z3T(60)
    <2>3. CASE ~UNCHANGED <<sents, outcome>>
        <3>1. PICK n \in Requests, v \in Settled :
                /\ outcome[n] = "pending" /\ outcome' = [outcome EXCEPT ![n] = v]
                /\ \A i \in Ids : sents'[i] = IF sents[i] = n THEN 0 ELSE sents[i]
            BY <1>4, <2>3, ResponseSettles
        <3> QED
            BY <2>1, <3>1, PromiseSettle, ZenonT(60)
    <2> QED
        BY <2>2, <2>3
<1>5. CASE Worker \/ UNCHANGED vars
    <2>1. UNCHANGED <<sents, outcome, issued, calls>>
        BY <1>5, ZenonT(60) DEF Worker, WorkerResponds, WorkerNotifies, WorkerContinues, WorkerDies,
                    vars, reqVars
    <2> QED
        BY <2>1, PromiseFrame
<1> QED
    BY <1>1, <1>2, <1>3, <1>4, <1>5, PromiseReturn DEF Next, Inside

LEMMA PromiseInit ==
    Init => PromiseInv
<1> SUFFICES ASSUME Init PROVE PromiseInv
    OBVIOUS
<1>1. PendingIsAwaited
    BY DEF Init, PendingIsAwaited, Requests
<1>2. IssueInv
    BY DEF Init, IssueInv, Requests
<1> QED
    BY <1>1, <1>2 DEF PromiseInv

(* A promise is pending exactly while it is registered under one id, and   *)
(* then the wait that will settle it or time it out is on the stack:       *)
(* responses, timeouts, closes and nested requests never leave one behind. *)
THEOREM PendingRequestsAreAwaited ==
    Spec => []PendingIsAwaited
<1>1. PromiseInv => PendingIsAwaited
    BY DEF PromiseInv
<1> QED
    BY <1>1, TypeInit, TypeStep, StreamInit, StreamStep, PromiseInit, PromiseStep, PTL
    DEF Spec

-----------------------------------------------------------------------------
(* Every promise is settled once *)

(* A request that begins changes no settled promise, and answers none.     *)
LEMMA BeginKeeps ==
    ASSUME TypeOK, IssueInv, BeginRequest(calls), NEW n \in Requests,
           outcome[n] \in Settled \/ outcome'[n] \in {"accepted", "refused"}
    PROVE  outcome'[n] = outcome[n]
<1> DEFINE out == [outcome EXCEPT ![issued + 1] = "pending"]
<1>1. PICK pending : CloseChannel(pending, out) \/ outcome' = out
    BY ZenonT(60) DEF BeginRequest
<1>2. issued + 1 > issued
    BY DEF TypeOK
<1>4. n = issued + 1 => outcome[n] = "unissued"
    BY <1>2 DEF IssueInv
<1>5. out[n] = IF n = issued + 1 THEN "pending" ELSE outcome[n]
    BY SMTT(60), Z3T(60) DEF TypeOK
<1> HIDE DEF out
<1>6. outcome'[n] = out[n] \/ (out[n] = "pending" /\ outcome'[n] = "closed")
    BY <1>1, SMTT(60), Z3T(60) DEF CloseChannel
<1> QED
    BY <1>4, <1>5, <1>6 DEF Settled

(* Only the dispatch of a response gives a request its answer, and only    *)
(* pending requests are settled.                                           *)
LEMMA OutcomeStep ==
    ASSUME TypeOK, StreamInv, PromiseInv, [Next]_vars, NEW n \in Requests,
           outcome'[n] # outcome[n]
    PROVE  /\ outcome[n] \notin Settled
           /\ outcome'[n] \in {"accepted", "refused"} =>
                /\ DispatchResponse
                /\ n = sents[msgs[CurrentMsg].id]
                /\ outcome'[n] = IF msgs[CurrentMsg].ok THEN "accepted" ELSE "refused"
<1>1. CASE BeginRequest(calls)
    BY <1>1, BeginKeeps DEF PromiseInv
<1>2. CASE CloseChannel(sents, outcome)
    <2>1. outcome[n] = "pending" /\ outcome'[n] = "closed"
        BY <1>2, SMTT(60), Z3T(60) DEF CloseChannel
    <2> QED
        BY <2>1 DEF Settled
<1>3. CASE DispatchResponse
    <2>1. PICK m : m = msgs[CurrentMsg]
        BY SMTT(60), Z3T(60)
    <2>2. PICK p \in Requests, v \in Settled :
            /\ p = sents[m.id] /\ outcome[p] = "pending"
            /\ v = IF m.ok THEN "accepted" ELSE "refused"
            /\ outcome' = [outcome EXCEPT ![p] = v]
        BY <1>3, <2>1, ResponseSettles, SMTT(60), Z3T(60)
    <2>3. p = n /\ outcome'[n] = v
        BY <2>2, SMTT(60), Z3T(60) DEF TypeOK
    <2>4. outcome[n] \notin Settled
        BY <2>2, <2>3, SMTT(60), Z3T(60) DEF Settled
    <2> QED
        BY <1>3, <2>1, <2>2, <2>3, <2>4
<1>4. CASE WaitTimesOut
    <2>1. n = Top.req /\ outcome[n] = "pending" /\ outcome'[n] = "timeout"
        BY <1>4, SMTT(60), Z3T(60) DEF WaitTimesOut, TypeOK
    <2> QED
        BY <2>1, SMTT(60), Z3T(60) DEF Settled
<1>5. BeginRequest(calls) \/ CloseChannel(sents, outcome) \/ DispatchResponse \/ WaitTimesOut
    <2>1. CASE Worker \/ WaitReturns \/ PumpReturns \/ UNCHANGED vars
        BY <2>1, ZenonT(60) DEF Worker, WorkerResponds, WorkerNotifies, WorkerContinues, WorkerDies,
                    WaitReturns, PumpReturns, vars, reqVars
    <2>2. CASE Request \/ DispatchNotification
        BY <2>2, SMTT(60), Z3T(60) DEF Request, DispatchNotification, reqVars
    <2>3. CASE LoopPump \/ WaitPump \/ InvalidFrame
        BY <2>3, ZenonT(60) DEF LoopPump, WaitPump, InvalidFrame, reqVars
    <2> QED
        BY <2>1, <2>2, <2>3, SMTT(60), Z3T(60) DEF Next, Inside
<1> QED
    BY <1>1, <1>2, <1>3, <1>4, <1>5

(* A promise is settled at most once, in whatever order its response, its  *)
(* deadline and the close of the channel come.                             *)
THEOREM PromisesAreSettledOnce ==
    Spec => SettledOnce
<1>1. TypeOK /\ StreamInv /\ PromiseInv /\ [Next]_vars =>
        [\A n \in Requests : outcome[n] \in Settled => outcome'[n] = outcome[n]]_vars
    BY OutcomeStep, SMTT(60), Z3T(60)
<1> QED
    BY <1>1, TypeInit, TypeStep, StreamInit, StreamStep, PromiseInit, PromiseStep, PTL
    DEF Spec, SettledOnce

-----------------------------------------------------------------------------
(* Answers go to the requests they answer *)

(* Ids in use and answers under way stay whose they are while no request   *)
(* begins: an entry of sents_ stays or is erased.                          *)
LEMMA IdFrame ==
    ASSUME TypeOK, IdInv, UNCHANGED <<nextId, issued>>, inbox' \subseteq inbox,
           \A i \in Ids : sents'[i] = sents[i] \/ sents'[i] = 0,
           UNCHANGED msgs
    PROVE  IdInv'
<1>1. ASSUME NEW i \in Ids, NEW n, IdIsOf(i, n)
      PROVE  /\ n <= issued' /\ (n <= MaxId => i = n)
             /\ n > MaxId => sents'[i] = 0 \/ sents'[i] > MaxId
    BY <1>1, SMTT(60), Z3T(60) DEF IdIsOf
<1>2. \A i \in Ids : sents'[i] # 0 => IdIsOf(i, sents[i])'
    BY <1>1, SMTT(60), Z3T(60) DEF IdInv, IdIsOf
<1>3. \A r \in inbox' : IdIsOf(r[2], r[1])'
    <2> SUFFICES ASSUME NEW r \in inbox' PROVE IdIsOf(r[2], r[1])'
        BY ZenonT(60)
    <2>1. r[2] \in Ids /\ IdIsOf(r[2], r[1])
        BY SMTT(60), Z3T(60) DEF IdInv, TypeOK
    <2> QED
        BY <1>1, <2>1, SMTT(60), Z3T(60) DEF IdIsOf
<1>4. ASSUME NEW k \in 1 .. Len(msgs), msgs[k].kind = "response"
      PROVE  IdIsOf(msgs[k].id, msgs[k].to)'
    <2>1. msgs[k].id \in Ids /\ IdIsOf(msgs[k].id, msgs[k].to)
        BY <1>4, ResponseFields DEF IdInv, TypeOK
    <2> QED
        BY <1>1, <2>1, SMTT(60), Z3T(60) DEF IdIsOf
<1> QED
    BY <1>2, <1>3, <1>4, ZenonT(60) DEF IdInv

(* The ids of the first cycle are given out in order.                      *)
LEMMA FirstCycleId ==
    ASSUME TypeOK, IdInv, NEW i \in Ids, FreeId(i), issued + 1 <= MaxId
    PROVE  i = issued + 1
<1>1. /\ issued \in Nat /\ MaxId \in Nat \ {0} /\ issued < MaxId
      /\ sents \in [Ids -> 0 .. MaxRequests]
    BY BoundsAssumption DEF TypeOK
<1>2. nextId = issued
    BY <1>1 DEF IdInv
<1>3. issued % MaxId = issued
    BY <1>1
<1>4. NthId(1) = issued + 1
    BY <1>1, <1>2, <1>3 DEF NthId
<1>5. issued + 1 \in Ids
    BY <1>1 DEF Ids
<1>6. sents[issued + 1] = 0
    <2> SUFFICES ASSUME sents[issued + 1] # 0 PROVE FALSE
        OBVIOUS
    <2>1. sents[issued + 1] \in Nat /\ sents[issued + 1] <= issued
        BY <1>1, <1>5 DEF IdInv, IdIsOf
    <2>2. sents[issued + 1] <= MaxId
        BY <1>1, <2>1, SMTT(60), Z3T(60)
    <2>3. sents[issued + 1] = issued + 1
        BY <1>5, <2>2 DEF IdInv, IdIsOf
    <2> QED
        BY <1>1, <2>1, <2>3
<1>7. PICK d \in Ids : /\ i = NthId(d)
                       /\ \A e \in 1 .. (d - 1) : sents[NthId(e)] # 0
    BY DEF FreeId
<1>8. d = 1
    <2> SUFFICES ASSUME d # 1 PROVE FALSE
        OBVIOUS
    <2>1. 1 \in 1 .. (d - 1)
        BY <1>1, SMTT(60), Z3T(60) DEF Ids
    <2> QED
        BY <1>4, <1>6, <1>7, <2>1
<1> QED
    BY <1>4, <1>7, <1>8

(* A request begins.                                                       *)
LEMMA IdBegin ==
    ASSUME TypeOK, IdInv, BeginRequest(calls), UNCHANGED msgs
    PROVE  IdInv'
<1> DEFINE n == issued + 1
<1>1. PICK i \in Ids :
        /\ n \in Requests /\ FreeId(i) /\ sents[i] = 0
        /\ nextId' = i /\ issued' = n
        /\ inbox' \subseteq inbox \cup {<<n, i>>}
        /\ \A j \in Ids : sents'[j] = 0 \/ sents'[j] = IF j = i THEN n ELSE sents[j]
    <2>1. PICK i \in Ids :
            /\ n \in Requests /\ FreeId(i)
            /\ nextId' = i /\ issued' = n
            /\ IF eof
               THEN /\ CloseChannel([sents EXCEPT ![i] = n],
                                    [outcome EXCEPT ![n] = "pending"])
                    /\ UNCHANGED inbox
               ELSE /\ sents' = [sents EXCEPT ![i] = n]
                    /\ inbox' = inbox \cup {<<n, i>>}
        BY ZenonT(60) DEF BeginRequest
    <2>2. sents[i] = 0
        BY <2>1 DEF FreeId
    <2>3. inbox' \subseteq inbox \cup {<<n, i>>}
        BY <2>1
    <2>4. \A j \in Ids : sents'[j] = 0 \/ sents'[j] = IF j = i THEN n ELSE sents[j]
        BY <2>1 DEF CloseChannel, TypeOK
    <2> QED
        BY <2>1, <2>2, <2>3, <2>4, SMTT(60), Z3T(60)
<1>2. /\ issued \in Nat /\ n \in Nat /\ n = issued + 1 /\ MaxId \in Nat
      /\ sents \in [Ids -> 0 .. MaxRequests] /\ Requests \subseteq Nat
    BY BoundsAssumption DEF TypeOK, Requests
<1>3. n <= MaxId => i = n
    BY <1>1, FirstCycleId
<1> HIDE DEF n
<1>4. ASSUME NEW j \in Ids, NEW m \in Nat, IdIsOf(j, m)
      PROVE  /\ m <= n /\ (m <= MaxId => j = m)
             /\ m > MaxId => sents'[j] = 0 \/ sents'[j] > MaxId
    <2>1. m <= issued
        BY <1>4 DEF IdIsOf
    <2>2. m > MaxId => n > MaxId
        BY <1>2, <2>1
    <2> QED
        BY <1>1, <1>2, <1>4, <2>1, <2>2 DEF IdIsOf
<1>5. /\ n <= n /\ (n <= MaxId => i = n)
      /\ n > MaxId => sents'[i] = 0 \/ sents'[i] > MaxId
    BY <1>1, <1>2, <1>3
<1>6. issued' <= MaxId => nextId' = issued'
    BY <1>1, <1>3
<1>7. ASSUME NEW j \in Ids, sents'[j] # 0
      PROVE  IdIsOf(j, sents[j])'
    <2>1. CASE j = i
        BY <1>1, <1>5, <1>7, <2>1 DEF IdIsOf
    <2>2. CASE j # i
        <3>1. sents'[j] = sents[j] /\ sents[j] \in Nat /\ IdIsOf(j, sents[j])
            BY <1>1, <1>2, <1>7, <2>2 DEF IdInv
        <3> QED
            BY <1>1, <1>4, <3>1 DEF IdIsOf
    <2> QED
        BY <2>1, <2>2
<1>8. ASSUME NEW r \in inbox'
      PROVE  IdIsOf(r[2], r[1])'
    <2>1. CASE r = <<n, i>>
        <3>1. r[1] = n /\ r[2] = i
            BY <2>1
        <3> QED
            BY <1>1, <1>5, <3>1 DEF IdIsOf
    <2>2. CASE r # <<n, i>>
        <3>1. r \in inbox
            BY <1>1, <2>2, SMTT(60), Z3T(60)
        <3>2. r[2] \in Ids /\ r[1] \in Nat /\ IdIsOf(r[2], r[1])
            BY <1>2, <3>1, ZenonT(60) DEF IdInv, TypeOK
        <3> QED
            BY <1>1, <1>4, <3>2, SMTT(60), Z3T(60) DEF IdIsOf
    <2> QED
        BY <2>1, <2>2
<1>9. ASSUME NEW k \in 1 .. Len(msgs), msgs[k].kind = "response"
      PROVE  IdIsOf(msgs[k].id, msgs[k].to)'
    <2>1. /\ msgs[k].id \in Ids /\ msgs[k].to \in Nat
          /\ IdIsOf(msgs[k].id, msgs[k].to)
        <3>1. msgs[k] \in Message
            BY DEF TypeOK
        <3>2. msgs[k].id \in Ids /\ msgs[k].to \in Requests
            BY <1>9, <3>1, ResponseFields
        <3>3. IdIsOf(msgs[k].id, msgs[k].to)
            BY <1>9 DEF IdInv
        <3> QED
            BY <1>2, <3>2, <3>3, ZenonT(60)
    <2> QED
        BY <1>1, <1>4, <2>1 DEF IdIsOf
<1> QED
    BY <1>6, <1>7, <1>8, <1>9 DEF IdInv

LEMMA IdWorker ==
    TypeOK /\ IdInv /\ Worker => IdInv'
<1> SUFFICES ASSUME TypeOK, IdInv, Worker PROVE IdInv'
    OBVIOUS
<1>1. UNCHANGED <<nextId, issued, sents>>
    BY ZenonT(60) DEF Worker, WorkerResponds, WorkerNotifies, WorkerContinues, WorkerDies, reqVars
<1>2. CASE UNCHANGED msgs /\ inbox' \subseteq inbox
    BY <1>1, <1>2, IdFrame
<1>3. CASE WorkerContinues \/ WorkerDies
    <2>1. UNCHANGED msgs /\ inbox' \subseteq inbox
        BY <1>3, SMTT(60), Z3T(60) DEF WorkerContinues, WorkerDies
    <2> QED
        BY <1>2, <2>1
<1>4. CASE WorkerResponds \/ WorkerNotifies
    <2>1. PICK m : /\ msgs' = Append(msgs, m) /\ inbox' \subseteq inbox
                   /\ m.kind = "response" => IdIsOf(m.id, m.to)
        <3>1. CASE WorkerResponds
            <4>1. PICK r \in inbox, ok \in BOOLEAN :
                    /\ Write([kind |-> "response", id |-> r[2], to |-> r[1], ok |-> ok])
                    /\ inbox' = inbox \ {r}
                BY <3>1 DEF WorkerResponds
            <4> DEFINE m == [kind |-> "response", id |-> r[2], to |-> r[1], ok |-> ok]
            <4>2. msgs' = Append(msgs, m) /\ inbox' \subseteq inbox
                BY <4>1, SMTT(60), Z3T(60) DEF Write
            <4>3. m.id = r[2] /\ m.to = r[1] /\ IdIsOf(r[2], r[1])
                BY DEF IdInv
            <4>4. IdIsOf(m.id, m.to)
                BY <4>3
            <4> QED
                BY <4>2, <4>4
        <3>2. CASE WorkerNotifies
            <4>1. PICK k \in {"notification", "invalid"} : Write([kind |-> k])
                BY <3>2 DEF WorkerNotifies
            <4> DEFINE m == [kind |-> k]
            <4>2. msgs' = Append(msgs, m) /\ m.kind # "response"
                BY <4>1 DEF Write
            <4>3. inbox' \subseteq inbox
                BY <3>2, SMTT(60), Z3T(60) DEF WorkerNotifies
            <4> QED
                BY <4>2, <4>3
        <3> QED
            BY <1>4, <3>1, <3>2, SMTT(60), Z3T(60)
    <2>2. /\ Len(msgs) \in Nat /\ Len(msgs') = Len(msgs) + 1
          /\ msgs'[Len(msgs) + 1] = m
          /\ \A k \in 1 .. Len(msgs) : msgs'[k] = msgs[k]
        BY <2>1 DEF TypeOK
    <2>3. \A i, n : IdIsOf(i, n) <=> /\ n <= issued' /\ (n <= MaxId => i = n)
                                     /\ n > MaxId => sents'[i] = 0 \/ sents'[i] > MaxId
        BY <1>1, SMTT(60), Z3T(60) DEF IdIsOf
    <2>4. ASSUME NEW k \in 1 .. Len(msgs'), msgs'[k].kind = "response"
          PROVE  IdIsOf(msgs[k].id, msgs[k].to)'
        <3>1. IdIsOf(msgs'[k].id, msgs'[k].to)
            <4>1. CASE k = Len(msgs) + 1
                BY <2>1, <2>2, <2>4, <4>1
            <4>2. CASE k # Len(msgs) + 1
                <5>1. k \in 1 .. Len(msgs) /\ msgs'[k] = msgs[k]
                    BY <2>2, <4>2, SMTT(60), Z3T(60)
                <5> QED
                    BY <2>4, <5>1 DEF IdInv
            <4> QED
                BY <4>1, <4>2
        <3> QED
            BY <2>3, <3>1, ZenonT(60) DEF IdIsOf
    <2>5. \A i \in Ids : sents'[i] # 0 => IdIsOf(i, sents[i])'
        BY <1>1, SMTT(60), Z3T(60) DEF IdInv, IdIsOf
    <2>6. \A r \in inbox' : IdIsOf(r[2], r[1])'
        BY <1>1, <2>1, SMTT(60), Z3T(60) DEF IdInv, IdIsOf
    <2>7. issued' <= MaxId => nextId' = issued'
        BY <1>1 DEF IdInv
    <2> QED
        BY <2>4, <2>5, <2>6, <2>7, SMTT(60), Z3T(60) DEF IdInv
<1> QED
    BY <1>3, <1>4, SMTT(60), Z3T(60) DEF Worker

LEMMA IdStep ==
    TypeOK /\ StreamInv /\ PromiseInv /\ IdInv /\ [Next]_vars => IdInv'
<1> SUFFICES ASSUME TypeOK, StreamInv, PromiseInv, IdInv, [Next]_vars PROVE IdInv'
    OBVIOUS
<1>1. CASE BeginRequest(calls) /\ UNCHANGED msgs
    BY <1>1, IdBegin
<1>2. CASE /\ UNCHANGED <<nextId, issued, inbox, msgs>>
           /\ CloseChannel(sents, outcome) \/ UNCHANGED sents
    BY <1>2, IdFrame, SMTT(60), Z3T(60) DEF CloseChannel
<1>3. CASE DispatchResponse
    <2>1. UNCHANGED <<nextId, issued, inbox, msgs>>
        BY <1>3, ZenonT(60) DEF DispatchResponse, workerVars
    <2>2. \A i \in Ids : sents'[i] = sents[i] \/ sents'[i] = 0
        BY <1>3, ResponseSettles, SMTT(60), Z3T(60)
    <2> QED
        BY <2>1, <2>2, IdFrame, SMTT(60), Z3T(60)
<1>4. CASE WaitTimesOut
    BY <1>4, IdFrame, SMTT(60), Z3T(60) DEF WaitTimesOut, ForgetRequest, workerVars
<1>5. CASE Request \/ DispatchNotification
    BY <1>1, <1>2, <1>5 DEF Request, DispatchNotification, reqVars, workerVars
<1>6. CASE LoopPump \/ WaitPump
    BY <1>2, <1>6, PumpFacts, SMTT(60), Z3T(60)
<1>7. CASE InvalidFrame \/ PumpReturns \/ WaitReturns \/ UNCHANGED vars
    BY <1>2, <1>7 DEF InvalidFrame, PumpReturns, WaitReturns, vars, reqVars, workerVars
<1> QED
    BY <1>3, <1>4, <1>5, <1>6, <1>7, IdWorker DEF Next, Inside

(* What was dispatched was written, so a message keeps its place.          *)
LEMMA DispatchedWereWritten ==
    ASSUME TypeOK, StreamInv, BufferInv
    PROVE  \A k \in 1 .. Len(dispatched) : dispatched[k] = k /\ k \in 1 .. Len(msgs)
<1>1. Len(dispatched) <= Len(msgs)
    BY PositionTypes, SMTT(60), Z3T(60) DEF StreamInv, BufferInv, FrameLen
<1> QED
    BY <1>1, PositionTypes DEF BufferInv, DispatchedInOrder

(* The k-th message dispatched answers request n with o.                   *)
Answers(k, n, o) ==
    /\ msgs[dispatched[k]].kind = "response"
    /\ msgs[dispatched[k]].to = n
    /\ msgs[dispatched[k]].ok <=> o = "accepted"

(* Messages are only added and dispatched, so an answer stays one.         *)
LEMMA AnswerStays ==
    ASSUME TypeOK, StreamInv, BufferInv, [Next]_vars, NEW n, NEW o,
           NEW k \in 1 .. Len(dispatched), Answers(k, n, o)
    PROVE  k \in 1 .. Len(dispatched') /\ Answers(k, n, o)'
<1>1. msgs' = msgs \/ \E m : msgs' = Append(msgs, m)
    BY ZenonT(60)
       DEF Next, Worker, WorkerResponds, WorkerNotifies, WorkerContinues, WorkerDies, Write,
           Request, LoopPump, Inside, DispatchResponse, DispatchNotification, InvalidFrame,
           PumpReturns, WaitPump, WaitReturns, WaitTimesOut, vars, workerVars
<1>2. dispatched' = dispatched \/ \E m : dispatched' = Append(dispatched, m)
    BY ZenonT(60) DEF Next, Worker, WorkerResponds, WorkerNotifies, WorkerContinues, WorkerDies,
           Request, LoopPump, Inside, DispatchResponse, DispatchNotification, InvalidFrame,
           PumpReturns, WaitPump, WaitReturns, WaitTimesOut, vars
<1>3. dispatched[k] = k /\ k \in 1 .. Len(msgs)
    BY DispatchedWereWritten
<1>4. k \in 1 .. Len(dispatched') /\ dispatched'[k] = dispatched[k]
    <2>1. dispatched \in Seq(Nat)
        BY DEF TypeOK
    <2>2. ASSUME NEW m, dispatched' = Append(dispatched, m)
          PROVE  k \in 1 .. Len(dispatched') /\ dispatched'[k] = dispatched[k]
        BY <2>1, <2>2
    <2> QED
        BY <1>2, <2>2
<1>5. msgs'[k] = msgs[k]
    <2>1. msgs \in Seq(Message)
        BY DEF TypeOK
    <2>2. ASSUME NEW m, msgs' = Append(msgs, m) PROVE msgs'[k] = msgs[k]
        BY <1>3, <2>1, <2>2
    <2> QED
        BY <1>1, <2>2
<1> QED
    BY <1>3, <1>4, <1>5, SMTT(60), Z3T(60) DEF Answers

LEMMA AnswerStep ==
    ASSUME TypeOK, StreamInv, BufferInv, PromiseInv, IdInv, AnswerIsForRequest, [Next]_vars
    PROVE  AnswerIsForRequest'
<1> SUFFICES ASSUME NEW n \in Requests, n <= MaxId, outcome'[n] \in {"accepted", "refused"}
             PROVE  \E k \in 1 .. Len(dispatched') : Answers(k, n, outcome[n])'
    BY DEF AnswerIsForRequest, Answers
<1>1. CASE outcome'[n] = outcome[n]
    <2>1. PICK k \in 1 .. Len(dispatched) : Answers(k, n, outcome[n])
        BY <1>1 DEF AnswerIsForRequest, Answers
    <2>2. k \in 1 .. Len(dispatched') /\ Answers(k, n, outcome[n])'
        <3>1. PICK o : o = outcome[n]
            OBVIOUS
        <3>2. k \in 1 .. Len(dispatched') /\ Answers(k, n, o)'
            BY <2>1, <3>1, AnswerStays
        <3> QED
            BY <1>1, <3>1, <3>2 DEF Answers
    <2> QED
        BY <2>2
<1>2. CASE outcome'[n] # outcome[n]
    <2>1. PICK m : m = msgs[CurrentMsg]
        BY SMTT(60), Z3T(60)
    <2>2. /\ DispatchResponse /\ n = sents[m.id]
          /\ outcome'[n] = IF m.ok THEN "accepted" ELSE "refused"
        BY <1>2, <2>1, OutcomeStep, SMTT(60), Z3T(60)
    <2>3. /\ m \in Message /\ m.kind = "response" /\ m.id \in Ids
          /\ CurrentMsg \in 1 .. Len(msgs)
        BY <2>1, <2>2, ResponseSettles, CurrentInRange, ZenonT(60) DEF DispatchResponse
    <2>4. m.to \in Requests /\ m.ok \in BOOLEAN
        BY <2>3, ResponseFields, SMTT(60), Z3T(60)
    <2>5. m.id = n
        <3>1. sents[m.id] # 0
            BY <2>2 DEF Requests
        <3> QED
            BY <2>2, <2>3, <3>1 DEF IdInv, IdIsOf
    <2>6. m.to = n
        <3>1. IdIsOf(m.id, m.to)
            BY <2>1, <2>3, ZenonT(60) DEF IdInv
        <3>2. ~(n > MaxId) /\ n # 0
            BY BoundsAssumption DEF Requests
        <3>3. m.to <= MaxId
            BY <2>2, <2>4, <3>1, <3>2, BoundsAssumption, SMTT(60), Z3T(60) DEF IdIsOf, Requests
        <3> QED
            BY <2>5, <3>1, <3>3, SMTT(60), Z3T(60) DEF IdIsOf
    <2>7. dispatched' = Append(dispatched, CurrentMsg) /\ msgs' = msgs
        BY <2>2 DEF DispatchResponse, workerVars
    <2> DEFINE k == Len(dispatched')
    <2>8. k \in 1 .. Len(dispatched') /\ dispatched'[k] = CurrentMsg
        BY <2>7 DEF TypeOK
    <2>9. msgs'[dispatched'[k]] = m
        BY <2>1, <2>7, <2>8
    <2>10. PICK q \in 1 .. Len(dispatched') : msgs'[dispatched'[q]] = m
        BY <2>8, <2>9, SMTT(60), Z3T(60)
    <2>11. Answers(q, n, outcome[n])'
        BY <2>2, <2>3, <2>6, <2>10 DEF Answers
    <2> QED
        BY <2>11
<1> QED
    BY <1>1, <1>2, SMTT(60), Z3T(60)

(* In the first cycle of ids a request is settled with the worker's answer *)
(* to that request and no other, however late earlier answers arrive and   *)
(* whichever requests have timed out in between.                           *)
THEOREM AnswersAreForTheirRequests ==
    Spec => []AnswerIsForRequest
<1>1. Init => StackInv /\ BufferInv
    BY DEF Init, StackInv, BufferInv, DispatchedInOrder, BufLen, FrameLen
<1>2. Init => IdInv
    BY DEF Init, IdInv
<1>3. Init => AnswerIsForRequest
    BY DEF Init, AnswerIsForRequest
<1>4. TypeOK /\ StreamInv /\ BufferInv /\ PromiseInv /\ IdInv /\ AnswerIsForRequest
        /\ [Next]_vars => AnswerIsForRequest'
    BY AnswerStep
<1> QED
    BY <1>1, <1>2, <1>3, <1>4, TypeInit, TypeStep, StreamInit, StreamStep, StackStep,
       BufferStep, PromiseInit, PromiseStep, IdStep, PTL DEF Spec
=============================================================================
