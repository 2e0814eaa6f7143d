----------------------------- MODULE Transport -----------------------------
(***************************************************************************)
(* A client Transport with its Producers, Consumers and data channels, on  *)
(* any of the handlers.  The public calls of the application push commands *)
(* to the AwaitQueue; a command runs a handler method, step by step, with  *)
(* the browser's answers between the steps, and the application's answers  *)
(* to the 'connect', 'produce' and 'producedata' events.                   *)
(*                                                                         *)
(* JavaScript runs to completion: a step goes from one awaited call to the *)
(* next.  A command's first step runs inside push() or inside the step     *)
(* that settles its predecessor, so while one is due (Urgent) nothing else *)
(* happens.  Microtasks run in order before the next browser event; the    *)
(* application may call the API between them.                              *)
(***************************************************************************)
EXTENDS HandlerRuntime, AwaitQueue

CONSTANTS
    Names,         \* handlers of this instance
    Directions,    \* subset of {"send", "recv"}
    MaxProducers,  \* bound: calls of produce()
    MaxConsumers,  \* bound: calls of consume()
    MaxCalls,      \* bound: calls of the application and failures in all
    MaxFaults,     \* bound: calls that fail
    Operations,    \* the other calls the application makes
    ZeroRtpOnPause \* the Producers made with zeroRtpOnPause

Producers == 1 .. MaxProducers
Consumers == 1 .. MaxConsumers
NewTracks == (10 + 1) .. (10 + MaxCalls)  \* given to replaceTrack()
Tracks == Producers \cup NewTracks

VARIABLES
    device,    \* Device: loaded, and the peer connection load() probes with
    hname,     \* the handler
    h, pc, sdp,
    tasks,     \* the commands known to the queue or still running
    micro,     \* microtasks
    tr,        \* the fields of the Transport
    producer,  \* the Producers
    consumer,  \* the Consumers
    data,      \* the DataProducers and DataConsumers
    tracks,    \* the local tracks
    used,      \* how much of every bound is used
    thrown     \* history: handler methods that threw on an open Transport

handlerVars == <<hname, h, pc, sdp>>
objectVars == <<producer, consumer, data, tracks>>
vars == <<device, handlerVars, queueVars, tasks, micro, tr, objectVars, used, thrown>>

Batches == {"create", "pause", "resume", "close"}
NoBatches == [b \in Batches |-> <<>>]

Init ==
    /\ device = [loaded |-> FALSE, probe |-> "none", m |-> NewCall("load", "none")]
    /\ hname \in {Representative(n) : n \in Names}
    /\ h = NewHandler
    /\ pc = NewPeerConnection(FALSE)
    /\ sdp = NewRemoteSdp
    /\ QueueInit
    /\ tasks = <<>>
    /\ micro = <<>>
    /\ tr = [created |-> FALSE, closed |-> FALSE, producers |-> {},
             consumers |-> {}, data |-> {}, pending |-> NoBatches,
             inProgress |-> [b \in Batches |-> FALSE], probator |-> FALSE]
    /\ producer = [p \in Producers |->
           [state |-> "none", handed |-> FALSE, localId |-> NoLocalId,
            track |-> p, paused |-> FALSE]]
    /\ consumer = [c \in Consumers |->
           [state |-> "none", localId |-> NoLocalId, paused |-> FALSE]]
    /\ data = <<>>
    /\ tracks = [t \in Tracks |-> [live |-> TRUE, enabled |-> TRUE]]
    /\ used = [produce |-> 0, consume |-> 0, ops |-> 0, faults |-> 0]
    /\ thrown = {}

-----------------------------------------------------------------------------
(* Commands *)

Detached == DOMAIN tasks \ (running \cup ToSet(pendingTasks))
Started == running \cup Detached
Urgent == \E id \in Started : tasks[id].phase = "start"
Quiet == tasks = <<>> /\ micro = <<>>

(* No JavaScript is due: the browser delivers its next event.              *)
Idle == ~Urgent /\ micro = <<>> /\ \A id \in running : tasks[id].phase # "done"

(* Clauses of every call of the application.                               *)
Ready == tr.created /\ ~Urgent
Spare == used.produce + used.consume + used.ops + used.faults < MaxCalls
Op(name) ==
    /\ name \in Operations /\ Spare /\ Ready
    /\ used' = [used EXCEPT !.ops = @ + 1]

(* A call that fails, and one that does not.                               *)
Fault ==
    /\ used.faults < MaxFaults /\ Spare
    /\ used' = [used EXCEPT !.faults = @ + 1]
MayFault(fault) == IF fault THEN Fault ELSE UNCHANGED used

Enqueue(m) == push /\ tasks' = SetMap(tasks, nextTaskId, m)

NoQueue == UNCHANGED <<queueVars, tasks>>

Steps(m) ==
    IF m.method = "restartIce" THEN Methods[hname].restartIce[h.dir]
    ELSE Methods[hname][m.method]

State(m) == [h |-> h, pc |-> pc, sdp |-> sdp, m |-> m]

(* createPendingConsumers and its three siblings take all that is pending. *)
BatchArgs(m) ==
    LET ids == tr.pending[m.kind]
    IN  [m EXCEPT !.batch = ids,
                  !.list = IF m.kind = "create" THEN ids
                           ELSE [i \in DOMAIN ids |-> consumer[ids[i]].localId]]

FirstVideo(ids) == \E i \in DOMAIN ids : KindOf[ids[i]] = "video"
NeedsProbator(m) == m.kind = "create" /\ ~tr.probator /\ FirstVideo(m.batch)

(* What the command does when its handler method returns or throws.        *)
AfterMethod(m) ==
    CASE ~m.ret -> [m EXCEPT !.phase = "handler"]
      [] m.ret /\ ~m.err /\ m.kind \in {"produce", "produceData"} ->
             [m EXCEPT !.phase = "app"]
      [] m.ret /\ ~m.err /\ NeedsProbator(m) ->
             [NewCall("probator", "receive") EXCEPT !.list = <<ProbatorTrack>>]
      [] OTHER -> [m EXCEPT !.phase = "done",
                            !.err = @ /\ m.kind \notin Batches \cup {"probator"}]

(* Variant: the promises of a failed batch are not rejected.               *)
CreatedOrForgotten(m) ==
    [c \in Consumers |->
        IF c \in ToSet(m.batch) /\ ~m.err
        THEN [consumer[c] EXCEPT
                 !.state = "open",
                 !.localId = m.res[CHOOSE i \in DOMAIN m.batch : m.batch[i] = c]]
        ELSE consumer[c]]

Created(m) ==
    [c \in Consumers |->
        IF c \in ToSet(m.batch)
        THEN [consumer[c] EXCEPT
                 !.state = IF m.err THEN "rejected" ELSE "open",
                 !.localId = IF m.err THEN @
                     ELSE m.res[CHOOSE i \in DOMAIN m.batch : m.batch[i] = c]]
        ELSE consumer[c]]

(* The method has run to its next awaited call or to its end.              *)
Progress(id, s) ==
    /\ h' = s.h /\ pc' = s.pc /\ sdp' = s.sdp
    /\ tasks' = IF s.m.ret /\ id \in Detached THEN DropMap(tasks, {id})
                ELSE SetMap(tasks, id, AfterMethod(s.m))
    /\ consumer' = IF s.m.ret /\ s.m.kind = "create" THEN Created(s.m) ELSE consumer
    /\ tr' = [tr EXCEPT
           !.pending = IF s.m.kind \in Batches /\ tasks[id].phase = "start"
                       THEN [@ EXCEPT ![s.m.kind] = <<>>] ELSE @,
           !.consumers = IF s.m.ret /\ s.m.kind = "create" /\ ~s.m.err
                         THEN @ \cup ToSet(s.m.batch) ELSE @,
           !.probator = @ \/ (s.m.kind = "probator" /\ s.m.ret /\ ~s.m.err),
           !.data = IF s.m.kind = "consumeData" /\ s.m.ret /\ ~s.m.err
                    THEN @ \cup {s.m.key} ELSE @]
    /\ data' = IF s.m.kind = "consumeData" /\ s.m.ret /\ ~s.m.err
               THEN SetMap(data, s.m.key, "open") ELSE data
    /\ thrown' = IF s.m.err /\ ~tr.closed THEN thrown \cup {s.m.method} ELSE thrown
    /\ UNCHANGED <<device, hname, queueVars, micro, producer, tracks>>

(* execute(): the command is called.                                       *)
Begin(id) ==
    /\ tasks[id].phase = "start"
    /\ UNCHANGED used
    /\ LET m == IF tasks[id].kind \in Batches THEN BatchArgs(tasks[id]) ELSE tasks[id]
       IN  IF m.kind \in Batches /\ m.batch = <<>>
           THEN /\ tasks' = [tasks EXCEPT ![id].phase = "done"]
                /\ UNCHANGED <<device, handlerVars, queueVars, micro, tr, objectVars, thrown>>
           ELSE Progress(id, Continue(State(m), Steps(m)))

(* An awaited call of the command's handler method is over: the browser's, *)
(* or the application's answer to 'connect'.                               *)
Step(id) ==
    /\ Idle
    /\ tasks[id].phase = "handler"
    /\ \E fault \in BOOLEAN :
        /\ MayFault(fault)
        /\ Progress(id, Resume(State(tasks[id]), Steps(tasks[id]), fault))

(* The application answers 'produce': a Producer is created, whether or    *)
(* not the Transport is still open, or the sending is stopped again, in a  *)
(* call that does not go through the queue.                                *)
ProduceAnswer(id) ==
    /\ Idle
    /\ tasks[id].phase = "app" /\ tasks[id].kind = "produce"
    /\ LET m == tasks[id]
       IN  \/ /\ tasks' = [tasks EXCEPT ![id].phase = "done"]
              /\ producer' = [producer EXCEPT
                     ![m.key].state = "open", ![m.key].localId = m.localId,
                     ![m.key].paused = ~tracks[m.track].enabled]
              /\ tr' = [tr EXCEPT !.producers = @ \cup {m.key}]
              /\ UNCHANGED used
           \/ /\ Fault
              /\ tasks' = SetMap([tasks EXCEPT ![id].phase = "done", ![id].err = TRUE],
                     100 + id,
                     [NewCall("unqueuedStop", "stopSending") EXCEPT !.localId = m.localId])
              /\ UNCHANGED <<producer, tr>>
    /\ UNCHANGED <<device, handlerVars, queueVars, micro, consumer, data, tracks, thrown>>

(* The application answers 'producedata'.                                  *)
ProduceDataAnswer(id) ==
    /\ Idle
    /\ tasks[id].phase = "app" /\ tasks[id].kind = "produceData"
    /\ \/ /\ tasks' = [tasks EXCEPT ![id].phase = "done"]
          /\ data' = SetMap(data, tasks[id].key, "open")
          /\ tr' = [tr EXCEPT !.data = @ \cup {tasks[id].key}]
          /\ UNCHANGED used
       \/ /\ Fault
          /\ tasks' = [tasks EXCEPT ![id].phase = "done", ![id].err = TRUE]
          /\ UNCHANGED <<data, tr>>
    /\ UNCHANGED <<device, handlerVars, queueVars, micro, producer, consumer, tracks, thrown>>

(* What the caller of push() chained to its promise.                       *)
Reaction(m, ok) == [kind |-> m.kind, key |-> m.key, track |-> m.track, ok |-> ok]
HasReaction(m) == m.kind \in Batches \cup {"probator", "produce", "replaceTrack"}
Reactions(m, ok) == IF HasReaction(m) THEN <<Reaction(m, ok)>> ELSE <<>>

(* The command's promise settles; the queue executes the next command.     *)
Settle(id) ==
    /\ ~Urgent
    /\ tasks[id].phase = "done"
    /\ settle(id)
    /\ tasks' = DropMap(tasks, {id})
    /\ micro' = IF Known(id) THEN micro \o Reactions(tasks[id], ~tasks[id].err) ELSE micro
    /\ UNCHANGED <<device, handlerVars, tr, objectVars, used, thrown>>

-----------------------------------------------------------------------------
(* Microtasks *)

StopTrack(t) == tracks' = [tracks EXCEPT ![t].live = FALSE]

(* createPendingConsumers(), pausePendingConsumers() and so on.            *)
StartBatch(b) ==
    /\ tr' = [tr EXCEPT !.inProgress[b] = TRUE]
    /\ Enqueue(NewCall(b, CASE b = "create" -> "receive"
                            [] b = "pause" -> "pauseReceiving"
                            [] b = "resume" -> "resumeReceiving"
                            [] b = "close" -> "stopReceiving"))

(* Variant: what came meanwhile is not looked for.                         *)
BatchDoneOnce(b, ok) ==
    /\ tr' = [tr EXCEPT !.inProgress[b] = ~ok /\ @]
    /\ NoQueue

(* .then(): start over if more came meanwhile.  When the queue was stopped *)
(* the promise was rejected and the flag stays set.                        *)
BatchDone(b, ok) ==
    CASE ok /\ tr.pending[b] # <<>> -> StartBatch(b)
      [] ok /\ tr.pending[b] = <<>> ->
             tr' = [tr EXCEPT !.inProgress[b] = FALSE] /\ NoQueue
      [] OTHER -> NoQueue /\ UNCHANGED tr

(* The microtask of consume(), @pause and @resume.                         *)
BatchWanted(b) ==
    IF tr.closed \/ tr.inProgress[b] THEN NoQueue /\ UNCHANGED tr ELSE StartBatch(b)

(* Variant: the new track keeps its enabled flag.                          *)
ReplaceTrackUnfixed(p, track, ok) ==
    IF ok
    THEN /\ producer' = [producer EXCEPT ![p].track = track]
         /\ StopTrack(producer[p].track)
    ELSE UNCHANGED <<producer, tracks>>

(* The rest of Producer.replaceTrack after its await.                      *)
ReplaceTrackDone(p, track, ok) ==
    IF ok
    THEN /\ producer' = [producer EXCEPT ![p].track = track]
         /\ tracks' = [tracks EXCEPT ![producer[p].track].live = FALSE,
                                     ![track].enabled = ~producer[p].paused]
    ELSE UNCHANGED <<producer, tracks>>

(* Variant: produce() has no catch.                                        *)
ProduceDoneOnly(p, ok) ==
    producer' = [producer EXCEPT ![p].handed = ok] /\ UNCHANGED tracks

(* produce(): the Producer reaches the application, or the track is        *)
(* stopped.                                                                *)
ProduceDone(p, ok) ==
    IF ok THEN producer' = [producer EXCEPT ![p].handed = TRUE] /\ UNCHANGED tracks
    ELSE StopTrack(producer[p].track) /\ UNCHANGED producer

Microtask ==
    /\ ~Urgent /\ micro # <<>>
    /\ micro' = Tail(micro)
    /\ LET r == Head(micro)
           b == IF r.kind = "probator" THEN "create" ELSE r.kind
       IN  \/ /\ b \in Batches
              /\ BatchDone(b, r.ok)
              /\ UNCHANGED objectVars
           \/ /\ r.kind = "wanted"
              /\ BatchWanted(r.key)
              /\ UNCHANGED objectVars
           \/ /\ r.kind = "replaceTrack"
              /\ ReplaceTrackDone(r.key, r.track, r.ok)
              /\ NoQueue /\ UNCHANGED <<tr, consumer, data>>
           \/ /\ r.kind = "produce"
              /\ ProduceDone(r.key, r.ok)
              /\ NoQueue /\ UNCHANGED <<tr, consumer, data>>
    /\ UNCHANGED <<device, handlerVars, used, thrown>>

-----------------------------------------------------------------------------
(* The application: sending *)

produce ==
    /\ Ready /\ ~tr.closed /\ h.dir = "send"
    /\ used.produce < MaxProducers /\ Spare
    /\ used' = [used EXCEPT !.produce = @ + 1]
    /\ LET p == used.produce + 1
       IN  Enqueue([NewCall("produce", "send") EXCEPT !.key = p, !.track = p])
    /\ UNCHANGED <<device, handlerVars, micro, tr, objectVars, thrown>>

Handed(p) == producer[p].handed /\ producer[p].state = "open"

(* A command on the sender of a Producer.                                  *)
SenderCommand(p, kind, method, track) ==
    Enqueue([NewCall(kind, method) EXCEPT
                 !.key = p, !.localId = producer[p].localId, !.track = track])

producerClose(p) ==
    /\ Handed(p) /\ Op("producerClose")
    /\ producer' = [producer EXCEPT ![p].state = "closed"]
    /\ StopTrack(producer[p].track)
    /\ tr' = [tr EXCEPT !.producers = @ \ {p}]
    /\ IF tr.closed THEN NoQueue ELSE SenderCommand(p, "stopSending", "stopSending", 0)
    /\ UNCHANGED <<device, handlerVars, micro, consumer, data, thrown>>

producerPause(p, paused) ==
    /\ Handed(p) /\ Op("producerPause")
    /\ producer' = [producer EXCEPT ![p].paused = paused]
    /\ tracks' = [tracks EXCEPT ![producer[p].track].enabled = ~paused]
    /\ IF p \in ZeroRtpOnPause
       THEN SenderCommand(p, "pauseSending",
                IF paused THEN "pauseSending" ELSE "resumeSending", 0)
       ELSE NoQueue
    /\ UNCHANGED <<device, handlerVars, micro, tr, consumer, data, thrown>>

(* The given track is new: it is neither ended nor the current one.  On a  *)
(* closed Producer it is stopped.                                          *)
replaceTrack(p) ==
    /\ producer[p].handed /\ Op("replaceTrack")
    /\ LET track == 10 + used.ops + 1
       IN  IF producer[p].state = "closed"
           THEN StopTrack(track) /\ NoQueue
           ELSE SenderCommand(p, "replaceTrack", "replaceTrack", track) /\ UNCHANGED tracks
    /\ UNCHANGED <<device, handlerVars, micro, tr, producer, consumer, data, thrown>>

(* setMaxSpatialLayer() and setRtpEncodingParameters().                    *)
setParameters(p, method) ==
    /\ Handed(p) /\ Op(method)
    /\ method = "setMaxSpatialLayer" => KindOf[p] = "video"
    /\ SenderCommand(p, method, method, 0)
    /\ UNCHANGED <<device, handlerVars, micro, tr, objectVars, thrown>>

produceData ==
    /\ ~tr.closed /\ h.dir = "send" /\ Op("produceData")
    /\ Enqueue([NewCall("produceData", "sendDataChannel") EXCEPT !.key = used.ops])
    /\ UNCHANGED <<device, handlerVars, micro, tr, objectVars, thrown>>

-----------------------------------------------------------------------------
(* The application: receiving *)

Wanted(b) == micro' = Append(micro, [kind |-> "wanted", key |-> b, track |-> 0, ok |-> TRUE])

consume ==
    /\ Ready /\ ~tr.closed /\ h.dir = "recv"
    /\ used.consume < MaxConsumers /\ Spare
    /\ used' = [used EXCEPT !.consume = @ + 1]
    /\ LET c == used.consume + 1
       IN  /\ consumer' = [consumer EXCEPT ![c].state = "pending"]
           /\ tr' = [tr EXCEPT !.pending.create = Append(@, c)]
    /\ Wanted("create")
    /\ NoQueue
    /\ UNCHANGED <<device, handlerVars, producer, data, tracks, thrown>>

Others(seq, c) == SelectSeq(seq, LAMBDA x : x # c)

consumerClose(c) ==
    /\ consumer[c].state = "open" /\ Op("consumerClose")
    /\ consumer' = [consumer EXCEPT ![c].state = "closed"]
    /\ LET left == [tr EXCEPT !.consumers = @ \ {c},
                              !.pending.pause = Others(@, c),
                              !.pending.resume = Others(@, c)]
       IN  tr' = IF tr.closed THEN left
                 ELSE [left EXCEPT !.pending.close = Append(@, c), !.inProgress.close = TRUE]
    /\ IF tr.closed \/ tr.inProgress.close THEN NoQueue
       ELSE Enqueue(NewCall("close", "stopReceiving"))
    /\ UNCHANGED <<device, handlerVars, micro, producer, data, tracks, thrown>>

(* Variant: the Consumer stays in the list of the opposite command.        *)
consumerPauseKeepingOther(c, paused) ==
    /\ consumer[c].state = "open" /\ consumer[c].paused # paused
    /\ Op("consumerPause")
    /\ consumer' = [consumer EXCEPT ![c].paused = paused]
    /\ LET b == IF paused THEN "pause" ELSE "resume"
       IN  /\ tr' = [tr EXCEPT !.pending[b] = Append(Others(@, c), c)]
           /\ Wanted(b)
    /\ NoQueue
    /\ UNCHANGED <<device, handlerVars, producer, data, tracks, thrown>>

(* pause() and resume(), which do nothing when there is nothing to do.     *)
consumerPause(c, paused) ==
    /\ consumer[c].state = "open" /\ consumer[c].paused # paused
    /\ Op("consumerPause")
    /\ consumer' = [consumer EXCEPT ![c].paused = paused]
    /\ LET b == IF paused THEN "pause" ELSE "resume"
           other == IF paused THEN "resume" ELSE "pause"
       IN  /\ tr' = [tr EXCEPT !.pending[other] = Others(@, c),
                               !.pending[b] = Append(Others(@, c), c)]
           /\ Wanted(b)
    /\ NoQueue
    /\ UNCHANGED <<device, handlerVars, producer, data, tracks, thrown>>

consumeData ==
    /\ ~tr.closed /\ h.dir = "recv" /\ Op("consumeData")
    /\ Enqueue([NewCall("consumeData", "receiveDataChannel") EXCEPT !.key = used.ops])
    /\ UNCHANGED <<device, handlerVars, micro, tr, objectVars, thrown>>

-----------------------------------------------------------------------------
(* The application: the Device and the Transport *)

(* DataProducer.close(), DataConsumer.close() and the channel's own close. *)
dataClose(d) ==
    /\ d \in DOMAIN data /\ data[d] = "open" /\ Op("dataClose")
    /\ data' = [data EXCEPT ![d] = "closed"]
    /\ tr' = [tr EXCEPT !.data = @ \ {d}]
    /\ NoQueue
    /\ UNCHANGED <<device, handlerVars, micro, producer, consumer, tracks, thrown>>

TransportCommand(name) ==
    /\ ~tr.closed /\ Op(name)
    /\ Enqueue(NewCall(name, name))
    /\ UNCHANGED <<device, handlerVars, micro, tr, objectVars, thrown>>

(* load() with a temporary handler: its peer connection is closed however  *)
(* the probing of the native capabilities ends.                            *)
Probe == Methods[hname].getNativeRtpCapabilities
DeviceState(m) ==
    [h |-> Constructors[hname], m |-> m, sdp |-> NewRemoteSdp,
     pc |-> NewPeerConnection(FALSE)]

Probed(s) ==
    LET end == IF s.m.err THEN Continue([s EXCEPT !.m.ip = 0, !.m.ret = FALSE], Probe.catch)
               ELSE s
    IN  device' = [loaded |-> s.m.ret /\ ~s.m.err, m |-> s.m,
                   probe |-> CASE Probe.body = <<>> -> "none"
                               [] Probe.body # <<>> /\ IsClosed(end.pc) -> "closed"
                               [] OTHER -> "open"]

load ==
    /\ ~device.loaded /\ ~device.m.wait
    /\ Probed(Continue(DeviceState(NewCall("load", "none")), Probe.body))
    /\ UNCHANGED <<handlerVars, queueVars, tasks, micro, tr, objectVars, used, thrown>>

loadStep ==
    /\ device.m.wait
    /\ \E fault \in BOOLEAN :
        /\ MayFault(fault)
        /\ Probed(Resume(DeviceState(device.m), Probe.body, fault))
    /\ UNCHANGED <<handlerVars, queueVars, tasks, micro, tr, objectVars, thrown>>

(* createSendTransport() and createRecvTransport(): a handler is made and  *)
(* run.                                                                    *)
createTransport(dir) ==
    /\ device.loaded /\ ~tr.created
    /\ tr' = [tr EXCEPT !.created = TRUE]
    /\ LET s == Continue(DeviceState(NewCall("run", "run")), Methods[hname].run)
       IN  /\ h' = [s.h EXCEPT !.dir = dir]
           /\ pc' = s.pc /\ sdp' = s.sdp
    /\ UNCHANGED <<device, hname, queueVars, tasks, micro, objectVars, used, thrown>>

(* transportClosed() of those the Transport still has.                     *)
CloseAll(objs, ids) ==
    [o \in DOMAIN objs |->
        IF o \in ids THEN [objs[o] EXCEPT !.state = "closed"] ELSE objs[o]]

(* close(): the queue is stopped, which rejects its commands; the handler  *)
(* is closed; everything that exists is closed.                            *)
closeTransport ==
    /\ ~tr.closed /\ Op("close")
    /\ stop
    /\ tasks' = [id \in Started |-> tasks[id]]
    /\ micro' = micro \o FlattenSeq([k \in DOMAIN pendingTasks |->
                      Reactions(tasks[pendingTasks[k]], FALSE)])
    /\ LET s == Continue(State(NewCall("close", "close")), Methods[hname].close)
       IN  h' = s.h /\ pc' = s.pc /\ sdp' = s.sdp
    /\ producer' = CloseAll(producer, tr.producers)
    /\ tracks' = [t \in Tracks |->
            IF \E p \in tr.producers : producer[p].track = t
            THEN [tracks[t] EXCEPT !.live = FALSE] ELSE tracks[t]]
    /\ consumer' = CloseAll(consumer, tr.consumers)
    /\ data' = [d \in DOMAIN data |-> "closed"]
    /\ tr' = [tr EXCEPT !.closed = TRUE, !.producers = {}, !.consumers = {}, !.data = {}]
    /\ UNCHANGED <<device, hname, thrown>>

-----------------------------------------------------------------------------
(* Handlers whose local ids name transceivers; the others' name tracks.    *)
OneSenderPerTrack ==
    {n \in HandlerNames : "addTransceiver" \in ToSet(Methods[n].send)}

Application ==
    \/ produce \/ produceData \/ consume \/ consumeData \/ closeTransport
    \/ \E p \in Producers :
        \/ producerClose(p)
        \/ \E paused \in BOOLEAN : producerPause(p, paused)
        \/ replaceTrack(p)
        \/ \E method \in {"setMaxSpatialLayer", "setRtpEncodingParameters"} :
            setParameters(p, method)
    \/ \E c \in Consumers :
        \/ consumerClose(c)
        \/ \E paused \in BOOLEAN : consumerPause(c, paused)
    \/ \E d \in DOMAIN data : dataClose(d)
    \/ \E name \in {"restartIce", "updateIceServers"} : TransportCommand(name)
    \/ load \/ loadStep
    \/ \E dir \in Directions : createTransport(dir)

Commands ==
    \/ \E id \in Started : Begin(id) \/ Step(id)
    \/ \E id \in running : ProduceAnswer(id) \/ ProduceDataAnswer(id) \/ Settle(id)
    \/ Microtask

Next == Application \/ Commands

(* Of the calls that are due one is made next; while the Transport is open *)
(* every call of the browser and every event given to the application is   *)
(* answered.  This is weak fairness of Commands: one is enabled exactly    *)
(* when a command has started or a microtask waits.                        *)
Due == ~tr.closed /\ (Started # {} \/ micro # <<>>)

Fairness == []<>~Due \/ []<><<Commands>>_vars

Spec == Init /\ [][Next]_vars /\ Fairness

-----------------------------------------------------------------------------
(* Properties *)

TransportTypeOK ==
    /\ QueueTypeOK
    /\ running \subseteq DOMAIN tasks
    /\ ToSet(pendingTasks) \subseteq DOMAIN tasks
    /\ tr.producers \subseteq Producers /\ tr.consumers \subseteq Consumers
    /\ \A p \in Producers : producer[p].state \in {"none", "open", "closed"}
    /\ \A c \in Consumers :
        consumer[c].state \in {"none", "pending", "open", "rejected", "closed"}

NoFailures == used.faults = 0
Settled == Quiet /\ NoFailures /\ ~tr.closed /\ tr.created

(* When the browser and the application fail no call, no handler method    *)
(* throws on an open Transport, whatever the order of the calls: no       *)
(* description is refused and no local id or section is missing.  Methods  *)
(* a handler does not support are excepted.                                *)
NoSpuriousFailure ==
    NoFailures => \A method \in thrown :
        /\ method # "restartIce"
        /\ "unsupported" \in ToSet(Methods[hname][method])

(* RemoteSdp follows the peer connection: when nothing is in progress the  *)
(* sections are the m-lines, in number, order, MID, port and direction.    *)
SectionsFollowLines ==
    Settled =>
        /\ Len(sdp.sections) = Len(pc.lines)
        /\ \A i \in DOMAIN pc.lines :
            /\ sdp.sections[i].mid = pc.lines[i].mid
            /\ sdp.sections[i].closed = ~pc.lines[i].live
            /\ pc.lines[i].live /\ ~pc.planB =>
                   sdp.sections[i].active = pc.lines[i].active

(* _midToIndex finds every section by its MID, and the bundle group holds  *)
(* exactly the MIDs of the sections that are not closed (_addMediaSection, *)
(* _replaceMediaSection, _regenerateBundleMids).                           *)
SectionsIndexed ==
    NoFailures =>
        /\ \A i \in DOMAIN sdp.sections :
            /\ HasMid(sdp, sdp.sections[i].mid)
            /\ sdp.midToIndex[sdp.sections[i].mid] = i
        /\ \A mid \in DOMAIN sdp.midToIndex :
            sdp.sections[sdp.midToIndex[mid]].mid = mid
        /\ sdp.bundle = {sdp.sections[i].mid :
                             i \in {j \in DOMAIN sdp.sections : ~sdp.sections[j].closed}}

(* All sections describe one bundled transport: they carry the latest ICE  *)
(* parameters, and the answers among them the DTLS role that was agreed    *)
(* (updateIceParameters, updateDtlsRole, and the sections added since).    *)
SectionsShareTransport ==
    \A i \in DOMAIN sdp.sections :
        /\ sdp.sections[i].ice = sdp.ice
        /\ sdp.sections[i].type = "answer" =>
               sdp.sections[i].setup = AnswerSetup(sdp.dtlsRole)

(* The description the client makes up for the server follows the peer     *)
(* connection, so that the browser refuses nothing of it (RemoteSdp and    *)
(* every handler method that calls it).                                    *)
DescriptionFollowsConnection ==
    /\ NoSpuriousFailure
    /\ SectionsFollowLines /\ SectionsIndexed /\ SectionsShareTransport

(* When nothing is in progress every open Producer has a sender of its     *)
(* own, which sends the Producer's track, and sends exactly while the      *)
(* Producer is not paused if pausing stops the RTP.                        *)
ProducersConverge ==
    Settled /\ h.dir = "send" =>
        /\ DOMAIN h.map = {producer[p].localId : p \in tr.producers}
        /\ \A p, q \in tr.producers :
               p # q => h.map[producer[p].localId] # h.map[producer[q].localId]
        /\ hname \notin OneSenderPerTrack =>
               \A p \in tr.producers : h.map[producer[p].localId] = producer[p].track
        /\ hname \in OneSenderPerTrack => \A p \in tr.producers :
            LET t == pc.trs[h.map[producer[p].localId]]
            IN  /\ ~t.stopped /\ t.track = producer[p].track
                /\ Methods[hname].pauseSending # <<>> /\ p \in ZeroRtpOnPause =>
                       /\ t.active = ~producer[p].paused
                       /\ pc.lines[t.line].active = ~producer[p].paused

(* When nothing is in progress every open Consumer has a receiver, which   *)
(* receives exactly while the Consumer is not paused, if the handler       *)
(* implements pausing.                                                     *)
ConsumersConverge ==
    Settled /\ h.dir = "recv" =>
        \A c \in tr.consumers :
            /\ consumer[c].state = "open"
            /\ consumer[c].localId \in DOMAIN h.map
            /\ hname \in OneSenderPerTrack =>
                LET t == pc.trs[h.map[consumer[c].localId]]
                IN  /\ ~t.stopped
                    /\ Methods[hname].pauseReceiving # <<>> =>
                           /\ t.active = ~consumer[c].paused
                           /\ pc.lines[t.line].active = ~consumer[c].paused

(* No wake-up is lost: Consumers that wait to be created, paused, resumed  *)
(* or closed have a command or a microtask that will take them, also when  *)
(* they arrive while a command of that kind is running                     *)
(* (createPendingConsumers and its siblings, their .then()).               *)
PendingIsTaken ==
    \A b \in Batches :
        LET kinds == IF b = "create" THEN {"create", "probator"} ELSE {b}
        IN  /\ ~tr.closed /\ tr.pending[b] # <<>> =>
                   \/ tr.inProgress[b]
                   \/ \E i \in DOMAIN micro : micro[i].kind = "wanted" /\ micro[i].key = b
            /\ ~tr.closed /\ tr.inProgress[b] =>
                   \/ \E id \in DOMAIN tasks : tasks[id].kind \in kinds
                   \/ \E i \in DOMAIN micro : micro[i].kind \in kinds

(* A Producer the application holds has a live track, enabled exactly      *)
(* while the Producer is not paused, also after replaceTrack() was         *)
(* overtaken by pause() or resume().                                       *)
TrackFollowsProducer ==
    \A p \in Producers :
        producer[p].handed /\ producer[p].state = "open" =>
            /\ tracks[producer[p].track].live
            /\ tracks[producer[p].track].enabled = ~producer[p].paused

(* What the application did to its Producers and Consumers reaches the     *)
(* handler, however the calls were queued, batched or overtaken.           *)
ObjectsConverge ==
    PendingIsTaken /\ TrackFollowsProducer /\ ProducersConverge /\ ConsumersConverge

(* After close() no track given to produce() is left capturing, whether    *)
(* its command was waiting, running or done, and whether or not calls were *)
(* failing (the catch of produce(), transportClosed()).                    *)
CloseStopsProducedTracks ==
    tr.closed /\ Quiet => \A p \in 1 .. used.produce : ~tracks[p].live

(* load() leaves no peer connection open, also when probing fails.         *)
ProbeIsClosed == ~device.m.wait => device.probe # "open"

(* What was opened is released, whatever failed in between.                *)
MediaIsReleased == CloseStopsProducedTracks /\ ProbeIsClosed

(* Every consume() is answered, unless the Transport is closed first.      *)
ConsumeSettles ==
    []<>(tr.closed \/ \A c \in Consumers : consumer[c].state # "pending")

(* A track given to replaceTrack() is stopped when its Producer is closed: *)
(* replaceTrack() itself says that otherwise there is no chance to stop it.*)
ReplacedTrackIsStopped ==
    Quiet => \A p \in Producers :
        producer[p].state = "closed" => ~tracks[producer[p].track].live

=============================================================================
