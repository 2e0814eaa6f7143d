---------------------------- MODULE DemoSession ----------------------------
(***************************************************************************)
(* The demo page (public/qos-demo.js, in its full QoS mode) against the    *)
(* signalling server: joining a room, subscribing, publishing, and the     *)
(* recovery that a serverRestart notification starts.                      *)
(*                                                                         *)
(* joinRoom(), publishMedia() and recoverAfterServerRestart() are flows:   *)
(* async functions that share the page's state and wait for a fetch, a     *)
(* socket, an answer, a device or a capture, while messages and clicks are *)
(* handled in between.  A flow's "pc" names what it waits for; a step runs *)
(* the flow from one wait to the next, with the microtasks this releases.  *)
(*                                                                         *)
(* The server side keeps what an answer depends on: the room is lost when  *)
(* its worker dies, the peers are told by the next health check, and a     *)
(* receiving transport is subscribed to every producer of the room.        *)
(* Rendering, logs, statistics and key-frame requests are left out.        *)
(***************************************************************************)
EXTENDS Naturals, Sequences, FiniteSets, SequencesExt, FiniteSetsExt

CONSTANTS
    MaxAttempts,   \* maxAttempts of the recovery (20 in the code)
    Tracks,        \* number of tracks a capture yields
    Overlaps,      \* bound: connect even after two flows have overlapped
    MaxJoins,      \* bound: clicks on Join
    MaxPublishes,  \* bound: clicks on Publish
    MaxProducers,  \* bound: producers of the other peers, over all rooms
    MaxCrashes,    \* bound: workers that die
    MaxRefusals,   \* bound: connections and joins the server refuses
    MaxFaults      \* bound: timeouts and lost connections

ASSUME DemoAssumption ==
    /\ MaxAttempts \in Nat \ {0} /\ Tracks \in Nat \ {0}
    /\ Overlaps \in BOOLEAN

VARIABLES
    page,   \* the fields of "state", what the flows and the transport wait for,
            \* and the recovery's local "attempt" (0 while none runs)
    sock,   \* the connections, with the requests and messages under way on each
    room,   \* the server's room
    used    \* bounded events; history: two flows establish a session at once

vars == <<page, sock, room, used>>

Flows == {"join", "rec", "pub"}
Sockets == 1 .. (MaxJoins + MaxCrashes * MaxAttempts)
None == 0

NoTransport == <<>>   \* a transport is named by its socket and what created it

Idle == [pc |-> "idle", stage |-> "created", sock |-> None, todo |-> <<>>, known |-> {}, cap |-> None]
NoDevice == [by |-> "none", loaded |-> FALSE]
NoBatch == [at |-> "none", items |-> <<>>]
NoSocket == [st |-> "none", requests |-> <<>>, inbox |-> <<>>, joined |-> FALSE, recv |-> FALSE]

Init ==
    /\ page = [ws |-> None, entered |-> FALSE, device |-> NoDevice,
               recv |-> NoTransport, connected |-> FALSE, batch |-> NoBatch, tasks |-> <<>>,
               pendingConsumers |-> <<>>, remoteVideoConsumers |-> {},
               send |-> NoTransport, sendConnected |-> FALSE, producers |-> {},
               streams |-> None, entries |-> None, live |-> {},
               desiredLocalPublish |-> FALSE, qosSession |-> NoTransport, downlinkBundle |-> NoTransport,
               recovering |-> FALSE, republish |-> FALSE, attempt |-> 0,
               ui |-> [join |-> TRUE, publish |-> FALSE, stop |-> FALSE],
               flow |-> [f \in Flows |-> Idle]]
    /\ sock = [s \in Sockets |-> NoSocket]
    /\ room = [dead |-> FALSE, producers |-> {}]
    /\ used = [joins |-> 0, publishes |-> 0, captures |-> 0, producers |-> 0, crashes |-> 0, refusals |-> 0, faults |-> 0,
               overlap |-> FALSE]

-----------------------------------------------------------------------------
(* The page and its sockets change together: w is [page, sock]. *)

World == [page |-> page, sock |-> sock]
Becomes(w) == page' = w.page /\ sock' = w.sock
At(w, f, pc) == [w EXCEPT !.page.flow[f].pc = pc]
Ends(w, f) == [w EXCEPT !.page.flow[f] = Idle]
Opened == Cardinality({s \in Sockets : sock[s].st # "none"})

hasActiveLocalPublish(p) == p.send # NoTransport \/ p.producers # {} \/ p.streams # None
updateControls(w) ==
    LET p == w.page IN
    [w EXCEPT !.page.ui =
        [join |-> ~p.recovering,
         publish |-> ~p.recovering /\ p.device # NoDevice /\ ~hasActiveLocalPublish(p),
         stop |-> ~p.recovering /\ p.qosSession # NoTransport]]

TracksOf(capture) == {capture} \X (1 .. Tracks)
stopMediaStream(w, capture) == [w EXCEPT !.page.live = @ \ TracksOf(capture)]

stopLocalQosSession(w) ==
    IF w.page.qosSession = NoTransport THEN w
    ELSE updateControls([w EXCEPT !.page.qosSession = NoTransport])

(* sendTransport.close(): its producers close and stop their tracks. *)
closeSend(w) ==
    [w EXCEPT !.page.send = NoTransport, !.page.sendConnected = FALSE,
              !.page.live = IF w.page.send = NoTransport THEN @ ELSE @ \ w.page.producers]

resetLocalPublishForgetful(w, stopTracks, clearIntent) ==
    LET closed == closeSend(stopLocalQosSession(w))
    IN updateControls(
           [closed EXCEPT !.page.producers = {},
               !.page.desiredLocalPublish = @ /\ ~clearIntent,
               !.page.streams = IF stopTracks THEN None ELSE @,
               !.page.entries = IF stopTracks THEN None ELSE @])
resetLocalPublishState(w, stopTracks, clearIntent) ==
    LET closed == closeSend(stopLocalQosSession(w))
        cleared == [closed EXCEPT !.page.producers = {},
                       !.page.desiredLocalPublish = @ /\ ~clearIntent]
    IN updateControls(
           IF stopTracks
           THEN [stopMediaStream(cleared, cleared.page.streams)
                    EXCEPT !.page.streams = None, !.page.entries = None]
           ELSE cleared)

stopDownlinkReporting(w) == [w EXCEPT !.page.downlinkBundle = NoTransport]
ensureDownlinkReporting(w) ==
    IF w.page.downlinkBundle # NoTransport \/ w.page.recv = NoTransport THEN w
    ELSE [w EXCEPT !.page.downlinkBundle = w.page.recv]

(* recvTransport.close(): the consume() calls of the batch under way are   *)
(* rejected once the handler gives up; the ones behind it never settle.    *)
closeRecv(w) ==
    LET waiting(items) == {items[i].waiter : i \in DOMAIN items} \ {"none"}
        p == w.page
    IN [w EXCEPT !.page.recv = NoTransport, !.page.connected = FALSE, !.page.batch = NoBatch,
                 !.page.tasks = <<>>,
                 !.page.flow = [f \in Flows |->
                     CASE f \in waiting(p.batch.items) -> [@[f] EXCEPT !.pc = "released"]
                       [] f \in waiting(p.tasks) -> Idle
                       [] OTHER -> @[f]]]
resetRemoteMediaReporting(w) ==
    [closeRecv(w) EXCEPT !.page.pendingConsumers = <<>>, !.page.remoteVideoConsumers = {}]
resetRemoteMediaState(w) ==
    [closeRecv(stopDownlinkReporting(w))
        EXCEPT !.page.pendingConsumers = <<>>, !.page.remoteVideoConsumers = {}]

-----------------------------------------------------------------------------
(* Requests *)

RequestKinds == {"join", "setQosPolicy", "createRecv", "consume", "createSend",
                 "connectSend", "produce"}
Awaited(p) ==
    {[flow |-> f, kind |-> p.flow[f].pc] : f \in {g \in Flows : p.flow[g].pc \in RequestKinds}}
    \cup IF p.batch.at = "connect" THEN {[flow |-> "recv", kind |-> "connectRecv"]} ELSE {}

(* What an async function does when the wait it is at is rejected.  A      *)
(* failing produce() stops the track it was given; establishJoinedSession  *)
(* goes on without the policy.                                             *)
NextTrack(p, f) == <<p.flow[f].cap, Cardinality(p.producers) + 1>>
RecoveryEndsUnmarked(w) == updateControls([Ends(w, "rec") EXCEPT !.page.attempt = 0])
RecoveryEnds(w) ==
    updateControls([Ends(w, "rec") EXCEPT !.page.recovering = FALSE, !.page.attempt = 0])
loadDevice(w, f) == [At(w, f, "load") EXCEPT !.page.device = [by |-> f, loaded |-> FALSE]]
Publishing == {"capture", "createSend", "connectSend", "produce"}
FlowFails(w, f) ==
    LET pc == w.page.flow[f].pc
        stopped == IF pc \in {"connectSend", "produce"}
                   THEN [w EXCEPT !.page.live = @ \ {NextTrack(w.page, f)}] ELSE w
    IN CASE pc = "setQosPolicy" -> loadDevice(w, f)
         [] f = "join" -> updateControls(Ends(w, f))
         [] f = "pub" -> resetLocalPublishState(Ends(stopped, f), TRUE, TRUE)
         [] f = "rec" /\ pc \in Publishing -> RecoveryEnds(stopped)
         [] OTHER -> At(w, f, "sleep")

IsOpen(w) == w.page.ws # None /\ w.sock[w.page.ws].st = "open"
Request(f, kind, producer) == [flow |-> f, kind |-> kind, producer |-> producer]
Sends(w, request) == [w EXCEPT !.sock[w.page.ws].requests = Append(@, request)]
wsRequest(w, f, kind) ==
    IF IsOpen(w) THEN Sends(At(w, f, kind), Request(f, kind, None)) ELSE FlowFails(At(w, f, kind), f)

-----------------------------------------------------------------------------
(* Publishing *)

publishCapturedMedia(w, f, capture) ==
    IF w.page.device = NoDevice THEN FlowFails(w, f)
    ELSE wsRequest([w EXCEPT !.page.streams = capture, !.page.flow[f].cap = capture],
                   f, "createSend")

(* The next produce() of the loop; the first one connects the transport. *)
produceNext(w, f) ==
    IF w.page.send = NoTransport THEN FlowFails(w, f)
    ELSE wsRequest(w, f, IF w.page.sendConnected THEN "produce" ELSE "connectSend")

createSendTransport(w, f) ==
    IF ~w.page.device.loaded THEN FlowFails(w, f)
    ELSE produceNext([w EXCEPT !.page.send = <<w.page.ws, w.page.flow[f].cap>>,
                               !.page.sendConnected = FALSE], f)

setupLocalQosSession(w) == updateControls([w EXCEPT !.page.qosSession = w.page.send])
Published(w, f) ==
    LET done == setupLocalQosSession([w EXCEPT !.page.desiredLocalPublish = TRUE,
                                               !.page.entries = w.page.flow[f].cap])
    IN IF f = "rec" THEN RecoveryEnds(done) ELSE Ends(done, f)
produced(w, f) ==
    LET next == [w EXCEPT !.page.producers = @ \cup {NextTrack(w.page, f)}] IN
    IF Cardinality(next.page.producers) < Tracks THEN produceNext(next, f)
    ELSE Published(next, f)

(* The video track is the last one of a capture. *)
collectReusableLocalCapture(p) ==
    IF <<p.entries, Tracks>> \in p.live THEN p.streams ELSE None
republish(w) ==
    LET reusable == collectReusableLocalCapture(w.page) IN
    IF ~w.page.republish THEN RecoveryEnds(w)
    ELSE IF reusable = None THEN At(w, "rec", "capture")
    ELSE publishCapturedMedia(At(w, "rec", "capture"), "rec", reusable)

-----------------------------------------------------------------------------
(* Subscribing *)

handleNewConsumer(w, consumer, waiter) ==
    IF w.page.recv = NoTransport
    THEN [w EXCEPT !.page.pendingConsumers = Append(@, consumer)]
    ELSE [w EXCEPT !.page.tasks = Append(@, [consumer |-> consumer, waiter |-> waiter,
                                             transport |-> w.page.recv])]

SessionEstablished(w, f) ==
    IF f = "rec" THEN republish(updateControls(w)) ELSE updateControls(Ends(w, f))

(* consumeProducer() of the producers known from the join that came with   *)
(* no consumer.                                                            *)
consumeKnown(w, f) ==
    LET known == w.page.flow[f].known
        p == w.page
    IN IF known = {} \/ p.recv = NoTransport \/ p.device = NoDevice \/ ~IsOpen(w)
       THEN SessionEstablished(w, f)
       ELSE Sends(At([w EXCEPT !.page.flow[f].stage = "known"], f, "consume"),
                  Request(f, "consume", Min(known)))

(* The loop over the consumers that came with the transport, then the one  *)
(* over those that were queued: each waits for consume() to settle, and    *)
(* without a transport only moves the consumer to the queue.               *)
consumeNext(w, f) ==
    LET todo == w.page.flow[f].todo
    IN IF todo # <<>> /\ w.page.recv # NoTransport
       THEN handleNewConsumer(At([w EXCEPT !.page.flow[f].todo = Tail(@)], f, "consuming"),
                              Head(todo), f)
       ELSE [w EXCEPT !.page.flow[f].todo = <<>>,
                      !.page.pendingConsumers = @ \o todo]
continueConsuming(w, f) ==
    LET first == consumeNext(w, f)
        second == consumeNext([first EXCEPT !.page.flow[f].stage = "queued",
                                            !.page.flow[f].todo = first.page.pendingConsumers,
                                            !.page.pendingConsumers = <<>>], f)
        Waits(v) == v.page.tasks # w.page.tasks
    IN CASE w.page.flow[f].stage = "known" -> consumeKnown(w, f)
         [] Waits(first) -> first
         [] w.page.flow[f].stage = "created" /\ Waits(second) -> second
         [] w.page.flow[f].stage = "created" -> consumeKnown(second, f)
         [] OTHER -> consumeKnown(first, f)

(* The consume() calls of a batch settle together and their callers go on. *)
Waiters(items) == {items[i].waiter : i \in DOMAIN items} \ {"none"}
batchSettles(w) ==
    FoldSet(LAMBDA f, v : continueConsuming(v, f), [w EXCEPT !.page.batch = NoBatch],
            Waiters(w.page.batch.items))

(* One creation of consumers runs at a time, for all consume() calls made  *)
(* until it starts.                                                        *)
createPendingConsumers(w) ==
    IF w.page.batch # NoBatch \/ w.page.tasks = <<>> THEN w
    ELSE [w EXCEPT !.page.batch = [at |-> "start", items |-> w.page.tasks], !.page.tasks = <<>>]

createRecvSkipping(w, f, precreated) ==
    IF ~w.page.device.loaded THEN FlowFails(w, f)
    ELSE continueConsuming(
             ensureDownlinkReporting(
                 [w EXCEPT !.page.recv = <<w.page.ws, f>>, !.page.connected = FALSE]), f)
createRecvTransport(w, f, precreated) ==
    LET producersOf == {precreated[i][2] : i \in DOMAIN precreated} IN
    IF ~w.page.device.loaded THEN FlowFails(w, f)
    ELSE continueConsuming(
             ensureDownlinkReporting(
                 [w EXCEPT !.page.recv = <<w.page.ws, f>>, !.page.connected = FALSE,
                           !.page.flow[f].todo = precreated,
                           !.page.flow[f].known = @ \ producersOf]), f)

-----------------------------------------------------------------------------
(* Answers, failures and the start of the flows *)

Answered(w, f, kind, producers, consumers) ==
    CASE kind = "join" -> wsRequest([w EXCEPT !.page.flow[f].known = producers], f, "setQosPolicy")
      [] kind = "setQosPolicy" -> loadDevice(w, f)
      [] kind = "createRecv" -> createRecvTransport(w, f, consumers)
      [] kind = "consume" ->
             LET next == handleNewConsumer(At([w EXCEPT !.page.flow[f].known = @ \ producers],
                                              f, "consuming"), consumers[1], f)
             IN IF w.page.recv = NoTransport THEN continueConsuming(next, f) ELSE next
      [] kind = "createSend" -> createSendTransport(w, f)
      [] kind = "connectSend" -> produceNext([w EXCEPT !.page.sendConnected = TRUE], f)
      [] kind = "produce" -> produced(w, f)
      [] kind = "connectRecv" ->
             [w EXCEPT !.page.connected = TRUE, !.page.batch.at = "local"]

RejectedThrows(w, r) ==
    IF r.kind = "connectRecv"
    THEN FoldSet(LAMBDA f, v : FlowFails(v, f), [w EXCEPT !.page.batch = NoBatch],
                 Waiters(w.page.batch.items))
    ELSE FlowFails(w, r.flow)
Rejected(w, r) ==
    CASE r.kind = "connectRecv" -> batchSettles(w)
      [] r.kind = "consume" ->
             continueConsuming([w EXCEPT !.page.flow[r.flow].known = @ \ {Min(@)}], r.flow)
      [] OTHER -> FlowFails(w, r.flow)
failPendingRequests(w) == FoldSet(LAMBDA r, v : Rejected(v, r), w, Awaited(w.page))

Closes(w, s) ==
    IF s = None \/ w.sock[s].st # "open" THEN w
    ELSE [w EXCEPT !.sock[s] = [NoSocket EXCEPT !.st = "closing"]]

establishJoinedSession(w, f) == [At(w, f, "resolve") EXCEPT !.page.entered = TRUE]

(* close() of the sending transport rejects the produce() under way. *)
joinRoom(w) ==
    LET reset == resetRemoteMediaState(
                     resetLocalPublishState([w EXCEPT !.page.device = NoDevice], TRUE, TRUE))
        producing == {f \in Flows : w.page.flow[f].pc \in {"connectSend", "produce"}}
    IN FoldSet(LAMBDA f, v : FlowFails(v, f), establishJoinedSession(reset, "join"), producing)

publishMedia(w) ==
    IF w.page.device = NoDevice \/ w.page.send # NoTransport \/ w.page.producers # {} THEN w
    ELSE At(w, "pub", "capture")

stopQos(w) == updateControls(stopLocalQosSession(w))

(* The pending requests are rejected first, but what waits for them goes   *)
(* on only after the part of the recovery that precedes its first wait.    *)
recoverAfterServerRestart(w) ==
    LET p == w.page
        reset == resetLocalPublishState(resetRemoteMediaState(w), FALSE, FALSE)
        started == [establishJoinedSession(Closes(reset, p.ws), "rec")
                       EXCEPT !.page.ws = None, !.page.recovering = TRUE, !.page.attempt = 1,
                              !.page.republish = p.desiredLocalPublish]
        failed == FoldSet(LAMBDA r, v : Rejected(v, r), started,
                          {r \in Awaited(p) : r.flow # "recv"})
    IN IF p.recovering \/ ~p.entered THEN w
       ELSE IF p.batch.at = "connect"
       THEN FoldSet(LAMBDA f, v : continueConsuming(v, f), failed, Waiters(p.batch.items))
       ELSE failed

-----------------------------------------------------------------------------
(* Steps of the page *)

Step(w) == Becomes(createPendingConsumers(w))
Calm == \A f \in Flows : page.flow[f].pc = "idle"

(* Waits of joinRoom() whose rejection ends it; at any other wait it goes  *)
(* on beside a recovery that starts.                                       *)
Interruptible(f) == page.flow[f].pc \in {"idle", "join", "createRecv"}

(* The buttons.  Bound: a flow is started again only when it has ended.    *)
ClickJoin ==
    /\ page.ui.join /\ used.joins < MaxJoins
    /\ page.flow["join"].pc = "idle"
    /\ Step(joinRoom(World))
    /\ used' = [used EXCEPT !.joins = @ + 1, !.overlap = @ \/ ~Calm]
    /\ UNCHANGED room

ClickPublish ==
    /\ page.ui.publish /\ used.publishes < MaxPublishes
    /\ page.flow["pub"].pc = "idle"
    /\ Step(publishMedia(World))
    /\ used' = [used EXCEPT !.publishes = @ + 1, !.overlap = @ \/ ~Calm]
    /\ UNCHANGED room

ClickStop ==
    /\ page.ui.stop
    /\ Step(stopQos(World))
    /\ UNCHANGED <<room, used>>

ResolvedBeside(f) ==
    /\ page.flow[f].pc = "resolve" /\ (Overlaps \/ ~used.overlap)
    /\ LET s == Opened + 1
       IN Step([At(World, f, "connect")
                   EXCEPT !.sock[s].st = "connecting", !.page.flow[f].sock = s])
    /\ UNCHANGED <<room, used>>

(* resolveWsUrl() has answered: connectWs() *)
Resolved(f) ==
    /\ page.flow[f].pc = "resolve" /\ (Overlaps \/ ~used.overlap)
    /\ LET s == Opened + 1
       IN Step([At(Closes(World, page.ws), f, "connect")
                   EXCEPT !.sock[s].st = "connecting", !.page.flow[f].sock = s])
    /\ UNCHANGED <<room, used>>

onopen(f) ==
    /\ page.flow[f].pc = "connect"
    /\ LET s == page.flow[f].sock
       IN Step(wsRequest([World EXCEPT !.sock[s].st = "open", !.page.ws = s], f, "join"))
    /\ UNCHANGED <<room, used>>

onerror(f) ==
    /\ page.flow[f].pc = "connect" /\ used.refusals < MaxRefusals
    /\ Step(FlowFails([World EXCEPT !.sock[page.flow[f].sock].st = "closed"], f))
    /\ used' = [used EXCEPT !.refusals = @ + 1]
    /\ UNCHANGED room

onclose(s) ==
    /\ sock[s].st = "closing"
    /\ LET closed == [World EXCEPT !.sock[s] = [NoSocket EXCEPT !.st = "closed"]]
       IN Step(IF page.ws # s THEN closed
               ELSE failPendingRequests(stopDownlinkReporting([closed EXCEPT !.page.ws = None])))
    /\ UNCHANGED <<room, used>>

handleMessage(s) ==
    /\ sock[s].st = "open" /\ sock[s].inbox # <<>>
    /\ LET m == Head(sock[s].inbox)
           w == [World EXCEPT !.sock[s].inbox = Tail(@)]
           r == [flow |-> m.flow, kind |-> m.kind]
       IN Step(CASE m.kind = "newConsumer" -> handleNewConsumer(w, m.consumers[1], "none")
                 [] m.kind = "serverRestart" -> recoverAfterServerRestart(w)
                 [] r \notin Awaited(page) -> w
                 [] OTHER -> IF m.ok THEN Answered(w, m.flow, m.kind, m.producers, m.consumers)
                             ELSE Rejected(w, r))
    /\ used' = [used EXCEPT !.overlap =
           @ \/ (Head(sock[s].inbox).kind = "serverRestart" /\ ~Interruptible("join"))]
    /\ UNCHANGED room

(* device.load() of the flow's own device; another flow may have replaced  *)
(* it, and then its capabilities cannot be read yet.                       *)
Loaded(f) ==
    /\ page.flow[f].pc = "load"
    /\ LET w == IF page.device.by = f THEN [World EXCEPT !.page.device.loaded = TRUE] ELSE World
       IN Step(IF w.page.device.loaded THEN wsRequest(w, f, "createRecv") ELSE FlowFails(w, f))
    /\ UNCHANGED <<room, used>>

(* buildFreshCaptureSelection() has a camera stream or the fallback.       *)
Captured(f) ==
    /\ page.flow[f].pc = "capture"
    /\ LET capture == used.captures + 1
       IN /\ Step(publishCapturedMedia([World EXCEPT !.page.live = @ \cup TracksOf(capture)],
                                       f, capture))
          /\ used' = [used EXCEPT !.captures = capture]
    /\ UNCHANGED room

NextAttemptNever ==
    /\ page.flow["rec"].pc = "sleep"
    /\ Step(RecoveryEnds(World))
    /\ UNCHANGED <<room, used>>

(* sleep() between two attempts of the recovery is over. *)
NextAttempt ==
    /\ page.flow["rec"].pc = "sleep"
    /\ Step(IF page.attempt = MaxAttempts THEN RecoveryEnds(World)
            ELSE establishJoinedSession([World EXCEPT !.page.attempt = @ + 1,
                                                      !.page.flow["rec"] = Idle], "rec"))
    /\ UNCHANGED <<room, used>>

(* The handler of a closed transport gives up. *)
Released(f) ==
    /\ page.flow[f].pc = "released"
    /\ Step(continueConsuming(World, f))
    /\ UNCHANGED <<room, used>>

(* handler.receive(): the first one asks the page to connect the transport. *)
ReceiveStarts ==
    /\ page.batch.at = "start"
    /\ Step(CASE page.connected -> [World EXCEPT !.page.batch.at = "local"]
              [] ~page.connected /\ IsOpen(World) ->
                     Sends([World EXCEPT !.page.batch.at = "connect"],
                           Request("recv", "connectRecv", None))
              [] OTHER -> batchSettles(World))
    /\ UNCHANGED <<room, used>>
ReceiveDone ==
    /\ page.batch.at = "local"
    /\ LET items == ToSet(page.batch.items)
       IN Step(batchSettles([World EXCEPT !.page.remoteVideoConsumers =
                   @ \cup {<<item.transport, item.consumer>> : item \in items}]))
    /\ UNCHANGED <<room, used>>

(* A request that cannot be answered any more times out; any other may.    *)
(* Its answer finds no pending request.                                    *)
Lost(r) ==
    \A s \in Sockets : \A m \in ToSet(sock[s].requests) \cup ToSet(sock[s].inbox) :
        sock[s].st # "open" \/ m.flow # r.flow \/ m.kind # r.kind
Forget(messages, r) ==
    [i \in DOMAIN messages |->
        IF messages[i].flow = r.flow /\ messages[i].kind = r.kind
        THEN [messages[i] EXCEPT !.flow = "late"] ELSE messages[i]]
RequestTimeout(r) ==
    /\ Lost(r) \/ used.faults < MaxFaults
    /\ LET late == [s \in Sockets |-> [sock[s] EXCEPT !.requests = Forget(@, r),
                                                      !.inbox = Forget(@, r)]]
       IN Step(Rejected([World EXCEPT !.sock = late], r))
    /\ used' = [used EXCEPT !.faults = IF Lost(r) THEN @ ELSE @ + 1]
    /\ UNCHANGED room

-----------------------------------------------------------------------------
(* Steps of the server *)

Message(kind, flow, ok, producers, consumers) ==
    [kind |-> kind, flow |-> flow, ok |-> ok, producers |-> producers, consumers |-> consumers]
Consumers(s) == SetToSortSeq({<<s, p>> : p \in room.producers}, LAMBDA a, b : a[2] < b[2])

Answer(s, ok) ==
    LET r == Head(sock[s].requests)
        producers == CASE r.kind = "join" -> room.producers
                       [] r.kind = "consume" -> {r.producer}
                       [] OTHER -> {}
        consumers == CASE r.kind = "createRecv" -> Consumers(s)
                       [] r.kind = "consume" -> <<<<s, r.producer>>>>
                       [] OTHER -> <<>>
    IN /\ sock[s].st = "open"
       /\ sock' = [sock EXCEPT
              ![s].requests = Tail(@),
              ![s].inbox = Append(@, IF ok THEN Message(r.kind, r.flow, TRUE, producers, consumers)
                                     ELSE Message(r.kind, r.flow, FALSE, {}, <<>>)),
              ![s].joined = @ \/ (ok /\ r.kind = "join"),
              ![s].recv = @ \/ (ok /\ r.kind = "createRecv")]
       /\ UNCHANGED <<page, room>>

(* A room whose worker died still admits peers and stores policies, until  *)
(* the next health check.                                                  *)
Serves(s) ==
    /\ sock[s].requests # <<>>
    /\ LET r == Head(sock[s].requests)
       IN Answer(s, CASE r.kind = "join" -> TRUE
                      [] r.kind = "setQosPolicy" -> sock[s].joined
                      [] r.kind = "consume" -> /\ sock[s].joined /\ ~room.dead
                                               /\ r.producer \in room.producers
                      [] OTHER -> sock[s].joined /\ ~room.dead)
    /\ UNCHANGED used
RefusesJoin(s) ==
    /\ sock[s].requests # <<>> /\ Head(sock[s].requests).kind = "join"
    /\ used.refusals < MaxRefusals
    /\ Answer(s, FALSE)
    /\ used' = [used EXCEPT !.refusals = @ + 1]

Tell(s, m) == [sock[s] EXCEPT !.inbox = Append(@, m)]
RemoteProduces ==
    /\ used.producers < MaxProducers /\ ~room.dead
    /\ LET p == used.producers + 1
       IN /\ room' = [room EXCEPT !.producers = @ \cup {p}]
          /\ sock' = [s \in Sockets |->
                 IF sock[s].joined /\ sock[s].recv
                 THEN Tell(s, Message("newConsumer", "none", TRUE, {}, <<<<s, p>>>>)) ELSE sock[s]]
          /\ used' = [used EXCEPT !.producers = p]
    /\ UNCHANGED page
RemoteLeaves ==
    /\ ~room.dead
    /\ \E p \in room.producers : room' = [room EXCEPT !.producers = @ \ {p}]
    /\ UNCHANGED <<page, sock, used>>

WorkerDies ==
    /\ ~room.dead /\ used.crashes < MaxCrashes
    /\ room' = [room EXCEPT !.dead = TRUE]
    /\ used' = [used EXCEPT !.crashes = @ + 1]
    /\ UNCHANGED <<page, sock>>
checkRoomHealth ==
    /\ room.dead
    /\ room' = [dead |-> FALSE, producers |-> {}]
    /\ sock' = [s \in Sockets |->
           IF sock[s].joined
           THEN [Tell(s, Message("serverRestart", "none", TRUE, {}, <<>>))
                    EXCEPT !.joined = FALSE, !.recv = FALSE]
           ELSE sock[s]]
    /\ UNCHANGED <<page, used>>

ConnectionLost(s) ==
    /\ sock[s].st = "open" /\ used.faults < MaxFaults
    /\ sock' = Closes(World, s).sock
    /\ used' = [used EXCEPT !.faults = @ + 1]
    /\ UNCHANGED <<page, room>>

-----------------------------------------------------------------------------

Progress ==
    \/ NextAttempt \/ ReceiveStarts \/ ReceiveDone \/ checkRoomHealth
    \/ \E f \in Flows : Resolved(f) \/ onopen(f) \/ Loaded(f) \/ Captured(f) \/ Released(f)
    \/ \E s \in Sockets : onclose(s) \/ handleMessage(s) \/ Serves(s)
Environment ==
    \/ ClickJoin \/ ClickPublish \/ ClickStop
    \/ RemoteProduces \/ RemoteLeaves \/ WorkerDies
    \/ \E f \in Flows : onerror(f)
    \/ \E s \in Sockets : RefusesJoin(s) \/ ConnectionLost(s)
Next == Progress \/ Environment \/ \E r \in Awaited(page) : RequestTimeout(r)

(* Everything that is due is done: the network, the server, its health     *)
(* check and the devices answer, and an answer that is lost times out.     *)
(* The events are bounded, so then nothing is due any more.                *)
Due ==
    \/ \E f \in Flows : page.flow[f].pc \in {"resolve", "connect", "load", "capture", "sleep",
                                             "released"}
    \/ page.batch.at \in {"start", "local"}
    \/ room.dead
    \/ \E s \in Sockets :
           \/ sock[s].st = "closing"
           \/ sock[s].st = "open" /\ (sock[s].inbox # <<>> \/ sock[s].requests # <<>>)
    \/ \E r \in Awaited(page) : Lost(r)
Fairness == []<>~Due

Spec == Init /\ [][Next]_vars /\ Fairness

-----------------------------------------------------------------------------
(* Properties *)

(* Types, and what the fields say of each other: recoveryInFlight is set   *)
(* exactly while the recovery runs, consumers wait only behind a creation  *)
(* under way, and producers have a sending transport.                      *)
DemoTypeOK ==
    /\ page.ws \in Sockets \cup {None}
    /\ page.attempt \in 0 .. MaxAttempts
    /\ page.recovering = (page.flow["rec"].pc # "idle")
    /\ page.recovering = (page.attempt # 0)
    /\ page.batch = NoBatch => page.tasks = <<>>
    /\ page.send = NoTransport => page.producers = {}

(* No attempt of the recovery starts with the receiving transport or the   *)
(* downlink reporter of an earlier one: once establishJoinedSession() has  *)
(* created them nothing in it throws any more.                             *)
RetryStartsClean ==
    page.flow["rec"].pc = "resolve" /\ ~used.overlap =>
        page.recv = NoTransport /\ page.downlinkBundle = NoTransport

(* The downlink reporter samples the current receiving transport and the   *)
(* QoS session controls the producers of the current sending transport,    *)
(* through failed publications, restarts, lost connections and new joins.  *)
ReportersFollowTransports ==
    ~used.overlap => /\ page.downlinkBundle \in {NoTransport, page.recv}
                     /\ page.qosSession \in {NoTransport, page.send}

(* A captured track that is live belongs to localCaptureStreams, so that   *)
(* the next reset turns the camera off; up to the first restart.  (After a *)
(* recovery that failed to publish, a second one captures again over live  *)
(* streams.)                                                               *)
CaptureIsOwned ==
    used.crashes < 2 /\ ~used.overlap => \A track \in page.live : track[1] = page.streams

(* The page keeps one connection: any other is closed, or is the one a     *)
(* flow waits for in connectWs().                                          *)
OneConnection ==
    ~used.overlap =>
        \A s \in Sockets : sock[s].st \in {"connecting", "open"} =>
            s = page.ws \/ \E f \in Flows : page.flow[f].pc = "connect" /\ page.flow[f].sock = s

(* A session that ended, by whatever path, leaves nothing behind in the    *)
(* next one: no transport, reporter, capture or connection (the reset      *)
(* functions, connectWs).                                                  *)
OldSessionIsGone ==
    RetryStartsClean /\ ReportersFollowTransports /\ CaptureIsOwned /\ OneConnection

(* Nothing is under way; the page is in a room and can receive.            *)
Quiet == Calm /\ page.batch = NoBatch /\ ~Due
InSession == page.ws # None /\ sock[page.ws].joined /\ sock[page.ws].recv

(* With no timeout or lost connection, once nothing is under way a joined  *)
(* page consumes every producer of the room: the consumers made with the   *)
(* transport, the notifications and the list of the join leave no gap.     *)
EverythingConsumed ==
    Quiet /\ InSession /\ used.faults = 0 =>
        \A p \in room.producers : <<page.recv, <<page.ws, p>>>> \in page.remoteVideoConsumers

(* After one restart, with no timeout or lost connection and fewer refused *)
(* connections than attempts, the recovery ends in the new room, and       *)
(* publishing again if the page was (recoverAfterServerRestart).           *)
RecoversAfterRestart ==
    page.recovering ~>
        \/ used.faults > 0 \/ used.crashes > 1 \/ used.overlap
        \/ /\ ~page.recovering /\ InSession
           /\ page.republish => page.send # NoTransport /\ page.desiredLocalPublish

(* A serverRestart notification makes the client rejoin, or use up its     *)
(* attempts (docs/troubleshooting_cn.md: the strategy is to notify the     *)
(* clients to reconnect, so that the control plane rebuilds the room).     *)
ReconnectsWhenNotified ==
    (\E s \in Sockets : sock[s].st = "open" /\ sock[s].inbox # <<>>
                       /\ Head(sock[s].inbox).kind = "serverRestart")
        ~> InSession \/ page.attempt = MaxAttempts

=============================================================================
