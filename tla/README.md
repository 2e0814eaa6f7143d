# A TLA+ development of mediasoup-cpp

mediasoup-cpp is an SFU: a server with a uWebSockets signaling front end, a pool
of `WorkerThread`s and mediasoup worker processes that move the media, and a
browser client (the bundled mediasoup client library, a QoS controller and a demo
page). This directory keeps TLA+ models of the parts that are hard to test, the
TLC configurations that check them, and proofs checked by TLAPS. Paths below are
relative to the root of the repository.

## 1. The system and what is modelled

| part | state | operations | modules |
|---|---|---|---|
| signaling, WebSocket thread | sockets with joined and pending session, `WsMap`, `roomDispatch_`, deferred callbacks | join, request, clientStats, close, completions | `Signaling`, `SessionDirectory` |
| room lifecycle, per `WorkerThread` | rooms, peers with sessions, what a peer owns, published room count | join, leave, health check, idle collection, death of a process | `Signaling` |
| worker supervision, per `WorkerThread` | epoll set, `fdToWorker_`, workers, routers, respawn times, task queue | event loop, tasks, death, respawn, health check, stop | `WorkerPool` |
| channel to a worker process | receive buffer and dispatch offset, pending requests, ids | request, pump, wait, timeout, close, all re-entrant | `ChannelPump` |
| downlink QoS, page to producer | hints, reports and their numbers, rate limit, registry, dirty rooms and schedule token, supply state of a producer | report, reconnect, plan, hold, pause, warm up | `Downlink`, `DownlinkSampler` |
| codec negotiation, both ends | router capabilities, devices, producer, consumer | load, produce, consume | `RtpTypes`, `Ortc` (client), `RouterOrtc` (server), `Negotiation` |
| client command queue | pending tasks | push, execute, settle, stop, remove | `AwaitQueue` |
| client transports | transport, producers, consumers, their pending work | produce, consume, pause, replaceTrack, restartIce, close, ... | `Transport` |
| client handlers, one per browser | peer connection, remote description, transceiver maps | each method, from await to await | `HandlerInterface`, `HandlerRuntime`, `RemoteSdp`, `PeerConnection`, `Chrome111` ... `FakeHandler` |
| browser QoS controller | state machine, level, probe, overrides, coordination | sample, plan, execute, publish, roll back | `QosStateMachine`, `QosPlanner`, `QosCoordinator`, `QosController` |
| demo page | connection, transports, flows that wait | join, subscribe, publish, stop, recover | `DemoSession` |

How they interact. The WebSocket thread posts tasks to a `WorkerThread` (one FIFO
each) and the worker answers with `loop->defer` (one FIFO). A task runs alone on
its thread and talks to worker processes through a `Channel`, waiting for the
response by pumping the pipe itself. The death of a process is seen only as EOF
on that pipe, by the epoll loop. `Signaling` takes a task as atomic and a death as
one step; `WorkerPool` opens up the event loop, the processes and the descriptors
below it; `ChannelPump` opens up a single request. In the browser everything runs
on one thread, and interleaving happens at each `await`: `DemoSession` is the page
against the server's answers, `Transport` is one transport under it, over any
handler. `QosController` lowers and raises what a producer sends; `Downlink` is the
loop that tells the server what is watched.

What makes it hard: a socket can close, or its peer can be taken over, at any
point between a check on one thread and the effect on another; a process can die
between `epoll_wait` and the handling of its events; descriptor numbers are
reused; callbacks re-enter the pump; an application closes, pauses or replaces
what a command waits for; two ends compute the same agreement by separately
written rules. `PROJECT.json` lists each hazard at its line.

## 2. Modules

`MC_X` instantiates `X` for TLC. In every module a definition called a *variant*
is a plausible wrong form of the definition after it; nothing uses it, and it
documents which mistake the properties rule out.

### Signaling and SessionDirectory

Every `uWS` handler is one action of the WebSocket thread: `JoinKnownRoom`,
`JoinNewRoom`, `JoinNoWorker`, `Request`, `ClientStats`, `Close`. Every deferred
callback is one (`OnRoomCreated`, `OnRoomDestroyed`, `OnServerRestart`,
`OnJoinFailed`, `OnJoinRollback`, `OnJoinUnavailable`, `OnJoinCommit`), and so is
every worker task (`RunJoin`, `RunJoinRefused`, `RunJoinThrows`, `RunLeave`,
`RunLeaveStale`, `RunRequest`, `RunRequestRejected`, `RunStats`) and each of the
timers and deaths (`HealthCheck`, `GcTimer`, `WorkerDied`).

- A worker task is atomic because nobody else touches the worker's state. The
  published room count is set at its end. `hasRoom`, which the WebSocket thread
  reads across threads, is read at one point of the handler.
- The causes of a refused join (registry redirect, capacity, invalid
  capabilities) are one nondeterministic refusal.
- `oldWs->end()` runs the old socket's close handler inside the registration of
  the new one, so replacement is one step.
- A request stores the session that acted (`mediaBy`, `statsBy`): that is all the
  properties need of media and statistics.

`SessionDirectory` is what clients are promised: a socket asks for a peer, is
admitted or refused, and admission takes the peer over in one step. `Signaling`
implements it (`ImplementsSessionDirectory`) under the mapping in `Directory`.

### WorkerPool

One `WorkerThread`. `EpollWait` takes a batch of ready descriptors; `TakeTasks`,
`HealthCheck`, `ChannelEventIgnored` and `ChannelEventDeath` handle one member of
the batch each; `RunTask` runs one task. `Die`, `Garble`, `Post`, `Tick` and the
timer interleave between all of these.

- The outcome of a request is what it does to the channel. EPIPE, a failed `dup`
  and an invalid frame all close it, which closes the consumer descriptor and makes
  the kernel drop it from the epoll set.
- `workers` is a set: the list is kept in the order of spawning, which is how
  processes are numbered. `respawnTimes_` holds ages instead of times. A respawn
  whose `epoll_ctl` fails is a failed respawn (`NoRespawn`).
- The collection of idle rooms has the effect of `RunLeave`; readable events of
  healthy workers belong to `ChannelPump`. A process dropped for an invalid frame
  is not killed by the code and keeps running in the model too.

### ChannelPump

One non-threaded `Channel`. `calls` is the call stack of the thread: a pump
(`processAvailableData`) or a wait (`waitForResponse`) per element.

- Bytes are only appended to and erased from the front of `recvBuf_`, so stream
  positions (`erased`, `received`, `offset`) describe it exactly. A frame is two
  bytes, a header and a payload, so every read may end inside one.
- All reads up to EAGAIN are one step. An invalid frame is one with an invalid
  length. A listener's exception is swallowed by the emitter.
- After a nested `close()` the outer loop still dispatches what is buffered; the
  model does too. A wait on a dead worker polls until its deadline.

### Downlink and DownlinkSampler

The page's timer samples and reports (`Report`, `TickFails`); the signaling thread
applies its rate limit; the worker runs `RunReport`, `RunJoin`, `RunLeave`,
`RunPlan`, `RunDelayed` in the order they were posted; planning reads the registry
and drives the supply state of the producer. `Rejoin` renumbers the reports while
one of the old session may still arrive (`ReceiveLate`). `SetClock` sets the page's
wall clock, from which a report takes its timestamp. One unit of time is the report
interval.

- What the network allows a subscriber is part of its report, and the allocator's
  result is what it allows. Its bit-rate arithmetic is not modelled.
- Numbers wrap at `MaxSeq`; `ResetThreshold` stands for the code's 1000.
- Both refusals of the registry are modelled, `StaleSeq` and `StaleTs`. A timestamp
  is kept as how far the page's clock was behind when the report was built, together
  with the report's age: it is older than the stored one exactly when the clock was
  set back by more than has passed since. The timestamp of a late report is not
  known, so it may be refused or not.
- `DownlinkSampler` is the pure part: which report a hint takes, and the loss
  charged between two samples.

### RtpTypes, Ortc, RouterOrtc, Negotiation

`Ortc` is the client's `ortc.js` with the H.264 package it calls, `RouterOrtc` the
server's `ortc.h`, both as operators over the same codec records. `Negotiation`
plays them against each other: a router is created, two devices load its
capabilities, one produces, the other consumes. MIME types, feedback and parameters
are kept, as they decide a match; SSRCs, encodings and extension encryption are
left out. The codecs are those of the default configurations.

### AwaitQueue and Transport

`AwaitQueue` is the promise queue of the client bundle; `Transport` extends it. An
action is one stretch of JavaScript between two awaits: an application call
(`produce`, `consume`, `close`, ...), the answer of the browser or of the
application, or a microtask. `tasks` holds the commands that the queue knows or
that still run after `close()` has cut them off.

`HandlerRuntime` runs a handler method as its list of steps. Each handler module
gives the lists of one browser's methods, call by call in the order of its source.
`RemoteSdp` is the description the client writes for the browser: sections with
MID, port, direction, ICE generation and DTLS role, reused as the code reuses them.
`PeerConnection` is external: transceivers, m-lines, signaling states, and the
rules by which a browser refuses a description, as far as the handlers use them.

### QosStateMachine, QosPlanner, QosCoordinator, QosController

The first three are pure: classification of a sample with hysteresis, the ladders
with the planned actions, and what one track asks of another. Measurements are the
bands that the thresholds tell apart, because the smoothing is arithmetic on reals.
`QosController` is one track's controller: the two jobs that may run
`processSample` (timer and `sampleNow`), the actions they await, publication,
probes with rollback, overrides with their time to live and the messages that clear
them, policies. A clear removes what `handleOverride` removes for its reason: all,
those of the downlink, all but the server's, or those whose reason starts with its
own less the suffix (`ClearedBy`); a clear with a null clamp is refused by the parser and removes nothing.
Time is in ticks of the sampling interval, with the cooldowns scaled to a few ticks.

### DemoSession

The page's flows (`join`, `rec`, `pub`) and the batch of consumers, each at the
await it is suspended at; the connections with their requests and notifications;
the server's room. Clicks, remote producers, worker deaths, refusals, timeouts and
lost connections interleave with all of them.

## 3. Runs

| run | instance | states | what it shows |
|---|---|---|---|
| signaling_pool | 2 threads, 1 room, 2 peers, 3 sockets, 3 sessions | 416,252 | socket map, broadcast sets and pending marks are right; the protocol implements `SessionDirectory` |
| signaling_one_worker | 1 thread, 2 peers, 3 sockets, 1 death, backlog 1 | 1,382,806 | no ghost peers; requests reach their own session's peer or none; nothing outlives its room; a peer is lost only to a newer join or an announced restart |
| signaling_liveness | 1 thread, 2 sockets, 1 death, fair | 19,930 | joins are answered, closed sessions removed, dead rooms announced |
| pool_fd_reuse | 2 workers, 3 processes, 3 descriptor numbers, 1 router per worker | 1,441,915 | routers agree with rooms; open workers are watched; no healthy worker is dropped; a room is dead exactly while its worker is no longer in the pool |
| pool_liveness | 1 worker, 3 processes, limit 1, window 1, fair | 419,663 | respawns per window are bounded; dead rooms are destroyed; deaths are noticed unless a request closed the channel first |
| channel_nesting | 3 messages, 3 requests over 2 ids, 4 nested calls, buffer of 2 frames, fair | 165,508 | no message replayed, skipped or left behind; every pending promise is awaited and settled by its own answer; calls return; messages reach their handler |
| transport_handlers | all 13 handlers, both directions, 3 producers or consumers, 4 calls, 1 failure | 574,951 | one command at a time; the description follows the connection; application and browser objects converge; media is released; `consume()` settles |
| qos_controller | camera and screen share, 3 network samples, 2 overrides and a clear for each, 2 policies, 1 event | 718,351 | the producer does what the controller's level says; no upgrade under congestion; it settles with the network |
| demo_session | 2 joins, 1 publication, 1 producer, 1 death, 1 refusal, 1 fault | 416,300 | nothing of an old session survives; everything in the room is consumed; a restart is recovered from |
| rtp_negotiation | 3 router configurations; 6 lists of video codecs, 3 choices of RTX and 3 of extensions for either device | 40,200 | payload types agree; what matches can be produced and is mapped as matched; what is negotiated is consumed; the answer is agreed |
| downlink_loop | 1 page, 1 other peer, numbers 0..8, 1 lost report in a row, a clock set back by up to 3 intervals | 577,647 | one wake-up of the planner; fresh reports are stored; loss is charged to its stream; only unwatched producers are paused, and the supply follows the demand |
| pool_crash | 1 worker, 2 processes, fair | | the counterexample of section 5 |

Several of these properties are conjunctions of invariants that hold only
together or that one reader wants at once; each conjunct is a definition of its own
with its comment beside it. The type invariants (`TypeOK`, `QosTypeOK`, ...) hold
on the same instances; those of `Signaling`, `WorkerPool`, `ChannelPump` and
`Downlink` are proved.

Bounds. Two sockets are what a takeover needs, a third adds a bystander or a
second takeover. Two threads are what a split room needs. Three processes give two
deaths and the reuse of both numbers. Four nested calls are a loop pump, a request
in its callback, that request's pump, and a request in *its* callback; deeper
nesting repeats the pattern. `MaxBacklog` and `MaxQueue` only bound how many
requests wait. Three producers are the audio and video of one application and one
more that reuses a closed section; four calls allow two commands to queue behind a
third while a fourth call cuts in. The QoS ladders are complete (five levels); one
event (override, policy, failed call) at any moment is what the rollback, the
filters and the expiry each have to survive, and larger instances (an audio track
of the same peer, 4.4 million states) were run without a violation. In the demo one
fault at any wait covers each await once; two producers gave 3.2 million states
without a violation. In the downlink loop one report lost, one late and one
reconnect cover the number rule on both sides of its threshold, and after the
clock was set back by three intervals reports are refused until the stored one is
about to become stale.
The tolerance of the timestamps (1 s) is less than an interval and therefore 0; the
proof has it arbitrary.

Deadlock is checked only for `downlink_loop`, where the page's timer never stops;
elsewhere sessions, messages, calls and processes are bounded and an idle system
rightly waits.

What the properties except. `AnswerIsForRequest` is about the first cycle of ids:
later, a response late by a whole cycle answers the wrong request, and with
2^32 - 1 ids the code relies on that never happening. `PeersFollowSockets` and
`PeerLostOnlyToReplacementOrRestart` are checked with one thread; with two they
fail for the reason of the split room in section 5. `DescriptionFollowsConnection`
and parts of `ObjectsConverge` say nothing once a call of the browser has failed:
the code has no way back from that. `OldSessionIsGone` and `RecoversAfterRestart`
say nothing after two flows of the page have overlapped (`used.overlap`): the page
lets a click on Join run beside a recovery, and both then write the same fields.
For the same reason the instance has `Overlaps = FALSE`, and it has one death: a
second one during the recovery is in section 5. `FreshReportsAreStored` excepts
reports behind a late one of the session before, and refusals for the timestamp while
less time has passed since the stored report than the clock was set back by: those
the code means. `LossIsChargedToItsStream` is about samples in which every hinted
consumer has its report; without one the code takes another's of the same kind.
`ProducerFollowsController`, once a call has failed or two samples have overlapped,
speaks only through `PausedWhileAudioOnly`; only the screen share is sampled by hand
in the run (with the camera too, 1.3 million states, there was no violation).
`MediaIsReleased` is about the peer connection of a capability probe, not about the
canvas track that Firefox120 makes for it, nor about a failure before its `try`.
`RoutersMatchRooms` does not see the limit of a worker; `RoutersWithinLimit`, which
is proved, does. `Negotiation`
considers receivers with RTX for all or for none of their video codecs, and local
levels other than 1b, on which the client's comparison is not an order.

Fairness.

- `Signaling`: the uWS loop drains its deferred queue, each worker its tasks, and
  the health timer fires.
- `WorkerPool`: the loop thread is scheduled and the timer fires; nothing is
  assumed of processes or clients.
- `ChannelPump`: the thread runs, epoll reports a readable pipe, a live worker
  finishes a frame it began. A timeout is strongly fair: the deadline is tested
  between pumps, so it is not enabled continuously, but once passed it stays passed.
- `Transport`: while the transport is open the browser and the application answer,
  and microtasks run. Nothing is assumed of the application's calls.
- `QosController`: the interval timer fires, awaited calls settle, and the page asks
  again for the decision over its tracks (it does every two seconds).
- `DemoSession`: whatever is due is done: messages on an open connection are
  handled, the server answers, the health check runs, a request without an answer
  times out. `Due` lists it. Every event is bounded, so this is weak fairness of
  each of these steps; a step is enabled whenever something is due (checked on the
  same instance).
- `Downlink`: the page's and the planner's timers fire, statistics and responses
  arrive, and the worker runs its tasks. Which reports are lost is bounded only in a
  row: a page whose every report is lost is rightly taken for gone.

## 4. Proofs

For every value of the constants allowed by the named assumptions: finite rooms,
peers and descriptors, null values distinct from real ones, positive sizes; for the
downlink loop also that the report numbers are more than twice the reset threshold
plus what may be lost in a row, the largest step of the page's clock and the events
of one interval, that the threshold is positive, and that the hold is
shorter than the pause confirmation (the code has 2^53 - 1, 1000, 2 s and 4 s).

| theorem | module | argument |
|---|---|---|
| `TypeCorrect` | `SignalingProofs` | inductive; one lemma per action. Every queued task and callback carries a room, a peer and a session, which is what the later proofs use |
| `SocketMapCorrect` | `SignalingProofs` | the three map properties are inductive only together (`SocketMapInv`): unregistering is right because a mapped socket is filed once. Only `Close` and `OnJoinCommit` touch the map; the rest is a frame lemma |
| `LoadCorrect` | `SignalingProofs` | inductive with the type invariant: every action that changes a room set publishes its size |
| `PeerStateCorrect` | `SignalingProofs` | `PeerStateInv`: what a peer owns belongs to its session, and nothing is owned without a peer, so replacing a peer may start clean |
| `PendingJoinsAreOnTheirWay` | `SignalingJoinProofs` | `JoinInv`: the joins queued as tasks or deferred as completions carry different sessions, and an open socket has at most the one its mark is for. Without it a completion could clear the mark of a later join of the same socket |
| `DirectoryImplemented` | `SignalingJoinProofs` | the refinement of `SessionDirectory`, from the type invariant, `SocketMapInv` and `JoinInv`: one lemma per action says which step of the directory it is, or that it is a stutter |
| `PoolTypeCorrect` | `WorkerPoolProofs` | inductive; sequences of ages need lemmas about `SubSeq` and `Append` |
| `RoutersMatchRoomsCorrect` | `WorkerPoolProofs` | inductive with the type invariant |
| `RoutersWithinLimitCorrect` | `WorkerPoolProofs` | `LimitInv`: a step either only shrinks a worker's router set, or adds one room to a worker that placement found below the limit |
| `OpenWorkersAreWatchedCorrect` | `WorkerPoolProofs` | needs `KnownProcs` (only spawned processes appear anywhere) and `FdsExclusive` (no two processes share a descriptor): without the latter, closing one channel could unwatch another |
| `OnlyBrokenWorkersAreDroppedCorrect` | `WorkerPoolProofs` | an action property, from the type invariant and the watch invariant |
| `RespawnRateBoundedCorrect` | `WorkerPoolProofs` | `RateInv`: the code tests the number of recorded deaths, the property counts respawns. Counted from the newest, each respawn has a death recorded no earlier, both lists are sorted by age, and pruning keeps this |
| `RoomsFollowTheirWorkersCorrect` | `WorkerPoolProofs` | `RouterHosts`: only a worker of the pool has routers. With `RoutersMatchRooms` that puts every room that is not dead on a worker of the pool; the converse needs `ListedOpen`: no worker of the pool was closed |
| `MessagesAreConsumed` | `ChannelPumpProofs` | `StreamInv` (bytes are consumed after received after written), `StackInv` (`recvBufProcessing_` is set exactly while a pump is on the stack, and the pump that erases is the lowest) and `BufferInv` (what was consumed is what was dispatched). Only with `StackInv` does a return from the outermost pump find the buffer scanned to its end |
| `PendingRequestsAreAwaited` | `ChannelPumpProofs` | inductive with `IssueInv`: what is registered was issued, and what was not issued is untouched, so a new request meets no entry of its own |
| `AnswersAreForTheirRequests` | `ChannelPumpProofs` | `IdInv`: in the first cycle request n has id n, and a request of a later cycle was given an id only after the first owner gave it up. It holds of the entries, the worker's inbox and the messages at once |
| `PromisesAreSettledOnce` | `ChannelPumpProofs` | an action property from the promise invariant: only registered promises are settled, and those are pending |
| `PlannerHasOneWakeupCorrect` | `DownlinkProofs` | `WorkerInv`: the one wake-up is a task that is not out of date, or an alarm exactly while `waking`; the property's cardinalities follow from it. Each update of the scheduler is a lemma about one worker record |
| `PausedOnlyUnwatchedCorrect` | `DownlinkProofs` | an action property. `DemandInv`: the timer of the hold has run no longer than nobody watches, since a change of what is watched makes the room dirty and a dirty room is planned before time passes |
| `FreshReportsAreStoredCorrect` | `DownlinkProofs` | `NumberInv`: the page's number is ahead of the stored one, on the circle of the numbers, by the reports since, and these are at most as many as may be lost plus the ticks an event limits; below the assumption on the threshold such a distance is never taken for a stale report. `ClockInv`: the page's clock is behind the one of the stored report by no more than it was set back since, and each report lost meanwhile cost an interval by which the stored one aged |
| `QueueSerialises` | `AwaitQueueProofs` | `QueueInv`: the queue is sorted by id and every id is below the next one, so `push()` hands out a fresh id and an id occurs once; without this `OnlyHeadExecutes` is not inductive |
| `QueueExecutesOnce` | `AwaitQueueProofs` | an action property from the same invariant: a step starts at most one command, never one that has been started, never one older than one that has |

Every invariant above was checked with TLC on the run's instance before it was
proved.

Model-checked only:

- liveness, and everything under fairness: outside the prover;
- `PeersFollowSockets` and `PeerLostOnlyToReplacementOrRestart`: they relate the
  order of the tasks of one queue to what has been posted and what the sockets are
  bound to; the inductive invariant is a statement about every suffix of the queue
  and is not worked out;
- `DemoSession`, `QosController` and `Transport` with its handlers: each step is an
  operator over sequences built with folds (reducing statistics, filling sections,
  matching producers), and a proof would need induction over data, which the prover
  cannot instantiate. The command queue of `Transport` is proved by itself;
- `Negotiation` and `LossIsChargedToItsStream`: properties of pure functions of that
  kind over the enumerated inputs.

## 5. Disagreements with the documentation

The run `pool_crash` shows one: a task sends a request to a worker that has just
died, the write fails with EPIPE, the channel is closed and its descriptor leaves
the epoll set. Nobody notices the death, and the rooms of the worker are never sent
the `serverRestart` that `specs/current/runtime-safety.md:41` requires.

The following properties state what a document or comment says and are not kept as
runs. Each is a definition beside the others, and TLC refutes it when it is added to
the configuration named, with the constants given.

| property | configuration | what is said, and what happens |
|---|---|---|
| `RoomOnOneWorker` | `Signaling_pool.cfg` | `README.md:244`: one room, one WorkerThread. A failed join unassigns a room while another join of it is queued; the next join creates it on a second thread |
| `ReplacedSocketIsClosed` | `Signaling_liveness.cfg`, no death | `README.md:321`: a new join invalidates the old socket at once. A reconnect that closes early replaces the peer and is rolled back; the old socket stays open and joined, without a peer |
| `StatsActOnOwnSession` | `Signaling_liveness.cfg`, backlog 3 | `docs/architecture_cn.md:743`: a queued request of an old session never acts on the new one. `clientStats` carries no session and is stored for the new one |
| `CompleteMessagesAreProcessed` | `ChannelPump_nesting.cfg` | `src/Channel.cpp:379`: all complete messages are processed. Those read together with EOF are not dispatched |
| `ReplacedTrackIsStopped` | `Transport_handlers.cfg`, Chrome111 only | `src/client/lib/Producer.js:191`: a track given to a closed Producer is stopped there, for lack of another chance. When `close()` comes while `replaceTrack()` waits, the new track is stopped by nobody |
| `HoldsWhileProbing` | `QosController_recovery.cfg`, no event | `docs/uplink-qos-blind-spot-scenario.md:279`: while a probe is under way the level does not rise further. `controller.js:592` plans a further upgrade during the probe |
| `ReconnectsWhenNotified` | `DemoSession_recovery.cfg`, 2 deaths, 3 attempts, no fault | `docs/troubleshooting_cn.md:379`: clients are told to reconnect. A `serverRestart` that arrives while a recovery is under way is ignored (`public/qos-demo.js:2092`), and the page stays without a room |

## 6. Not modelled

- The room registry (Redis keys with TTLs, caches, pub/sub, takeover between nodes)
  and its task thread. `Signaling` takes the registry's answer as a refusal of the
  join or none. Both would be modules of their own, with Redis as an external part.
- The recorder: depacketising and muxing are FFmpeg calls; its deferred header and
  timestamp unwrapping are sequential.
- The native push/play client, a separate program.
- The threaded mode of `Channel` and `WorkerManager`'s respawn, which the server
  does not use; `postDelayed` inside `WorkerPool` (its effect is in `Downlink`).
- The tree of transports, producers and consumers below a `Router` in the server:
  only routers are counted.
- Generation of uplink overrides in the server. They are the messages
  that `QosController` receives, with their expiry.
- Bit-rate allocation, smoothing of statistics and geographic distance: arithmetic
  on reals without state.
- Building and parsing SDP text, FlatBuffers and JSON validation, HTTP endpoints,
  bootstrap, logging, rendering: field-by-field translation or I/O.
- Type checks of single fields in the client's `ortc.js`, getters, statistics and
  connection-state events of its objects, and the detection of the browser.
