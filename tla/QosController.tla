--------------------------- MODULE QosController ---------------------------
(***************************************************************************)
(* PublisherQosController (qos/controller.js) of one track, with its       *)
(* interval sampler, action executor and producer adapter, the overrides   *)
(* and policies of the signalling channel and the coordination of the      *)
(* peer's tracks.                                                          *)
(*                                                                         *)
(* processSample() runs in two jobs: one started by the sampler's timer,   *)
(* which never overlaps itself, and one started by sampleNow(), which may  *)
(* overlap the first.  A job waits for the statistics, for the handler's   *)
(* queue (setRtpEncodingParameters, setMaxSpatialLayer) and for the        *)
(* publication of its snapshot; messages arrive between these waits.  The  *)
(* actions that pause and resume the producer complete without leaving the *)
(* microtask queue.                                                        *)
(*                                                                         *)
(* Time advances in ticks of one sample interval; deadlines are counted    *)
(* down.  The trace buffer, the sequence number and the texts of a         *)
(* snapshot are left out.                                                  *)
(***************************************************************************)
EXTENDS QosCoordinator, FiniteSets, FiniteSetsExt, TLC

CONSTANTS
    TrackSources,      \* sources of the tracks of this instance
    SampledByHand,     \* those the application also samples with sampleNow()
    Peers,             \* sources of the peer's other track, or "none"
    Samples,           \* signals of the network while it is unsettled
    Messages,          \* overrides the server or the application sends
    Policies,          \* policies the server sends
    SnapshotInterval,  \* snapshotIntervalMs in ticks
    MaxAge,            \* bound: ticks that pass while a sample is processed
    MaxEvents          \* bound: messages, failures and calls of the application

VARIABLES
    track,         \* source of the track, and of the peer's other track
    c,             \* fields of the controller
    overrides,     \* activeOverrides: reason -> what it asks and its ttl
    coordination,  \* coordinationOverride
    job,           \* the two runs of processSample()
    waiting,       \* jobs with a command in the handler's queue
    producer,      \* what the actions did to the producer
    lastKey,       \* _lastAppliedActionKey of the executor
    net,           \* the network: "any", and from some time on "clear" or "bad"
    used           \* bounded events; history: a call failed, two jobs overlapped

vars == <<track, c, overrides, coordination, job, waiting, producer, lastKey, net, used>>

Jobs == {"timer", "manual"}
NoOverrides == <<>>
NullClamp == -1      \* "maxLevelClamp": null
NoKey == noop(0)
PubCap == SnapshotInterval + MaxAge
Clear == [net |-> 0, jitter |-> 0, raw |-> TRUE, ready |-> TRUE, sending |-> TRUE, lim |-> "none"]
Bad == [Clear EXCEPT !.net = 4, !.jitter = 3, !.raw = FALSE, !.ready = FALSE]

IdleJob == [phase |-> "idle", rollback |-> FALSE, acts |-> <<>>, levelBefore |-> 0,
            audioBefore |-> FALSE, transitioned |-> FALSE, strong |-> FALSE,
            sending |-> FALSE, clamped |-> FALSE, age |-> 0]

Init ==
    /\ track \in [source : TrackSources, peer : Peers]
    /\ c = [level |-> 0, audioOnly |-> FALSE, profile |-> "default", allowed |-> TRUE,
            ctx |-> createInitialQosStateMachineContext, probe |-> NoProbe,
            streak |-> FALSE, grace |-> 0, suppressed |-> 0, pub |-> PubCap,
            prev |-> "none", running |-> FALSE]
    /\ overrides = NoOverrides
    /\ coordination = NoCoordination
    /\ job = [j \in Jobs |-> IdleJob]
    /\ waiting = <<>>
    /\ producer = [encodings |-> Nothing, layer |-> NoLayer, paused |-> FALSE,
                   closed |-> FALSE]
    /\ lastKey = NoKey
    /\ net = "any"
    /\ used = [events |-> 0, failed |-> FALSE, overlap |-> FALSE]

-----------------------------------------------------------------------------
(* Overrides *)

Live == {r \in DOMAIN overrides : overrides[r].ttl > 0}
Merged ==
    [clamp |-> LET clamps == {overrides[r].clamp : r \in Live} \ {NoClamp}
               IN  IF clamps = {} THEN NoClamp ELSE Min(clamps),
     forceAudioOnly |-> \E r \in Live : overrides[r].forceAudioOnly,
     disableRecovery |-> \E r \in Live : overrides[r].disableRecovery,
     pauseUpstream |-> \E r \in Live : overrides[r].pauseUpstream,
     resumeUpstream |-> \E r \in Live : overrides[r].resumeUpstream]
Forced == Merged.forceAudioOnly \/ coordination.forceAudioOnly

Only(keys) == [r \in keys |-> overrides[r]]

(* Who an override comes from, by the prefix of its reason. *)
Family(reason) ==
    CASE reason \in {"server_auto_poor", "server_auto_lost", "server_auto_clear",
                     "server_room_pressure", "server_room_pressure_clear",
                     "server_ttl_expired"} -> "server"
      [] reason \in {"downlink_v2_zero_demand_hold", "downlink_v2_room_demand",
                     "downlink_v2_demand_restored", "downlink_v3_zero_demand_pause",
                     "downlink_v3_demand_resumed"} -> "downlink"
      [] OTHER -> "manual"

(* The reasons that start with this one less its "_clear". *)
Extending(reason) ==
    CASE reason = "server_auto_clear" ->
           {"server_auto_poor", "server_auto_lost", "server_auto_clear"}
      [] reason \in {"server_room_pressure", "server_room_pressure_clear"} ->
           {"server_room_pressure", "server_room_pressure_clear"}
      [] OTHER -> {reason}

(* The overrides that a message with ttlMs = 0 and this reason removes. *)
ClearedBy(reason) ==
    {r \in DOMAIN overrides :
        \/ reason = "server_ttl_expired"
        \/ Family(reason) = "downlink" /\ Family(r) = "downlink"
        \/ Family(reason) = "manual" /\ Family(r) # "server"
        \/ Family(reason) = "server" /\ r \in Extending(reason)}

Asks(m) == [clamp |-> m.clamp, forceAudioOnly |-> m.forceAudioOnly,
            disableRecovery |-> m.disableRecovery, pauseUpstream |-> m.pauseUpstream,
            resumeUpstream |-> m.resumeUpstream, ttl |-> m.ttl]

(* parseQosOverride() throws for a clamp that is present but not a number, *)
(* and for pause and resume together; handleMessage() drops what throws.   *)
parseQosOverride(m) == m.clamp # NullClamp /\ ~(m.pauseUpstream /\ m.resumeUpstream)

(* One of the bounded events, which stop when the network settles. *)
Event == net = "any" /\ used.events < MaxEvents
OneMore == [used EXCEPT !.events = @ + 1]
Message == Event /\ used' = OneMore

(* Messages that only remove overrides need no bound. *)
handleOverride(m) ==
    /\ IF m.ttl = 0 THEN net = "any" /\ UNCHANGED used ELSE Message
    /\ overrides' =
           IF ~parseQosOverride(m) \/ ~m.mine THEN overrides
           ELSE IF m.ttl = 0 THEN Only(DOMAIN overrides \ ClearedBy(m.reason))
           ELSE (m.reason :> Asks(m)) @@ overrides
    /\ UNCHANGED <<track, c, coordination, job, waiting, producer, lastKey, net>>

(* An interval of 0 passes the parser and makes updateIntervalMs() throw   *)
(* after the switches are set and before the profile is.                   *)
handlePolicy(policy) ==
    /\ Message
    /\ c' = [c EXCEPT
           !.allowed = policy.allowed,
           !.profile = IF policy.interval = 0 THEN @
                       ELSE resolveProfileByName(track.source, policy.profile, @)]
    /\ UNCHANGED <<track, overrides, coordination, job, waiting, producer, lastKey, net>>

(* getDecision() of the peer's session: the other track's quality is       *)
(* whatever its own controller made of it.                                 *)
TrackQuality ==
    IF c.prev = "none" THEN "excellent"
    ELSE mapStateToQuality(c.ctx.state, c.prev = "sending")
Decided(quality) ==
    LET own == [id |-> 1, source |-> track.source, quality |-> TrackQuality]
        other == [id |-> 2, source |-> track.peer, quality |-> quality]
        tracks == IF track.peer = "none" THEN {own} ELSE {own, other}
    IN  applyPeerCoordination(own, buildPeerQosDecision(tracks))
PeerQualities == IF net = "any" /\ track.peer # "none" THEN {"excellent", "poor"} ELSE {"excellent"}

getDecision ==
    /\ \E quality \in PeerQualities : coordination' = Decided(quality)
    /\ UNCHANGED <<track, c, overrides, job, waiting, producer, lastKey, net, used>>

-----------------------------------------------------------------------------
(* One sample *)

strong(s) == isFastRecoveryHealthy(s)

(* Jitter alone neither ends a recovery that is being probed nor keeps an  *)
(* audio-only camera congested.                                            *)
getTransitionSignals(s) ==
    IF /\ NetworkRecovered(s)
       /\ \/ c.probe.active
          \/ c.grace > 0
          \/ c.audioOnly /\ c.ctx.state = "congested" /\ ~Forced
    THEN [s EXCEPT !.jitter = 0] ELSE s

(* Variant: the end of an override does not release audio-only. *)
filterActionsNoRelease(actions, level, audioOnly) ==
    LET enter == Action("enterAudioOnly", level, Nothing)
        planned == SelectSeq(actions, LAMBDA a :
                       c.allowed \/ a.type \notin {"enterAudioOnly", "exitAudioOnly"})
    IN  IF track.source = "camera" /\ c.allowed /\ ~audioOnly /\ Forced
        THEN <<enter>> \o planned
        ELSE IF planned = <<>> THEN <<noop(level)>> ELSE planned

(* The actions the policy leaves, preceded by those an override, or its    *)
(* end, asks for.                                                          *)
filterActions(actions, level, audioOnly) ==
    LET camera == track.source = "camera" /\ c.allowed
        pausing == Merged.pauseUpstream
        at(type) == Action(type, level, Nothing)
        when(condition, action, rest) == IF condition THEN <<action>> \o rest ELSE rest
        planned == SelectSeq(actions, LAMBDA a :
                       c.allowed \/ a.type \notin {"enterAudioOnly", "exitAudioOnly"})
        paused == when(camera /\ pausing /\ ~audioOnly, at("enterAudioOnly"), planned)
        resumed == when(camera /\ Merged.resumeUpstream /\ audioOnly /\ ~pausing,
                        at("exitAudioOnly"), paused)
        byServer == when(camera /\ Merged.forceAudioOnly /\ ~audioOnly,
                         at("enterAudioOnly"), resumed)
        byPeer == when(camera /\ coordination.forceAudioOnly /\ ~audioOnly,
                       at("enterAudioOnly"), byServer)
        released == when(/\ camera /\ audioOnly /\ level < MaxLevel
                         /\ ~Forced /\ ~pausing
                         /\ \A i \in DOMAIN byPeer : byPeer[i].type # "exitAudioOnly",
                         at("exitAudioOnly"), byPeer)
    IN  IF released = <<>> THEN <<noop(level)>> ELSE released

Plan(ctx, probe) ==
    IF probe.active THEN <<noop(c.level)>>
    ELSE LET disabled == \/ coordination.disableRecovery
                         \/ Merged.disableRecovery
                         \/ c.suppressed > 0
             state == IF ctx.state = "recovering" /\ disabled THEN "early_warning"
                      ELSE ctx.state
         IN  planActions(state, track.source, c.profile, c.level, Merged.clamp, c.audioOnly)

Pausing == {"enterAudioOnly", "pauseUpstream"}
Resuming == {"exitAudioOnly", "resumeUpstream"}

Applied(st, a) ==
    [st EXCEPT !.c.level = a.level,
               !.c.audioOnly = CASE a.type = "enterAudioOnly" -> TRUE
                                 [] a.type = "exitAudioOnly" -> FALSE
                                 [] OTHER -> @]

(* Variant: what resumes the producer is not remembered. *)
executeForgetful(st, a) ==
    IF st.left # <<>> THEN [st EXCEPT !.left = Append(@, a)]
    ELSE IF a.type = "noop" \/ a = st.lastKey THEN Applied(st, a)
    ELSE IF st.producer.closed THEN st
    ELSE IF a.type \in Resuming THEN Applied([st EXCEPT !.producer.paused = FALSE], a)
    ELSE IF a.type \in Pausing
    THEN Applied([st EXCEPT !.producer.paused = TRUE, !.lastKey = a], a)
    ELSE [st EXCEPT !.left = <<a>>]

(* Variant: the key of an action is its type. *)
executeByType(st, a) ==
    IF st.left # <<>> THEN [st EXCEPT !.left = Append(@, a)]
    ELSE IF a.type = "noop" \/ a.type = st.lastKey.type THEN Applied(st, a)
    ELSE IF st.producer.closed THEN st
    ELSE IF a.type \in Pausing \cup Resuming
    THEN Applied([st EXCEPT !.producer.paused = a.type \in Pausing, !.lastKey = a], a)
    ELSE [st EXCEPT !.left = <<a>>]

(* Executor, sink and adapter: an action repeated right after itself is    *)
(* skipped as applied, one on a closed producer fails, pausing and         *)
(* resuming is done at once, and the first that needs the handler's queue  *)
(* is left, with all after it.                                             *)
execute(st, a) ==
    IF st.left # <<>> THEN [st EXCEPT !.left = Append(@, a)]
    ELSE IF a.type = "noop" \/ a = st.lastKey THEN Applied(st, a)
    ELSE IF st.producer.closed THEN st
    ELSE IF a.type \in Pausing \cup Resuming
    THEN Applied([st EXCEPT !.producer.paused = a.type \in Pausing, !.lastKey = a], a)
    ELSE IF a.type = "setMaxSpatialLayer" /\ a.arg[1] = st.producer.layer
    THEN Applied([st EXCEPT !.lastKey = a], a)
    ELSE [st EXCEPT !.left = <<a>>]

Executed(newC, newProducer, newKey, actions) ==
    FoldLeft(execute,
             [c |-> newC, producer |-> newProducer, lastKey |-> newKey, left |-> <<>>],
             actions)

(* The end of executeActions(): an upgrade starts a probe.  Then the       *)
(* snapshot is published, or processSample() is done.                      *)
BeginProbe(newC, jb) ==
    IF newC.level < jb.levelBefore \/ (jb.audioBefore /\ ~newC.audioOnly)
    THEN [newC EXCEPT !.probe = beginProbe(jb.levelBefore,
                                           IF newC.streak /\ jb.strong THEN 2 ELSE 3)]
    ELSE newC

(* Variant: only a change of state is published. *)
shouldPublishChange(newC, jb) == jb.transitioned

shouldPublish(newC, jb) == jb.transitioned \/ newC.pub - jb.age >= SnapshotInterval

Processed(newC, jb) == [newC EXCEPT !.prev = IF jb.sending THEN "sending" ELSE "silent"]

(* The end of a failed probe. *)
RolledBack(newC, jb) ==
    [newC EXCEPT !.ctx.state = "congested", !.ctx.since = jb.age, !.probe = NoProbe,
                 !.streak = FALSE, !.grace = 0,
                 !.suppressed = Cooldowns[newC.profile] - jb.age]

(* Job j goes on with the state the executed actions left. *)
GoOn(j, jb, st) ==
    /\ producer' = st.producer
    /\ lastKey' = st.lastKey
    /\ IF st.left # <<>>
       THEN /\ job' = [job EXCEPT ![j] = [jb EXCEPT !.phase = "wait", !.acts = st.left]]
            /\ c' = st.c
            /\ waiting' = Append(SelectSeq(waiting, LAMBDA k : k # j), j)
       ELSE /\ waiting' = SelectSeq(waiting, LAMBDA k : k # j)
            /\ IF jb.rollback
               THEN job' = [job EXCEPT ![j] = IdleJob] /\ c' = RolledBack(st.c, jb)
               ELSE LET newC == BeginProbe(st.c, jb)
                    IN  IF shouldPublish(newC, jb)
                        THEN /\ job' = [job EXCEPT ![j] =
                                            [jb EXCEPT !.phase = "publish", !.acts = <<>>]]
                             /\ c' = newC
                        ELSE job' = [job EXCEPT ![j] = IdleJob] /\ c' = Processed(newC, jb)

(* The successful probe of a strong recovery shortens the next one. *)
ProbeSucceeded(newC, s, bad, before) ==
    LET isStrong == /\ strong(s) /\ bad = 0 /\ newC.level > 0
                    /\ \/ before = "recovering"
                       \/ newC.ctx.state = "recovering"
                       \/ newC.streak
    IN  [newC EXCEPT !.probe = NoProbe, !.streak = isStrong,
                     !.grace = IF isStrong THEN 3 ELSE 0]

processSample(j, s) ==
    LET ctx == evaluateStateTransition(c.ctx, getTransitionSignals(s), c.profile)
        probe == IF c.probe.active THEN ProbeCounted(c.probe, s, c.profile) ELSE NoProbe
        result == evaluateProbe(probe)
        counted == [c EXCEPT !.ctx = ctx]
        jb == [IdleJob EXCEPT !.transitioned = ctx.state # c.ctx.state,
                              !.levelBefore = c.level, !.audioBefore = c.audioOnly,
                              !.strong = strong(s), !.sending = s.sending,
                              !.clamped = Merged.clamp # NoClamp]
        judged == IF probe.active /\ result = "successful"
                  THEN ProbeSucceeded(counted, s, probe.bad, c.ctx.state)
                  ELSE [counted EXCEPT !.probe = probe]
        settled == IF ~judged.probe.active /\ (ctx.state = "congested" \/ c.level = 0)
                   THEN [judged EXCEPT !.streak = FALSE] ELSE judged
    IN  /\ overrides' = Only(Live)
        /\ IF probe.active /\ result = "failed"
           THEN GoOn(j, [jb EXCEPT !.rollback = TRUE],
                     Executed(counted, producer, lastKey,
                              planActionsForLevel(c.probe.previousLevel, track.source,
                                                  c.profile, c.level, c.audioOnly)))
           ELSE GoOn(j, jb,
                     Executed(settled, producer, lastKey,
                              filterActions(Plan(ctx, settled.probe), c.level, c.audioOnly)))

-----------------------------------------------------------------------------
(* Steps of a job.  The statistics of a paused producer show no bytes sent,*)
(* and those of a closed one cannot be read.                               *)

Network == CASE net = "any" -> Samples [] net = "clear" -> {Clear} [] net = "bad" -> {Bad}

Snapshot(j) ==
    /\ job[j].phase = "stats"
    /\ ~producer.closed
    /\ \E s \in Network :
           processSample(j, IF producer.paused THEN [s EXCEPT !.sending = FALSE] ELSE s)
    /\ used' = [used EXCEPT !.overlap = @ \/ waiting # <<>>]
    /\ UNCHANGED <<track, coordination, net>>

SnapshotFails(j) ==
    /\ job[j].phase = "stats"
    /\ \/ producer.closed /\ UNCHANGED used
       \/ ~producer.closed /\ Message
    /\ job' = [job EXCEPT ![j] = IdleJob]
    /\ UNCHANGED <<track, c, overrides, coordination, waiting, producer, lastKey, net>>

(* The handler's queue answers in order.  A failed setMaxSpatialLayer()    *)
(* is swallowed by the producer.  A rollback whose probe another job has   *)
(* ended meanwhile throws when it traces the action.                       *)
Answered(a, ok) ==
    LET st == [c |-> c, producer |-> producer, lastKey |-> lastKey, left |-> <<>>]
    IN  IF a.type = "setMaxSpatialLayer"
        THEN Applied([st EXCEPT !.producer.layer = a.arg[1], !.lastKey = a], a)
        ELSE IF ok THEN Applied([st EXCEPT !.producer.encodings = a.arg, !.lastKey = a], a)
        ELSE st

Answer(ok) ==
    /\ waiting # <<>>
    /\ LET j == Head(waiting)
           jb == job[j]
           st == Answered(Head(jb.acts), ok)
       IN  IF jb.rollback /\ ~c.probe.active
           THEN /\ c' = st.c /\ producer' = st.producer /\ lastKey' = st.lastKey
                /\ job' = [job EXCEPT ![j] = IdleJob]
                /\ waiting' = Tail(waiting)
           ELSE GoOn(j, jb, Executed(st.c, st.producer, st.lastKey, Tail(jb.acts)))
    /\ UNCHANGED <<track, overrides, coordination, net>>

Done == Answer(TRUE) /\ UNCHANGED used
Fails ==
    /\ Event
    /\ waiting # <<>> /\ Head(job[Head(waiting)].acts).type = "setEncodingParameters"
    /\ Answer(FALSE)
    /\ used' = [OneMore EXCEPT !.failed = TRUE]

(* Published or not, the time of the attempt counts. *)
publishSnapshot(j) ==
    /\ job[j].phase = "publish"
    /\ c' = Processed([c EXCEPT !.pub = job[j].age], job[j])
    /\ job' = [job EXCEPT ![j] = IdleJob]
    /\ UNCHANGED <<track, overrides, coordination, waiting, producer, lastKey, net, used>>

-----------------------------------------------------------------------------
(* The sampler's timer and the application *)

Down(n) == IF n > 0 THEN n - 1 ELSE 0

(* The clock reaches the next sample interval; the timer's tick is dropped *)
(* while its job is under way.  Bounds: statistics are answered within the *)
(* tick, a sample is processed within MaxAge ticks.                        *)
Tick ==
    /\ \A j \in Jobs : \/ job[j].phase = "idle"
                       \/ job[j].phase # "stats" /\ job[j].age < MaxAge
    /\ c' = [c EXCEPT !.grace = Down(@), !.suppressed = Down(@),
                      !.pub = Least(@ + 1, PubCap),
                      !.ctx.since = IF c.ctx.state = "congested"
                                    THEN Least(@ + 1, LongestCooldown) ELSE 0]
    /\ overrides' = [r \in DOMAIN overrides |-> [overrides[r] EXCEPT !.ttl = Down(@)]]
    /\ job' = [j \in Jobs |->
           IF j = "timer" /\ c.running /\ job[j].phase = "idle"
           THEN [IdleJob EXCEPT !.phase = "stats"]
           ELSE IF job[j].phase = "idle" THEN job[j]
           ELSE [job[j] EXCEPT !.age = @ + 1]]
    /\ UNCHANGED <<track, coordination, waiting, producer, lastKey, net, used>>

start ==
    /\ ~c.running
    /\ c' = [c EXCEPT !.running = TRUE]
    /\ UNCHANGED <<track, overrides, coordination, job, waiting, producer, lastKey, net, used>>

stop ==
    /\ c.running
    /\ Message
    /\ c' = [c EXCEPT !.running = FALSE]
    /\ UNCHANGED <<track, overrides, coordination, job, waiting, producer, lastKey, net>>

sampleNow ==
    /\ track.source \in SampledByHand
    /\ job["manual"].phase = "idle"
    /\ Message
    /\ job' = [job EXCEPT !["manual"] = [IdleJob EXCEPT !.phase = "stats"]]
    /\ UNCHANGED <<track, c, overrides, coordination, waiting, producer, lastKey, net>>

CloseProducer ==
    /\ Message
    /\ ~producer.closed
    /\ producer' = [producer EXCEPT !.closed = TRUE]
    /\ UNCHANGED <<track, c, overrides, coordination, job, waiting, lastKey, net>>

(* The network is seen by the samples only, so it may as well settle when  *)
(* one is about to be taken.                                               *)
NetworkSettles ==
    /\ net = "any"
    /\ \E j \in Jobs : job[j].phase = "stats"
    /\ net' \in {"clear", "bad"}
    /\ UNCHANGED <<track, c, overrides, coordination, job, waiting, producer, lastKey, used>>

Next ==
    \/ Tick \/ start \/ stop \/ sampleNow \/ getDecision \/ CloseProducer \/ NetworkSettles
    \/ Done \/ Fails
    \/ \E j \in Jobs : Snapshot(j) \/ SnapshotFails(j) \/ publishSnapshot(j)
    \/ \E m \in Messages : handleOverride(m)
    \/ \E policy \in Policies : handlePolicy(policy)

(* While the sampler runs time passes; statistics, handler and server      *)
(* answer; and the application asks for the decision again and again (the  *)
(* demo does every two seconds).                                           *)
Fairness ==
    /\ []<>~c.running \/ []<><<Tick>>_vars
    /\ \A j \in Jobs : []<>(job[j].phase = "idle")
    /\ []<>(net = "any" \/ coordination = Decided("excellent"))

Spec == Init /\ [][Next]_vars /\ Fairness

-----------------------------------------------------------------------------
(* Properties *)

(* Types of the fields; the counters and deadlines stay within the bounds  *)
(* they are compared with, and only a waiting job has a command in the     *)
(* handler's queue.                                                        *)
QosTypeOK ==
    /\ c.level \in Levels
    /\ c.ctx \in Contexts
    /\ c.ctx.state # "congested" => c.ctx.since = 0
    /\ c.probe \in [active : BOOLEAN, previousLevel : Levels, healthy : 0 .. 2,
                    bad : 0 .. 1, required : {2, 3}]
    /\ c.probe.active => c.probe.healthy < c.probe.required
    /\ c.grace \in 0 .. 3
    /\ c.suppressed \in 0 .. LongestCooldown
    /\ c.prev \in {"none", "sending", "silent"}
    /\ ToSet(waiting) = {j \in Jobs : job[j].phase = "wait"}
    /\ Len(waiting) = Cardinality(ToSet(waiting))
    /\ \A j \in Jobs : (job[j].phase = "wait") = (job[j].acts # <<>>)

(* A camera is paused exactly while its controller is in audio-only mode,  *)
(* whatever fails, overlaps or is skipped as already done: executor.js     *)
(* skips an action only if it is the last one that was applied.            *)
PausedWhileAudioOnly ==
    track.source = "camera" => producer.paused = c.audioOnly

(* With no call failed or under way, and no overlap with sampleNow(), the  *)
(* producer sends with the parameters of the controller's rung: the levels *)
(* that rollbacks, clamps, releases and skipped actions leave agree with   *)
(* what was last set (executeActions and rollbackProbe, controller.js).    *)
Quiet == waiting = <<>> /\ ~used.failed /\ ~used.overlap /\ ~producer.closed
EncodingsFollowLevel ==
    Quiet =>
        \/ c.level = 0 /\ producer.encodings = Nothing
        \/ \E p \in Profiles :
               Ladder(track.source, p)[c.level].encodings \in {producer.encodings, Nothing}

(* A screen share is paused at the last rung of its ladder and sending at  *)
(* the rung above it.                                                      *)
ScreenShareFollowsRung ==
    Quiet /\ track.source = "screenShare" =>
        /\ c.level = MaxLevel => producer.paused
        /\ c.level = MaxLevel - 1 => ~producer.paused

(* What the producer sends follows what the controller decided.            *)
ProducerFollowsController ==
    PausedWhileAudioOnly /\ EncodingsFollowLevel /\ ScreenShareFollowsRung

(* While an upgrade is probed the level does not improve further           *)
(* (docs/uplink-qos-blind-spot-scenario.md: as long as the probe is under  *)
(* way the controller keeps the current level; test.qos.controller.js:     *)
(* 'controller holds recovery level steady while probe is in progress').   *)
HoldsWhileProbing ==
    [][c.probe.active /\ c'.probe.active => c'.level >= c.level]_vars

(* Within the cooldown of a congested state the level does not improve,    *)
(* unless an override clamps it or a failed probe is rolled back.          *)
HoldsWhileCongested ==
    [][/\ c.ctx.state = "congested" /\ c.ctx.since < Cooldowns[c.profile]
       /\ c'.level < c.level /\ ~used'.overlap
       => \/ Merged.clamp # NoClamp
          \/ \E j \in Jobs : job[j].clamped \/ job[j].rollback \/ job'[j].rollback]_vars

(* On a network that stays clear a running controller that may leave       *)
(* audio-only returns to the first rung and to video: no cooldown, failed  *)
(* probe, expired override or stale coordination holds it back for ever,   *)
(* and a camera that the peer's decision forced to audio-only is released. *)
Operating == c.running /\ ~producer.closed /\ c.allowed
RecoversWhenClear ==
    <>[](Operating /\ net = "clear" /\ track.peer # "screenShare")
        => <>[](c.level = 0 /\ ~c.audioOnly)

(* On a network that stays congested it ends at the last rung: no probe,   *)
(* grace period or expired clamp keeps it above (planActions, planner.js). *)
DegradesWhenBad ==
    <>[](Operating /\ net = "bad") => <>[](c.level = MaxLevel)

(* A running controller publishes snapshots again and again, with or       *)
(* without changes of state (shouldPublish in processSample, controller.js).*)
SnapshotsKeepFlowing ==
    <>[](c.running /\ ~producer.closed) => []<>(\E j \in Jobs : job[j].phase = "publish")

(* On a network that stays as it is the controller arrives at the level    *)
(* for it, and reports all the time.                                       *)
SettlesWithNetwork == RecoversWhenClear /\ DegradesWhenBad /\ SnapshotsKeepFlowing

=============================================================================
