------------------------------ MODULE Downlink ------------------------------
(***************************************************************************)
(* The downlink QoS loop: a subscriber page reports what it shows          *)
(* (qos/downlinkReporter.js, downlinkHints.js), the signaling thread and   *)
(* the registry take or refuse the report, the worker plans the rooms that *)
(* are dirty (RoomServiceDownlink.cpp), and a producer nobody watches is   *)
(* held, paused and warmed up again (ProducerDemandAggregator.cpp).        *)
(*                                                                         *)
(* The page has one consumer, of the producer the demand is about; a       *)
(* second subscriber of the room reports by itself.  What the network      *)
(* allows a visible consumer is part of its report: nothing, a low layer   *)
(* or the highest.  Time is in units of the report interval.               *)
(***************************************************************************)
EXTENDS Integers, Sequences, FiniteSets

CONSTANTS
    MaxSeq, ResetThreshold,   \* DOWNLINK_MAX_SEQ and kSeqResetThreshold
    Hold, PauseConfirm, ResumeWarmup, StaleAfter,   \* durations
    TsTolerance,              \* kTsBackwardToleranceMs, in whole report intervals
    Fits,                     \* what a report may allow: a subset of Layers
    MaxLost,                  \* bound: consecutive reports that are lost
    MaxSkew,                  \* bound: how far the page's clock is ever set back
    MaxEvents,                \* bound: reconnects, changes of the page's clock or acts
                              \* of the other peer in an interval
    Scenarios                 \* bound: what these are, throughout a behaviour

Layers == {"none", "low", "high"}

ASSUME DownlinkConstants ==
    /\ {MaxSeq, ResetThreshold, Hold, PauseConfirm, ResumeWarmup, StaleAfter,
        TsTolerance, MaxLost, MaxSkew, MaxEvents} \subseteq Nat
    /\ MaxSeq > 2 * ResetThreshold + MaxLost + MaxSkew + MaxEvents
    /\ ResetThreshold > 0 /\ Hold < PauseConfirm
    /\ Fits \subseteq Layers /\ Scenarios \subseteq {"reconnect", "remove", "shared", "clock"}

Subscribers == {"page", "other"}

VARIABLES
    page,       \* the page's hint, sampler and reporter
    late,       \* a report of the page's old session that is still on its way
    limit,      \* downlinkStatsRateLimit of the page's key
    worker,     \* tasks, delayed tasks and planning state of the worker thread
    registry,   \* DownlinkQosRegistry: the last report of each subscriber
    demand,     \* producerDemandCache_ of the producer
    hist        \* what the bounds count and the properties compare

vars == <<page, late, limit, worker, registry, demand, hist>>

NoHint == "none"
NoLimit == [pending |-> FALSE, pendingSeq |-> 0, young |-> FALSE, accepted |-> -1]
NoEntry == [seq |-> -1, sub |-> "nothing", age |-> 0, skew |-> 0]
NoDemand == [st |-> "none", zeroFor |-> -1, resumeIn |-> -1]
NewPage == [hint |-> "visible", sampler |-> NoHint, seq |-> 0, pc |-> "idle", skew |-> 0]

(* _tick(): the hints go to the sampler and the report takes a number; a   *)
(* tick that finds another one running does nothing.                       *)
Tick(p) ==
    IF p.pc # "idle" THEN p
    ELSE [p EXCEPT !.sampler = IF p.hint = NoHint THEN @ ELSE p.hint,
                   !.seq = IF @ >= MaxSeq THEN 0 ELSE @ + 1, !.pc = "sampling"]

Init ==
    /\ page = Tick(NewPage)
    /\ late = <<>>
    /\ limit = NoLimit
    /\ worker = [tasks |-> <<>>, delayed |-> {}, pending |-> FALSE, active |-> FALSE,
                 waking |-> FALSE, eligible |-> TRUE]
    /\ registry = [s \in Subscribers |-> NoEntry]
    /\ demand = NoDemand
    /\ hist \in [scenario : Scenarios, lost : {0}, late : {FALSE}, refused : {FALSE},
                 back : {0}, unwatched : {0}, events : {0}]

-----------------------------------------------------------------------------
(* The page *)

(* refreshDownlinkHints(): the consumer's tile is shown or hidden.  The    *)
(* sampler takes the hint at the next tick, so only the last change before *)
(* a tick is a step of its own.                                            *)
SetVisible(hint) ==
    /\ page.hint \notin {NoHint, hint} /\ page.pc = "idle"
    /\ page' = [page EXCEPT !.hint = hint]
    /\ UNCHANGED <<late, limit, worker, registry, demand, hist>>

(* removeRemoteVideoConsumer(), and a new consumer of the same producer:   *)
(* registerRemoteVideoConsumer(), which reports at once.                   *)
RemoveHintOnly(p) == [p EXCEPT !.hint = NoHint]
RemoveHints(p) == [p EXCEPT !.hint = NoHint, !.sampler = NoHint]
RemoveConsumer ==
    /\ hist.scenario = "remove" /\ page.hint # NoHint
    /\ page' = RemoveHints(page)
    /\ UNCHANGED <<late, limit, worker, registry, demand, hist>>
RegisterConsumer ==
    /\ page.hint = NoHint /\ hist.events < MaxEvents
    /\ page' = Tick([page EXCEPT !.hint = "visible"])
    /\ hist' = [hist EXCEPT !.events = @ + 1]
    /\ UNCHANGED <<late, limit, worker, registry, demand>>

SetBack(back, by) ==
    IF by < 0 THEN back ELSE IF back + by > MaxSkew THEN MaxSkew ELSE back + by

TickFails ==
    /\ page.pc = "sampling" /\ hist.lost < MaxLost
    /\ page' = [page EXCEPT !.pc = "idle"]
    /\ hist' = [hist EXCEPT !.lost = @ + 1]
    /\ UNCHANGED <<late, limit, worker, registry, demand>>

(* The page's wall clock, which a report takes its timestamp from, is set: *)
(* it is skew intervals behind the time that has passed.  It is read when  *)
(* a report is built, so only a change between two reports matters.        *)
SetClock(skew) ==
    /\ hist.scenario = "clock" /\ hist.events < MaxEvents
    /\ page.pc = "idle" /\ skew # page.skew
    /\ page' = [page EXCEPT !.skew = skew]
    /\ hist' = [hist EXCEPT !.events = @ + 1, !.back = SetBack(@, skew - page.skew)]
    /\ UNCHANGED <<late, limit, worker, registry, demand>>

-----------------------------------------------------------------------------
(* The signaling thread *)

IsSeqWrapExactly(prevSeq, nextSeq) == prevSeq = MaxSeq /\ nextSeq = 0
IsSeqWrapOrReset(prevSeq, nextSeq) ==
    \/ prevSeq >= MaxSeq - ResetThreshold /\ nextSeq <= ResetThreshold
    \/ prevSeq > nextSeq /\ prevSeq - nextSeq > ResetThreshold
IsAdvancing(seq) ==
    LET baseline == IF limit.pending THEN limit.pendingSeq ELSE limit.accepted
    IN \/ ~limit.pending /\ limit.accepted = -1
       \/ seq > baseline
       \/ seq < baseline /\ IsSeqWrapOrReset(baseline, seq)
RateLimited(seq) == IsAdvancing(seq) /\ limit.pending /\ limit.young
LimitAfter(seq) ==
    IF IsAdvancing(seq) THEN [limit EXCEPT !.pending = TRUE, !.young = TRUE, !.pendingSeq = seq]
    ELSE limit

ClearPendingIfMatches(seq) ==
    IF limit.pending /\ limit.pendingSeq = seq THEN [NoLimit EXCEPT !.accepted = limit.accepted]
    ELSE limit

Post(w, task) == [w EXCEPT !.tasks = Append(@, task)]
ReportTask(from, seq, sub) == [kind |-> "report", from |-> from, seq |-> seq, sub |-> sub]

(* The statistics are there: the report is built from the hints that the   *)
(* sampler has now, and sent.  Within kMinDownlinkStatsIntervalMs of one   *)
(* that is not planned yet it is refused; else it is posted to the worker. *)
Subscription(hint, fits) ==
    CASE hint = "visible" -> fits [] hint = "hidden" -> "hidden" [] hint = NoHint -> "nothing"
Report(fits) ==
    /\ page.pc = "sampling"
    /\ IF RateLimited(page.seq)
       THEN /\ page' = [page EXCEPT !.pc = "idle"]
            /\ hist' = [hist EXCEPT !.lost = @ + 1]
            /\ UNCHANGED <<limit, worker>>
       ELSE /\ page' = [page EXCEPT !.pc = "posted"]
            /\ limit' = LimitAfter(page.seq)
            /\ worker' = Post(worker, ReportTask("page", page.seq, Subscription(page.sampler, fits)))
            /\ UNCHANGED hist
    /\ UNCHANGED <<late, registry, demand>>

(* The page joins again, with a new reporter; the old socket's close may   *)
(* have erased the rate limit.  A tick of the old reporter, or a report on *)
(* the old socket while that is still mapped, may arrive after the join:   *)
(* the task of a report carries no session, and the consumers it names are *)
(* unknown then.  (A report already posted runs before the join, which     *)
(* forgets it: rejoining then is no case of its own.)                      *)
Rejoin ==
    /\ hist.scenario = "reconnect" /\ hist.events < MaxEvents /\ page.pc \in {"idle", "sampling"}
    /\ page' = [NewPage EXCEPT !.pc = "joining", !.skew = page.skew]
    /\ late' = IF page.pc = "idle" THEN late ELSE <<page.seq>>
    /\ limit' \in {limit, NoLimit}
    /\ worker' = Post(worker, [kind |-> "join"])
    /\ hist' = [hist EXCEPT !.events = @ + 1, !.lost = 0]
    /\ UNCHANGED <<registry, demand>>
ReceiveLate ==
    /\ late # <<>>
    /\ late' = <<>>
    /\ IF RateLimited(late[1]) THEN UNCHANGED <<limit, worker>>
       ELSE /\ limit' = LimitAfter(late[1])
            /\ worker' = Post(worker, ReportTask("late", late[1], "nothing"))
    /\ UNCHANGED <<page, registry, demand, hist>>
LoseLate ==
    /\ late # <<>>
    /\ late' = <<>>
    /\ UNCHANGED <<page, limit, worker, registry, demand, hist>>

(* The other subscriber reports, or leaves. *)
Others ==
    /\ hist.scenario = "shared" /\ hist.events < MaxEvents
    /\ \E task \in {ReportTask("other", 0, sub) : sub \in {"hidden", "high"}}
                    \cup {[kind |-> "leave"]} :
           worker' = Post(worker, task)
    /\ hist' = [hist EXCEPT !.events = @ + 1]
    /\ UNCHANGED <<page, late, limit, registry, demand>>

-----------------------------------------------------------------------------
(* The planning scheduler of the worker thread.  Only the newest planning  *)
(* task has the current token: "fresh".                                    *)

Stale(task) == IF task.kind = "plan" THEN [task EXCEPT !.fresh = FALSE] ELSE task
scheduleWithoutToken(w, delayed) ==
    LET old == [w EXCEPT !.waking = delayed]
    IN IF delayed THEN [old EXCEPT !.delayed = @ \cup {[due |-> FALSE, fresh |-> TRUE]}]
       ELSE Post(old, [kind |-> "plan", fresh |-> TRUE])
scheduleDownlinkPlanning(w, delayed) ==
    LET old == [w EXCEPT !.tasks = [i \in DOMAIN @ |-> Stale(@[i])],
                         !.delayed = {[d EXCEPT !.fresh = FALSE] : d \in @},
                         !.waking = delayed]
    IN IF delayed THEN [old EXCEPT !.delayed = @ \cup {[due |-> FALSE, fresh |-> TRUE]}]
       ELSE Post(old, [kind |-> "plan", fresh |-> TRUE])

markDownlinkRoomDirty(w) ==
    LET dirty == [w EXCEPT !.pending = TRUE, !.active = TRUE]
    IN IF ~w.active \/ w.waking THEN scheduleDownlinkPlanning(dirty, FALSE) ELSE dirty

(* continueDownlinkPlanning(): a pending room is planned if its interval   *)
(* has passed, and is waited for otherwise.                                *)
Plans(w) == w.pending /\ w.eligible
continueUnscheduled(w) ==
    IF w.pending /\ ~w.eligible THEN w
    ELSE [w EXCEPT !.pending = FALSE, !.active = FALSE, !.waking = FALSE, !.eligible = @ /\ ~w.pending]
continueDownlinkPlanning(w) ==
    IF w.pending /\ ~w.eligible THEN scheduleDownlinkPlanning(w, TRUE)
    ELSE [w EXCEPT !.pending = FALSE, !.active = FALSE, !.waking = FALSE,
                   !.eligible = @ /\ ~w.pending]

-----------------------------------------------------------------------------
(* The demand for the producer *)

Fresh(s) == registry[s] # NoEntry /\ registry[s].age <= StaleAfter
Names(s) == registry[s].sub # "nothing"
Watches(s) == Fresh(s) /\ registry[s].sub \in {"low", "high"}

advanceSupplyState(st, watched, zeroFor, resumeIn, high) ==
    LET supplied == IF high THEN "active" ELSE "lowClamped" IN
    CASE watched /\ st = "paused" -> "resumeWarmup"
      [] watched /\ st = "resumeWarmup" -> IF resumeIn = 0 THEN supplied ELSE "resumeWarmup"
      [] watched /\ st \notin {"paused", "resumeWarmup"} -> supplied
      [] ~watched /\ st = "zeroDemandHold" -> IF zeroFor >= PauseConfirm THEN "paused" ELSE st
      [] ~watched /\ st = "paused" -> "paused"
      [] OTHER -> "zeroDemandHold"

(* finalize(): a producer that is named by a subscriber, and one that is   *)
(* known from before only.                                                 *)
ZeroForKept(watched) == IF demand.zeroFor # -1 THEN demand.zeroFor ELSE IF watched THEN -1 ELSE 0
ZeroFor(watched) == IF watched THEN -1 ELSE IF demand.zeroFor # -1 THEN demand.zeroFor ELSE 0
NamedDemandRestarting ==
    LET watched == \E s \in Subscribers : Watches(s)
        prev == IF demand = NoDemand THEN "active" ELSE demand.st
        resumeIn == IF watched /\ prev \in {"paused", "resumeWarmup"} THEN ResumeWarmup ELSE demand.resumeIn
        st == advanceSupplyState(prev, watched, ZeroFor(watched), resumeIn, TRUE)
    IN [st |-> st, zeroFor |-> ZeroFor(watched),
        resumeIn |-> IF st = "resumeWarmup" THEN resumeIn ELSE -1]
NamedDemand ==
    LET watched == \E s \in Subscribers : Watches(s)
        high == \E s \in Subscribers : Watches(s) /\ registry[s].sub = "high"
        prev == IF demand = NoDemand THEN "active" ELSE demand.st
        resumeIn == IF watched /\ prev = "paused" /\ demand.resumeIn = -1 THEN ResumeWarmup
                    ELSE demand.resumeIn
        st == advanceSupplyState(prev, watched, ZeroFor(watched), resumeIn, high)
    IN [st |-> st, zeroFor |-> ZeroFor(watched),
        resumeIn |-> IF st = "resumeWarmup" THEN resumeIn ELSE -1]
VanishedDemand ==
    LET st == advanceSupplyState(demand.st, FALSE, ZeroFor(FALSE), demand.resumeIn, FALSE)
    IN IF demand # NoDemand /\ (ZeroFor(FALSE) < Hold \/ st = "paused")
       THEN [demand EXCEPT !.st = st, !.zeroFor = ZeroFor(FALSE)] ELSE NoDemand

(* runDownlinkPlanningForRoom(): the demand of a producer that only stale  *)
(* reports name is kept, if there are fresh ones.                          *)
PlannedDemand ==
    LET inputs == {s \in Subscribers : Fresh(s)}
        named == \E s \in inputs : Names(s)
        staleNamed == \E s \in Subscribers \ inputs : Names(s)
    IN IF named THEN NamedDemand
       ELSE IF inputs # {} /\ staleNamed /\ VanishedDemand = NoDemand THEN demand
       ELSE VanishedDemand

(* A planning task that runs; the reports it used are no longer pending.   *)
RunPlanning(w, fresh) ==
    IF ~w.active \/ ~fresh
    THEN worker' = w /\ UNCHANGED <<limit, demand>>
    ELSE LET plansRoom == Plans(w) IN
         /\ worker' = continueDownlinkPlanning([w EXCEPT !.waking = FALSE])
         /\ demand' = IF plansRoom THEN PlannedDemand ELSE demand
         /\ limit' = IF plansRoom /\ Fresh("page") THEN ClearPendingIfMatches(registry["page"].seq)
                     ELSE limit

-----------------------------------------------------------------------------
(* The worker thread *)

Popped == [worker EXCEPT !.tasks = Tail(@)]
Runs(kind) == worker.tasks # <<>> /\ Head(worker.tasks).kind = kind

(* Upsert() refuses a report whose number is not new, or whose timestamp   *)
(* is older than the stored one's by more than the tolerance, because the  *)
(* page's clock was set back by more than has passed since.  A late report *)
(* was built at some time before the join, and may be too old as well.     *)
StaleSeq(prev, seq) == prev # NoEntry /\ seq <= prev.seq /\ ~IsSeqWrapOrReset(prev.seq, seq)
StaleTs(prev, skew) == prev # NoEntry /\ skew - prev.skew > prev.age + TsTolerance
TsVerdicts(from, prev) ==
    CASE from = "page" -> {StaleTs(prev, page.skew)}
      [] from = "late" -> {FALSE, prev # NoEntry}
      [] OTHER -> {FALSE}

(* setDownlinkClientStats(), and its completion on the signaling thread. *)
RunReport ==
    /\ Runs("report")
    /\ LET task == Head(worker.tasks)
           s == IF task.from = "other" THEN "other" ELSE "page"
           prev == registry[s]
           staleSeq == s = "page" /\ StaleSeq(prev, task.seq)
           lagging == prev.age + TsTolerance < hist.back
       IN \E staleTs \in TsVerdicts(task.from, prev) :
          LET refused == staleSeq \/ staleTs
              entry == [seq |-> task.seq, sub |-> task.sub, age |-> 0, skew |-> page.skew]
          IN /\ worker' = IF refused THEN Popped ELSE markDownlinkRoomDirty(Popped)
             /\ registry' = IF refused THEN registry ELSE [registry EXCEPT ![s] = entry]
             /\ limit' = IF s = "other" THEN limit
                         ELSE IF ~refused THEN [limit EXCEPT !.accepted = task.seq]
                         ELSE ClearPendingIfMatches(task.seq)
             /\ page' = IF task.from = "page" THEN [page EXCEPT !.pc = "idle"] ELSE page
             /\ hist' = CASE task.from = "page" ->
                               [hist EXCEPT !.lost = IF refused /\ ~hist.late THEN @ + 1 ELSE 0,
                                            !.back = IF refused THEN @ ELSE 0,
                                            !.refused = refused /\ ~hist.late
                                                        /\ (staleSeq \/ ~lagging)]
                         [] task.from = "late" -> [hist EXCEPT !.late = @ \/ ~refused]
                         [] OTHER -> hist
    /\ UNCHANGED <<late, demand>>

(* join() of a peer that is there, or that left: its report is forgotten. *)
RunJoin ==
    /\ Runs("join")
    /\ worker' = markDownlinkRoomDirty(Popped)
    /\ registry' = [registry EXCEPT !["page"] = NoEntry]
    /\ page' = Tick([page EXCEPT !.pc = "idle"])
    /\ hist' = [hist EXCEPT !.late = FALSE]
    /\ UNCHANGED <<late, limit, demand>>
RunLeave ==
    /\ Runs("leave")
    /\ worker' = markDownlinkRoomDirty(Popped)
    /\ registry' = [registry EXCEPT !["other"] = NoEntry]
    /\ UNCHANGED <<page, late, limit, demand, hist>>
RunPlan ==
    /\ Runs("plan")
    /\ RunPlanning(Popped, Head(worker.tasks).fresh)
    /\ UNCHANGED <<page, late, registry, hist>>
RunDelayed ==
    /\ \E d \in worker.delayed :
           d.due /\ RunPlanning([worker EXCEPT !.delayed = @ \ {d}], d.fresh)
    /\ UNCHANGED <<page, late, registry, hist>>

(* The planning interval, and with it kMinDownlinkStatsIntervalMs, passes: *)
(* both are 100 ms.  The threads have then done what they had to do.       *)
Idle == worker.tasks = <<>> /\ \A d \in worker.delayed : ~d.due
PlanningIntervalPasses ==
    /\ Idle /\ (limit.young \/ ~worker.eligible \/ worker.delayed # {})
    /\ limit' = [limit EXCEPT !.young = FALSE]
    /\ worker' = [worker EXCEPT !.eligible = TRUE, !.delayed = {[d EXCEPT !.due = TRUE] : d \in @}]
    /\ UNCHANGED <<page, late, registry, demand, hist>>

(* The much longer report interval passes.  An age counts up to where a    *)
(* report is stale, and no clock can have been set back by more.           *)
AgeLimit == IF MaxSkew > StaleAfter THEN MaxSkew ELSE StaleAfter + 1
Down(n) == IF n > 0 THEN n - 1 ELSE n
Up(n, max) == IF n \in 0 .. (max - 1) THEN n + 1 ELSE n
ReportIntervalPasses ==
    /\ page.pc \in {"idle", "sampling"} /\ late = <<>>
    /\ Idle /\ ~limit.young /\ worker.eligible /\ worker.delayed = {}
    /\ page' = Tick(page)
    /\ registry' = [s \in Subscribers |-> IF registry[s] = NoEntry THEN NoEntry
                                          ELSE [registry[s] EXCEPT !.age = Up(@, AgeLimit)]]
    /\ demand' = [demand EXCEPT !.zeroFor = Up(@, PauseConfirm), !.resumeIn = Down(@)]
    /\ hist' = [hist EXCEPT !.events = 0, !.unwatched =
                   IF \E s \in Subscribers : Watches(s) THEN 0 ELSE Up(@, PauseConfirm)]
    /\ UNCHANGED <<late, limit, worker>>

Next ==
    \/ \E hint \in {"visible", "hidden"} : SetVisible(hint)
    \/ RemoveConsumer \/ RegisterConsumer
    \/ TickFails
    \/ \E skew \in 0 .. MaxSkew : SetClock(skew)
    \/ \E fits \in Fits : Report(fits)
    \/ Rejoin \/ ReceiveLate \/ LoseLate
    \/ Others
    \/ RunReport \/ RunJoin \/ RunLeave \/ RunPlan \/ RunDelayed
    \/ PlanningIntervalPasses \/ ReportIntervalPasses

Spec == Init /\ [][Next]_vars

(* The timers fire, statistics and responses arrive, and the threads run   *)
(* what is posted to them.                                                 *)
RunTask == RunReport \/ RunJoin \/ RunLeave \/ RunPlan
FairSpec ==
    /\ Spec
    /\ WF_vars(\E fits \in Fits : Report(fits))
    /\ WF_vars(ReceiveLate \/ LoseLate)
    /\ WF_vars(RunTask)
    /\ WF_vars(RunDelayed)
    /\ WF_vars(PlanningIntervalPasses)
    /\ WF_vars(ReportIntervalPasses)

-----------------------------------------------------------------------------
(* Properties *)

(* Type correctness of the page, the rate limit, the registry and the      *)
(* demand; the supply timers are set only in the states that wait for them. *)
DownlinkTypeOK ==
    /\ page \in [hint : {"visible", "hidden", NoHint}, sampler : {"visible", "hidden", NoHint},
                 seq : 0 .. MaxSeq, pc : {"idle", "sampling", "posted", "joining"},
                 skew : 0 .. MaxSkew]
    /\ limit \in [pending : BOOLEAN, pendingSeq : 0 .. MaxSeq, young : BOOLEAN, accepted : -1 .. MaxSeq]
    /\ registry \in [Subscribers -> [seq : -1 .. MaxSeq, sub : Layers \cup {"hidden", "nothing"},
                                     age : 0 .. AgeLimit, skew : 0 .. MaxSkew]]
    /\ demand \in [st : {"none", "active", "lowClamped", "zeroDemandHold", "paused", "resumeWarmup"},
                   zeroFor : -1 .. PauseConfirm, resumeIn : -1 .. ResumeWarmup]
    /\ (demand.st \in {"zeroDemandHold", "paused"}) <=> (demand.zeroFor # -1)

(* The planning tasks, posted and delayed, that have the current token.    *)
FreshWakeups ==
    {i \in DOMAIN worker.tasks : worker.tasks[i].kind = "plan" /\ worker.tasks[i].fresh}
FreshDelayed == {d \in worker.delayed : d.fresh}

(* The planner has exactly one wake-up under way while it is active and    *)
(* none while it is not: a room marked dirty is neither stranded behind a  *)
(* cancelled task nor planned by two (markDownlinkRoomDirty and            *)
(* scheduleDownlinkPlanning, with the token and the next wake-up).         *)
PlannerHasOneWakeup ==
    /\ Cardinality(FreshWakeups) + Cardinality(FreshDelayed) = (IF worker.active THEN 1 ELSE 0)
    /\ worker.waking <=> FreshDelayed # {}
    /\ worker.pending => worker.active

(* The registry refuses no report of the page's session for its number,    *)
(* however many were lost before it and also when the number wraps; and    *)
(* none for its timestamp, except while less time has passed since the     *)
(* stored report than the page's clock was set back by (Upsert).  This     *)
(* excepts a late report of the session before that is taken for one of    *)
(* this session.                                                           *)
FreshReportsAreStored == ~hist.refused

(* A producer is paused only after no fresh report has shown it visible    *)
(* for the confirmation time: neither a flickering tile nor a plan of      *)
(* stale reports cuts it off (advanceSupplyState, finalize).               *)
PausedOnlyUnwatched ==
    [][demand'.st = "paused" /\ demand.st # "paused" => hist.unwatched >= PauseConfirm]_vars

(* A room that is marked dirty is planned. *)
DirtyRoomIsPlanned == worker.pending ~> ~worker.pending

(* A producer the page goes on showing, with bandwidth for it, is supplied *)
(* again for good, from whatever state: also from paused, through the      *)
(* warm-up, and after the reporter's number wrapped.                       *)
WatchedIsSupplied ==
    <>[](page.hint = "visible" /\ Watches("page"))
        => <>[](demand.st \in {"active", "lowClamped"})

(* A producer that is hidden for good in the page and not watched by the   *)
(* other subscriber is paused for good, and one whose consumer is removed  *)
(* is at least no longer supplied.                                         *)
HiddenIsPaused ==
    /\ <>[](page.hint = "hidden" /\ ~Watches("other") /\ ~hist.late) => <>[](demand.st = "paused")
    /\ <>[](page.hint # "visible" /\ ~Watches("other") /\ ~hist.late)
           => <>[](demand.st \notin {"active", "lowClamped", "resumeWarmup"})

(* The supply of a producer follows the demand for it, through the reports,*)
(* the planner and the timers between them.                                *)
SupplyFollowsDemand == DirtyRoomIsPlanned /\ WatchedIsSupplied /\ HiddenIsPaused

=============================================================================
