--------------------------- MODULE DownlinkProofs ---------------------------
(***************************************************************************)
(* Theorems about the downlink loop, for any report numbers, durations and *)
(* bounds: the planner's one wake-up, the numbering of the reports, and    *)
(* the pause of a producer.                                                *)
(***************************************************************************)
EXTENDS Downlink, FiniteSetTheorems, TLAPS

Subs == Layers \cup {"hidden", "nothing"}
ReportTasks == [kind : {"report"}, from : {"page", "late", "other"}, seq : 0 .. MaxSeq, sub : Subs]
PlanTasks == [kind : {"plan"}, fresh : BOOLEAN]
Tasks == ReportTasks \cup PlanTasks \cup [kind : {"join", "leave"}]
Alarms == [due : BOOLEAN, fresh : BOOLEAN]
Workers == [tasks : Seq(Tasks), delayed : SUBSET Alarms, pending : BOOLEAN, active : BOOLEAN,
            waking : BOOLEAN, eligible : BOOLEAN]

-----------------------------------------------------------------------------
(* The planner's one wake-up *)

IsFresh(t) == t.kind = "plan" /\ t.fresh
NoTask(w) == \A i \in DOMAIN w.tasks : ~IsFresh(w.tasks[i])
NoAlarm(w) == \A d \in w.delayed : ~d.fresh
OneTask(w) ==
    \E i \in DOMAIN w.tasks : \A j \in DOMAIN w.tasks : IsFresh(w.tasks[j]) <=> j = i
OneAlarm(w) == \E d \in w.delayed : \A e \in w.delayed : e.fresh <=> e = d

(* The wake-up is a task of the queue, or the alarm that "waking" stands   *)
(* for; without activity there is none and nothing waits for one.          *)
Scheduled(w) ==
    \/ ~w.active /\ NoTask(w) /\ NoAlarm(w) /\ ~w.waking /\ ~w.pending
    \/ w.active /\ ~w.waking /\ OneTask(w) /\ NoAlarm(w)
    \/ w.active /\ w.waking /\ NoTask(w) /\ OneAlarm(w)

(* The tasks that are about the page: its join and its report.             *)
OfPage(t) == t.kind = "join" \/ (t.kind = "report" /\ t.from = "page")
Keeps(q, r) == \A i \in DOMAIN r : OfPage(r[i]) => i \in DOMAIN q /\ r[i] = q[i]

(* A task taken out of date is still a task, and only a planning one is    *)
(* another one then.                                                       *)
LEMMA StaleTask ==
    ASSUME NEW t \in Tasks
    PROVE  /\ Stale(t) \in Tasks
           /\ ~IsFresh(Stale(t))
           /\ OfPage(Stale(t)) => Stale(t) = t
<1>1. CASE t \in ReportTasks
  BY <1>1 DEF ReportTasks, Stale, IsFresh, OfPage, Tasks
<1>2. CASE t \in PlanTasks
  <2>1. Stale(t) = [kind |-> "plan", fresh |-> FALSE]
    BY <1>2, ZenonT(60) DEF PlanTasks, Stale
  <2>2. QED
    BY <2>1 DEF PlanTasks, IsFresh, OfPage, Tasks
<1>3. CASE t \in [kind : {"join", "leave"}]
  BY <1>3 DEF Stale, IsFresh, OfPage, Tasks
<1>4. QED
  BY <1>1, <1>2, <1>3 DEF Tasks

(* All tasks out of date, as scheduleDownlinkPlanning leaves them.         *)
Cancelled(w, delayed) ==
    [w EXCEPT !.tasks = [i \in DOMAIN @ |-> Stale(@[i])],
              !.delayed = {[d EXCEPT !.fresh = FALSE] : d \in @},
              !.waking = delayed]

(* The parts of a worker, and what the updates of it leave alone.         *)
SameFlags(w, v) == v.pending = w.pending /\ v.active = w.active /\ v.eligible = w.eligible

LEMMA TaskParts ==
    ASSUME NEW w \in Workers, NEW q \in Seq(Tasks)
    PROVE  LET v == [w EXCEPT !.tasks = q]
           IN v \in Workers /\ v.tasks = q /\ v.delayed = w.delayed /\ v.waking = w.waking
              /\ SameFlags(w, v)
BY SMTT(60), Z3T(60) DEF Workers, SameFlags

LEMMA AlarmParts ==
    ASSUME NEW w \in Workers, NEW a \in SUBSET Alarms
    PROVE  LET v == [w EXCEPT !.delayed = a]
           IN v \in Workers /\ v.tasks = w.tasks /\ v.delayed = a /\ v.waking = w.waking
              /\ SameFlags(w, v)
BY DEF Workers, SameFlags

LEMMA WorkerParts ==
    ASSUME NEW w \in Workers
    PROVE  /\ w.tasks \in Seq(Tasks) /\ w.delayed \in SUBSET Alarms
           /\ w.pending \in BOOLEAN /\ w.active \in BOOLEAN
           /\ w.waking \in BOOLEAN /\ w.eligible \in BOOLEAN
BY DEF Workers

LEMMA CancelledWorker ==
    ASSUME NEW w \in Workers, NEW b \in BOOLEAN
    PROVE  LET v == Cancelled(w, b)
           IN /\ v \in Workers /\ v.waking = b /\ SameFlags(w, v)
              /\ Keeps(w.tasks, v.tasks) /\ NoTask(v) /\ NoAlarm(v)
<1> DEFINE v == Cancelled(w, b)
           q == [i \in DOMAIN w.tasks |-> Stale(w.tasks[i])]
           a == {[d EXCEPT !.fresh = FALSE] : d \in w.delayed}
<1>1. v = [w EXCEPT !.tasks = q, !.delayed = a, !.waking = b]
  BY DEF Cancelled
<1>2. /\ q \in Seq(Tasks) /\ DOMAIN q = DOMAIN w.tasks
      /\ \A i \in DOMAIN q : ~IsFresh(q[i]) /\ (OfPage(q[i]) => q[i] = w.tasks[i])
  <2>1. \A i \in DOMAIN w.tasks : w.tasks[i] \in Tasks
    BY WorkerParts
  <2>2. QED
    BY <2>1, WorkerParts, StaleTask
<1>3. a \in SUBSET Alarms /\ \A d \in a : ~d.fresh
  BY WorkerParts, ZenonT(60) DEF Alarms
<1> HIDE DEF v, q, a
<1>4. v \in Workers /\ v.tasks = q /\ v.delayed = a /\ v.waking = b /\ SameFlags(w, v)
  <2> DEFINE u == [w EXCEPT !.tasks = q, !.delayed = a, !.waking = b]
  <2>1. u \in Workers /\ u.tasks = q /\ u.delayed = a /\ u.waking = b /\ SameFlags(w, u)
    BY <1>2, <1>3, ZenonT(60) DEF Workers, SameFlags
  <2>2. v = u
    BY <1>1
  <2> HIDE DEF u
  <2>3. QED
    BY <2>1, <2>2
<1>5. Keeps(w.tasks, v.tasks) /\ NoTask(v) /\ NoAlarm(v)
  BY <1>2, <1>3, <1>4, ZenonT(60) DEF Keeps, NoTask, NoAlarm
<1>6. QED
  BY <1>4, <1>5 DEF v

(* A wake-up that is scheduled is the only one, and the tasks about the    *)
(* page stay where they are.                                               *)
LEMMA ScheduleWakeup ==
    ASSUME NEW w \in Workers, NEW b \in BOOLEAN
    PROVE  LET v == scheduleDownlinkPlanning(w, b)
           IN /\ v \in Workers /\ v.waking = b /\ SameFlags(w, v)
              /\ Keeps(w.tasks, v.tasks)
              /\ ~b => OneTask(v) /\ NoAlarm(v)
              /\ b => NoTask(v) /\ OneAlarm(v)
<1> DEFINE c == Cancelled(w, b)
           v == scheduleDownlinkPlanning(w, b)
           alarm == [due |-> FALSE, fresh |-> TRUE]
           plan == [kind |-> "plan", fresh |-> TRUE]
<1>1. v = IF b THEN [c EXCEPT !.delayed = c.delayed \cup {alarm}]
          ELSE [c EXCEPT !.tasks = Append(c.tasks, plan)]
  BY DEF scheduleDownlinkPlanning, Cancelled, Post
<1>2. /\ c \in Workers /\ c.waking = b /\ SameFlags(w, c)
      /\ Keeps(w.tasks, c.tasks) /\ NoTask(c) /\ NoAlarm(c)
  BY CancelledWorker
<1>3. alarm \in Alarms /\ plan \in Tasks /\ alarm.fresh /\ IsFresh(plan) /\ ~OfPage(plan)
  BY DEF Alarms, Tasks, PlanTasks, IsFresh, OfPage
<1> HIDE DEF c, v, alarm, plan
<1>4. /\ c.delayed \cup {alarm} \in SUBSET Alarms /\ Append(c.tasks, plan) \in Seq(Tasks)
      /\ c.tasks \in Seq(Tasks) /\ w.tasks \in Seq(Tasks)
  BY <1>2, <1>3, WorkerParts
<1>5. CASE b
  <2>1. /\ v \in Workers /\ v.tasks = c.tasks /\ v.delayed = c.delayed \cup {alarm}
        /\ v.waking = c.waking /\ SameFlags(c, v)
    BY <1>1, <1>2, <1>4, <1>5, AlarmParts, ZenonT(60)
  <2>2. NoTask(v) /\ Keeps(w.tasks, v.tasks)
    BY <2>1, <1>2, ZenonT(60) DEF NoTask
  <2>3. OneAlarm(v)
    BY <2>1, <1>2, <1>3 DEF OneAlarm, NoAlarm
  <2>4. QED
    BY <2>1, <2>2, <2>3, <1>2, <1>5, ZenonT(60) DEF v, SameFlags
<1>6. CASE ~b
  <2>1. /\ v \in Workers /\ v.tasks = Append(c.tasks, plan) /\ v.delayed = c.delayed
        /\ v.waking = c.waking /\ SameFlags(c, v)
    BY <1>1, <1>2, <1>4, <1>6, TaskParts, ZenonT(60)
  <2> DEFINE n == Len(c.tasks) + 1
  <2>2. /\ n \in DOMAIN v.tasks /\ v.tasks[n] = plan
        /\ \A i \in DOMAIN v.tasks : i # n => i \in DOMAIN c.tasks /\ v.tasks[i] = c.tasks[i]
    BY <2>1, <1>4
  <2> HIDE DEF n
  <2>3. OneTask(v) /\ NoAlarm(v)
    BY <2>1, <2>2, <1>2, <1>3, ZenonT(60) DEF OneTask, NoTask, NoAlarm
  <2>4. Keeps(w.tasks, v.tasks)
    BY <2>2, <1>2, <1>3, ZenonT(60) DEF Keeps
  <2>5. QED
    BY <2>1, <2>3, <2>4, <1>2, <1>6, ZenonT(60) DEF v, SameFlags
<1>7. QED
  BY <1>5, <1>6

(* A room marked dirty has a wake-up: a running delay is cut short, a task *)
(* in the queue is enough.                                                 *)
LEMMA MarkedDirty ==
    ASSUME NEW w \in Workers, Scheduled(w)
    PROVE  LET v == markDownlinkRoomDirty(w)
           IN v \in Workers /\ Scheduled(v) /\ v.pending /\ Keeps(w.tasks, v.tasks)
<1> DEFINE d == [w EXCEPT !.pending = TRUE, !.active = TRUE]
           v == markDownlinkRoomDirty(w)
           u == scheduleDownlinkPlanning(d, FALSE)
<1>1. v = IF ~w.active \/ w.waking THEN u ELSE d
  BY DEF markDownlinkRoomDirty
<1>2. /\ d \in Workers /\ d.tasks = w.tasks /\ d.delayed = w.delayed /\ d.waking = w.waking
      /\ d.pending /\ d.active
  BY ZenonT(60) DEF Workers
<1> HIDE DEF d, v, u
<1>3. CASE ~w.active \/ w.waking
  <2>1. /\ u \in Workers /\ u.waking = FALSE /\ SameFlags(d, u) /\ Keeps(d.tasks, u.tasks)
        /\ OneTask(u) /\ NoAlarm(u)
    BY <1>2, ScheduleWakeup, ZenonT(60) DEF u
  <2>2. v = u
    BY <1>1, <1>3
  <2>3. QED
    BY <1>2, <2>1, <2>2, ZenonT(60) DEF SameFlags, Scheduled, v
<1>4. CASE w.active /\ ~w.waking
  <2>1. v = d
    BY <1>1, <1>4
  <2>2. OneTask(w) /\ NoAlarm(w)
    BY <1>4 DEF Scheduled
  <2>3. OneTask(d) /\ NoAlarm(d) /\ Keeps(w.tasks, d.tasks)
    BY <2>2, <1>2 DEF OneTask, NoAlarm, Keeps
  <2>4. QED
    BY <2>1, <2>3, <1>2, <1>4, ZenonT(60) DEF Scheduled, v
<1>5. QED
  BY <1>3, <1>4

(* The planner that used up its wake-up takes another one, or is inactive. *)
LEMMA ContinuedPlanning ==
    ASSUME NEW w \in Workers, w.active, NoTask(w), NoAlarm(w)
    PROVE  LET v == continueDownlinkPlanning([w EXCEPT !.waking = FALSE])
           IN /\ v \in Workers /\ Scheduled(v) /\ Keeps(w.tasks, v.tasks)
              /\ v.pending <=> w.pending /\ ~w.eligible
<1> DEFINE d == [w EXCEPT !.waking = FALSE]
           e == [d EXCEPT !.pending = FALSE, !.active = FALSE, !.waking = FALSE,
                          !.eligible = d.eligible /\ ~d.pending]
           v == continueDownlinkPlanning(d)
           u == scheduleDownlinkPlanning(d, TRUE)
<1>1. v = IF d.pending /\ ~d.eligible THEN u ELSE e
  BY DEF continueDownlinkPlanning
<1>2. /\ d \in Workers /\ d.tasks = w.tasks /\ d.delayed = w.delayed
      /\ d.pending = w.pending /\ d.active /\ d.eligible = w.eligible
  BY ZenonT(60) DEF Workers
<1> HIDE DEF d
<1>3. /\ e \in Workers /\ e.tasks = w.tasks /\ e.delayed = w.delayed
      /\ ~e.pending /\ ~e.active /\ ~e.waking
  BY <1>2, ZenonT(60) DEF Workers
<1> HIDE DEF e, u, v
<1>4. CASE d.pending /\ ~d.eligible
  <2>1. /\ u \in Workers /\ u.waking = TRUE /\ SameFlags(d, u) /\ Keeps(d.tasks, u.tasks)
        /\ NoTask(u) /\ OneAlarm(u)
    BY <1>2, ScheduleWakeup, ZenonT(60) DEF u
  <2>2. v = u
    BY <1>1, <1>4
  <2>3. QED
    BY <1>2, <1>4, <2>1, <2>2, ZenonT(60) DEF SameFlags, Scheduled, v, d
<1>5. CASE ~(d.pending /\ ~d.eligible)
  <2>1. v = e
    BY <1>1, <1>5
  <2>2. NoTask(e) /\ NoAlarm(e) /\ Keeps(w.tasks, e.tasks)
    BY <1>3, ZenonT(60) DEF NoTask, NoAlarm, Keeps
  <2>3. QED
    BY <2>1, <2>2, <1>2, <1>3, <1>5, ZenonT(60) DEF Scheduled, v, d
<1>6. QED
  BY <1>4, <1>5

(* A planning task that runs uses up the wake-up, if it is that one.       *)
LEMMA RanPlanning ==
    ASSUME NEW w \in Workers, NEW fresh \in BOOLEAN, RunPlanning(w, fresh),
           ~fresh => Scheduled(w),
           fresh => w.active /\ NoTask(w) /\ NoAlarm(w)
    PROVE  /\ worker' \in Workers /\ Scheduled(worker') /\ Keeps(w.tasks, worker'.tasks)
           /\ \/ UNCHANGED <<limit, demand>> /\ worker'.pending = w.pending
              \/ /\ demand' = PlannedDemand /\ ~worker'.pending
                 /\ limit' = IF Fresh("page") THEN ClearPendingIfMatches(registry["page"].seq)
                             ELSE limit
<1>1. CASE ~fresh
  <2>1. worker' = w /\ UNCHANGED <<limit, demand>>
    BY <1>1 DEF RunPlanning
  <2>2. QED
    BY <2>1, <1>1 DEF Keeps
<1>2. CASE fresh
  <2> DEFINE v == continueDownlinkPlanning([w EXCEPT !.waking = FALSE])
  <2>1. /\ worker' = v
        /\ demand' = IF Plans(w) THEN PlannedDemand ELSE demand
        /\ limit' = IF Plans(w) /\ Fresh("page")
                    THEN ClearPendingIfMatches(registry["page"].seq) ELSE limit
    BY <1>2, ZenonT(60) DEF RunPlanning
  <2>2. /\ v \in Workers /\ Scheduled(v) /\ Keeps(w.tasks, v.tasks)
        /\ v.pending <=> w.pending /\ ~w.eligible
    BY <1>2, ContinuedPlanning, ZenonT(60)
  <2>3. w.pending \in BOOLEAN /\ w.eligible \in BOOLEAN /\ v.pending \in BOOLEAN
    BY <2>2, WorkerParts, ZenonT(60)
  <2> HIDE DEF v
  <2>4. CASE Plans(w)
    BY <2>1, <2>2, <2>3, <2>4, ZenonT(60) DEF Plans
  <2>5. CASE ~Plans(w)
    <3>1. v.pending = w.pending
      BY <2>2, <2>3, <2>5 DEF Plans
    <3>2. QED
      BY <2>1, <2>2, <2>5, <3>1, ZenonT(60)
  <2>6. QED
    BY <2>4, <2>5
<1>3. QED
  BY <1>1, <1>2

-----------------------------------------------------------------------------
(* The tasks about the page, and the head of the queue *)

(* The page has at most one task in the queue: the join it waits for, or   *)
(* its last report while that is not answered.                             *)
Awaited(t, p) ==
    IF t.kind = "join" THEN p.pc = "joining" ELSE p.pc = "posted" /\ t.seq = p.seq
PageQueue(q, p) ==
    \A i \in DOMAIN q :
        OfPage(q[i]) => Awaited(q[i], p) /\ \A j \in DOMAIN q : OfPage(q[j]) => i = j
NoPage(q) == \A i \in DOMAIN q : ~OfPage(q[i])

LEMMA KeptQueue ==
    ASSUME NEW q, NEW r, NEW p, Keeps(q, r), PageQueue(q, p)
    PROVE  PageQueue(r, p)
BY ZenonT(60) DEF Keeps, PageQueue

LEMMA KeptNone ==
    ASSUME NEW q, NEW r, Keeps(q, r), NoPage(q)
    PROVE  NoPage(r)
BY ZenonT(60) DEF Keeps, NoPage

LEMMA NoneIsQueue ==
    ASSUME NEW q, NEW p, NoPage(q)
    PROVE  PageQueue(q, p)
BY ZenonT(60) DEF NoPage, PageQueue

LEMMA TailOf ==
    ASSUME NEW q \in Seq(Tasks), q # <<>>
    PROVE  /\ Tail(q) \in Seq(Tasks) /\ Head(q) \in Tasks /\ Head(q) = q[1] /\ 1 \in DOMAIN q
           /\ \A i \in DOMAIN Tail(q) : i + 1 \in DOMAIN q /\ i + 1 # 1 /\ Tail(q)[i] = q[i + 1]
           /\ \A i \in DOMAIN q : i # 1 => i - 1 \in DOMAIN Tail(q) /\ Tail(q)[i - 1] = q[i]
           /\ \A i, j \in DOMAIN Tail(q) : i + 1 = j + 1 => i = j
OBVIOUS

LEMMA PoppedQueue ==
    ASSUME NEW q \in Seq(Tasks), q # <<>>, NEW p, PageQueue(q, p)
    PROVE  PageQueue(Tail(q), p) /\ (OfPage(Head(q)) => Awaited(Head(q), p) /\ NoPage(Tail(q)))
<1> USE TailOf
<1>1. PageQueue(Tail(q), p)
  BY DEF PageQueue
<1>2. ASSUME OfPage(Head(q)) PROVE Awaited(Head(q), p) /\ NoPage(Tail(q))
  BY <1>2 DEF PageQueue, NoPage
<1>3. QED
  BY <1>1, <1>2

(* Taking a task off the queue takes the wake-up only if it is that one.   *)
LEMMA PoppedWorker ==
    ASSUME NEW w \in Workers, w.tasks # <<>>, Scheduled(w)
    PROVE  LET v == [w EXCEPT !.tasks = Tail(w.tasks)]
           IN /\ v \in Workers /\ v.tasks = Tail(w.tasks) /\ v.pending = w.pending
              /\ ~IsFresh(Head(w.tasks)) => Scheduled(v)
              /\ IsFresh(Head(w.tasks)) => v.active /\ NoTask(v) /\ NoAlarm(v)
<1> DEFINE q == w.tasks
           v == [w EXCEPT !.tasks = Tail(w.tasks)]
<1>1. q \in Seq(Tasks) /\ q # <<>>
  BY WorkerParts
<1>2. /\ v \in Workers /\ v.tasks = Tail(q) /\ v.delayed = w.delayed /\ v.waking = w.waking
      /\ SameFlags(w, v)
  BY <1>1, TailOf, TaskParts, ZenonT(60)
<1> HIDE DEF v
<1>3. NoAlarm(w) => NoAlarm(v)
  BY <1>2, ZenonT(60) DEF NoAlarm
<1>4. OneAlarm(w) => OneAlarm(v)
  BY <1>2 DEF OneAlarm
<1>5. NoTask(w) => ~IsFresh(Head(q)) /\ NoTask(v)
  BY <1>1, <1>2, TailOf DEF NoTask
<1>6. OneTask(w) /\ IsFresh(Head(q)) => NoTask(v)
  BY <1>1, <1>2, TailOf DEF OneTask, NoTask
<1>7. OneTask(w) /\ ~IsFresh(Head(q)) => OneTask(v)
  <2> SUFFICES ASSUME OneTask(w), ~IsFresh(Head(q)) PROVE OneTask(v)
    OBVIOUS
  <2>1. PICK i \in DOMAIN q : \A j \in DOMAIN q : IsFresh(q[j]) <=> j = i
    BY DEF OneTask
  <2>2. i # 1 /\ IsFresh(q[i])
    BY <1>1, <2>1, TailOf
  <2>3. i - 1 \in DOMAIN Tail(q) /\ \A j \in DOMAIN Tail(q) : j + 1 = i <=> j = i - 1
    BY <1>1, <2>2, TailOf
  <2>4. \A j \in DOMAIN Tail(q) : IsFresh(Tail(q)[j]) <=> j = i - 1
    BY <1>1, <2>1, <2>3, TailOf, SMTT(60), Z3T(60)
  <2> DEFINE k == i - 1
  <2> HIDE DEF k
  <2>5. k \in DOMAIN v.tasks /\ \A j \in DOMAIN v.tasks : IsFresh(v.tasks[j]) <=> j = k
    BY <2>3, <2>4, <1>2 DEF k
  <2>6. QED
    BY <2>5, ZenonT(60) DEF OneTask
<1>8. QED
  BY <1>2, <1>3, <1>4, <1>5, <1>6, <1>7, ZenonT(60) DEF Scheduled, SameFlags, v

(* A task that is posted is no wake-up, and it is about the page only if   *)
(* none was before.                                                        *)
LEMMA PostedTask ==
    ASSUME NEW w \in Workers, Scheduled(w), NEW t \in Tasks, t.kind # "plan"
    PROVE  /\ Post(w, t) \in Workers /\ Scheduled(Post(w, t)) /\ Post(w, t).pending = w.pending
           /\ ~OfPage(t) => Keeps(w.tasks, Post(w, t).tasks)
           /\ NoPage(w.tasks) => \A p : Awaited(t, p) => PageQueue(Post(w, t).tasks, p)
<1> DEFINE q == w.tasks
           r == Append(q, t)
           v == [w EXCEPT !.tasks = r]
           n == Len(q) + 1
<1>1. Post(w, t) = v
  BY DEF Post
<1>2. q \in Seq(Tasks) /\ r \in Seq(Tasks)
  BY WorkerParts
<1>3. /\ n \in DOMAIN r /\ r[n] = t
      /\ \A i \in DOMAIN r : i = n \/ (i \in DOMAIN q /\ r[i] = q[i])
      /\ \A i \in DOMAIN q : i # n /\ i \in DOMAIN r /\ r[i] = q[i]
  BY <1>2
<1> HIDE DEF r, n
<1>4. /\ v \in Workers /\ v.tasks = r /\ v.delayed = w.delayed /\ v.waking = w.waking
      /\ SameFlags(w, v)
  BY <1>2, TaskParts, ZenonT(60)
<1> HIDE DEF v
<1>5. ~IsFresh(t)
  BY DEF IsFresh
<1>6. Scheduled(v)
  <2>1. NoTask(w) => NoTask(v)
    BY <1>3, <1>4, <1>5 DEF NoTask
  <2>2. OneTask(w) => OneTask(v)
    <3>1. ASSUME NEW i \in DOMAIN q, \A j \in DOMAIN q : IsFresh(q[j]) <=> j = i
          PROVE  i \in DOMAIN r /\ \A j \in DOMAIN r : IsFresh(r[j]) <=> j = i
      BY <3>1, <1>3, <1>5
    <3>2. QED
      BY <3>1, <1>4 DEF OneTask
  <2>3. (NoAlarm(w) => NoAlarm(v)) /\ (OneAlarm(w) => OneAlarm(v))
    BY <1>4 DEF NoAlarm, OneAlarm
  <2>4. QED
    BY <2>1, <2>2, <2>3, <1>4, ZenonT(60) DEF Scheduled, SameFlags
<1>7. ~OfPage(t) => Keeps(q, r)
  BY <1>3, ZenonT(60) DEF Keeps
<1>8. NoPage(q) => \A p : Awaited(t, p) => PageQueue(r, p)
  BY <1>3, ZenonT(60) DEF NoPage, PageQueue
<1>9. QED
  BY <1>1, <1>4, <1>6, <1>7, <1>8, ZenonT(60) DEF SameFlags

(* A page that waits for nothing has nothing in the queue, and what the    *)
(* queue holds depends on no hint.                                         *)
LEMMA QuietPage ==
    ASSUME NEW q, NEW p, PageQueue(q, p), p.pc \notin {"joining", "posted"}
    PROVE  NoPage(q)
BY ZenonT(60) DEF PageQueue, NoPage, Awaited

LEMMA SamePage ==
    ASSUME NEW q, NEW p, NEW r, PageQueue(q, p), r.pc = p.pc, r.seq = p.seq
    PROVE  PageQueue(q, r)
BY ZenonT(60) DEF PageQueue, Awaited

-----------------------------------------------------------------------------
(* The planned demand *)

Demands == [st : {"none", "active", "lowClamped", "zeroDemandHold", "paused", "resumeWarmup"},
            zeroFor : -1 .. PauseConfirm, resumeIn : -1 .. ResumeWarmup]
TimerRuns(d) == (d.st \in {"zeroDemandHold", "paused"}) <=> (d.zeroFor # -1)
Watched == \E s \in Subscribers : Watches(s)

(* What advanceSupplyState may answer.                                     *)
LEMMA AdvancedState ==
    ASSUME NEW st \in {"none", "active", "lowClamped", "zeroDemandHold", "paused", "resumeWarmup"},
           NEW watched \in BOOLEAN, NEW zeroFor, NEW resumeIn, NEW high \in BOOLEAN
    PROVE  LET to == advanceSupplyState(st, watched, zeroFor, resumeIn, high)
           IN /\ watched => to \in {"active", "lowClamped", "resumeWarmup"}
              /\ ~watched => to \in {"zeroDemandHold", "paused"}
              /\ to = "paused" /\ st # "paused" => zeroFor >= PauseConfirm
              /\ to = "resumeWarmup" => st \in {"paused", "resumeWarmup"}
BY DEF advanceSupplyState

LEMMA ConstantParts ==
    /\ MaxSeq \in Nat /\ ResetThreshold \in Nat /\ Hold \in Nat /\ PauseConfirm \in Nat
    /\ ResumeWarmup \in Nat /\ StaleAfter \in Nat /\ MaxLost \in Nat /\ MaxEvents \in Nat
    /\ TsTolerance \in Nat /\ MaxSkew \in Nat
    /\ MaxSeq > 2 * ResetThreshold + MaxLost + MaxSkew + MaxEvents /\ ResetThreshold > 0
    /\ Hold < PauseConfirm /\ Fits \subseteq Layers
BY DownlinkConstants

LEMMA AgeLimitParts == AgeLimit \in Nat /\ AgeLimit >= StaleAfter + 1 /\ AgeLimit >= MaxSkew
BY ConstantParts DEF AgeLimit

(* What a plan makes of the demand: the timer of the hold starts from the  *)
(* demand it finds and stops for a watched producer, and the pause comes   *)
(* when the timer has run.                                                 *)
PlanOf(d) ==
    /\ d \in Demands /\ TimerRuns(d)
    /\ Watched => d.zeroFor = -1
    /\ d.zeroFor \in {-1, 0, demand.zeroFor}
    /\ d.st = "paused" /\ demand.st # "paused" => demand.zeroFor >= PauseConfirm

LEMMA NamedPlan ==
    ASSUME demand \in Demands, TimerRuns(demand)
    PROVE  PlanOf(NamedDemand)
<1> DEFINE high == \E s \in Subscribers : Watches(s) /\ registry[s].sub = "high"
           prev == IF demand = NoDemand THEN "active" ELSE demand.st
           resumeIn == IF Watched /\ prev = "paused" /\ demand.resumeIn = -1 THEN ResumeWarmup
                       ELSE demand.resumeIn
           z == ZeroFor(Watched)
           st == advanceSupplyState(prev, Watched, z, resumeIn, high)
           d == [st |-> st, zeroFor |-> z, resumeIn |-> IF st = "resumeWarmup" THEN resumeIn ELSE -1]
<1>1. NamedDemand = d
  BY ZenonT(60) DEF NamedDemand, Watched
<1>2. Watched \in BOOLEAN /\ high \in BOOLEAN
  BY ZenonT(60) DEF Watched
<1>3. /\ prev \in {"none", "active", "lowClamped", "zeroDemandHold", "paused", "resumeWarmup"}
      /\ prev = "paused" => demand.st = "paused"
      /\ demand.zeroFor \in -1 .. PauseConfirm /\ demand.resumeIn \in -1 .. ResumeWarmup
  BY DEF Demands
<1>4. resumeIn \in -1 .. ResumeWarmup
  BY <1>3, ConstantParts
<1>5. /\ z \in -1 .. PauseConfirm /\ z \in {-1, 0, demand.zeroFor}
      /\ Watched => z = -1
      /\ ~Watched => z # -1 /\ (z >= PauseConfirm => demand.zeroFor >= PauseConfirm)
  BY <1>2, <1>3, ConstantParts DEF ZeroFor
<1> HIDE DEF high, prev, resumeIn, z
<1>6. /\ Watched => st \in {"active", "lowClamped", "resumeWarmup"}
      /\ ~Watched => st \in {"zeroDemandHold", "paused"}
      /\ st = "paused" /\ prev # "paused" => z >= PauseConfirm
  BY <1>2, <1>3, AdvancedState
<1> HIDE DEF st
<1>7. d.st = st /\ d.zeroFor = z /\ d \in Demands
  BY <1>2, <1>4, <1>5, <1>6, ConstantParts DEF Demands
<1>8. TimerRuns(d)
  BY <1>2, <1>5, <1>6, <1>7 DEF TimerRuns
<1>9. d.st = "paused" /\ demand.st # "paused" => demand.zeroFor >= PauseConfirm
  BY <1>2, <1>3, <1>5, <1>6, <1>7
<1>10. QED
  BY <1>1, <1>5, <1>7, <1>8, <1>9 DEF PlanOf

LEMMA VanishedPlan ==
    ASSUME demand \in Demands, TimerRuns(demand), ~Watched
    PROVE  PlanOf(VanishedDemand)
<1> DEFINE z == ZeroFor(FALSE)
           st == advanceSupplyState(demand.st, FALSE, z, demand.resumeIn, FALSE)
           d == [demand EXCEPT !.st = st, !.zeroFor = z]
<1>1. VanishedDemand \in {d, NoDemand}
  BY DEF VanishedDemand
<1>2. PlanOf(NoDemand)
  BY ConstantParts DEF PlanOf, NoDemand, Demands, TimerRuns
<1>3. /\ demand.st \in {"none", "active", "lowClamped", "zeroDemandHold", "paused", "resumeWarmup"}
      /\ demand.zeroFor \in -1 .. PauseConfirm
  BY DEF Demands
<1>4. /\ z \in -1 .. PauseConfirm /\ z \in {0, demand.zeroFor} /\ z # -1
      /\ z >= PauseConfirm => demand.zeroFor >= PauseConfirm
  BY <1>3, ConstantParts DEF ZeroFor
<1> HIDE DEF z
<1>5. /\ st \in {"zeroDemandHold", "paused"}
      /\ st = "paused" /\ demand.st # "paused" => z >= PauseConfirm
  BY <1>3, AdvancedState, ZenonT(60)
<1> HIDE DEF st
<1>6. d \in Demands /\ d.st = st /\ d.zeroFor = z
  BY <1>4, <1>5, ZenonT(60) DEF Demands
<1>7. PlanOf(d)
  BY <1>4, <1>5, <1>6 DEF PlanOf, TimerRuns
<1>8. QED
  BY <1>1, <1>2, <1>7

LEMMA PlannedPlan ==
    ASSUME demand \in Demands, TimerRuns(demand)
    PROVE  PlanOf(PlannedDemand)
<1> DEFINE named == \E s \in {x \in Subscribers : Fresh(x)} : Names(s)
<1>1. Watched => named
  BY DEF Watched, Watches, Names
<1>2. CASE named
  BY <1>2, NamedPlan DEF PlannedDemand
<1>3. CASE ~named
  <2>1. PlannedDemand \in {demand, VanishedDemand}
    BY <1>3 DEF PlannedDemand
  <2>2. ~Watched
    BY <1>1, <1>3
  <2>3. PlanOf(demand)
    BY <2>2 DEF PlanOf, TimerRuns, Demands
  <2>4. QED
    BY <2>1, <2>2, <2>3, VanishedPlan
<1>4. QED
  BY <1>2, <1>3

-----------------------------------------------------------------------------
(* Type correctness *)

Hints == {"visible", "hidden", NoHint}
Pages == [hint : Hints, sampler : Hints, seq : 0 .. MaxSeq,
          pc : {"idle", "sampling", "posted", "joining"}, skew : 0 .. MaxSkew]
Limits == [pending : BOOLEAN, pendingSeq : 0 .. MaxSeq, young : BOOLEAN, accepted : -1 .. MaxSeq]
Entries == [seq : -1 .. MaxSeq, sub : Subs, age : 0 .. AgeLimit, skew : 0 .. MaxSkew]
Stored(e) == e = NoEntry \/ e.seq # -1
Lates == {<<>>} \cup {<<n>> : n \in 0 .. MaxSeq}
AllScenarios == {"reconnect", "remove", "shared", "clock"}
Hists == [scenario : AllScenarios, lost : Nat, late : BOOLEAN, refused : BOOLEAN,
          back : 0 .. MaxSkew, unwatched : 0 .. PauseConfirm, events : Nat]

StateInv ==
    /\ DownlinkTypeOK
    /\ late \in Lates /\ hist \in Hists
    /\ \A s \in Subscribers : Stored(registry[s])
WorkerInv == worker \in Workers /\ Scheduled(worker) /\ PageQueue(worker.tasks, page)

LEMMA TypeParts ==
    DownlinkTypeOK <=> /\ page \in Pages /\ limit \in Limits
                       /\ registry \in [Subscribers -> Entries]
                       /\ demand \in Demands /\ TimerRuns(demand)
BY DEF DownlinkTypeOK, Pages, Limits, Entries, Demands, TimerRuns, Hints, Subs

LEMMA TickPage ==
    ASSUME NEW p \in Pages
    PROVE  /\ Tick(p) \in Pages /\ Tick(p).hint = p.hint /\ Tick(p).skew = p.skew
           /\ p.pc # "idle" => Tick(p) = p
           /\ p.pc = "idle" => /\ Tick(p).pc = "sampling"
                               /\ Tick(p).seq = IF p.seq >= MaxSeq THEN 0 ELSE p.seq + 1
<1>1. CASE p.pc # "idle"
  BY <1>1 DEF Tick
<1>2. CASE p.pc = "idle"
  <2> DEFINE s == IF p.hint = NoHint THEN p.sampler ELSE p.hint
             n == IF p.seq >= MaxSeq THEN 0 ELSE p.seq + 1
  <2>1. Tick(p) = [p EXCEPT !.sampler = s, !.seq = n, !.pc = "sampling"]
    BY <1>2, ZenonT(60) DEF Tick
  <2>2. s \in Hints /\ n \in 0 .. MaxSeq
    BY ConstantParts DEF Pages, Hints
  <2> HIDE DEF s
  <2>3. QED
    BY <1>2, <2>1, <2>2, ZenonT(60) DEF Pages
<1>3. QED
  BY <1>1, <1>2

LEMMA PageParts ==
    ASSUME NEW p \in Pages, NEW c \in {"idle", "sampling", "posted", "joining"}, NEW h \in Hints,
           NEW s \in Hints
    PROVE  /\ LET r == [p EXCEPT !.pc = c]
              IN /\ r \in Pages /\ r.hint = p.hint /\ r.sampler = p.sampler /\ r.seq = p.seq
                 /\ r.pc = c /\ r.skew = p.skew
           /\ LET r == [p EXCEPT !.hint = h]
              IN r \in Pages /\ r.hint = h /\ r.seq = p.seq /\ r.pc = p.pc /\ r.skew = p.skew
           /\ LET r == [p EXCEPT !.hint = h, !.sampler = s]
              IN r \in Pages /\ r.hint = h /\ r.seq = p.seq /\ r.pc = p.pc /\ r.skew = p.skew
           /\ \A k \in 0 .. MaxSkew : LET r == [p EXCEPT !.skew = k]
              IN r \in Pages /\ r.hint = p.hint /\ r.seq = p.seq /\ r.pc = p.pc /\ r.skew = k
BY ZenonT(60) DEF Pages

LEMMA NewPageParts ==
    /\ NewPage \in Pages /\ NewPage.pc = "idle" /\ NewPage.seq = 0 /\ NewPage.hint = "visible"
    /\ NewPage.skew = 0
    /\ \A k \in 0 .. MaxSkew : LET r == [NewPage EXCEPT !.pc = "joining", !.skew = k]
       IN r \in Pages /\ r.pc = "joining" /\ r.hint = "visible" /\ r.skew = k
<1>1. /\ NewPage \in Pages /\ NewPage.pc = "idle" /\ NewPage.seq = 0 /\ NewPage.hint = "visible"
      /\ NewPage.skew = 0
  BY ConstantParts DEF NewPage, Pages, Hints
<1>2. ASSUME NEW k \in 0 .. MaxSkew
      PROVE  LET r == [NewPage EXCEPT !.pc = "joining", !.skew = k]
             IN r \in Pages /\ r.pc = "joining" /\ r.hint = "visible" /\ r.skew = k
  BY <1>1, <1>2, ZenonT(60) DEF Pages
<1>3. QED
  BY <1>1, <1>2, ZenonT(60)

(* The limits that the signaling thread may leave.                         *)
LEMMA LimitParts ==
    ASSUME limit \in Limits, NEW n \in 0 .. MaxSeq
    PROVE  /\ NoLimit \in Limits /\ LimitAfter(n) \in Limits /\ ClearPendingIfMatches(n) \in Limits
           /\ [limit EXCEPT !.accepted = n] \in Limits /\ [limit EXCEPT !.young = FALSE] \in Limits
<1>1. NoLimit \in Limits /\ NoLimit.pending = FALSE /\ n \in -1 .. MaxSeq
  BY ConstantParts DEF NoLimit, Limits
<1>2. LimitAfter(n) \in Limits
  BY ZenonT(60) DEF LimitAfter, Limits
<1>3. ClearPendingIfMatches(n) \in Limits
  BY <1>1, ZenonT(60) DEF ClearPendingIfMatches, Limits, NoLimit
<1>4. [limit EXCEPT !.accepted = n] \in Limits /\ [limit EXCEPT !.young = FALSE] \in Limits
  BY <1>1, ZenonT(60) DEF Limits
<1>5. QED
  BY <1>1, <1>2, <1>3, <1>4

LEMMA StateInit == Init => StateInv
<1> SUFFICES ASSUME Init PROVE StateInv
  OBVIOUS
<1>1. page \in Pages
  BY TickPage, NewPageParts, ZenonT(60) DEF Init
<1>2. limit \in Limits
  BY ConstantParts DEF Init, NoLimit, Limits
<1>3. registry \in [Subscribers -> Entries] /\ \A s \in Subscribers : registry[s] = NoEntry
  BY ConstantParts, AgeLimitParts DEF Init, NoEntry, Entries, Subs
<1>4. demand \in Demands /\ TimerRuns(demand)
  BY ConstantParts DEF Init, NoDemand, Demands, TimerRuns
<1>5. late \in Lates
  BY DEF Init, Lates
<1>6. hist \in Hists
  <2>1. /\ 0 \in Nat /\ 0 \in 0 .. PauseConfirm /\ 0 \in 0 .. MaxSkew
        /\ Scenarios \subseteq AllScenarios
    BY DownlinkConstants, ConstantParts DEF AllScenarios
  <2>2. hist \in [scenario : Scenarios, lost : {0}, late : {FALSE}, refused : {FALSE},
                 back : {0}, unwatched : {0}, events : {0}]
    BY ZenonT(60) DEF Init
  <2>3. QED
    BY <2>1, <2>2, ZenonT(60) DEF Hists
<1>7. QED
  BY <1>1, <1>2, <1>3, <1>4, <1>5, <1>6, TypeParts DEF StateInv, Stored

LEMMA WorkerInit == Init => WorkerInv
<1> SUFFICES ASSUME Init PROVE WorkerInv
  OBVIOUS
<1>1. worker \in Workers
  BY DEF Init, Workers
<1>2. /\ worker.tasks = <<>> /\ worker.delayed = {} /\ ~worker.active /\ ~worker.waking
      /\ ~worker.pending /\ DOMAIN worker.tasks = {}
  BY DEF Init
<1>3. Scheduled(worker)
  BY <1>2 DEF Scheduled, NoTask, NoAlarm
<1>4. PageQueue(worker.tasks, page)
  BY <1>2 DEF PageQueue
<1>5. QED
  BY <1>1, <1>3, <1>4 DEF WorkerInv

(* The invariant in parts, for a state and for the one after a step.       *)
LEMMA StateParts ==
    StateInv <=> /\ page \in Pages /\ limit \in Limits /\ late \in Lates /\ hist \in Hists
                 /\ registry \in [Subscribers -> Entries]
                 /\ \A s \in Subscribers : Stored(registry[s])
                 /\ demand \in Demands /\ TimerRuns(demand)
BY TypeParts, ZenonT(60) DEF StateInv

LEMMA StatePartsNext ==
    StateInv' <=> /\ page' \in Pages /\ limit' \in Limits /\ late' \in Lates /\ hist' \in Hists
                  /\ registry' \in [Subscribers -> Entries]
                  /\ \A s \in Subscribers : Stored(registry'[s])
                  /\ demand' \in Demands /\ TimerRuns(demand')
BY DEF StateInv, DownlinkTypeOK, Pages, Limits, Entries, Demands, TimerRuns, Hints, Subs

LEMMA BackParts ==
    ASSUME NEW b \in 0 .. MaxSkew, NEW by \in -MaxSkew .. MaxSkew
    PROVE  /\ SetBack(b, by) \in 0 .. MaxSkew
           /\ \A d \in Int : d <= b /\ d + by <= MaxSkew => d + by <= SetBack(b, by)
BY ConstantParts DEF SetBack

LEMMA HistParts ==
    ASSUME hist \in Hists
    PROVE  /\ [hist EXCEPT !.events = @ + 1] \in Hists /\ [hist EXCEPT !.lost = @ + 1] \in Hists
           /\ [hist EXCEPT !.events = @ + 1, !.lost = 0] \in Hists
           /\ \A b \in BOOLEAN : [hist EXCEPT !.late = b] \in Hists
           /\ \A k \in 0 .. MaxSkew : [hist EXCEPT !.events = @ + 1, !.back = k] \in Hists
           /\ \A n \in 0 .. PauseConfirm : [hist EXCEPT !.events = 0, !.unwatched = n] \in Hists
<1>1. hist.events + 1 \in Nat /\ hist.lost + 1 \in Nat /\ 0 \in Nat
  BY DEF Hists
<1> DEFINE e == hist.events + 1
           l == hist.lost + 1
<1> HIDE DEF e, l
<1>2. [hist EXCEPT !.events = e] \in Hists /\ [hist EXCEPT !.lost = l] \in Hists
  BY <1>1, ZenonT(60) DEF Hists, e, l
<1>3. [hist EXCEPT !.events = e, !.lost = 0] \in Hists
  BY <1>1, ZenonT(60) DEF Hists, e, l
<1>4. \A b \in BOOLEAN : [hist EXCEPT !.late = b] \in Hists
  BY <1>1, ZenonT(60) DEF Hists
<1>5. \A n \in 0 .. PauseConfirm : [hist EXCEPT !.events = 0, !.unwatched = n] \in Hists
  BY <1>1, ZenonT(60) DEF Hists
<1>6. \A k \in 0 .. MaxSkew : [hist EXCEPT !.events = e, !.back = k] \in Hists
  BY <1>1, ZenonT(60) DEF Hists, e, l
<1>7. QED
  BY <1>2, <1>3, <1>4, <1>5, <1>6, ZenonT(60) DEF e, l

(* What a report of the page that is run leaves of the history.            *)
HistRun(l, k, b) == [hist EXCEPT !.lost = l, !.back = k, !.refused = b]
LEMMA HistReport ==
    ASSUME hist \in Hists, NEW l \in Nat, NEW k \in 0 .. MaxSkew, NEW b \in BOOLEAN
    PROVE  /\ HistRun(l, k, b) \in Hists /\ HistRun(l, k, b).scenario = hist.scenario
           /\ HistRun(l, k, b).lost = l /\ HistRun(l, k, b).late = hist.late
           /\ HistRun(l, k, b).back = k /\ HistRun(l, k, b).refused = b
           /\ HistRun(l, k, b).events = hist.events
           /\ HistRun(l, k, b).unwatched = hist.unwatched
BY ZenonT(60) DEF Hists, HistRun

(* The task a worker takes, by its kind.                                   *)
LEMMA TakenTask ==
    ASSUME worker \in Workers, NEW kind, Runs(kind)
    PROVE  /\ worker.tasks \in Seq(Tasks) /\ worker.tasks # <<>>
           /\ Head(worker.tasks) \in Tasks /\ Head(worker.tasks).kind = kind
           /\ kind = "report" => Head(worker.tasks) \in ReportTasks
           /\ kind = "plan" => Head(worker.tasks) \in PlanTasks
<1>1. worker.tasks \in Seq(Tasks) /\ worker.tasks # <<>> /\ Head(worker.tasks).kind = kind
  BY WorkerParts DEF Runs
<1>2. Head(worker.tasks) \in Tasks
  BY <1>1
<1>3. QED
  BY <1>1, <1>2, ZenonT(60) DEF Tasks, ReportTasks, PlanTasks

(* The steps of the page and of the signaling thread keep the types.       *)
LEMMA StatePageStep ==
    ASSUME StateInv, NEW hint \in {"visible", "hidden"}, NEW skew \in 0 .. MaxSkew,
           \/ SetVisible(hint) \/ RemoveConsumer \/ RegisterConsumer \/ TickFails
           \/ SetClock(skew)
    PROVE  StateInv'
<1>t. /\ page \in Pages /\ limit \in Limits /\ late \in Lates /\ hist \in Hists
      /\ registry \in [Subscribers -> Entries] /\ \A x \in Subscribers : Stored(registry[x])
      /\ demand \in Demands /\ TimerRuns(demand)
  BY StateParts
<1> USE <1>t
<1>1. CASE SetVisible(hint)
  <2>1. page' \in Pages
    BY <1>1, PageParts, ZenonT(60) DEF SetVisible, Hints
  <2>2. QED
    BY <1>1, <2>1, StatePartsNext, ZenonT(60) DEF SetVisible
<1>2. CASE RemoveConsumer
  <2>1. page' \in Pages
    BY <1>2, PageParts, ZenonT(60) DEF RemoveConsumer, RemoveHints, Hints
  <2>2. QED
    BY <1>2, <2>1, StatePartsNext, ZenonT(60) DEF RemoveConsumer
<1>3. CASE RegisterConsumer
  <2>1. page' \in Pages
    <3>1. [page EXCEPT !.hint = "visible"] \in Pages
      BY PageParts, ZenonT(60) DEF Hints
    <3>2. QED
      BY <1>3, <3>1, TickPage, ZenonT(60) DEF RegisterConsumer
  <2>2. hist' \in Hists
    BY <1>3, HistParts, ZenonT(60) DEF RegisterConsumer
  <2>3. QED
    BY <1>3, <2>1, <2>2, StatePartsNext, ZenonT(60) DEF RegisterConsumer
<1>4. CASE TickFails
  <2>1. page' \in Pages
    BY <1>4, PageParts, ZenonT(60) DEF TickFails, Hints
  <2>2. hist' \in Hists
    BY <1>4, HistParts, ZenonT(60) DEF TickFails
  <2>3. QED
    BY <1>4, <2>1, <2>2, StatePartsNext, ZenonT(60) DEF TickFails
<1>5. CASE SetClock(skew)
  <2>1. page' \in Pages
    BY <1>5, PageParts, ZenonT(60) DEF SetClock, Hints
  <2>2. hist.back \in 0 .. MaxSkew /\ page.skew \in 0 .. MaxSkew
    BY DEF Hists, Pages
  <2>3. SetBack(hist.back, skew - page.skew) \in 0 .. MaxSkew
    <3>1. skew - page.skew \in -MaxSkew .. MaxSkew
      BY <2>2, ConstantParts
    <3>2. QED
      BY <2>2, <3>1, BackParts, ZenonT(60)
  <2>4. hist' \in Hists
    BY <1>5, <2>3, HistParts, ZenonT(60) DEF SetClock
  <2>5. QED
    BY <1>5, <2>1, <2>4, StatePartsNext, ZenonT(60) DEF SetClock
<1>6. QED
  BY <1>1, <1>2, <1>3, <1>4, <1>5

LEMMA StateSignalStep ==
    ASSUME StateInv, (\E fits \in Fits : Report(fits)) \/ Rejoin \/ ReceiveLate \/ LoseLate \/ Others
    PROVE  StateInv'
<1>t. /\ page \in Pages /\ limit \in Limits /\ late \in Lates /\ hist \in Hists
      /\ registry \in [Subscribers -> Entries] /\ \A x \in Subscribers : Stored(registry[x])
      /\ demand \in Demands /\ TimerRuns(demand)
  BY StateParts
<1> USE <1>t
<1>0. /\ page.seq \in 0 .. MaxSeq /\ page.skew \in 0 .. MaxSkew
      /\ late \in Lates /\ <<>> \in Lates
  BY DEF Pages, Lates
<1>1. CASE \E fits \in Fits : Report(fits)
  <2>0. PICK fits \in Fits : Report(fits)
    BY <1>1
  <2>1. page' \in Pages
    <3>1. page' = [page EXCEPT !.pc = "idle"] \/ page' = [page EXCEPT !.pc = "posted"]
      BY <2>0 DEF Report
    <3>2. [page EXCEPT !.pc = "idle"] \in Pages
      BY PageParts, ZenonT(60) DEF Hints
    <3>3. [page EXCEPT !.pc = "posted"] \in Pages
      BY PageParts, ZenonT(60) DEF Hints
    <3>4. QED
      BY <3>1, <3>2, <3>3, ZenonT(60)
  <2>2. hist' \in Hists
    BY <2>0, HistParts, ZenonT(60) DEF Report
  <2>3. limit' \in Limits
    BY <1>0, <2>0, LimitParts, ZenonT(60) DEF Report
  <2>4. QED
    BY <2>0, <2>1, <2>2, <2>3, StatePartsNext, ZenonT(60) DEF Report
<1>2. CASE Rejoin
  <2>1. page' \in Pages
    BY <1>0, <1>2, NewPageParts, ZenonT(60) DEF Rejoin
  <2>2. hist' \in Hists
    BY <1>2, HistParts, ZenonT(60) DEF Rejoin
  <2>3. limit' \in Limits
    BY <1>0, <1>2, LimitParts, ZenonT(60) DEF Rejoin
  <2>4. late' \in Lates
    BY <1>0, <1>2, ZenonT(60) DEF Rejoin, Lates
  <2>5. QED
    BY <1>2, <2>1, <2>2, <2>3, <2>4, StatePartsNext, ZenonT(60) DEF Rejoin
<1>3. CASE ReceiveLate
  <2>1. late[1] \in 0 .. MaxSeq
    BY <1>3 DEF ReceiveLate, Lates
  <2>2. limit' \in Limits
    BY <1>3, <2>1, LimitParts, ZenonT(60) DEF ReceiveLate
  <2>3. QED
    BY <1>0, <1>3, <2>2, StatePartsNext, ZenonT(60) DEF ReceiveLate
<1>4. CASE LoseLate
  BY <1>0, <1>4, StatePartsNext, ZenonT(60) DEF LoseLate
<1>5. CASE Others
  <2>1. hist' \in Hists
    BY <1>5, HistParts, ZenonT(60) DEF Others
  <2>2. QED
    BY <1>5, <2>1, StatePartsNext, ZenonT(60) DEF Others
<1>6. QED
  BY <1>1, <1>2, <1>3, <1>4, <1>5

(* What the report at the head of the queue does, given the verdicts on    *)
(* its number and on its timestamp.                                        *)
Verdict(staleSeq, staleTs) ==
    LET task == Head(worker.tasks)
        s == IF task.from = "other" THEN "other" ELSE "page"
        prev == registry[s]
    IN /\ staleSeq <=> s = "page" /\ StaleSeq(prev, task.seq)
       /\ task.from = "page" => (staleTs <=> StaleTs(prev, page.skew))
       /\ staleTs => task.from # "other" /\ prev # NoEntry
Ran(staleSeq, staleTs) ==
    LET task == Head(worker.tasks)
        s == IF task.from = "other" THEN "other" ELSE "page"
        prev == registry[s]
        refused == staleSeq \/ staleTs
        lagging == prev.age + TsTolerance < hist.back
        entry == [seq |-> task.seq, sub |-> task.sub, age |-> 0, skew |-> page.skew]
    IN /\ worker' = IF refused THEN Popped ELSE markDownlinkRoomDirty(Popped)
       /\ registry' = IF refused THEN registry ELSE [registry EXCEPT ![s] = entry]
       /\ limit' = IF s = "other" THEN limit
                   ELSE IF ~refused THEN [limit EXCEPT !.accepted = task.seq]
                   ELSE ClearPendingIfMatches(task.seq)
       /\ page' = IF task.from = "page" THEN [page EXCEPT !.pc = "idle"] ELSE page
       /\ task.from = "page" =>
              hist' = [hist EXCEPT !.lost = IF refused /\ ~hist.late THEN hist.lost + 1 ELSE 0,
                                   !.back = IF refused THEN hist.back ELSE 0,
                                   !.refused = refused /\ ~hist.late /\ (staleSeq \/ ~lagging)]
       /\ task.from = "late" => hist' = [hist EXCEPT !.late = hist.late \/ ~refused]
       /\ task.from = "other" => hist' = hist
       /\ UNCHANGED <<late, demand>>

LEMMA RanReport ==
    ASSUME WorkerInv, RunReport
    PROVE  /\ Head(worker.tasks) \in ReportTasks /\ Head(worker.tasks).kind = "report"
           /\ \E staleSeq \in BOOLEAN, staleTs \in BOOLEAN :
                  Verdict(staleSeq, staleTs) /\ Ran(staleSeq, staleTs)
<1> DEFINE task == Head(worker.tasks)
           s == IF task.from = "other" THEN "other" ELSE "page"
           prev == registry[s]
           staleSeq == s = "page" /\ StaleSeq(prev, task.seq)
<1>1. task \in ReportTasks /\ task.kind = "report"
  BY TakenTask DEF WorkerInv, RunReport
<1>2. task.from \in {"page", "late", "other"}
  BY <1>1 DEF ReportTasks
<1>3. PICK staleTs \in TsVerdicts(task.from, prev) :
        LET lagging == prev.age + TsTolerance < hist.back
            refused == staleSeq \/ staleTs
            entry == [seq |-> task.seq, sub |-> task.sub, age |-> 0, skew |-> page.skew]
        IN /\ worker' = IF refused THEN Popped ELSE markDownlinkRoomDirty(Popped)
           /\ registry' = IF refused THEN registry ELSE [registry EXCEPT ![s] = entry]
           /\ limit' = IF s = "other" THEN limit
                       ELSE IF ~refused THEN [limit EXCEPT !.accepted = task.seq]
                       ELSE ClearPendingIfMatches(task.seq)
           /\ page' = IF task.from = "page" THEN [page EXCEPT !.pc = "idle"] ELSE page
           /\ hist' = CASE task.from = "page" ->
                             [hist EXCEPT !.lost = IF refused /\ ~hist.late THEN @ + 1 ELSE 0,
                                          !.back = IF refused THEN @ ELSE 0,
                                          !.refused = refused /\ ~hist.late
                                                      /\ (staleSeq \/ ~lagging)]
                       [] task.from = "late" -> [hist EXCEPT !.late = @ \/ ~refused]
                       [] OTHER -> hist
  BY ZenonT(60) DEF RunReport
<1>4. /\ staleTs \in BOOLEAN /\ staleSeq \in BOOLEAN
      /\ task.from = "page" => (staleTs <=> StaleTs(prev, page.skew))
      /\ staleTs => task.from # "other" /\ prev # NoEntry
  BY <1>2, ZenonT(60) DEF TsVerdicts, StaleTs
<1>5. Verdict(staleSeq, staleTs)
  BY <1>4 DEF Verdict
<1>6. UNCHANGED <<late, demand>>
  BY DEF RunReport
<1>7. Ran(staleSeq, staleTs)
  BY <1>2, <1>3, <1>6 DEF Ran
<1>8. QED
  BY <1>1, <1>4, <1>5, <1>7, ZenonT(60)

(* The steps of the worker thread keep the types.                          *)
LEMMA StateReportStep ==
    ASSUME StateInv, WorkerInv, RunReport
    PROVE  StateInv'
<1>t. /\ page \in Pages /\ limit \in Limits /\ late \in Lates /\ hist \in Hists
      /\ registry \in [Subscribers -> Entries] /\ \A x \in Subscribers : Stored(registry[x])
      /\ demand \in Demands /\ TimerRuns(demand)
  BY StateParts
<1> USE <1>t
<1>0. PICK staleSeq \in BOOLEAN, staleTs \in BOOLEAN :
          Verdict(staleSeq, staleTs) /\ Ran(staleSeq, staleTs)
  BY RanReport
<1> DEFINE task == Head(worker.tasks)
           s == IF task.from = "other" THEN "other" ELSE "page"
           refused == staleSeq \/ staleTs
           entry == [seq |-> task.seq, sub |-> task.sub, age |-> 0, skew |-> page.skew]
<1>1. task \in ReportTasks
  BY RanReport
<1>2. /\ task.seq \in 0 .. MaxSeq /\ task.sub \in Subs /\ s \in Subscribers /\ refused \in BOOLEAN
      /\ task.from \in {"page", "late", "other"} /\ page.skew \in 0 .. MaxSkew
      /\ hist.late \in BOOLEAN /\ hist.lost + 1 \in Nat /\ hist.back \in 0 .. MaxSkew
  BY <1>1 DEF ReportTasks, Subscribers, Pages, Hists
<1>3. entry \in Entries /\ Stored(entry)
  BY <1>2, ConstantParts, AgeLimitParts, SMTT(60), Z3T(60) DEF Entries, Stored
<1>4. /\ registry' = IF refused THEN registry ELSE [registry EXCEPT ![s] = entry]
      /\ limit' = IF s = "other" THEN limit
                  ELSE IF ~refused THEN [limit EXCEPT !.accepted = task.seq]
                  ELSE ClearPendingIfMatches(task.seq)
      /\ page' = IF task.from = "page" THEN [page EXCEPT !.pc = "idle"] ELSE page
      /\ UNCHANGED <<late, demand>>
  BY <1>0 DEF Ran
<1>5. registry' \in [Subscribers -> Entries] /\ \A x \in Subscribers : Stored(registry'[x])
  <2> HIDE DEF task, s, refused, entry
  <2>1. QED
    BY <1>2, <1>3, <1>4
<1>6. limit' \in Limits
  <2> HIDE DEF task, s, refused, entry
  <2>1. QED
    BY <1>2, <1>4, LimitParts, ZenonT(60)
<1>7. page' \in Pages
  <2> HIDE DEF task, s, refused, entry
  <2>1. QED
    BY <1>4, PageParts, ZenonT(60) DEF Hints
<1>8. hist' \in Hists
  <2> DEFINE l == IF refused /\ ~hist.late THEN hist.lost + 1 ELSE 0
             k == IF refused THEN hist.back ELSE 0
             b == refused /\ ~hist.late /\ (staleSeq \/ ~(registry[s].age + TsTolerance < hist.back))
  <2>1. l \in Nat /\ k \in 0 .. MaxSkew /\ b \in BOOLEAN /\ (hist.late \/ ~refused) \in BOOLEAN
    BY <1>2, ConstantParts
  <2>2. /\ task.from = "page" => hist' = HistRun(l, k, b)
        /\ task.from = "late" => hist' = [hist EXCEPT !.late = hist.late \/ ~refused]
        /\ task.from = "other" => hist' = hist
    BY <1>0 DEF Ran, HistRun
  <2> HIDE DEF l, k, b, task, refused
  <2>3. CASE task.from = "page"
    <3>1. HistRun(l, k, b) \in Hists
      BY <2>1, HistReport
    <3>2. QED
      BY <2>2, <2>3, <3>1
  <2>4. CASE task.from = "late"
    BY <2>1, <2>2, <2>4, HistParts, ZenonT(60)
  <2>5. QED
    BY <1>2, <2>2, <2>3, <2>4, ZenonT(60)
<1>9. QED
  BY <1>4, <1>5, <1>6, <1>7, <1>8, StatePartsNext, ZenonT(60)

(* What a planning task of the queue, or a delayed one, does.              *)
PlanStep ==
    /\ worker' \in Workers /\ Scheduled(worker') /\ PageQueue(worker'.tasks, page)
    /\ \/ UNCHANGED <<limit, demand>> /\ worker'.pending = worker.pending
       \/ /\ demand' = PlannedDemand /\ ~worker'.pending
          /\ limit' = IF Fresh("page") THEN ClearPendingIfMatches(registry["page"].seq) ELSE limit
    /\ UNCHANGED <<page, late, registry, hist>>

LEMMA RunPlanStep ==
    ASSUME WorkerInv, RunPlan
    PROVE  PlanStep
<1> DEFINE q == worker.tasks
           w == [worker EXCEPT !.tasks = Tail(worker.tasks)]
           fresh == Head(q).fresh
<1>1. /\ q \in Seq(Tasks) /\ q # <<>> /\ Head(q) \in PlanTasks /\ Head(q).kind = "plan"
      /\ worker \in Workers /\ Scheduled(worker) /\ PageQueue(q, page)
  BY TakenTask DEF WorkerInv, RunPlan
<1>2. RunPlanning(w, fresh) /\ UNCHANGED <<page, late, registry, hist>>
  BY DEF RunPlan, Popped
<1>3. fresh \in BOOLEAN /\ (fresh <=> IsFresh(Head(q)))
  BY <1>1 DEF PlanTasks, IsFresh
<1>4. /\ w \in Workers /\ w.tasks = Tail(q) /\ w.pending = worker.pending
      /\ ~IsFresh(Head(q)) => Scheduled(w)
      /\ IsFresh(Head(q)) => w.active /\ NoTask(w) /\ NoAlarm(w)
  BY <1>1, PoppedWorker, ZenonT(60)
<1>5. PageQueue(w.tasks, page)
  BY <1>1, <1>4, PoppedQueue, ZenonT(60)
<1> HIDE DEF w, q, fresh
<1>6. /\ worker' \in Workers /\ Scheduled(worker') /\ Keeps(w.tasks, worker'.tasks)
      /\ \/ UNCHANGED <<limit, demand>> /\ worker'.pending = w.pending
         \/ /\ demand' = PlannedDemand /\ ~worker'.pending
            /\ limit' = IF Fresh("page") THEN ClearPendingIfMatches(registry["page"].seq)
                        ELSE limit
  BY <1>2, <1>3, <1>4, RanPlanning, ZenonT(60)
<1>7. PageQueue(worker'.tasks, page)
  BY <1>5, <1>6, KeptQueue, ZenonT(60)
<1>8. QED
  BY <1>2, <1>4, <1>6, <1>7, ZenonT(60) DEF PlanStep

LEMMA RunDelayedStep ==
    ASSUME WorkerInv, RunDelayed
    PROVE  PlanStep
<1>1. PICK d \in worker.delayed : RunPlanning([worker EXCEPT !.delayed = @ \ {d}], d.fresh)
  BY ZenonT(60) DEF RunDelayed
<1> DEFINE w == [worker EXCEPT !.delayed = worker.delayed \ {d}]
<1>2. worker \in Workers /\ Scheduled(worker) /\ PageQueue(worker.tasks, page)
  BY DEF WorkerInv
<1>3. worker.delayed \ {d} \in SUBSET Alarms /\ d \in Alarms
  BY <1>2, WorkerParts
<1>4. /\ w \in Workers /\ w.tasks = worker.tasks /\ w.delayed = worker.delayed \ {d}
      /\ w.waking = worker.waking /\ SameFlags(worker, w)
  BY <1>2, <1>3, AlarmParts, ZenonT(60)
<1>5. d.fresh \in BOOLEAN
  BY <1>3 DEF Alarms
<1>6. RunPlanning(w, d.fresh) /\ UNCHANGED <<page, late, registry, hist>>
  BY <1>1 DEF RunDelayed
<1> HIDE DEF w
<1>7. ASSUME d.fresh PROVE w.active /\ NoTask(w) /\ NoAlarm(w)
  <2>1. ~NoAlarm(worker)
    BY <1>7 DEF NoAlarm
  <2>2. worker.active /\ NoTask(worker) /\ OneAlarm(worker)
    BY <2>1, <1>2 DEF Scheduled
  <2>3. QED
    BY <2>2, <1>4, <1>7 DEF NoTask, NoAlarm, OneAlarm, SameFlags
<1>8. ASSUME ~d.fresh PROVE Scheduled(w)
  <2>1. NoTask(worker) => NoTask(w)
    BY <1>4 DEF NoTask
  <2>2. OneTask(worker) => OneTask(w)
    BY <1>4 DEF OneTask
  <2>3. NoAlarm(worker) => NoAlarm(w)
    BY <1>4 DEF NoAlarm
  <2>4. OneAlarm(worker) => OneAlarm(w)
    BY <1>4, <1>8 DEF OneAlarm
  <2>5. QED
    BY <2>1, <2>2, <2>3, <2>4, <1>2, <1>4, ZenonT(60) DEF Scheduled, SameFlags
<1>9. /\ worker' \in Workers /\ Scheduled(worker') /\ Keeps(w.tasks, worker'.tasks)
      /\ \/ UNCHANGED <<limit, demand>> /\ worker'.pending = w.pending
         \/ /\ demand' = PlannedDemand /\ ~worker'.pending
            /\ limit' = IF Fresh("page") THEN ClearPendingIfMatches(registry["page"].seq)
                        ELSE limit
  BY <1>4, <1>5, <1>6, <1>7, <1>8, RanPlanning, ZenonT(60)
<1>10. PageQueue(worker'.tasks, page)
  BY <1>2, <1>4, <1>9, KeptQueue, ZenonT(60)
<1>11. QED
  BY <1>4, <1>6, <1>9, <1>10, ZenonT(60) DEF PlanStep, SameFlags

LEMMA UpParts ==
    ASSUME NEW max \in Nat, NEW n \in -1 .. max
    PROVE  /\ Up(n, max) \in -1 .. max /\ (Up(n, max) = -1 <=> n = -1)
           /\ n >= 0 => Up(n, max) >= 0
           /\ \A m \in 0 .. max : n <= m => Up(n, max) <= Up(m, max)
BY DEF Up

(* The interval passes: what it makes of the registry and of the demand.   *)
LEMMA StateIntervalStep ==
    ASSUME StateInv, PlanningIntervalPasses \/ ReportIntervalPasses
    PROVE  StateInv'
<1>t. /\ page \in Pages /\ limit \in Limits /\ late \in Lates /\ hist \in Hists
      /\ registry \in [Subscribers -> Entries] /\ \A x \in Subscribers : Stored(registry[x])
      /\ demand \in Demands /\ TimerRuns(demand)
  BY StateParts
<1> USE <1>t
<1>1. CASE PlanningIntervalPasses
  <2>1. 0 \in 0 .. MaxSeq
    BY ConstantParts
  <2>2. limit' \in Limits
    BY <1>1, <2>1, LimitParts, ZenonT(60) DEF PlanningIntervalPasses
  <2>3. QED
    BY <1>1, <2>2, StatePartsNext, ZenonT(60) DEF PlanningIntervalPasses
<1>2. CASE ReportIntervalPasses
  <2>1. page' \in Pages
    BY <1>2, TickPage, ZenonT(60) DEF ReportIntervalPasses
  <2>2. ASSUME NEW s \in Subscribers
        PROVE  registry'[s] \in Entries /\ Stored(registry'[s])
    <3> DEFINE e == registry[s]
               a == Up(e.age, AgeLimit)
    <3>1. e \in Entries /\ Stored(e)
      OBVIOUS
    <3>2. a \in 0 .. AgeLimit
      BY <3>1, AgeLimitParts DEF Entries, Up
    <3>3. registry'[s] = IF e = NoEntry THEN NoEntry ELSE [e EXCEPT !.age = a]
      BY <1>2 DEF ReportIntervalPasses
    <3> HIDE DEF e, a
    <3>4. [e EXCEPT !.age = a] \in Entries /\ [e EXCEPT !.age = a].seq = e.seq
      BY <3>1, <3>2, ZenonT(60) DEF Entries
    <3>5. QED
      BY <3>1, <3>3, <3>4, ZenonT(60) DEF Stored
  <2>3. registry' \in [Subscribers -> Entries]
    <3>1. registry' = [s \in Subscribers |-> registry'[s]]
      BY <1>2 DEF ReportIntervalPasses
    <3>2. QED
      BY <2>2, <3>1, ZenonT(60)
  <2>4. demand' \in Demands /\ TimerRuns(demand')
    <3> DEFINE z == Up(demand.zeroFor, PauseConfirm)
               r == Down(demand.resumeIn)
    <3>1. z \in -1 .. PauseConfirm /\ (z = -1 <=> demand.zeroFor = -1) /\ r \in -1 .. ResumeWarmup
      <4>1. demand.zeroFor \in -1 .. PauseConfirm /\ demand.resumeIn \in -1 .. ResumeWarmup
        BY DEF Demands
      <4>2. z \in -1 .. PauseConfirm /\ (z = -1 <=> demand.zeroFor = -1)
        BY <4>1, ConstantParts, UpParts, ZenonT(60)
      <4>3. r \in -1 .. ResumeWarmup
        BY <4>1, ConstantParts DEF Down
      <4>4. QED
        BY <4>2, <4>3
    <3>2. demand' = [demand EXCEPT !.zeroFor = z, !.resumeIn = r]
      BY <1>2 DEF ReportIntervalPasses
    <3> HIDE DEF z, r
    <3> DEFINE d == [demand EXCEPT !.zeroFor = z, !.resumeIn = r]
    <3>3. d \in Demands /\ d.st = demand.st /\ d.zeroFor = z
      BY <3>1, ZenonT(60) DEF Demands
    <3> HIDE DEF d
    <3>4. TimerRuns(d)
      BY <3>1, <3>3 DEF TimerRuns
    <3>5. QED
      BY <3>2, <3>3, <3>4 DEF d
  <2>5. hist' \in Hists
    <3> DEFINE n == IF Watched THEN 0 ELSE Up(hist.unwatched, PauseConfirm)
    <3>1. n \in 0 .. PauseConfirm
      <4>1. hist.unwatched \in 0 .. PauseConfirm
        BY DEF Hists
      <4>2. QED
        BY <4>1, ConstantParts DEF Up
    <3>2. hist' = [hist EXCEPT !.events = 0, !.unwatched = n]
      BY <1>2, ZenonT(60) DEF ReportIntervalPasses, Watched
    <3> HIDE DEF n
    <3>3. QED
      BY <3>1, <3>2, HistParts, ZenonT(60)
  <2>6. QED
    BY <1>2, <2>1, <2>2, <2>3, <2>4, <2>5, StatePartsNext, ZenonT(60) DEF ReportIntervalPasses
<1>3. QED
  BY <1>1, <1>2

LEMMA StateTaskStep ==
    ASSUME StateInv, WorkerInv, RunJoin \/ RunLeave \/ PlanStep
    PROVE  StateInv'
<1>t. /\ page \in Pages /\ limit \in Limits /\ late \in Lates /\ hist \in Hists
      /\ registry \in [Subscribers -> Entries] /\ \A x \in Subscribers : Stored(registry[x])
      /\ demand \in Demands /\ TimerRuns(demand)
  BY StateParts
<1> USE <1>t
<1>0. NoEntry \in Entries /\ Stored(NoEntry) /\ {"page", "other"} = Subscribers
  BY ConstantParts, AgeLimitParts DEF NoEntry, Entries, Subs, Stored, Subscribers
<1>1. CASE RunJoin
  <2>1. page' \in Pages
    <3>1. [page EXCEPT !.pc = "idle"] \in Pages
      BY PageParts, ZenonT(60) DEF Hints
    <3>2. QED
      BY <1>1, <3>1, TickPage, ZenonT(60) DEF RunJoin
  <2>2. registry' \in [Subscribers -> Entries] /\ \A s \in Subscribers : Stored(registry'[s])
    BY <1>0, <1>1 DEF RunJoin
  <2>3. hist' \in Hists
    BY <1>1, HistParts, ZenonT(60) DEF RunJoin
  <2>4. QED
    BY <1>1, <2>1, <2>2, <2>3, StatePartsNext, ZenonT(60) DEF RunJoin
<1>2. CASE RunLeave
  <2>1. registry' \in [Subscribers -> Entries] /\ \A s \in Subscribers : Stored(registry'[s])
    BY <1>0, <1>2 DEF RunLeave
  <2>2. QED
    BY <1>2, <2>1, StatePartsNext, ZenonT(60) DEF RunLeave
<1>3. CASE PlanStep
  <2>1. demand' \in Demands /\ TimerRuns(demand')
    BY <1>3, PlannedPlan, ZenonT(60) DEF PlanStep, PlanOf
  <2>2. limit' \in Limits
    <3>1. Fresh("page") => registry["page"].seq \in 0 .. MaxSeq
      BY <1>0, ConstantParts DEF Fresh, Stored, Entries
    <3>2. QED
      BY <1>3, <3>1, LimitParts, ZenonT(60) DEF PlanStep
  <2>3. QED
    BY <1>3, <2>1, <2>2, StatePartsNext, ZenonT(60) DEF PlanStep
<1>4. QED
  BY <1>1, <1>2, <1>3

-----------------------------------------------------------------------------
(* The wake-up and the page's task are kept *)

LEMMA WorkerPageStep ==
    ASSUME StateInv, WorkerInv, NEW hint \in {"visible", "hidden"},
           \/ SetVisible(hint) \/ RemoveConsumer \/ RegisterConsumer \/ TickFails
           \/ (\E skew \in 0 .. MaxSkew : SetClock(skew)) \/ LoseLate
    PROVE  WorkerInv'
<1>1. worker' = worker /\ worker \in Workers /\ Scheduled(worker) /\ PageQueue(worker.tasks, page)
  BY ZenonT(60)
     DEF WorkerInv, SetVisible, RemoveConsumer, RegisterConsumer, TickFails, SetClock, LoseLate
<1>2. page \in Pages /\ page.pc \in {"idle", "sampling", "posted", "joining"}
  BY StateParts DEF Pages
<1>3. ASSUME page.pc \in {"idle", "sampling"}
      PROVE  PageQueue(worker.tasks, page')
  BY <1>1, <1>3, QuietPage, NoneIsQueue
<1>4. CASE SetVisible(hint) \/ TickFails \/ \E skew \in 0 .. MaxSkew : SetClock(skew)
  BY <1>1, <1>3, <1>4, ZenonT(60) DEF WorkerInv, SetVisible, TickFails, SetClock
<1>5. CASE RemoveConsumer
  <2>1. page'.pc = page.pc /\ page'.seq = page.seq
    BY <1>2, <1>5, PageParts, ZenonT(60) DEF RemoveConsumer, RemoveHints, Hints
  <2>2. QED
    BY <1>1, <2>1, SamePage, ZenonT(60) DEF WorkerInv
<1>6. CASE RegisterConsumer
  <2>1. CASE page.pc = "idle"
    BY <1>1, <1>3, <2>1 DEF WorkerInv
  <2>2. CASE page.pc # "idle"
    <3> DEFINE p == [page EXCEPT !.hint = "visible"]
    <3>1. p \in Pages /\ p.pc = page.pc /\ p.seq = page.seq
      BY <1>2, PageParts, ZenonT(60) DEF Hints
    <3>2. page' = Tick(p)
      BY <1>6 DEF RegisterConsumer
    <3> HIDE DEF p
    <3>3. page' = p
      BY <2>2, <3>1, <3>2, TickPage, ZenonT(60)
    <3>4. QED
      BY <1>1, <3>1, <3>3, SamePage, ZenonT(60) DEF WorkerInv
  <2>3. QED
    BY <2>1, <2>2
<1>7. CASE LoseLate
  BY <1>1, <1>7 DEF WorkerInv, LoseLate
<1>8. QED
  BY <1>4, <1>5, <1>6, <1>7

LEMMA WorkerSignalStep ==
    ASSUME StateInv, WorkerInv,
           (\E fits \in Fits : Report(fits)) \/ Rejoin \/ ReceiveLate \/ Others
    PROVE  WorkerInv' /\ worker'.pending = worker.pending
<1>1. worker \in Workers /\ Scheduled(worker) /\ PageQueue(worker.tasks, page)
  BY DEF WorkerInv
<1>2. /\ page \in Pages /\ page.pc \in {"idle", "sampling", "posted", "joining"}
      /\ page.seq \in 0 .. MaxSeq /\ page.sampler \in Hints /\ page.skew \in 0 .. MaxSkew
      /\ late \in Lates
  BY StateParts DEF Pages
<1>3. page.pc \in {"idle", "sampling"} => NoPage(worker.tasks)
  BY <1>1, QuietPage
<1>4. CASE \E fits \in Fits : Report(fits)
  <2>4. PICK fits \in Fits : Report(fits)
    BY <1>4
  <2> DEFINE t == ReportTask("page", page.seq, Subscription(page.sampler, fits))
  <2>0. page.pc = "sampling" /\ NoPage(worker.tasks)
    BY <1>3, <2>4 DEF Report
  <2>1. CASE RateLimited(page.seq)
    BY <1>1, <2>4, <2>0, <2>1, NoneIsQueue, SMTT(60), Z3T(60) DEF Report, WorkerInv
  <2>2. CASE ~RateLimited(page.seq)
    <3>1. page' = [page EXCEPT !.pc = "posted"] /\ worker' = Post(worker, t)
      BY <2>4, <2>2, ZenonT(60) DEF Report
    <3>2. page'.pc = "posted" /\ page'.seq = page.seq
      BY <1>2, <3>1, PageParts, ZenonT(60) DEF Hints
    <3>3. Subscription(page.sampler, fits) \in Subs
      BY <1>2, ConstantParts DEF Hints, Subscription, Subs, NoHint
    <3>4. t \in Tasks /\ t.kind = "report" /\ t.seq = page.seq
      BY <1>2, <3>3 DEF ReportTask, Tasks, ReportTasks
    <3> HIDE DEF t
    <3>5. Awaited(t, page')
      BY <3>2, <3>4 DEF Awaited
    <3>6. QED
      BY <1>1, <2>0, <3>1, <3>4, <3>5, PostedTask, SMTT(60), Z3T(60) DEF WorkerInv
  <2>3. QED
    BY <2>1, <2>2
<1>5. CASE Rejoin
  <2> DEFINE t == [kind |-> "join"]
  <2>1. NoPage(worker.tasks) /\ worker' = Post(worker, t)
    BY <1>3, <1>5 DEF Rejoin
  <2>2. page'.pc = "joining"
    BY <1>2, <1>5, NewPageParts, ZenonT(60) DEF Rejoin
  <2>3. t \in Tasks /\ t.kind = "join"
    BY DEF Tasks
  <2> HIDE DEF t
  <2>4. Awaited(t, page')
    BY <2>2, <2>3 DEF Awaited
  <2>5. QED
    BY <1>1, <2>1, <2>3, <2>4, PostedTask DEF WorkerInv
<1>6. CASE ReceiveLate
  <2> DEFINE t == ReportTask("late", late[1], "nothing")
  <2>1. late[1] \in 0 .. MaxSeq
    BY <1>2, <1>6 DEF ReceiveLate, Lates
  <2>2. t \in Tasks /\ t.kind # "plan" /\ ~OfPage(t)
    BY <2>1 DEF ReportTask, Tasks, ReportTasks, Subs, OfPage
  <2>3. page' = page /\ (worker' = worker \/ worker' = Post(worker, t))
    BY <1>6 DEF ReceiveLate
  <2> HIDE DEF t
  <2>4. QED
    BY <1>1, <2>2, <2>3, PostedTask, KeptQueue, SMTT(60), Z3T(60) DEF WorkerInv
<1>7. CASE Others
  <2>1. PICK t \in {ReportTask("other", 0, sub) : sub \in {"hidden", "high"}}
                    \cup {[kind |-> "leave"]} : worker' = Post(worker, t)
    BY <1>7 DEF Others
  <2>2. t \in Tasks /\ t.kind # "plan" /\ ~OfPage(t)
    BY ConstantParts DEF ReportTask, Tasks, ReportTasks, Subs, Layers, OfPage
  <2>3. page' = page
    BY <1>7 DEF Others
  <2>4. QED
    BY <1>1, <2>1, <2>2, <2>3, PostedTask, KeptQueue DEF WorkerInv
<1>8. QED
  BY <1>4, <1>5, <1>6, <1>7

(* A task that is taken and marks the room dirty.                          *)
LEMMA DirtyStep ==
    ASSUME WorkerInv, NEW kind \in {"report", "join", "leave"}, Runs(kind)
    PROVE  LET t == Head(worker.tasks)
           IN /\ Popped \in Workers /\ Scheduled(Popped) /\ Popped.pending = worker.pending
              /\ PageQueue(Popped.tasks, page)
              /\ OfPage(t) => Awaited(t, page) /\ NoPage(Popped.tasks)
              /\ LET v == markDownlinkRoomDirty(Popped)
                 IN /\ v \in Workers /\ Scheduled(v) /\ v.pending /\ PageQueue(v.tasks, page)
                    /\ OfPage(t) => NoPage(v.tasks)
<1> DEFINE t == Head(worker.tasks)
           v == markDownlinkRoomDirty(Popped)
<1>1. /\ worker \in Workers /\ Scheduled(worker) /\ PageQueue(worker.tasks, page)
      /\ worker.tasks \in Seq(Tasks) /\ worker.tasks # <<>> /\ t.kind = kind
  BY TakenTask DEF WorkerInv
<1>2. Popped = [worker EXCEPT !.tasks = Tail(worker.tasks)] /\ ~IsFresh(t)
  BY <1>1 DEF Popped, IsFresh
<1>3. /\ Popped \in Workers /\ Popped.tasks = Tail(worker.tasks)
      /\ Popped.pending = worker.pending /\ Scheduled(Popped)
  BY <1>1, <1>2, PoppedWorker, ZenonT(60)
<1>4. /\ PageQueue(Popped.tasks, page)
      /\ OfPage(t) => Awaited(t, page) /\ NoPage(Popped.tasks)
  BY <1>1, <1>3, PoppedQueue, ZenonT(60)
<1>5. v \in Workers /\ Scheduled(v) /\ v.pending /\ Keeps(Popped.tasks, v.tasks)
  BY <1>3, MarkedDirty, ZenonT(60)
<1> HIDE DEF t, v
<1>6. PageQueue(v.tasks, page) /\ (OfPage(t) => NoPage(v.tasks))
  BY <1>4, <1>5, KeptQueue, KeptNone, ZenonT(60)
<1>7. QED
  BY <1>3, <1>4, <1>5, <1>6, ZenonT(60) DEF t, v

LEMMA WorkerTaskStep ==
    ASSUME WorkerInv, RunReport \/ RunJoin \/ RunLeave
    PROVE  WorkerInv'
<1> DEFINE t == Head(worker.tasks)
           v == markDownlinkRoomDirty(Popped)
<1>1. CASE RunReport
  <2>1. /\ Popped \in Workers /\ Scheduled(Popped) /\ PageQueue(Popped.tasks, page)
        /\ OfPage(t) => NoPage(Popped.tasks)
        /\ v \in Workers /\ Scheduled(v) /\ PageQueue(v.tasks, page)
        /\ OfPage(t) => NoPage(v.tasks)
    BY <1>1, DirtyStep, ZenonT(60) DEF RunReport
  <2>2. /\ worker' = Popped \/ worker' = v
        /\ page' = page \/ t.from = "page"
        /\ t.kind = "report"
    BY <1>1, RanReport, ZenonT(60) DEF Ran
  <2> HIDE DEF v, t
  <2>3. worker' \in Workers /\ Scheduled(worker')
    BY <2>1, <2>2, ZenonT(60)
  <2>4. PageQueue(worker'.tasks, page')
    <3>1. CASE t.from = "page"
      BY <2>1, <2>2, <3>1, NoneIsQueue, ZenonT(60) DEF OfPage
    <3>2. CASE page' = page
      BY <2>1, <2>2, <3>2, ZenonT(60)
    <3>3. QED
      BY <2>2, <3>1, <3>2
  <2>5. QED
    BY <2>3, <2>4, ZenonT(60) DEF WorkerInv
<1>2. CASE RunJoin
  <2>1. v \in Workers /\ Scheduled(v) /\ (OfPage(t) => NoPage(v.tasks))
    BY <1>2, DirtyStep, ZenonT(60) DEF RunJoin
  <2>2. worker' = v /\ OfPage(t)
    BY <1>2 DEF RunJoin, Runs, OfPage
  <2> HIDE DEF v, t
  <2>3. QED
    BY <2>1, <2>2, NoneIsQueue, ZenonT(60) DEF WorkerInv
<1>3. CASE RunLeave
  <2>1. v \in Workers /\ Scheduled(v) /\ PageQueue(v.tasks, page)
    BY <1>3, DirtyStep, ZenonT(60) DEF RunLeave
  <2>2. worker' = v /\ page' = page
    BY <1>3 DEF RunLeave
  <2> HIDE DEF v, t
  <2>3. QED
    BY <2>1, <2>2, ZenonT(60) DEF WorkerInv
<1>4. QED
  BY <1>1, <1>2, <1>3

(* Nothing is to be done when an interval passes; without a delayed task   *)
(* the planner is inactive then.                                           *)
LEMMA WorkerIntervalStep ==
    ASSUME StateInv, WorkerInv, PlanningIntervalPasses \/ ReportIntervalPasses
    PROVE  /\ WorkerInv' /\ worker'.pending = worker.pending
           /\ ReportIntervalPasses => ~worker.pending
<1>1. worker \in Workers /\ Scheduled(worker) /\ PageQueue(worker.tasks, page)
  BY DEF WorkerInv
<1>2. /\ worker.tasks = <<>> /\ DOMAIN worker.tasks = {}
      /\ NoTask(worker) /\ ~OneTask(worker) /\ NoPage(worker.tasks)
  BY DEF PlanningIntervalPasses, ReportIntervalPasses, Idle, NoTask, OneTask, NoPage
<1>3. CASE PlanningIntervalPasses
  <2> DEFINE a == {[d EXCEPT !.due = TRUE] : d \in worker.delayed}
             v == [worker EXCEPT !.eligible = TRUE, !.delayed = a]
  <2>1. worker' = v /\ page' = page
    BY <1>3 DEF PlanningIntervalPasses
  <2>2. worker.delayed \in SUBSET Alarms /\ \A d \in worker.delayed : ~d.due
    BY <1>1, <1>3, WorkerParts DEF PlanningIntervalPasses, Idle
  <2>3. a \in SUBSET Alarms
    BY <2>2, ZenonT(60) DEF Alarms
  <2>4. NoAlarm(worker) => \A e \in a : ~e.fresh
    BY <2>2 DEF NoAlarm, Alarms
  <2>5. OneAlarm(worker) => \E d \in a : \A e \in a : e.fresh <=> e = d
    <3>1. ASSUME NEW d \in worker.delayed, \A e \in worker.delayed : e.fresh <=> e = d
          PROVE  \E x \in a : \A e \in a : e.fresh <=> e = x
      <4> DEFINE x == [d EXCEPT !.due = TRUE]
      <4>1. x \in a /\ x.fresh
        BY <2>2, <3>1, ZenonT(60) DEF Alarms
      <4>2. ASSUME NEW e \in a PROVE e.fresh <=> e = x
        <5>1. PICK y \in worker.delayed : e = [y EXCEPT !.due = TRUE]
          OBVIOUS
        <5>2. y \in Alarms /\ e.fresh = y.fresh
          BY <2>2, <5>1 DEF Alarms
        <5>3. QED
          BY <3>1, <4>1, <5>1, <5>2, ZenonT(60)
      <4>3. QED
        BY <4>1, <4>2, ZenonT(60)
    <3>2. QED
      BY <3>1, ZenonT(60) DEF OneAlarm
  <2> HIDE DEF a
  <2>6. /\ v \in Workers /\ v.tasks = worker.tasks /\ v.delayed = a /\ v.pending = worker.pending
        /\ v.active = worker.active /\ v.waking = worker.waking
    BY <1>1, <2>3, ZenonT(60) DEF Workers
  <2> HIDE DEF v
  <2>7. NoTask(v)
    BY <1>2, <2>6, ZenonT(60) DEF NoTask
  <2>8. (NoAlarm(worker) => NoAlarm(v)) /\ (OneAlarm(worker) => OneAlarm(v))
    BY <2>4, <2>5, <2>6 DEF NoAlarm, OneAlarm
  <2>9. Scheduled(v)
    BY <1>1, <1>2, <2>6, <2>7, <2>8, ZenonT(60) DEF Scheduled
  <2>10. ~ReportIntervalPasses
    BY <1>3 DEF PlanningIntervalPasses, ReportIntervalPasses
  <2>11. QED
    BY <1>1, <2>1, <2>6, <2>9, <2>10, ZenonT(60) DEF WorkerInv
<1>4. CASE ReportIntervalPasses
  <2>1. worker' = worker /\ ~OneAlarm(worker)
    BY <1>4 DEF ReportIntervalPasses, OneAlarm
  <2>2. ~worker.pending
    BY <1>1, <1>2, <2>1, ZenonT(60) DEF Scheduled
  <2>3. QED
    BY <1>1, <1>2, <2>1, <2>2, NoneIsQueue, ZenonT(60) DEF WorkerInv
<1>5. QED
  BY <1>3, <1>4

BaseInv == StateInv /\ WorkerInv

LEMMA BaseInit == Init => BaseInv
BY StateInit, WorkerInit DEF BaseInv

LEMMA BaseStep == BaseInv /\ [Next]_vars => BaseInv'
<1> SUFFICES ASSUME StateInv, WorkerInv, [Next]_vars PROVE StateInv' /\ WorkerInv'
  BY DEF BaseInv
<1>0. "visible" \in {"visible", "hidden"} /\ 0 \in 0 .. MaxSkew
  BY ConstantParts
<1>1. CASE \E hint \in {"visible", "hidden"} : SetVisible(hint)
  BY <1>0, <1>1, StatePageStep, WorkerPageStep, ZenonT(60)
<1>2. CASE \/ RemoveConsumer \/ RegisterConsumer \/ TickFails
           \/ \E skew \in 0 .. MaxSkew : SetClock(skew)
  BY <1>0, <1>2, StatePageStep, WorkerPageStep, ZenonT(60)
<1>3. CASE \E fits \in Fits : Report(fits)
  BY <1>3, StateSignalStep, WorkerSignalStep, ZenonT(60)
<1>4. CASE Rejoin \/ ReceiveLate \/ LoseLate \/ Others
  BY <1>0, <1>4, StateSignalStep, WorkerSignalStep, WorkerPageStep, ZenonT(60)
<1>5. CASE RunReport
  BY <1>5, StateReportStep, WorkerTaskStep, ZenonT(60)
<1>6. CASE RunJoin \/ RunLeave
  BY <1>6, StateTaskStep, WorkerTaskStep, ZenonT(60)
<1>7. CASE RunPlan \/ RunDelayed
  <2>1. PlanStep
    BY <1>7, RunPlanStep, RunDelayedStep, ZenonT(60)
  <2>2. WorkerInv'
    BY <2>1, ZenonT(60) DEF PlanStep, WorkerInv
  <2>3. QED
    BY <2>1, <2>2, StateTaskStep, ZenonT(60)
<1>8. CASE PlanningIntervalPasses \/ ReportIntervalPasses
  BY <1>8, StateIntervalStep, WorkerIntervalStep, ZenonT(60)
<1>9. CASE UNCHANGED vars
  <2>1. /\ page' = page /\ late' = late /\ limit' = limit /\ worker' = worker
        /\ registry' = registry /\ demand' = demand /\ hist' = hist
    BY <1>9 DEF vars
  <2>2. WorkerInv'
    BY <2>1, ZenonT(60) DEF WorkerInv
  <2>3. StateInv'
    BY <2>1, StateParts, StatePartsNext, ZenonT(60)
  <2>4. QED
    BY <2>2, <2>3
<1>10. QED
  BY <1>1, <1>2, <1>3, <1>4, <1>5, <1>6, <1>7, <1>8, <1>9, ZenonT(60) DEF Next

LEMMA BaseAlways == Spec => []BaseInv
BY BaseInit, BaseStep, PTL DEF Spec

(* The page, the rate limit, the registry and the demand keep their types, *)
(* and a supply timer runs exactly in the states that wait for it.         *)
THEOREM DownlinkTypeCorrect == Spec => []DownlinkTypeOK
<1>1. BaseInv => DownlinkTypeOK
  BY DEF BaseInv, StateInv
<1>2. QED
  BY <1>1, BaseAlways, PTL

LEMMA OneWakeupCounted ==
    ASSUME WorkerInv
    PROVE  PlannerHasOneWakeup
<1>1. worker \in Workers /\ Scheduled(worker)
  BY DEF WorkerInv
<1>2. /\ worker.pending \in BOOLEAN /\ worker.active \in BOOLEAN /\ worker.waking \in BOOLEAN
      /\ worker.delayed \subseteq Alarms
  BY <1>1, WorkerParts
<1>3. Cardinality({}) = 0 /\ \A x : Cardinality({x}) = 1
  BY FS_EmptySet, FS_Singleton
<1>4. NoTask(worker) => FreshWakeups = {}
  BY DEF NoTask, FreshWakeups, IsFresh
<1>5. OneTask(worker) => \E i : FreshWakeups = {i}
  <2> SUFFICES ASSUME OneTask(worker) PROVE \E i : FreshWakeups = {i}
    BY ZenonT(60)
  <2>1. PICK i \in DOMAIN worker.tasks :
            \A j \in DOMAIN worker.tasks : IsFresh(worker.tasks[j]) <=> j = i
    BY DEF OneTask
  <2>2. FreshWakeups = {j \in DOMAIN worker.tasks : IsFresh(worker.tasks[j])}
    BY ZenonT(60) DEF FreshWakeups, IsFresh
  <2>3. FreshWakeups = {i}
    BY <2>1, <2>2
  <2>4. QED
    BY <2>3
<1>6. NoAlarm(worker) => FreshDelayed = {}
  BY DEF NoAlarm, FreshDelayed
<1>7. OneAlarm(worker) => \E d : FreshDelayed = {d}
  BY DEF OneAlarm, FreshDelayed
<1>8. CASE ~worker.active /\ NoTask(worker) /\ NoAlarm(worker) /\ ~worker.waking /\ ~worker.pending
  BY <1>2, <1>3, <1>4, <1>6, <1>8, SMTT(60), Z3T(60) DEF PlannerHasOneWakeup
<1>9. CASE worker.active /\ ~worker.waking /\ OneTask(worker) /\ NoAlarm(worker)
  <2>1. Cardinality(FreshWakeups) = 1 /\ Cardinality(FreshDelayed) = 0 /\ FreshDelayed = {}
    BY <1>3, <1>5, <1>6, <1>9, ZenonT(60)
  <2>2. QED
    BY <1>9, <2>1 DEF PlannerHasOneWakeup
<1>10. CASE worker.active /\ worker.waking /\ NoTask(worker) /\ OneAlarm(worker)
  <2>1. Cardinality(FreshWakeups) = 0 /\ Cardinality(FreshDelayed) = 1 /\ FreshDelayed # {}
    BY <1>3, <1>4, <1>7, <1>10, ZenonT(60)
  <2>2. QED
    BY <1>10, <2>1 DEF PlannerHasOneWakeup
<1>11. QED
  BY <1>1, <1>8, <1>9, <1>10 DEF Scheduled

(* While the planner is active exactly one planning task, posted or        *)
(* delayed, has the current token, and none while it is not: whatever the  *)
(* reports, joins, leaves and plans before, no dirty room is stranded.     *)
THEOREM PlannerHasOneWakeupCorrect == Spec => []PlannerHasOneWakeup
<1>1. BaseInv => PlannerHasOneWakeup
  BY OneWakeupCounted DEF BaseInv
<1>2. QED
  BY <1>1, BaseAlways, PTL

-----------------------------------------------------------------------------
(* The pause of a producer *)

(* The timer of the hold has run no longer than nobody watches, for a      *)
(* watched producer is planned, which stops the timer, before time passes. *)
DemandInv ==
    /\ demand.zeroFor <= hist.unwatched
    /\ ~worker.pending /\ Watched => demand.zeroFor = -1

LEMMA DemandInit == Init => DemandInv
<1> SUFFICES ASSUME Init PROVE DemandInv
  OBVIOUS
<1>1. demand.zeroFor = -1 /\ hist.unwatched = 0
  BY DEF Init, NoDemand
<1>2. QED
  BY <1>1 DEF DemandInv

(* What a step does to the demand and to what it depends on: nothing that  *)
(* counts, a room that is dirty, a plan, or the passing of time.           *)
DemandStep ==
    \/ /\ demand' = demand /\ hist'.unwatched = hist.unwatched
       /\ \/ registry' = registry /\ worker'.pending = worker.pending
          \/ worker'.pending
    \/ PlanStep
    \/ ReportIntervalPasses /\ ~worker.pending

LEMMA HistKept ==
    ASSUME hist \in Hists, NEW e, NEW l, NEW r, NEW b
    PROVE  /\ [hist EXCEPT !.events = e].unwatched = hist.unwatched
           /\ [hist EXCEPT !.lost = l].unwatched = hist.unwatched
           /\ [hist EXCEPT !.events = e, !.lost = l].unwatched = hist.unwatched
           /\ [hist EXCEPT !.events = e, !.back = r].unwatched = hist.unwatched
           /\ [hist EXCEPT !.lost = l, !.back = e, !.refused = r].unwatched = hist.unwatched
           /\ [hist EXCEPT !.late = b].unwatched = hist.unwatched
BY DEF Hists

LEMMA DemandSteps ==
    ASSUME BaseInv, [Next]_vars
    PROVE  DemandStep
<1>1. StateInv /\ WorkerInv /\ hist \in Hists
  BY StateParts DEF BaseInv
<1>2. CASE \E hint \in {"visible", "hidden"} : SetVisible(hint)
  BY <1>2 DEF SetVisible, DemandStep
<1>3. CASE \/ RemoveConsumer \/ RegisterConsumer \/ TickFails \/ LoseLate
           \/ \E skew \in 0 .. MaxSkew : SetClock(skew)
  <2>1. worker' = worker /\ registry' = registry /\ demand' = demand
    BY <1>3, ZenonT(60) DEF RemoveConsumer, RegisterConsumer, TickFails, LoseLate, SetClock
  <2>2. hist'.unwatched = hist.unwatched
    <3>1. CASE RemoveConsumer \/ RegisterConsumer \/ TickFails \/ LoseLate
      BY <1>1, <3>1, HistKept, ZenonT(60)
         DEF RemoveConsumer, RegisterConsumer, TickFails, LoseLate
    <3>2. CASE \E skew \in 0 .. MaxSkew : SetClock(skew)
      <4>1. PICK e, k : hist' = [hist EXCEPT !.events = e, !.back = k]
        BY <3>2, ZenonT(60) DEF SetClock
      <4>2. QED
        BY <1>1, <4>1, HistKept, ZenonT(60)
    <3>3. QED
      BY <1>3, <3>1, <3>2
  <2>3. QED
    BY <2>1, <2>2, ZenonT(60) DEF DemandStep
<1>4. CASE (\E fits \in Fits : Report(fits)) \/ Rejoin \/ ReceiveLate \/ Others
  <2>1. worker'.pending = worker.pending
    BY <1>1, <1>4, WorkerSignalStep, ZenonT(60)
  <2>2. registry' = registry /\ demand' = demand
    BY <1>4 DEF Report, Rejoin, ReceiveLate, Others
  <2>3. hist'.unwatched = hist.unwatched
    <3>1. \/ hist' = hist \/ hist' = [hist EXCEPT !.lost = hist.lost + 1]
          \/ hist' = [hist EXCEPT !.events = hist.events + 1, !.lost = 0]
          \/ hist' = [hist EXCEPT !.events = hist.events + 1]
      BY <1>4 DEF Report, Rejoin, ReceiveLate, Others
    <3>2. CASE hist' = [hist EXCEPT !.lost = hist.lost + 1]
      BY <1>1, <3>2, HistKept, ZenonT(60)
    <3>3. CASE hist' = [hist EXCEPT !.events = hist.events + 1, !.lost = 0]
      BY <1>1, <3>3, HistKept, ZenonT(60)
    <3>4. CASE hist' = [hist EXCEPT !.events = hist.events + 1]
      BY <1>1, <3>4, HistKept, ZenonT(60)
    <3>5. QED
      BY <3>1, <3>2, <3>3, <3>4, ZenonT(60)
  <2>4. QED
    BY <2>1, <2>2, <2>3, ZenonT(60) DEF DemandStep
<1>5. CASE RunReport
  <2>1. Popped.pending = worker.pending /\ markDownlinkRoomDirty(Popped).pending
    BY <1>1, <1>5, DirtyStep, ZenonT(60) DEF RunReport
  <2>2. /\ demand' = demand
        /\ \/ registry' = registry /\ worker' = Popped
           \/ worker' = markDownlinkRoomDirty(Popped)
    BY <1>1, <1>5, RanReport, ZenonT(60) DEF Ran
  <2>3. hist'.unwatched = hist.unwatched
    <3>1. Head(worker.tasks).from \in {"page", "late", "other"}
      BY <1>1, <1>5, RanReport DEF ReportTasks
    <3>2. PICK staleSeq \in BOOLEAN, staleTs \in BOOLEAN : Ran(staleSeq, staleTs)
      BY <1>1, <1>5, RanReport
    <3>3. CASE Head(worker.tasks).from = "page"
      <4> DEFINE refused == staleSeq \/ staleTs
                 l == IF refused /\ ~hist.late THEN hist.lost + 1 ELSE 0
                 k == IF refused THEN hist.back ELSE 0
                 b == refused /\ ~hist.late
                      /\ (staleSeq \/ ~(registry["page"].age + TsTolerance < hist.back))
      <4>1. hist' = HistRun(l, k, b)
        BY <3>2, <3>3, ZenonT(60) DEF Ran, HistRun
      <4> HIDE DEF l, k, b
      <4>2. HistRun(l, k, b).unwatched = hist.unwatched
        BY <1>1 DEF Hists, HistRun
      <4>3. QED
        BY <4>1, <4>2
    <3>4. CASE Head(worker.tasks).from = "late"
      <4>1. \E b : hist' = [hist EXCEPT !.late = b]
        BY <3>2, <3>4, ZenonT(60) DEF Ran
      <4>2. QED
        BY <1>1, <4>1, HistKept, ZenonT(60)
    <3>5. CASE Head(worker.tasks).from = "other"
      BY <3>2, <3>5, ZenonT(60) DEF Ran
    <3>6. QED
      BY <3>1, <3>3, <3>4, <3>5
  <2>4. QED
    BY <2>1, <2>2, <2>3, ZenonT(60) DEF DemandStep
<1>6. CASE RunJoin \/ RunLeave
  <2>1. markDownlinkRoomDirty(Popped).pending
    BY <1>1, <1>6, DirtyStep, ZenonT(60) DEF RunJoin, RunLeave
  <2>2. worker'.pending /\ demand' = demand
    BY <1>6, <2>1 DEF RunJoin, RunLeave
  <2>3. hist'.unwatched = hist.unwatched
    BY <1>1, <1>6, HistKept, ZenonT(60) DEF RunJoin, RunLeave
  <2>4. QED
    BY <2>2, <2>3, ZenonT(60) DEF DemandStep
<1>7. CASE RunPlan \/ RunDelayed
  BY <1>1, <1>7, RunPlanStep, RunDelayedStep, ZenonT(60) DEF DemandStep
<1>8. CASE PlanningIntervalPasses
  <2>1. worker'.pending = worker.pending
    BY <1>1, <1>8, WorkerIntervalStep, ZenonT(60)
  <2>2. registry' = registry /\ demand' = demand /\ hist' = hist
    BY <1>8 DEF PlanningIntervalPasses
  <2>3. QED
    BY <2>1, <2>2, ZenonT(60) DEF DemandStep
<1>9. CASE ReportIntervalPasses
  BY <1>1, <1>9, WorkerIntervalStep, ZenonT(60) DEF DemandStep
<1>10. CASE UNCHANGED vars
  BY <1>10 DEF vars, DemandStep
<1>11. QED
  BY <1>2, <1>3, <1>4, <1>5, <1>6, <1>7, <1>8, <1>9, <1>10, ZenonT(60) DEF Next

LEMMA DemandKept ==
    ASSUME BaseInv, DemandInv, [Next]_vars
    PROVE  /\ DemandInv'
           /\ demand'.st = "paused" /\ demand.st # "paused" => hist.unwatched >= PauseConfirm
<1>0. /\ DemandStep
      /\ demand \in Demands /\ TimerRuns(demand) /\ hist \in Hists
      /\ demand.zeroFor \in -1 .. PauseConfirm /\ hist.unwatched \in 0 .. PauseConfirm
      /\ registry \in [Subscribers -> Entries]
  BY DemandSteps, StateParts DEF BaseInv, Demands, Hists
<1>1. CASE /\ demand' = demand /\ hist'.unwatched = hist.unwatched
           /\ \/ registry' = registry /\ worker'.pending = worker.pending
              \/ worker'.pending
  BY <1>1 DEF DemandInv, Watched, Watches, Fresh
<1>2. CASE PlanStep
  <2>1. CASE UNCHANGED <<limit, demand>> /\ worker'.pending = worker.pending
    BY <1>2, <2>1 DEF PlanStep, DemandInv, Watched, Watches, Fresh
  <2>2. CASE demand' = PlannedDemand
    <3>1. registry' = registry /\ hist' = hist /\ PlanOf(demand')
      BY <1>0, <1>2, <2>2, PlannedPlan DEF PlanStep
    <3>2. /\ Watched => demand'.zeroFor = -1
          /\ demand'.zeroFor \in {-1, 0, demand.zeroFor}
          /\ demand'.st = "paused" /\ demand.st # "paused" => demand.zeroFor >= PauseConfirm
      BY <3>1, ZenonT(60) DEF PlanOf
    <3>3. Watched' <=> Watched
      BY <3>1 DEF Watched, Watches, Fresh
    <3>4. demand'.zeroFor <= hist.unwatched
      BY <1>0, <3>2 DEF DemandInv
    <3>5. demand.zeroFor >= PauseConfirm => hist.unwatched >= PauseConfirm
      BY <1>0, ConstantParts DEF DemandInv
    <3>6. QED
      BY <3>1, <3>2, <3>3, <3>4, <3>5, SMTT(60), Z3T(60) DEF DemandInv
  <2>3. QED
    BY <1>2, <2>1, <2>2 DEF PlanStep
<1>3. CASE ReportIntervalPasses /\ ~worker.pending
  <2> DEFINE z == Up(demand.zeroFor, PauseConfirm)
             n == IF Watched THEN 0 ELSE Up(hist.unwatched, PauseConfirm)
  <2>1. /\ demand' = [demand EXCEPT !.zeroFor = z, !.resumeIn = Down(@)]
        /\ hist' = [hist EXCEPT !.events = 0, !.unwatched = n]
    BY <1>3, ZenonT(60) DEF ReportIntervalPasses, Watched
  <2> HIDE DEF z, n
  <2>2. demand'.st = demand.st /\ demand'.zeroFor = z
    BY <1>0, <2>1 DEF Demands
  <2>3. hist'.unwatched = n
    BY <1>0, <2>1 DEF Hists
  <2>4. z \in -1 .. PauseConfirm /\ (Watched => z = -1)
    BY <1>0, <1>3, ConstantParts, UpParts DEF DemandInv, z
  <2>5. z <= n
    <3>1. CASE Watched
      BY <2>4, <3>1 DEF n
    <3>2. CASE ~Watched
      <4>1. demand.zeroFor <= hist.unwatched /\ PauseConfirm \in Nat
        BY ConstantParts DEF DemandInv
      <4>2. QED
        BY <1>0, <3>2, <4>1, UpParts, ZenonT(60) DEF n, z
    <3>3. QED
      BY <3>1, <3>2
  <2>6. ASSUME NEW s \in Subscribers, Watches(s)' PROVE Watches(s)
    <3> DEFINE e == registry[s]
    <3>1. e \in Entries /\ e.age \in 0 .. AgeLimit
      BY <1>0 DEF Entries
    <3>2. registry'[s] = IF e = NoEntry THEN NoEntry
                         ELSE [e EXCEPT !.age = Up(e.age, AgeLimit)]
      BY <1>3 DEF ReportIntervalPasses
    <3>3. e # NoEntry
      BY <2>6, <3>2 DEF Watches, Fresh
    <3> HIDE DEF e
    <3>4. registry'[s].sub = e.sub /\ registry'[s].age = Up(e.age, AgeLimit)
      BY <3>1, <3>2, <3>3 DEF Entries
    <3>5. Up(e.age, AgeLimit) <= StaleAfter => e.age <= StaleAfter
      BY <3>1, ConstantParts, AgeLimitParts DEF Up
    <3>6. QED
      BY <2>6, <3>3, <3>4, <3>5 DEF Watches, Fresh, e
  <2>7. Watched' => Watched
    BY <2>6 DEF Watched
  <2>8. QED
    BY <2>2, <2>3, <2>4, <2>5, <2>7, SMTT(60), Z3T(60) DEF DemandInv
<1>4. QED
  BY <1>0, <1>1, <1>2, <1>3, SMTT(60), Z3T(60) DEF DemandStep

(* No step pauses a producer before nobody has watched it for the whole    *)
(* confirmation time, whatever its reports, its subscribers' ages and the  *)
(* plans in between were.                                                  *)
THEOREM PausedOnlyUnwatchedCorrect == Spec => PausedOnlyUnwatched
<1>1. Init => DemandInv
  BY DemandInit
<1>2. BaseInv /\ DemandInv /\ [Next]_vars =>
         /\ DemandInv'
         /\ [demand'.st = "paused" /\ demand.st # "paused" => hist.unwatched >= PauseConfirm]_vars
  BY DemandKept
<1>3. QED
  BY <1>1, <1>2, BaseAlways, PTL DEF Spec, PausedOnlyUnwatched

-----------------------------------------------------------------------------
(* The numbers of the reports *)

(* How many reports may be lost between two that are stored: a tick that   *)
(* is rate limited follows a stored report by an event of the interval, or *)
(* in a session that has just joined; a clock that was set back refuses at *)
(* most as many as it was set back by.                                     *)
LostOk(scenario, hint, pc, young, arrived, lost, events) ==
    /\ scenario # "remove" => hint # NoHint
    /\ scenario # "reconnect" => arrived /\ pc # "joining"
    /\ pc = "joining" => lost = 0
    /\ pc = "sampling" /\ (young \/ ~arrived) =>
           IF scenario = "reconnect" THEN lost = 0 ELSE scenario # "clock" /\ lost + 1 <= events
    /\ pc = "idle" /\ young /\ scenario \notin {"reconnect", "clock"} => lost <= events
    /\ lost <= MaxLost + MaxEvents + MaxSkew + 1 /\ events <= MaxEvents
LostInv ==
    LostOk(hist.scenario, page.hint, page.pc, limit.young, late = <<>>, hist.lost, hist.events)

(* The page's number is ahead of the stored one by the reports since, on   *)
(* the circle of the numbers.                                              *)
Ahead(p, q, k) == q = p + k \/ q + MaxSeq + 1 = p + k
Gap(pc, lost) == IF pc = "idle" THEN lost ELSE lost + 1
SeqOk(sawLate, pc, seq, e, lost) ==
    ~sawLate /\ pc # "joining" /\ e # NoEntry => Ahead(e.seq, seq, Gap(pc, lost))
SeqInv == SeqOk(hist.late, page.pc, page.seq, registry["page"], hist.lost)

(* The page's clock is behind the stored report's by no more than it was   *)
(* set back since; and every report that is lost costs an interval, which  *)
(* the stored report ages by, up to the largest step of the clock.         *)
ClockOk(scenario, sawLate, pc, e, skew, lost, back) ==
    /\ e # NoEntry => skew - e.skew <= back
    /\ scenario # "clock" => back = 0
    /\ scenario = "clock" /\ ~sawLate /\ e # NoEntry => Gap(pc, lost) <= e.age \/ e.age >= MaxSkew
ClockInv ==
    ClockOk(hist.scenario, hist.late, page.pc, registry["page"], page.skew, hist.lost, hist.back)

LEMMA AheadNext ==
    ASSUME NEW p \in 0 .. MaxSeq, NEW q \in 0 .. MaxSeq, NEW k \in Nat,
           k <= MaxLost + MaxEvents + MaxSkew + 1, Ahead(p, q, k)
    PROVE  Ahead(p, IF q >= MaxSeq THEN 0 ELSE q + 1, k + 1)
BY ConstantParts DEF Ahead

LEMMA AheadIsNew ==
    ASSUME NEW p \in 0 .. MaxSeq, NEW q \in 0 .. MaxSeq, NEW k \in Nat, k > 0,
           k <= MaxLost + MaxEvents + MaxSkew + 2, Ahead(p, q, k)
    PROVE  ~(q <= p /\ ~IsSeqWrapOrReset(p, q))
BY ConstantParts DEF Ahead, IsSeqWrapOrReset

LEMMA ClearedLimit ==
    ASSUME limit \in Limits, NEW n
    PROVE  /\ ClearPendingIfMatches(n).young => limit.young
           /\ [limit EXCEPT !.accepted = n].young = limit.young
           /\ [limit EXCEPT !.young = FALSE].young = FALSE
BY DEF ClearPendingIfMatches, NoLimit, Limits

(* What the updates of the history leave alone.                            *)
LEMMA HistEvents ==
    ASSUME hist \in Hists, NEW e
    PROVE  LET h == [hist EXCEPT !.events = e]
           IN /\ h.scenario = hist.scenario /\ h.lost = hist.lost /\ h.late = hist.late
              /\ h.refused = hist.refused /\ h.events = e /\ h.back = hist.back
BY DEF Hists

LEMMA HistLost ==
    ASSUME hist \in Hists, NEW l
    PROVE  LET h == [hist EXCEPT !.lost = l]
           IN /\ h.scenario = hist.scenario /\ h.lost = l /\ h.late = hist.late
              /\ h.refused = hist.refused /\ h.events = hist.events /\ h.back = hist.back
BY DEF Hists

LEMMA HistLate ==
    ASSUME hist \in Hists, NEW b
    PROVE  LET h == [hist EXCEPT !.late = b]
           IN /\ h.scenario = hist.scenario /\ h.lost = hist.lost /\ h.late = b
              /\ h.refused = hist.refused /\ h.events = hist.events /\ h.back = hist.back
BY DEF Hists

NumberInv == LostInv /\ SeqInv /\ ~hist.refused

(* A tick of an idle page, with what its event counts.                     *)
LEMMA TickNumbers ==
    ASSUME NEW p \in 0 .. MaxSeq, NEW q \in 0 .. MaxSeq, NEW lost \in Nat,
           lost <= MaxLost + MaxEvents + MaxSkew + 1, Ahead(p, q, Gap("idle", lost))
    PROVE  Ahead(p, IF q >= MaxSeq THEN 0 ELSE q + 1, Gap("sampling", lost))
BY AheadNext, SMTT(60), Z3T(60) DEF Gap

(* The parts of the state the numbers depend on.                           *)
LEMMA NumberParts ==
    ASSUME StateInv
    PROVE  /\ page \in Pages /\ page.seq \in 0 .. MaxSeq
           /\ page.pc \in {"idle", "sampling", "posted", "joining"}
           /\ hist \in Hists /\ hist.lost \in Nat /\ hist.events \in Nat /\ hist.late \in BOOLEAN
           /\ hist.scenario \in AllScenarios
           /\ limit \in Limits /\ limit.young \in BOOLEAN
           /\ registry["page"] \in Entries
           /\ registry["page"] # NoEntry => registry["page"].seq \in 0 .. MaxSeq
<1>1. /\ page \in Pages /\ limit \in Limits /\ hist \in Hists
      /\ registry["page"] \in Entries /\ Stored(registry["page"])
  BY StateParts DEF Subscribers
<1>2. page.seq \in 0 .. MaxSeq /\ page.pc \in {"idle", "sampling", "posted", "joining"}
  BY <1>1 DEF Pages
<1>3. /\ hist.lost \in Nat /\ hist.events \in Nat /\ hist.late \in BOOLEAN
      /\ hist.scenario \in AllScenarios
  BY <1>1 DEF Hists
<1>4. limit.young \in BOOLEAN
  BY <1>1 DEF Limits
<1>5. registry["page"] # NoEntry => registry["page"].seq \in 0 .. MaxSeq
  BY <1>1, ConstantParts DEF Stored, Entries
<1>6. QED
  BY <1>1, <1>2, <1>3, <1>4, <1>5, SMTT(60), Z3T(60)

(* The number an idle page ticks to is again ahead of the stored one.      *)
LEMMA TickIsAhead ==
    ASSUME StateInv, LostInv, SeqInv, ~hist.late, registry["page"] # NoEntry, page.pc = "idle"
    PROVE  Ahead(registry["page"].seq, IF page.seq >= MaxSeq THEN 0 ELSE page.seq + 1,
                 Gap("sampling", hist.lost))
<1> DEFINE p == registry["page"].seq
<1>1. p \in 0 .. MaxSeq /\ page.seq \in 0 .. MaxSeq /\ hist.lost \in Nat
  BY NumberParts
<1>2. hist.lost <= MaxLost + MaxEvents + MaxSkew + 1
  BY DEF LostInv, LostOk
<1>3. Ahead(p, page.seq, Gap("idle", hist.lost))
  BY DEF SeqInv, SeqOk
<1> HIDE DEF p
<1>4. Ahead(p, IF page.seq >= MaxSeq THEN 0 ELSE page.seq + 1, Gap("sampling", hist.lost))
  BY <1>1, <1>2, <1>3, TickNumbers, SMTT(60), Z3T(60)
<1>5. QED
  BY <1>4 DEF p

LEMMA NumberPageStep ==
    ASSUME StateInv, NumberInv, NEW hint \in {"visible", "hidden"}, NEW skew \in 0 .. MaxSkew,
           \/ SetVisible(hint) \/ RemoveConsumer \/ RegisterConsumer \/ TickFails
           \/ SetClock(skew)
    PROVE  NumberInv'
<1>p. page \in Pages /\ hist \in Hists
  BY NumberParts, ZenonT(60)
<1>0. /\ LostInv /\ SeqInv /\ ~hist.refused
      /\ late' = late /\ limit' = limit /\ registry' = registry
  BY DEF NumberInv, SetVisible, RemoveConsumer, RegisterConsumer, TickFails, SetClock
<1>1. CASE SetVisible(hint)
  <2>1. page'.hint = hint /\ page'.pc = page.pc /\ page'.seq = page.seq /\ hist' = hist
    <3>1. page' = [page EXCEPT !.hint = hint] /\ hist' = hist /\ hint \in Hints
      BY <1>1 DEF SetVisible, Hints
    <3>2. LET r == [page EXCEPT !.hint = hint]
          IN r.hint = hint /\ r.pc = page.pc /\ r.seq = page.seq
      BY <1>p, <3>1, ZenonT(60) DEF Pages
    <3>3. QED
      BY <3>1, <3>2, ZenonT(60)
  <2>2. hint # NoHint
    BY SMTT(60), Z3T(60) DEF NoHint
  <2>3. LostInv'
    BY <1>0, <2>1, <2>2, NumberParts DEF LostInv, LostOk
  <2>4. SeqInv'
    BY <1>0, <2>1, ZenonT(60) DEF SeqInv
  <2>5. QED
    BY <1>0, <2>1, <2>3, <2>4 DEF NumberInv
<1>2. CASE RemoveConsumer
  <2>1. /\ page'.hint = NoHint /\ page'.pc = page.pc /\ page'.seq = page.seq /\ hist' = hist
        /\ hist.scenario = "remove"
    BY <1>2, <1>p, PageParts, ZenonT(60) DEF RemoveConsumer, RemoveHints, Hints
  <2>2. LostInv'
    BY <1>0, <2>1, NumberParts DEF LostInv, LostOk
  <2>3. SeqInv'
    BY <1>0, <2>1, ZenonT(60) DEF SeqInv
  <2>4. QED
    BY <1>0, <2>1, <2>2, <2>3 DEF NumberInv
<1>3. CASE RegisterConsumer
  <2> DEFINE p == [page EXCEPT !.hint = "visible"]
  <2>1. /\ p \in Pages /\ p.hint = "visible" /\ p.pc = page.pc /\ p.seq = page.seq
    BY <1>p, PageParts, ZenonT(60) DEF Hints
  <2>2. page' = Tick(p) /\ page.hint = NoHint /\ hist.events < MaxEvents
    BY <1>3, ZenonT(60) DEF RegisterConsumer
  <2>3. /\ hist'.scenario = hist.scenario /\ hist'.lost = hist.lost /\ hist'.late = hist.late
        /\ hist'.refused = hist.refused /\ hist'.events = hist.events + 1
    BY <1>3, <1>p, HistEvents, ZenonT(60) DEF RegisterConsumer
  <2> HIDE DEF p
  <2>4. /\ page'.hint = "visible"
        /\ page.pc # "idle" => page'.pc = page.pc /\ page'.seq = page.seq
        /\ page.pc = "idle" => /\ page'.pc = "sampling"
                               /\ page'.seq = IF page.seq >= MaxSeq THEN 0 ELSE page.seq + 1
    BY <2>1, <2>2, TickPage, SMTT(60), Z3T(60)
  <2>5. LostInv'
    BY <1>0, <2>2, <2>3, <2>4, ConstantParts, NumberParts, SMTT(60), Z3T(60)
       DEF LostInv, LostOk, NoHint
  <2>6. SeqInv'
    <3>1. CASE page.pc = "idle"
      <4>1. ASSUME ~hist.late, registry["page"] # NoEntry
            PROVE  Ahead(registry["page"].seq, page'.seq, Gap(page'.pc, hist.lost))
        BY <1>0, <2>4, <3>1, <4>1, TickIsAhead
      <4>2. QED
        BY <1>0, <2>3, <4>1, SMTT(60), Z3T(60) DEF SeqInv, SeqOk
    <3>2. CASE page.pc # "idle"
      BY <1>0, <2>3, <2>4, <3>2 DEF SeqInv
    <3>3. QED
      BY <3>1, <3>2, SMTT(60), Z3T(60)
  <2>7. QED
    BY <1>0, <2>3, <2>5, <2>6, SMTT(60), Z3T(60) DEF NumberInv
<1>4. CASE TickFails
  <2>1. /\ page'.hint = page.hint /\ page'.pc = "idle" /\ page'.seq = page.seq
        /\ page.pc = "sampling" /\ hist.lost < MaxLost
    BY <1>4, <1>p, PageParts, ZenonT(60) DEF TickFails, Hints
  <2>2. /\ hist'.scenario = hist.scenario /\ hist'.lost = hist.lost + 1 /\ hist'.late = hist.late
        /\ hist'.refused = hist.refused /\ hist'.events = hist.events
    BY <1>4, <1>p, HistLost, ZenonT(60) DEF TickFails
  <2>3. LostInv'
    BY <1>0, <2>1, <2>2, ConstantParts, NumberParts, SMTT(60), Z3T(60) DEF LostInv, LostOk
  <2>4. SeqInv'
    BY <1>0, <2>1, <2>2, NumberParts, SMTT(60), Z3T(60) DEF SeqInv, SeqOk, Gap
  <2>5. QED
    BY <1>0, <2>2, <2>3, <2>4 DEF NumberInv
<1>5. CASE SetClock(skew)
  <2>1. /\ page'.hint = page.hint /\ page'.pc = page.pc /\ page'.seq = page.seq
        /\ page.pc = "idle" /\ hist.scenario = "clock" /\ hist.events < MaxEvents
    <3>1. /\ page' = [page EXCEPT !.skew = skew]
          /\ page.pc = "idle" /\ hist.scenario = "clock" /\ hist.events < MaxEvents
      BY <1>5, ZenonT(60) DEF SetClock
    <3>2. LET p == [page EXCEPT !.skew = skew]
          IN p.hint = page.hint /\ p.pc = page.pc /\ p.seq = page.seq
      BY <1>p, ZenonT(60) DEF Pages
    <3>3. QED
      BY <3>1, <3>2, ZenonT(60)
  <2>2. /\ hist'.scenario = hist.scenario /\ hist'.lost = hist.lost /\ hist'.late = hist.late
        /\ hist'.refused = hist.refused /\ hist'.events = hist.events + 1
    <3>1. \E b : hist' = [hist EXCEPT !.events = hist.events + 1, !.back = b]
      BY <1>5, ZenonT(60) DEF SetClock
    <3>2. QED
      BY <1>p, <3>1 DEF Hists
  <2>3. LostInv'
    BY <1>0, <2>1, <2>2, ConstantParts, NumberParts, SMTT(60), Z3T(60) DEF LostInv, LostOk
  <2>4. SeqInv'
    BY <1>0, <2>1, <2>2, ZenonT(60) DEF SeqInv
  <2>5. QED
    BY <1>0, <2>2, <2>3, <2>4 DEF NumberInv
<1>6. QED
  BY <1>1, <1>2, <1>3, <1>4, <1>5

LEMMA NumberSignalStep ==
    ASSUME StateInv, NumberInv,
           (\E fits \in Fits : Report(fits)) \/ Rejoin \/ ReceiveLate \/ LoseLate \/ Others
    PROVE  NumberInv'
<1>p. page \in Pages /\ hist \in Hists
  BY NumberParts, ZenonT(60)
<1>0. LostInv /\ SeqInv /\ ~hist.refused /\ registry' = registry
  BY DEF NumberInv, Report, Rejoin, ReceiveLate, LoseLate, Others
<1>1. CASE \E fits \in Fits : Report(fits)
  <2>0. PICK fits \in Fits : Report(fits)
    BY <1>1
  <2>1. CASE RateLimited(page.seq)
    <3>1. /\ page'.hint = page.hint /\ page'.pc = "idle" /\ page'.seq = page.seq
      <4>1. page' = [page EXCEPT !.pc = "idle"]
        BY <2>0, <2>1 DEF Report
      <4>2. QED
        BY <1>p, <4>1, ZenonT(60) DEF Pages
    <3>2. /\ page.pc = "sampling" /\ limit.young /\ limit' = limit /\ late' = late
      BY <2>0, <2>1 DEF Report, RateLimited
    <3>3. /\ hist'.scenario = hist.scenario /\ hist'.lost = hist.lost + 1 /\ hist'.late = hist.late
          /\ hist'.refused = hist.refused /\ hist'.events = hist.events
      <4>1. hist' = [hist EXCEPT !.lost = hist.lost + 1]
        BY <2>0, <2>1, SMTT(60), Z3T(60) DEF Report
      <4>2. QED
        BY <1>p, <4>1, HistLost, ZenonT(60)
    <3>4. LostInv'
      BY <1>0, <3>1, <3>2, <3>3, ConstantParts, NumberParts, SMTT(60), Z3T(60) DEF LostInv, LostOk
    <3>5. SeqInv'
      BY <1>0, <3>1, <3>2, <3>3, NumberParts, SMTT(60), Z3T(60) DEF SeqInv, SeqOk, Gap
    <3>6. QED
      BY <1>0, <3>3, <3>4, <3>5, SMTT(60), Z3T(60) DEF NumberInv
  <2>2. CASE ~RateLimited(page.seq)
    <3>1. /\ page'.hint = page.hint /\ page'.pc = "posted" /\ page'.seq = page.seq
      <4>1. page' = [page EXCEPT !.pc = "posted"]
        BY <2>0, <2>2 DEF Report
      <4>2. QED
        BY <1>p, <4>1, ZenonT(60) DEF Pages
    <3>2. /\ page.pc = "sampling" /\ late' = late /\ hist' = hist
      BY <2>0, <2>2, SMTT(60), Z3T(60) DEF Report
    <3>3. LostInv'
      BY <1>0, <3>1, <3>2, NumberParts, SMTT(60), Z3T(60) DEF LostInv, LostOk
    <3>4. SeqInv'
      BY <1>0, <3>1, <3>2, NumberParts, SMTT(60), Z3T(60) DEF SeqInv, SeqOk, Gap
    <3>5. QED
      BY <1>0, <3>2, <3>3, <3>4 DEF NumberInv
  <2>3. QED
    BY <2>1, <2>2
<1>2. CASE Rejoin
  <2>1. page'.hint # NoHint /\ page'.pc = "joining" /\ hist.scenario = "reconnect"
    BY <1>2, <1>p, NewPageParts, ZenonT(60) DEF Rejoin, NoHint, Pages
  <2>2. /\ hist'.scenario = hist.scenario /\ hist'.lost = 0 /\ hist'.late = hist.late
        /\ hist'.refused = hist.refused /\ hist'.events = hist.events + 1
    <3>1. hist' = [hist EXCEPT !.events = hist.events + 1, !.lost = 0]
      BY <1>2, ZenonT(60) DEF Rejoin
    <3>2. QED
      BY <1>p, <3>1 DEF Hists
  <2>3. hist.events < MaxEvents
    BY <1>2, SMTT(60), Z3T(60) DEF Rejoin
  <2>4. LostInv'
    BY <1>0, <2>1, <2>2, <2>3, ConstantParts, NumberParts, SMTT(60), Z3T(60) DEF LostInv, LostOk
  <2>5. SeqInv'
    BY <2>1 DEF SeqInv, SeqOk
  <2>6. QED
    BY <1>0, <2>2, <2>4, <2>5, SMTT(60), Z3T(60) DEF NumberInv
<1>3. CASE ReceiveLate \/ LoseLate
  <2>1. late # <<>> /\ late' = <<>> /\ page' = page /\ hist' = hist
    BY <1>3, SMTT(60), Z3T(60) DEF ReceiveLate, LoseLate
  <2>2. LostInv'
    BY <1>0, <2>1, NumberParts DEF LostInv, LostOk
  <2>3. SeqInv'
    BY <1>0, <2>1, ZenonT(60) DEF SeqInv
  <2>4. QED
    BY <1>0, <2>1, <2>2, <2>3, SMTT(60), Z3T(60) DEF NumberInv
<1>4. CASE Others
  <2>1. page' = page /\ late' = late /\ limit' = limit /\ hist.events < MaxEvents
    BY <1>4 DEF Others
  <2>2. /\ hist'.scenario = hist.scenario /\ hist'.lost = hist.lost /\ hist'.late = hist.late
        /\ hist'.refused = hist.refused /\ hist'.events = hist.events + 1
    BY <1>4, <1>p, HistEvents, ZenonT(60) DEF Others
  <2>3. LostInv'
    BY <1>0, <2>1, <2>2, ConstantParts, NumberParts, SMTT(60), Z3T(60) DEF LostInv, LostOk
  <2>4. SeqInv'
    BY <1>0, <2>1, <2>2, SMTT(60), Z3T(60) DEF SeqInv
  <2>5. QED
    BY <1>0, <2>2, <2>3, <2>4, SMTT(60), Z3T(60) DEF NumberInv
<1>5. QED
  BY <1>1, <1>2, <1>3, <1>4

(* A report of the page's session that is stored or refused: the number it *)
(* carries is the page's, and so ahead of the one before; and the clock,   *)
(* if it refuses the report, was set back by more than has passed since.   *)
LEMMA NumberReportStep ==
    ASSUME StateInv, WorkerInv, NumberInv, ClockInv, RunReport
    PROVE  NumberInv'
<1>v. PICK staleSeq \in BOOLEAN, staleTs \in BOOLEAN :
          Verdict(staleSeq, staleTs) /\ Ran(staleSeq, staleTs)
  BY RanReport
<1> DEFINE task == Head(worker.tasks)
           s == IF task.from = "other" THEN "other" ELSE "page"
           refused == staleSeq \/ staleTs
           lagging == registry[s].age + TsTolerance < hist.back
           entry == [seq |-> task.seq, sub |-> task.sub, age |-> 0, skew |-> page.skew]
           l == IF refused /\ ~hist.late THEN hist.lost + 1 ELSE 0
           k == IF refused THEN hist.back ELSE 0
           b == refused /\ ~hist.late /\ (staleSeq \/ ~lagging)
<1>p. page \in Pages /\ hist \in Hists /\ limit \in Limits /\ registry \in [Subscribers -> Entries]
  BY StateParts, ZenonT(60)
<1>0. LostInv /\ SeqInv /\ ~hist.refused
  BY DEF NumberInv
<1>1. task \in ReportTasks /\ task.kind = "report" /\ (OfPage(task) => Awaited(task, page))
  BY RanReport, DirtyStep, ZenonT(60) DEF WorkerInv, RunReport
<1>2. /\ task.from \in {"page", "late", "other"} /\ task.seq \in 0 .. MaxSeq
      /\ s \in Subscribers /\ "page" \in Subscribers
  BY <1>1, SMTT(60), Z3T(60) DEF ReportTasks, Subscribers
<1>3. /\ registry' = IF refused THEN registry ELSE [registry EXCEPT ![s] = entry]
      /\ limit' = IF s = "other" THEN limit
                  ELSE IF ~refused THEN [limit EXCEPT !.accepted = task.seq]
                  ELSE ClearPendingIfMatches(task.seq)
      /\ page' = IF task.from = "page" THEN [page EXCEPT !.pc = "idle"] ELSE page
      /\ task.from = "page" => hist' = HistRun(l, k, b)
      /\ task.from = "late" => hist' = [hist EXCEPT !.late = hist.late \/ ~refused]
      /\ task.from = "other" => hist' = hist
      /\ late' = late
  BY <1>v DEF Ran, HistRun
<1>h. s = IF task.from = "other" THEN "other" ELSE "page"
  OBVIOUS
<1>r. /\ staleSeq <=> s = "page" /\ StaleSeq(registry[s], task.seq)
      /\ task.from = "page" => (staleTs <=> StaleTs(registry[s], page.skew))
      /\ staleTs => task.from # "other"
      /\ refused <=> staleSeq \/ staleTs
      /\ lagging <=> registry[s].age + TsTolerance < hist.back
      /\ l = IF refused /\ ~hist.late THEN hist.lost + 1 ELSE 0
      /\ b <=> refused /\ ~hist.late /\ (staleSeq \/ ~lagging)
  BY <1>v DEF Verdict
<1>k. l \in Nat /\ k \in 0 .. MaxSkew /\ b \in BOOLEAN
  <2>1. hist.lost \in Nat /\ hist.back \in 0 .. MaxSkew /\ hist.late \in BOOLEAN
    BY <1>p DEF Hists
  <2>2. QED
    BY <2>1, ConstantParts
<1>e. entry.seq = task.seq
  OBVIOUS
<1>l. late' = late
  BY <1>3
<1> HIDE DEF task, s, refused, entry, lagging, l, k, b
<1>4. limit'.young => limit.young
  BY <1>p, <1>3, ClearedLimit
<1>5. CASE task.from = "page"
  <2>1. s = "page" /\ page.pc = "posted" /\ task.seq = page.seq
    BY <1>1, <1>5, <1>h, SMTT(60), Z3T(60) DEF OfPage, Awaited
  <2>2. page'.hint = page.hint /\ page'.pc = "idle" /\ page'.seq = page.seq
    BY <1>3, <1>5, <1>p, PageParts, ZenonT(60) DEF Hints
  <2>3. /\ hist'.scenario = hist.scenario /\ hist'.lost = l /\ hist'.late = hist.late
        /\ hist'.refused = b /\ hist'.events = hist.events
    <3>1. hist' = HistRun(l, k, b)
      BY <1>3, <1>5, ZenonT(60)
    <3>2. QED
      <4>1. /\ HistRun(l, k, b).scenario = hist.scenario
            /\ HistRun(l, k, b).lost = l /\ HistRun(l, k, b).late = hist.late
            /\ HistRun(l, k, b).refused = b /\ HistRun(l, k, b).events = hist.events
        BY <1>p, <1>k, HistReport
      <4>2. QED
        BY <3>1, <4>1
  <2>4. ~hist.late => ~staleSeq
    <3> SUFFICES ASSUME ~hist.late, registry["page"] # NoEntry
                 PROVE  ~(task.seq <= registry["page"].seq
                          /\ ~IsSeqWrapOrReset(registry["page"].seq, task.seq))
      BY <2>1, <1>r, SMTT(60), Z3T(60) DEF StaleSeq
    <3>1. Ahead(registry["page"].seq, page.seq, hist.lost + 1)
      BY <1>0, <2>1, SMTT(60), Z3T(60) DEF SeqInv, SeqOk, Gap
    <3>2. /\ hist.lost + 1 \in Nat /\ hist.lost + 1 > 0
          /\ hist.lost + 1 <= MaxLost + MaxEvents + MaxSkew + 2
      BY <1>0, ConstantParts, NumberParts, SMTT(60), Z3T(60) DEF LostInv, LostOk
    <3>3. QED
      BY <2>1, <3>1, <3>2, AheadIsNew, NumberParts, SMTT(60), Z3T(60)
  <2>5. staleTs => /\ registry["page"] # NoEntry /\ hist.scenario = "clock" /\ lagging
                   /\ registry["page"].age < MaxSkew
                   /\ ~hist.late => hist.lost + 1 <= MaxSkew
    <3> SUFFICES ASSUME staleTs
                 PROVE  /\ registry["page"] # NoEntry /\ hist.scenario = "clock" /\ lagging
                        /\ registry["page"].age < MaxSkew
                        /\ ~hist.late => hist.lost + 1 <= MaxSkew
      OBVIOUS
    <3> DEFINE e == registry["page"]
    <3>1. /\ e # NoEntry /\ page.skew - e.skew > e.age + TsTolerance
          /\ lagging <=> e.age + TsTolerance < hist.back
      BY <1>5, <1>r, <2>1, SMTT(60), Z3T(60) DEF StaleTs
    <3>2. /\ page.skew \in 0 .. MaxSkew /\ e.skew \in 0 .. MaxSkew /\ e.age \in 0 .. AgeLimit
          /\ hist.back \in 0 .. MaxSkew /\ hist.lost \in Nat
      BY <1>p, <1>2, AgeLimitParts DEF Pages, Entries, Hists
    <3>3. /\ page.skew - e.skew <= hist.back
          /\ hist.scenario # "clock" => hist.back = 0
          /\ hist.scenario = "clock" /\ ~hist.late => hist.lost + 1 <= e.age \/ e.age >= MaxSkew
      BY <2>1, <3>1, SMTT(60), Z3T(60) DEF ClockInv, ClockOk, Gap
    <3> HIDE DEF e
    <3>4. lagging /\ hist.scenario = "clock" /\ e.age < MaxSkew
      BY <3>1, <3>2, <3>3, ConstantParts, AgeLimitParts, SMTT(60), Z3T(60)
    <3>5. ~hist.late => hist.lost + 1 <= MaxSkew
      BY <3>2, <3>3, <3>4, ConstantParts, AgeLimitParts, SMTT(60), Z3T(60)
    <3>6. QED
      BY <3>1, <3>4, <3>5 DEF e
  <2>6. ~b
    BY <1>r, <2>4, <2>5, SMTT(60), Z3T(60)
  <2>7. \/ l = 0
        \/ ~hist.late /\ staleTs /\ l = hist.lost + 1 /\ l <= MaxSkew /\ hist.scenario = "clock"
    BY <1>r, <2>4, <2>5, SMTT(60), Z3T(60)
  <2>8. LostInv'
    BY <1>0, <1>l, <1>4, <2>1, <2>2, <2>3, <2>7, ConstantParts, NumberParts, SMTT(60), Z3T(60)
       DEF LostInv, LostOk
  <2>9. SeqInv'
    <3>1. CASE hist.late
      BY <2>3, <3>1, SMTT(60), Z3T(60) DEF SeqInv, SeqOk
    <3>2. CASE ~hist.late /\ refused
      <4>1. registry' = registry /\ l = hist.lost + 1
        BY <1>3, <1>r, <3>2, SMTT(60), Z3T(60)
      <4>2. QED
        BY <1>0, <2>1, <2>2, <2>3, <4>1, NumberParts, SMTT(60), Z3T(60) DEF SeqInv, SeqOk, Gap
    <3>3. CASE ~refused
      <4>1. registry'["page"].seq = page.seq /\ l = 0
        BY <1>p, <1>2, <1>3, <1>e, <1>r, <2>1, <3>3, SMTT(60), Z3T(60)
      <4>2. QED
        BY <2>2, <2>3, <4>1, NumberParts, SMTT(60), Z3T(60) DEF SeqInv, SeqOk, Gap, Ahead
    <3>4. QED
      BY <3>1, <3>2, <3>3, SMTT(60), Z3T(60)
  <2>10. QED
    BY <2>3, <2>6, <2>8, <2>9, ZenonT(60) DEF NumberInv
<1>6. CASE task.from = "late"
  <2>1. /\ hist'.scenario = hist.scenario /\ hist'.lost = hist.lost
        /\ hist'.late = (hist.late \/ ~refused)
        /\ hist'.refused = hist.refused /\ hist'.events = hist.events /\ page' = page
    <3>1. hist' = [hist EXCEPT !.late = hist.late \/ ~refused] /\ page' = page
      BY <1>3, <1>6, SMTT(60), Z3T(60)
    <3>2. QED
      BY <1>p, <3>1, HistLate, ZenonT(60)
  <2>a. ~hist'.late => ~hist.late
    BY <2>1, ZenonT(60)
  <2>2. LostInv'
    BY <1>0, <1>l, <1>4, <2>1, NumberParts, SMTT(60), Z3T(60) DEF LostInv, LostOk
  <2>3. SeqInv'
    <3>1. CASE refused
      <4>1. registry' = registry
        BY <1>3, <3>1, SMTT(60), Z3T(60)
      <4>2. QED
        BY <1>0, <2>1, <2>a, <4>1, ZenonT(60) DEF SeqInv, SeqOk
    <3>2. CASE ~refused
      BY <2>1, <3>2, ZenonT(60) DEF SeqInv, SeqOk
    <3>3. QED
      BY <3>1, <3>2, SMTT(60), Z3T(60)
  <2>4. QED
    BY <1>0, <2>1, <2>2, <2>3, SMTT(60), Z3T(60) DEF NumberInv
<1>7. CASE task.from = "other"
  <2>1. page' = page /\ hist' = hist /\ limit' = limit /\ registry'["page"] = registry["page"]
    BY <1>p, <1>2, <1>3, <1>h, <1>7, SMTT(60), Z3T(60)
  <2>2. QED
    BY <1>0, <1>l, <2>1, ZenonT(60) DEF NumberInv, LostInv, SeqInv
<1>8. QED
  BY <1>2, <1>5, <1>6, <1>7, SMTT(60), Z3T(60)

LEMMA NumberTaskStep ==
    ASSUME StateInv, WorkerInv, NumberInv, RunJoin \/ RunLeave \/ PlanStep
    PROVE  NumberInv'
<1>p. /\ page \in Pages /\ hist \in Hists /\ limit \in Limits
      /\ registry \in [Subscribers -> Entries] /\ "page" \in Subscribers
  BY StateParts DEF Subscribers
<1>0. LostInv /\ SeqInv /\ ~hist.refused
  BY DEF NumberInv
<1>1. CASE RunJoin
  <2> DEFINE p == [page EXCEPT !.pc = "idle"]
  <2>1. page.pc = "joining"
    <3>1. OfPage(Head(worker.tasks)) => Awaited(Head(worker.tasks), page)
      BY <1>1, DirtyStep, ZenonT(60) DEF RunJoin
    <3>2. QED
      BY <1>1, <3>1 DEF RunJoin, Runs, OfPage, Awaited
  <2>2. p \in Pages /\ p.pc = "idle" /\ p.hint = page.hint /\ page' = Tick(p)
    BY <1>1, <1>p, PageParts, ZenonT(60) DEF RunJoin, Hints
  <2> HIDE DEF p
  <2>3. page'.pc = "sampling" /\ page'.hint = page.hint
    BY <2>2, TickPage, ZenonT(60)
  <2>4. /\ hist'.scenario = hist.scenario /\ hist'.lost = hist.lost
        /\ hist'.refused = hist.refused /\ hist'.events = hist.events
    BY <1>1, <1>p, HistLate, ZenonT(60) DEF RunJoin
  <2>5. late' = late /\ limit' = limit /\ registry'["page"] = NoEntry
    BY <1>1, <1>p, SMTT(60), Z3T(60) DEF RunJoin
  <2>6. LostInv'
    BY <1>0, <2>1, <2>3, <2>4, <2>5, NumberParts, SMTT(60), Z3T(60) DEF LostInv, LostOk
  <2>7. SeqInv'
    BY <2>5 DEF SeqInv, SeqOk
  <2>8. QED
    BY <1>0, <2>4, <2>6, <2>7, SMTT(60), Z3T(60) DEF NumberInv
<1>2. CASE RunLeave
  <2>1. /\ page' = page /\ late' = late /\ limit' = limit /\ hist' = hist
        /\ registry'["page"] = registry["page"]
    BY <1>2, <1>p DEF RunLeave
  <2>2. QED
    BY <1>0, <2>1, ZenonT(60) DEF NumberInv, LostInv, SeqInv
<1>3. CASE PlanStep
  <2>1. page' = page /\ late' = late /\ registry' = registry /\ hist' = hist
    BY <1>3 DEF PlanStep
  <2>2. limit'.young => limit.young
    BY <1>3, <1>p, ClearedLimit, ZenonT(60) DEF PlanStep
  <2>3. LostInv'
    BY <1>0, <2>1, <2>2, NumberParts, SMTT(60), Z3T(60) DEF LostInv, LostOk
  <2>4. QED
    BY <1>0, <2>1, <2>3, ZenonT(60) DEF NumberInv, SeqInv
<1>4. QED
  BY <1>1, <1>2, <1>3, SMTT(60), Z3T(60)

LEMMA NumberIntervalStep ==
    ASSUME StateInv, NumberInv, PlanningIntervalPasses \/ ReportIntervalPasses
    PROVE  NumberInv'
<1>p. /\ page \in Pages /\ hist \in Hists /\ limit \in Limits
      /\ registry \in [Subscribers -> Entries] /\ "page" \in Subscribers
  BY StateParts DEF Subscribers
<1>0. LostInv /\ SeqInv /\ ~hist.refused
  BY DEF NumberInv
<1>1. CASE PlanningIntervalPasses
  <2>1. /\ page' = page /\ late' = late /\ registry' = registry /\ hist' = hist
        /\ limit' = [limit EXCEPT !.young = FALSE]
    BY <1>1 DEF PlanningIntervalPasses
  <2>2. ~limit'.young
    BY <1>p, <2>1, ClearedLimit, SMTT(60), Z3T(60)
  <2>3. LostInv'
    BY <1>0, <2>1, <2>2, NumberParts, SMTT(60), Z3T(60) DEF LostInv, LostOk
  <2>4. QED
    BY <1>0, <2>1, <2>3, ZenonT(60) DEF NumberInv, SeqInv
<1>2. CASE ReportIntervalPasses
  <2>1. /\ page.pc \in {"idle", "sampling"} /\ late = <<>> /\ late' = late /\ limit' = limit
        /\ ~limit.young /\ page' = Tick(page)
    BY <1>2 DEF ReportIntervalPasses
  <2>2. /\ hist'.scenario = hist.scenario /\ hist'.lost = hist.lost /\ hist'.late = hist.late
        /\ hist'.refused = hist.refused /\ hist'.events = 0
    <3>1. PICK u : hist' = [hist EXCEPT !.events = 0, !.unwatched = u]
      BY <1>2, ZenonT(60) DEF ReportIntervalPasses
    <3>2. QED
      BY <1>p, <3>1 DEF Hists
  <2>3. /\ page'.hint = page.hint
        /\ page.pc # "idle" => page'.pc = page.pc /\ page'.seq = page.seq
        /\ page.pc = "idle" => /\ page'.pc = "sampling"
                               /\ page'.seq = IF page.seq >= MaxSeq THEN 0 ELSE page.seq + 1
    BY <1>p, <2>1, TickPage, SMTT(60), Z3T(60)
  <2>4. \/ registry["page"] = NoEntry /\ registry'["page"] = NoEntry
        \/ registry["page"] # NoEntry /\ registry'["page"].seq = registry["page"].seq
    <3> DEFINE e == registry["page"]
    <3>1. registry'["page"] = IF e = NoEntry THEN NoEntry
                              ELSE [e EXCEPT !.age = Up(e.age, AgeLimit)]
      BY <1>2, <1>p DEF ReportIntervalPasses
    <3>2. e \in Entries
      BY <1>p, SMTT(60), Z3T(60)
    <3> HIDE DEF e
    <3>3. QED
      BY <3>1, <3>2 DEF Entries, e
  <2>5. LostInv'
    BY <1>0, <2>1, <2>2, <2>3, ConstantParts, NumberParts, SMTT(60), Z3T(60) DEF LostInv, LostOk
  <2>6. SeqInv'
    <3>1. CASE page.pc = "idle"
      <4>1. ASSUME ~hist.late, registry["page"] # NoEntry
            PROVE  Ahead(registry["page"].seq, page'.seq, Gap(page'.pc, hist.lost))
        BY <1>0, <2>3, <3>1, <4>1, TickIsAhead
      <4>2. QED
        BY <2>2, <2>4, <4>1, SMTT(60), Z3T(60) DEF SeqInv, SeqOk
    <3>2. CASE page.pc # "idle"
      BY <1>0, <2>1, <2>2, <2>3, <2>4, <3>2, SMTT(60), Z3T(60) DEF SeqInv, SeqOk
    <3>3. QED
      BY <3>1, <3>2, SMTT(60), Z3T(60)
  <2>7. QED
    BY <1>0, <2>2, <2>5, <2>6, SMTT(60), Z3T(60) DEF NumberInv
<1>3. QED
  BY <1>1, <1>2

LEMMA NumberInit == Init => NumberInv
<1> SUFFICES ASSUME Init PROVE NumberInv
  OBVIOUS
<1>1. page.pc = "sampling" /\ page.hint = "visible"
  BY NewPageParts, TickPage, ZenonT(60) DEF Init
<1>2. /\ late = <<>> /\ limit.young = FALSE /\ registry["page"] = NoEntry
  BY DEF Init, NoLimit, Subscribers
<1>3. /\ hist.lost = 0 /\ hist.events = 0 /\ hist.refused = FALSE
  BY ZenonT(60) DEF Init
<1>4. LostInv
  BY <1>1, <1>2, <1>3, ConstantParts, SMTT(60), Z3T(60) DEF LostInv, LostOk, NoHint
<1>5. SeqInv
  BY <1>2 DEF SeqInv, SeqOk
<1>6. QED
  BY <1>3, <1>4, <1>5 DEF NumberInv

LEMMA NumberStep == BaseInv /\ NumberInv /\ ClockInv /\ [Next]_vars => NumberInv'
<1> SUFFICES ASSUME StateInv, WorkerInv, NumberInv, ClockInv, [Next]_vars PROVE NumberInv'
  BY DEF BaseInv
<1>0. "visible" \in {"visible", "hidden"} /\ 0 \in 0 .. MaxSkew
  BY ConstantParts
<1>1. CASE \E hint \in {"visible", "hidden"} : SetVisible(hint)
  BY <1>0, <1>1, NumberPageStep, ZenonT(60)
<1>2. CASE \/ RemoveConsumer \/ RegisterConsumer \/ TickFails
           \/ \E skew \in 0 .. MaxSkew : SetClock(skew)
  BY <1>0, <1>2, NumberPageStep, ZenonT(60)
<1>3. CASE (\E fits \in Fits : Report(fits)) \/ Rejoin \/ ReceiveLate \/ LoseLate \/ Others
  BY <1>3, NumberSignalStep, ZenonT(60)
<1>4. CASE RunReport
  BY <1>4, NumberReportStep, ZenonT(60)
<1>5. CASE RunJoin \/ RunLeave \/ RunPlan \/ RunDelayed
  BY <1>5, RunPlanStep, RunDelayedStep, NumberTaskStep, ZenonT(60)
<1>6. CASE PlanningIntervalPasses \/ ReportIntervalPasses
  BY <1>6, NumberIntervalStep, ZenonT(60)
<1>7. CASE UNCHANGED vars
  <2>1. /\ page' = page /\ late' = late /\ limit' = limit
        /\ registry' = registry /\ hist' = hist
    BY <1>7 DEF vars
  <2>2. QED
    BY <2>1, ZenonT(60) DEF NumberInv, LostInv, SeqInv
<1>8. QED
  BY <1>1, <1>2, <1>3, <1>4, <1>5, <1>6, <1>7, ZenonT(60) DEF Next

-----------------------------------------------------------------------------
(* The clock of the page *)

LEMMA ClockTypes ==
    ASSUME StateInv
    PROVE  /\ page \in Pages /\ hist \in Hists /\ registry \in [Subscribers -> Entries]
           /\ "page" \in Subscribers /\ registry["page"] \in Entries
           /\ page.skew \in 0 .. MaxSkew /\ hist.back \in 0 .. MaxSkew /\ hist.lost \in Nat
           /\ registry["page"].age \in 0 .. AgeLimit /\ registry["page"].skew \in 0 .. MaxSkew
           /\ hist.late \in BOOLEAN /\ MaxSkew \in Nat /\ AgeLimit \in Nat /\ AgeLimit >= MaxSkew
<1>1. /\ page \in Pages /\ hist \in Hists /\ registry \in [Subscribers -> Entries]
      /\ "page" \in Subscribers /\ registry["page"] \in Entries
  BY StateParts DEF Subscribers
<1>2. page.skew \in 0 .. MaxSkew
  BY <1>1 DEF Pages
<1>3. hist.back \in 0 .. MaxSkew /\ hist.lost \in Nat /\ hist.late \in BOOLEAN
  BY <1>1 DEF Hists
<1>4. registry["page"].age \in 0 .. AgeLimit /\ registry["page"].skew \in 0 .. MaxSkew
  BY <1>1 DEF Entries
<1>5. QED
  BY <1>1, <1>2, <1>3, <1>4, ConstantParts, AgeLimitParts

(* A step that leaves the clock and the stored report alone, and counts as *)
(* lost what was under way.                                                *)
SameClock ==
    /\ page'.skew = page.skew /\ registry'["page"] = registry["page"]
    /\ hist'.scenario = hist.scenario /\ hist'.late = hist.late /\ hist'.back = hist.back
LEMMA SameClockStep ==
    ASSUME ClockInv, SameClock,
           Gap(page'.pc, hist'.lost) = Gap(page.pc, hist.lost) \/ hist.scenario # "clock"
    PROVE  ClockInv'
BY SMTT(60), Z3T(60) DEF ClockInv, ClockOk, SameClock

LEMMA ClockPageStep ==
    ASSUME StateInv, LostInv, ClockInv, NEW hint \in {"visible", "hidden"},
           NEW skew \in 0 .. MaxSkew,
           \/ SetVisible(hint) \/ RemoveConsumer \/ RegisterConsumer \/ TickFails
           \/ SetClock(skew)
    PROVE  ClockInv'
<1>p. page \in Pages /\ hist \in Hists
  BY ClockTypes, ZenonT(60)
<1>0. registry' = registry
  BY DEF SetVisible, RemoveConsumer, RegisterConsumer, TickFails, SetClock
<1>1. CASE SetVisible(hint) \/ RemoveConsumer
  <2>1. page'.pc = page.pc /\ page'.skew = page.skew /\ hist' = hist
    <3>1. hint \in Hints /\ NoHint \in Hints
      BY DEF Hints
    <3>2. CASE SetVisible(hint)
      BY <1>p, <3>1, <3>2, PageParts, ZenonT(60) DEF SetVisible
    <3>3. CASE RemoveConsumer
      BY <1>p, <3>3 DEF RemoveConsumer, RemoveHints, Pages
    <3>4. QED
      BY <1>1, <3>2, <3>3
  <2>2. QED
    BY <1>0, <2>1, SameClockStep, ZenonT(60) DEF SameClock
<1>2. CASE RegisterConsumer
  <2> DEFINE p == [page EXCEPT !.hint = "visible"]
  <2>1. p \in Pages /\ p.skew = page.skew
    BY <1>p, PageParts, ZenonT(60) DEF Hints
  <2>2. page' = Tick(p) /\ page.hint = NoHint
    BY <1>2, ZenonT(60) DEF RegisterConsumer
  <2> HIDE DEF p
  <2>3. page'.skew = page.skew
    BY <2>1, <2>2, TickPage, ZenonT(60)
  <2>4. /\ hist'.scenario = hist.scenario /\ hist'.late = hist.late /\ hist'.back = hist.back
    BY <1>2, <1>p, HistEvents, ZenonT(60) DEF RegisterConsumer
  <2>5. hist.scenario # "clock"
    BY <2>2, NumberParts, SMTT(60), Z3T(60) DEF LostInv, LostOk
  <2>6. QED
    BY <1>0, <2>3, <2>4, <2>5, SameClockStep, ZenonT(60) DEF SameClock
<1>3. CASE TickFails
  <2>1. page.pc = "sampling" /\ page'.pc = "idle" /\ page'.skew = page.skew
    BY <1>3, <1>p, PageParts, ZenonT(60) DEF TickFails, Hints
  <2>2. /\ hist'.scenario = hist.scenario /\ hist'.late = hist.late /\ hist'.back = hist.back
        /\ hist'.lost = hist.lost + 1
    BY <1>3, <1>p, HistLost, ZenonT(60) DEF TickFails
  <2>3. Gap(page'.pc, hist'.lost) = Gap(page.pc, hist.lost)
    BY <2>1, <2>2, SMTT(60), Z3T(60) DEF Gap
  <2>4. QED
    BY <1>0, <2>1, <2>2, <2>3, SameClockStep, ZenonT(60) DEF SameClock
<1>4. CASE SetClock(skew)
  <2> DEFINE by == skew - page.skew
             k == SetBack(hist.back, by)
  <2>1. page'.pc = page.pc /\ page'.skew = skew /\ hist.scenario = "clock"
    <3>1. page' = [page EXCEPT !.skew = skew] /\ hist.scenario = "clock"
      BY <1>4, ZenonT(60) DEF SetClock
    <3>2. LET p == [page EXCEPT !.skew = skew] IN p.pc = page.pc /\ p.skew = skew
      BY <1>p, ZenonT(60) DEF Pages
    <3>3. QED
      BY <3>1, <3>2, ZenonT(60)
  <2>2. hist' = [hist EXCEPT !.events = hist.events + 1, !.back = k]
    BY <1>4, ZenonT(60) DEF SetClock
  <2>3. by \in -MaxSkew .. MaxSkew /\ page.skew + by = skew
    BY ClockTypes
  <2> HIDE DEF by
  <2>4. \A d \in Int : d <= hist.back /\ d + by <= MaxSkew => d + by <= k
    BY <2>3, ClockTypes, BackParts, ZenonT(60)
  <2> HIDE DEF k
  <2>5. /\ hist'.scenario = hist.scenario /\ hist'.late = hist.late /\ hist'.back = k
        /\ hist'.lost = hist.lost
    BY <1>p, <2>2 DEF Hists
  <2>6. ASSUME registry["page"] # NoEntry PROVE skew - registry["page"].skew <= k
    <3> DEFINE e == registry["page"].skew
    <3>1. page.skew - e <= hist.back
      BY <2>6 DEF ClockInv, ClockOk
    <3>2. /\ page.skew - e \in Int /\ (page.skew - e) + by = skew - e /\ skew - e <= MaxSkew
      BY <2>3, ClockTypes, SMTT(60), Z3T(60)
    <3> HIDE DEF e
    <3>3. skew - e <= k
      BY <2>4, <3>1, <3>2, ZenonT(60)
    <3>4. QED
      BY <3>3 DEF e
  <2>7. QED
    BY <1>0, <2>1, <2>5, <2>6, SMTT(60), Z3T(60) DEF ClockInv, ClockOk
<1>5. QED
  BY <1>1, <1>2, <1>3, <1>4

LEMMA ClockSignalStep ==
    ASSUME StateInv, ClockInv,
           (\E fits \in Fits : Report(fits)) \/ Rejoin \/ ReceiveLate \/ LoseLate \/ Others
    PROVE  ClockInv'
<1>p. page \in Pages /\ hist \in Hists /\ page.skew \in 0 .. MaxSkew
  BY ClockTypes, ZenonT(60)
<1>0. registry' = registry
  BY DEF Report, Rejoin, ReceiveLate, LoseLate, Others
<1>1. CASE \E fits \in Fits : Report(fits)
  <2>0. PICK fits \in Fits : Report(fits)
    BY <1>1
  <2>1. page.pc = "sampling"
    BY <2>0 DEF Report
  <2>2. CASE RateLimited(page.seq)
    <3>1. page' = [page EXCEPT !.pc = "idle"] /\ hist' = [hist EXCEPT !.lost = hist.lost + 1]
      BY <2>0, <2>2, SMTT(60), Z3T(60) DEF Report
    <3>2. page'.pc = "idle" /\ page'.skew = page.skew
      BY <1>p, <3>1, PageParts, ZenonT(60) DEF Hints
    <3>3. /\ hist'.scenario = hist.scenario /\ hist'.late = hist.late /\ hist'.back = hist.back
          /\ hist'.lost = hist.lost + 1
      BY <1>p, <3>1, HistLost, ZenonT(60)
    <3>4. Gap(page'.pc, hist'.lost) = Gap(page.pc, hist.lost)
      BY <2>1, <3>2, <3>3 DEF Gap
    <3>5. QED
      BY <1>0, <3>2, <3>3, <3>4, SameClockStep, ZenonT(60) DEF SameClock
  <2>3. CASE ~RateLimited(page.seq)
    <3>1. page' = [page EXCEPT !.pc = "posted"] /\ hist' = hist
      BY <2>0, <2>3, SMTT(60), Z3T(60) DEF Report
    <3>2. page'.pc = "posted" /\ page'.skew = page.skew
      BY <1>p, <3>1, PageParts, ZenonT(60) DEF Hints
    <3>3. Gap(page'.pc, hist'.lost) = Gap(page.pc, hist.lost)
      BY <2>1, <3>1, <3>2 DEF Gap
    <3>4. QED
      BY <1>0, <3>1, <3>2, <3>3, SameClockStep, ZenonT(60) DEF SameClock
  <2>4. QED
    BY <2>2, <2>3
<1>2. CASE Rejoin
  <2>1. page'.skew = page.skew /\ hist.scenario = "reconnect"
    BY <1>2, <1>p, NewPageParts, ZenonT(60) DEF Rejoin
  <2>2. hist' = [hist EXCEPT !.events = hist.events + 1, !.lost = 0]
    BY <1>2, ZenonT(60) DEF Rejoin
  <2>3. hist'.scenario = hist.scenario /\ hist'.late = hist.late /\ hist'.back = hist.back
    BY <1>p, <2>2 DEF Hists
  <2>4. hist.scenario # "clock"
    BY <2>1
  <2>5. QED
    BY <1>0, <2>1, <2>3, <2>4, SameClockStep, ZenonT(60) DEF SameClock
<1>3. CASE ReceiveLate \/ LoseLate
  <2>1. page' = page /\ hist' = hist
    BY <1>3, SMTT(60), Z3T(60) DEF ReceiveLate, LoseLate
  <2>2. QED
    BY <1>0, <2>1, SameClockStep, ZenonT(60) DEF SameClock
<1>4. CASE Others
  <2>1. /\ page' = page /\ hist'.scenario = hist.scenario /\ hist'.late = hist.late
        /\ hist'.back = hist.back /\ hist'.lost = hist.lost
    BY <1>4, <1>p, HistEvents, ZenonT(60) DEF Others
  <2>2. QED
    BY <1>0, <2>1, SameClockStep, ZenonT(60) DEF SameClock
<1>5. QED
  BY <1>1, <1>2, <1>3, <1>4

(* A report that is stored brings the page's present clock; one that is    *)
(* refused leaves what is known of the clock as it was.                    *)
LEMMA ClockReportStep ==
    ASSUME StateInv, WorkerInv, ClockInv, RunReport
    PROVE  ClockInv'
<1>v. PICK staleSeq \in BOOLEAN, staleTs \in BOOLEAN : Ran(staleSeq, staleTs)
  BY RanReport
<1> DEFINE task == Head(worker.tasks)
           s == IF task.from = "other" THEN "other" ELSE "page"
           refused == staleSeq \/ staleTs
           entry == [seq |-> task.seq, sub |-> task.sub, age |-> 0, skew |-> page.skew]
           l == IF refused /\ ~hist.late THEN hist.lost + 1 ELSE 0
           k == IF refused THEN hist.back ELSE 0
           b == refused /\ ~hist.late
                /\ (staleSeq \/ ~(registry[s].age + TsTolerance < hist.back))
<1>p. page \in Pages /\ hist \in Hists /\ registry \in [Subscribers -> Entries]
  BY ClockTypes, ZenonT(60)
<1>1. task \in ReportTasks /\ task.kind = "report" /\ (OfPage(task) => Awaited(task, page))
  BY RanReport, DirtyStep, ZenonT(60) DEF WorkerInv, RunReport
<1>2. /\ task.from \in {"page", "late", "other"}
      /\ s \in Subscribers /\ "page" \in Subscribers
  BY <1>1, SMTT(60), Z3T(60) DEF ReportTasks, Subscribers
<1>3. /\ registry' = IF refused THEN registry ELSE [registry EXCEPT ![s] = entry]
      /\ page' = IF task.from = "page" THEN [page EXCEPT !.pc = "idle"] ELSE page
      /\ task.from = "page" => hist' = HistRun(l, k, b)
      /\ task.from = "late" => hist' = [hist EXCEPT !.late = hist.late \/ ~refused]
      /\ task.from = "other" => hist' = hist
  BY <1>v DEF Ran, HistRun
<1>4. /\ s = IF task.from = "other" THEN "other" ELSE "page"
      /\ entry.age = 0 /\ entry.skew = page.skew /\ refused \in BOOLEAN
      /\ l = IF refused /\ ~hist.late THEN hist.lost + 1 ELSE 0
      /\ k = IF refused THEN hist.back ELSE 0
      /\ l \in Nat /\ k \in 0 .. MaxSkew /\ b \in BOOLEAN
  BY ClockTypes
<1> HIDE DEF task, s, refused, entry, l, k, b
<1>5. CASE task.from = "page"
  <2>1. s = "page" /\ page.pc = "posted"
    BY <1>1, <1>4, <1>5, SMTT(60), Z3T(60) DEF OfPage, Awaited
  <2>2. page'.pc = "idle" /\ page'.skew = page.skew
    BY <1>3, <1>5, <1>p, PageParts, ZenonT(60) DEF Hints
  <2>3. /\ hist'.scenario = hist.scenario /\ hist'.lost = l /\ hist'.late = hist.late
        /\ hist'.back = k
    <3>1. hist' = HistRun(l, k, b)
      BY <1>3, <1>5, ZenonT(60)
    <3>2. QED
      <4>1. /\ HistRun(l, k, b).scenario = hist.scenario
            /\ HistRun(l, k, b).lost = l /\ HistRun(l, k, b).late = hist.late
            /\ HistRun(l, k, b).back = k
        BY <1>4, <1>p, HistReport
      <4>2. QED
        BY <3>1, <4>1
  <2>4. CASE refused
    <3>1. registry' = registry /\ k = hist.back /\ (~hist.late => l = hist.lost + 1)
      BY <1>3, <1>4, <2>4, SMTT(60), Z3T(60)
    <3>2. ~hist.late => Gap(page'.pc, hist'.lost) = Gap(page.pc, hist.lost)
      BY <2>1, <2>2, <2>3, <3>1 DEF Gap
    <3>3. QED
      BY <2>2, <2>3, <3>1, <3>2, SMTT(60), Z3T(60) DEF ClockInv, ClockOk
  <2>5. CASE ~refused
    <3>1. registry'["page"] = entry /\ k = 0 /\ l = 0
      BY <1>p, <1>2, <1>3, <1>4, <2>1, <2>5, SMTT(60), Z3T(60)
    <3>2. /\ page'.skew - registry'["page"].skew = 0 /\ registry'["page"].age = 0
          /\ Gap(page'.pc, hist'.lost) = 0
      BY <1>4, <2>2, <2>3, <3>1, ClockTypes, SMTT(60), Z3T(60) DEF Gap
    <3>3. QED
      BY <2>3, <3>1, <3>2, SMTT(60), Z3T(60) DEF ClockInv, ClockOk
  <2>6. QED
    BY <2>4, <2>5
<1>6. CASE task.from = "late"
  <2>1. /\ page' = page /\ hist'.scenario = hist.scenario /\ hist'.lost = hist.lost
        /\ hist'.late = (hist.late \/ ~refused) /\ hist'.back = hist.back
    <3>1. hist' = [hist EXCEPT !.late = hist.late \/ ~refused] /\ page' = page
      BY <1>3, <1>6, SMTT(60), Z3T(60)
    <3>2. QED
      BY <1>p, <3>1, HistLate, ZenonT(60)
  <2>a. (~hist'.late => ~hist.late) /\ (~refused => hist'.late)
    BY <2>1, ZenonT(60)
  <2>2. CASE refused
    <3>1. registry' = registry
      BY <1>3, <2>2, SMTT(60), Z3T(60)
    <3>2. QED
      BY <2>1, <2>a, <3>1, ZenonT(60) DEF ClockInv, ClockOk
  <2>3. CASE ~refused
    <3>1. registry'["page"] = entry
      BY <1>p, <1>2, <1>3, <1>4, <1>6, <2>3, SMTT(60), Z3T(60)
    <3>2. page'.skew - registry'["page"].skew <= hist'.back
      BY <1>4, <2>1, <3>1, ClockTypes, SMTT(60), Z3T(60)
    <3>3. QED
      BY <2>1, <2>a, <2>3, <3>2, ZenonT(60) DEF ClockInv, ClockOk
  <2>4. QED
    BY <2>2, <2>3
<1>7. CASE task.from = "other"
  <2>1. page' = page /\ hist' = hist /\ registry'["page"] = registry["page"]
    BY <1>p, <1>2, <1>3, <1>4, <1>7, SMTT(60), Z3T(60)
  <2>2. QED
    BY <2>1, ZenonT(60) DEF ClockInv
<1>8. QED
  BY <1>2, <1>5, <1>6, <1>7, SMTT(60), Z3T(60)

LEMMA ClockTaskStep ==
    ASSUME StateInv, WorkerInv, ClockInv,
           RunJoin \/ RunLeave \/ PlanStep \/ PlanningIntervalPasses
    PROVE  ClockInv'
<1>p. page \in Pages /\ hist \in Hists /\ registry \in [Subscribers -> Entries]
  BY ClockTypes, ZenonT(60)
<1>1. CASE RunJoin
  <2>1. registry'["page"] = NoEntry
    BY <1>1, <1>p, ClockTypes DEF RunJoin
  <2>2. hist'.scenario = hist.scenario /\ hist'.back = hist.back
    BY <1>1, <1>p, HistLate, ZenonT(60) DEF RunJoin
  <2>3. QED
    BY <2>1, <2>2, SMTT(60), Z3T(60) DEF ClockInv, ClockOk
<1>2. CASE RunLeave \/ PlanStep \/ PlanningIntervalPasses
  <2>1. page' = page /\ hist' = hist /\ registry'["page"] = registry["page"]
    BY <1>2, <1>p, ClockTypes DEF RunLeave, PlanStep, PlanningIntervalPasses, Subscribers
  <2>2. QED
    BY <2>1, ZenonT(60) DEF ClockInv
<1>3. QED
  BY <1>1, <1>2

LEMMA AgedEntry ==
    ASSUME StateInv, ReportIntervalPasses, registry["page"] # NoEntry
    PROVE  /\ registry'["page"].seq = registry["page"].seq
           /\ registry'["page"].skew = registry["page"].skew
           /\ registry'["page"].age = Up(registry["page"].age, AgeLimit)
<1> DEFINE e == registry["page"]
           a == Up(e.age, AgeLimit)
<1>1. registry'["page"] = [e EXCEPT !.age = a]
  BY ClockTypes DEF ReportIntervalPasses
<1>2. e \in Entries
  BY ClockTypes
<1> HIDE DEF e, a
<1>3. registry'["page"].seq = e.seq /\ registry'["page"].skew = e.skew /\ registry'["page"].age = a
  BY <1>1, <1>2 DEF Entries
<1>4. QED
  BY <1>3 DEF e, a

(* An interval ages the stored report and starts at most one report.       *)
LEMMA ClockIntervalStep ==
    ASSUME StateInv, ClockInv, ReportIntervalPasses
    PROVE  ClockInv'
<1>p. page \in Pages /\ hist \in Hists /\ registry \in [Subscribers -> Entries]
  BY ClockTypes, ZenonT(60)
<1>1. page.pc \in {"idle", "sampling"} /\ page' = Tick(page)
  BY DEF ReportIntervalPasses
<1>2. /\ page'.skew = page.skew
      /\ page.pc # "idle" => page'.pc = page.pc
      /\ page.pc = "idle" => page'.pc = "sampling"
  BY <1>p, <1>1, TickPage, SMTT(60), Z3T(60)
<1>3. /\ hist'.scenario = hist.scenario /\ hist'.lost = hist.lost /\ hist'.late = hist.late
      /\ hist'.back = hist.back
  <2>1. PICK u : hist' = [hist EXCEPT !.events = 0, !.unwatched = u]
    BY ZenonT(60) DEF ReportIntervalPasses
  <2>2. QED
    BY <1>p, <2>1 DEF Hists
<1>4. CASE registry["page"] = NoEntry
  <2>1. registry'["page"] = NoEntry
    BY <1>4, ClockTypes DEF ReportIntervalPasses
  <2>2. QED
    BY <1>3, <2>1, SMTT(60), Z3T(60) DEF ClockInv, ClockOk
<1>5. CASE registry["page"] # NoEntry
  <2> DEFINE a == registry["page"].age
             e == registry'["page"]
  <2>1. e.skew = registry["page"].skew /\ e.age = Up(a, AgeLimit)
    BY <1>5, AgedEntry
  <2>2. /\ a \in 0 .. AgeLimit /\ MaxSkew \in Nat /\ AgeLimit \in Nat /\ AgeLimit >= MaxSkew
        /\ hist.lost \in Nat
    BY ClockTypes
  <2>3. /\ page.skew - registry["page"].skew <= hist.back
        /\ hist.scenario # "clock" => hist.back = 0
        /\ hist.scenario = "clock" /\ ~hist.late => Gap(page.pc, hist.lost) <= a \/ a >= MaxSkew
    BY <1>5, SMTT(60), Z3T(60) DEF ClockInv, ClockOk
  <2> HIDE DEF a, e
  <2>4. Gap(page'.pc, hist'.lost) <= Gap(page.pc, hist.lost) + 1 /\ Gap(page.pc, hist.lost) \in Nat
        /\ Gap(page'.pc, hist'.lost) \in Nat
    BY <1>1, <1>2, <1>3, <2>2, SMTT(60), Z3T(60) DEF Gap
  <2>5. e.age = a + 1 \/ e.age >= MaxSkew
    BY <2>1, <2>2, SMTT(60), Z3T(60) DEF Up
  <2>6. /\ a >= MaxSkew => e.age >= MaxSkew
    BY <2>1, <2>2, SMTT(60), Z3T(60) DEF Up
  <2>7. hist.scenario = "clock" /\ ~hist.late =>
            Gap(page'.pc, hist'.lost) <= e.age \/ e.age >= MaxSkew
    BY <2>2, <2>3, <2>4, <2>5, <2>6, SMTT(60), Z3T(60)
  <2>8. QED
    BY <1>2, <1>3, <2>1, <2>3, <2>7, SMTT(60), Z3T(60) DEF ClockInv, ClockOk, e
<1>6. QED
  BY <1>4, <1>5

LEMMA ClockInit == Init => ClockInv
<1> SUFFICES ASSUME Init PROVE ClockInv
  OBVIOUS
<1>1. registry["page"] = NoEntry
  BY DEF Init, Subscribers
<1>2. hist.back = 0
  BY ZenonT(60) DEF Init
<1>3. QED
  BY <1>1, <1>2, SMTT(60), Z3T(60) DEF ClockInv, ClockOk

LEMMA ClockStep == BaseInv /\ NumberInv /\ ClockInv /\ [Next]_vars => ClockInv'
<1> SUFFICES ASSUME StateInv, WorkerInv, LostInv, ClockInv, [Next]_vars PROVE ClockInv'
  BY DEF BaseInv, NumberInv
<1>0. "visible" \in {"visible", "hidden"} /\ 0 \in 0 .. MaxSkew
  BY ConstantParts
<1>1. CASE \E hint \in {"visible", "hidden"} : SetVisible(hint)
  BY <1>0, <1>1, ClockPageStep, ZenonT(60)
<1>2. CASE \/ RemoveConsumer \/ RegisterConsumer \/ TickFails
           \/ \E skew \in 0 .. MaxSkew : SetClock(skew)
  BY <1>0, <1>2, ClockPageStep, ZenonT(60)
<1>3. CASE (\E fits \in Fits : Report(fits)) \/ Rejoin \/ ReceiveLate \/ LoseLate \/ Others
  BY <1>3, ClockSignalStep, ZenonT(60)
<1>4. CASE RunReport
  BY <1>4, ClockReportStep, ZenonT(60)
<1>5. CASE RunJoin \/ RunLeave \/ RunPlan \/ RunDelayed \/ PlanningIntervalPasses
  BY <1>5, RunPlanStep, RunDelayedStep, ClockTaskStep, ZenonT(60)
<1>6. CASE ReportIntervalPasses
  BY <1>6, ClockIntervalStep, ZenonT(60)
<1>7. CASE UNCHANGED vars
  <2>1. page' = page /\ registry' = registry /\ hist' = hist
    BY <1>7 DEF vars
  <2>2. QED
    BY <2>1, ZenonT(60) DEF ClockInv
<1>8. QED
  BY <1>1, <1>2, <1>3, <1>4, <1>5, <1>6, <1>7, ZenonT(60) DEF Next

(* The registry refuses no report of the page's session for its number,    *)
(* however many were lost, rate limited or refused before it and wherever  *)
(* the number wraps; and none for its timestamp unless the page's clock    *)
(* was set back by more than has passed since the stored report.  This     *)
(* excepts a session in which a late report of the one before was stored.  *)
THEOREM FreshReportsAreStoredCorrect == Spec => []FreshReportsAreStored
<1>1. NumberInv => FreshReportsAreStored
  BY DEF NumberInv, FreshReportsAreStored
<1>2. QED
  BY <1>1, NumberInit, NumberStep, ClockInit, ClockStep, BaseAlways, PTL DEF Spec

=============================================================================
