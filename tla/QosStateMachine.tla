--------------------------- MODULE QosStateMachine ---------------------------
(***************************************************************************)
(* The publisher's QoS state machine and the probe of an upgrade           *)
(* (qos/stateMachine.js, qos/probe.js).                                    *)
(*                                                                         *)
(* The signals of a sample are kept as the bands the thresholds of the     *)
(* profiles separate:                                                      *)
(*   net     the worse of loss and round-trip time (moving averages):      *)
(*           0 below the stable thresholds; 1, 2, 3, 4 between, and above, *)
(*           the warning and congestion thresholds of the two profiles     *)
(*   jitter  the moving average: 0 below stable, 1 below warn, 2 below     *)
(*           congested, 3 above                                            *)
(*   raw     the last jitter is below the wider recovery gate              *)
(*   ready   the send bitrate has reached 85% of its target                *)
(*   sending the send bitrate is positive                                  *)
(*   lim     what limits the encoder: "none", "cpu" or "bandwidth"         *)
(* Every counter saturates at the largest number it is compared with.      *)
(***************************************************************************)
EXTENDS Integers

CONSTANT Cooldowns   \* recoveryCooldownMs of the two profiles, in ticks
ASSUME CooldownsAssumption == Cooldowns \in [{"default", "conservative"} -> Nat]

States == {"stable", "early_warning", "congested", "recovering"}
Profiles == {"default", "conservative"}
Signals == [net : 0 .. 4, jitter : 0 .. 3, raw : BOOLEAN, ready : BOOLEAN,
            sending : BOOLEAN, lim : {"none", "cpu", "bandwidth"}]

(* The first band of "net" that is a warning, and the first that is        *)
(* congestion: the conservative profile has lower thresholds for both.     *)
Thresholds ==
    [default      |-> [warn |-> 2, congested |-> 4],
     conservative |-> [warn |-> 1, congested |-> 3]]

-----------------------------------------------------------------------------
(* Classification of a sample *)

Unlimited(s) == s.lim = "none"

(* Loss and round-trip time are below the stable thresholds and nothing    *)
(* limits the encoder.                                                     *)
NetworkRecovered(s) == s.net = 0 /\ Unlimited(s)

isWarning(s, profile) ==
    s.net >= Thresholds[profile].warn \/ s.jitter >= 2 \/ ~Unlimited(s)
isCongested(s, profile) ==
    \/ s.lim = "bandwidth"
    \/ s.net >= Thresholds[profile].congested
    \/ s.jitter = 3
isHealthy(s) == NetworkRecovered(s) /\ s.jitter = 0
isRecoveryHealthy(s) == NetworkRecovered(s) /\ s.jitter <= 1
isFastRecoveryHealthy(s) == NetworkRecovered(s) /\ s.raw /\ s.ready

Least(a, b) == IF a <= b THEN a ELSE b
nextCounter(current, matched, most) ==
    IF matched THEN Least(current + 1, most) ELSE 0

mapStateToQuality(state, sending) ==
    CASE state = "congested" /\ ~sending -> "lost"
      [] state = "congested" /\ sending -> "poor"
      [] state = "stable" -> "excellent"
      [] OTHER -> "good"

-----------------------------------------------------------------------------
(* The machine.  "since" counts the ticks since lastCongestedAtMs, which   *)
(* only the congested state reads.                                         *)

LongestCooldown ==
    CHOOSE n \in {Cooldowns[p] : p \in Profiles} :
        \A p \in Profiles : n >= Cooldowns[p]

Contexts == [state : States, healthy : 0 .. 5, recovery : 0 .. 5, fast : 0 .. 2,
             warning : 0 .. 2, congested : 0 .. 2, since : 0 .. LongestCooldown]

createInitialQosStateMachineContext ==
    [state |-> "stable", healthy |-> 0, recovery |-> 0, fast |-> 0,
     warning |-> 0, congested |-> 0, since |-> 0]

(* The counters of a context after sample s; they count on through a       *)
(* change of state.                                                        *)
Counted(ctx, s, profile) ==
    [ctx EXCEPT
        !.healthy = nextCounter(@, isHealthy(s), 5),
        !.recovery = nextCounter(@, isRecoveryHealthy(s), 5),
        !.fast = nextCounter(@, ~isRecoveryHealthy(s) /\ isFastRecoveryHealthy(s), 2),
        !.warning = nextCounter(@, isWarning(s, profile), 2),
        !.congested = nextCounter(@, isCongested(s, profile), 2)]

(* Variant: leaving congestion does not wait for the cooldown. *)
NextStateNoCooldown(ctx, profile) ==
    CASE ctx.state = "stable" ->
             IF ctx.warning >= 2 THEN "early_warning" ELSE "stable"
      [] ctx.state = "congested" ->
             IF ctx.recovery >= 5 \/ ctx.fast >= 2 THEN "recovering" ELSE "congested"
      [] OTHER ->
             IF ctx.congested >= 2 THEN "congested"
             ELSE IF ctx.healthy >= (IF ctx.state = "recovering" THEN 5 ELSE 3)
             THEN "stable" ELSE ctx.state

NextState(ctx, profile) ==
    CASE ctx.state = "stable" ->
             IF ctx.warning >= 2 THEN "early_warning" ELSE "stable"
      [] ctx.state = "early_warning" ->
             IF ctx.congested >= 2 THEN "congested"
             ELSE IF ctx.healthy >= 3 THEN "stable" ELSE "early_warning"
      [] ctx.state = "congested" ->
             IF ctx.since >= Cooldowns[profile] /\ (ctx.recovery >= 5 \/ ctx.fast >= 2)
             THEN "recovering" ELSE "congested"
      [] OTHER ->
             IF ctx.congested >= 2 THEN "congested"
             ELSE IF ctx.healthy >= 5 THEN "stable" ELSE "recovering"

evaluateStateTransition(ctx, s, profile) ==
    LET counted == Counted(ctx, s, profile)
        next == NextState(counted, profile)
    IN  IF next = ctx.state THEN counted
        ELSE [counted EXCEPT !.state = next, !.since = 0]

-----------------------------------------------------------------------------
(* The probe that follows an upgrade.  A sample that is neither healthy    *)
(* nor bad leaves both counters as they are.                               *)

isProbeHealthy(s) == NetworkRecovered(s)
isProbeBad(s, profile) ==
    ~Unlimited(s) \/ s.net >= Thresholds[profile].congested

NoProbe == [active |-> FALSE, previousLevel |-> 0, healthy |-> 0, bad |-> 0,
            required |-> 3]

beginProbe(previousLevel, required) ==
    [active |-> TRUE, previousLevel |-> previousLevel, healthy |-> 0, bad |-> 0,
     required |-> required]

ProbeCounted(probe, s, profile) ==
    IF isProbeHealthy(s) THEN [probe EXCEPT !.healthy = @ + 1, !.bad = 0]
    ELSE IF isProbeBad(s, profile) THEN [probe EXCEPT !.healthy = 0, !.bad = @ + 1]
    ELSE probe

(* Variant: one bad sample too many. *)
evaluateProbeLate(probe) ==
    IF probe.bad > 2 THEN "failed"
    ELSE IF probe.healthy >= probe.required THEN "successful"
    ELSE "inconclusive"

evaluateProbe(probe) ==
    IF probe.bad >= 2 THEN "failed"
    ELSE IF probe.healthy >= probe.required THEN "successful"
    ELSE "inconclusive"

=============================================================================
