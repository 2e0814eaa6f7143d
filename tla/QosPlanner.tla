----------------------------- MODULE QosPlanner -----------------------------
(***************************************************************************)
(* The ladders of the profiles (qos/profiles.js) and the planner that      *)
(* turns a state and a level into actions (qos/planner.js).                *)
(*                                                                         *)
(* A rung holds the parameters of its encodings as <<kbit/s, frames/s,     *)
(* 100 * downscaling>> (for audio: <<kbit/s, adaptive ptime>>), Nothing    *)
(* when it sets none; the spatial layer it asks for, NoLayer when none;    *)
(* and the switches it throws.                                             *)
(***************************************************************************)
EXTENDS QosStateMachine, Sequences, SequencesExt

Sources == {"camera", "screenShare", "audio"}
Levels == 0 .. 4
MaxLevel == 4
Nothing == <<>>
NoLayer == -1
NoClamp == 5       \* no override clamps the level

Plain(encodings) ==
    [encodings |-> encodings, layer |-> NoLayer, enterAudioOnly |-> FALSE,
     pauseUpstream |-> FALSE, resumeUpstream |-> FALSE]

CameraLadder(profile) ==
    [level \in Levels |->
        CASE level = 0 -> Plain(<<900, 30, 100>>)
          [] level = 1 -> Plain(<<850, 24, 100>>)
          [] level = 2 -> Plain(IF profile = "default" THEN <<700, 20, 150>>
                                ELSE <<550, 15, 150>>)
          [] level = 3 -> [Plain(<<450, 12, 200>>) EXCEPT !.layer = 0]
          [] level = 4 -> [Plain(Nothing) EXCEPT !.enterAudioOnly = TRUE]]

(* Variant: no rung resumes the screen share. *)
ScreenShareLadderPaused ==
    [level \in Levels |->
        IF level = MaxLevel THEN [Plain(Nothing) EXCEPT !.pauseUpstream = TRUE]
        ELSE Plain(<<1800 - 270 * level, 15 - 4 * level, 100>>)]

ScreenShareLadder ==
    [level \in Levels |->
        CASE level = 0 -> Plain(<<1800, 15, 100>>)
          [] level = 1 -> Plain(<<1800, 10, 100>>)
          [] level = 2 -> Plain(<<1350, 5, 100>>)
          [] level = 3 -> [Plain(<<990, 3, 125>>) EXCEPT !.resumeUpstream = TRUE]
          [] level = 4 -> [Plain(Nothing) EXCEPT !.pauseUpstream = TRUE]]

AudioLadder ==
    [level \in Levels |->
        CASE level = 0 -> Plain(<<510, 0>>)
          [] level = 1 -> Plain(<<32, 1>>)
          [] level = 2 -> Plain(<<24, 0>>)
          [] level = 3 -> Plain(<<16, 0>>)
          [] level = 4 -> Plain(<<16, 1>>)]

Ladder(source, profile) ==
    CASE source = "camera" -> CameraLadder(profile)
      [] source = "screenShare" -> ScreenShareLadder
      [] source = "audio" -> AudioLadder

(* The profile a policy names: the names of the other sources' variants    *)
(* resolve to the default ladder, an unknown name to nothing.              *)
resolveProfileByName(source, name, current) ==
    IF source = "camera" /\ name \in Profiles THEN name ELSE current

-----------------------------------------------------------------------------
Action(type, level, arg) == [type |-> type, level |-> level, arg |-> arg]
noop(level) == Action("noop", level, Nothing)

(* Variant: the last rung is out of range. *)
clampLevelShort(level) ==
    IF level < 0 THEN 0 ELSE IF level >= MaxLevel THEN MaxLevel - 1 ELSE level

clampLevel(level) == IF level < 0 THEN 0 ELSE IF level > MaxLevel THEN MaxLevel ELSE level

resolveTargetLevel(state, level, clamp) ==
    LET target == CASE state = "stable" -> level - 1
                    [] state = "early_warning" -> IF level < 1 THEN 1 ELSE level
                    [] state = "congested" -> level + 1
                    [] state = "recovering" -> level - 1
    IN  IF clamp = NoClamp THEN clampLevel(target)
        ELSE Least(clampLevel(target), clampLevel(clamp))

(* The actions of a rung, in the order they run.  Leaving audio-only comes *)
(* first, and only on the way up.                                          *)
stepToActions(rung, target, source, level, audioOnly) ==
    LET when(condition, action) == IF condition THEN <<action>> ELSE <<>>
        actions ==
            when(source = "camera" /\ level > target /\ audioOnly,
                 Action("exitAudioOnly", target, Nothing))
            \o when(rung.resumeUpstream, Action("resumeUpstream", target, Nothing))
            \o when(rung.encodings # Nothing,
                    Action("setEncodingParameters", target, rung.encodings))
            \o when(rung.layer # NoLayer,
                    Action("setMaxSpatialLayer", target, <<rung.layer>>))
            \o when(rung.enterAudioOnly, Action("enterAudioOnly", target, Nothing))
            \o when(rung.pauseUpstream, Action("pauseUpstream", target, Nothing))
    IN  IF actions = <<>> THEN <<noop(target)>> ELSE actions

planActionsForLevel(target, source, profile, level, audioOnly) ==
    stepToActions(Ladder(source, profile)[clampLevel(target)], clampLevel(target),
                  source, clampLevel(level), audioOnly)

(* A camera that is congested at the bottom without being audio-only asks  *)
(* for audio-only again.                                                   *)
planActions(state, source, profile, level, clamp, audioOnly) ==
    LET target == resolveTargetLevel(state, level, clamp)
    IN  IF source = "camera" /\ level = MaxLevel /\ state = "congested" /\ ~audioOnly
        THEN planActionsForLevel(MaxLevel, source, profile, level, audioOnly)
        ELSE IF target = level THEN <<noop(level)>>
        ELSE planActionsForLevel(target, source, profile, level, audioOnly)

=============================================================================
