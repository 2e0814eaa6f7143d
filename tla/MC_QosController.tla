-------------------------- MODULE MC_QosController --------------------------
(***************************************************************************)
(* Small instances of QosController.                                       *)
(***************************************************************************)
EXTENDS QosController

MC_Cooldowns == [default |-> 2, conservative |-> 3]

(* Clear, jittery and congested samples drive every counter of the state   *)
(* machine on its own.                                                     *)
MC_Samples == {Clear, [Clear EXCEPT !.jitter = 3], Bad}
MC_Override(reason, ttl) ==
    [reason |-> reason, mine |-> TRUE, ttl |-> ttl, clamp |-> NoClamp,
     forceAudioOnly |-> FALSE, disableRecovery |-> FALSE, pauseUpstream |-> FALSE,
     resumeUpstream |-> FALSE]
MC_Messages ==
    {[MC_Override("server_auto_lost", 2) EXCEPT !.forceAudioOnly = TRUE, !.disableRecovery = TRUE],
     MC_Override("server_auto_clear", 0),
     [MC_Override("downlink_v2_room_demand", 1) EXCEPT !.clamp = 1],
     [MC_Override("downlink_v2_demand_restored", 0) EXCEPT !.clamp = NullClamp]}
MC_Policies ==
    {[interval |-> 1, allowed |-> FALSE, profile |-> "default"],
     [interval |-> 1, allowed |-> TRUE, profile |-> "conservative"]}

=============================================================================
