SPECIFICATION Spec
CONSTANTS
    Cooldowns <- MC_Cooldowns
    TrackSources = {"camera", "screenShare"}
    SampledByHand = {"screenShare"}
    Peers = {"none"}
    Samples <- MC_Samples
    Messages <- MC_Messages
    Policies <- MC_Policies
    SnapshotInterval = 2
    MaxAge = 1
    MaxEvents = 1
CHECK_DEADLOCK FALSE
INVARIANT ProducerFollowsController
PROPERTIES
    HoldsWhileCongested
    SettlesWithNetwork
