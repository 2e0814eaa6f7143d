SPECIFICATION Spec
CONSTANTS
    KindOf <- MC_KindOf
    Names <- MC_Names
    Directions = {"send", "recv"}
    MaxProducers = 3
    MaxConsumers = 3
    MaxCalls = 4
    MaxFaults = 1
    Operations <- MC_AllOperations
    ZeroRtpOnPause = {1, 3}
CHECK_DEADLOCK FALSE
INVARIANTS
    OnlyHeadExecutes
    DescriptionFollowsConnection
    ObjectsConverge
    MediaIsReleased
PROPERTY ConsumeSettles
