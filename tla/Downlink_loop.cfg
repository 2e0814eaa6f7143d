\* The page reports, hides, shows and removes its consumer, reconnects and sets its clock.
CONSTANTS
    MaxSeq = 8
    ResetThreshold = 1
    Hold = 1
    PauseConfirm = 2
    ResumeWarmup = 1
    StaleAfter = 3
    Fits = {"low", "high"}
    TsTolerance = 0
    MaxLost = 1
    MaxSkew = 3
    MaxEvents = 1
    Scenarios = {"reconnect", "remove", "shared", "clock"}
SPECIFICATION FairSpec
INVARIANTS
    PlannerHasOneWakeup
    FreshReportsAreStored
    LossIsChargedToItsStream
PROPERTIES
    PausedOnlyUnwatched
    SupplyFollowsDemand
