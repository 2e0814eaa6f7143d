SPECIFICATION Spec
CONSTANTS
    Overlaps = FALSE
    MaxAttempts = 2
    Tracks = 2
    MaxJoins = 2
    MaxPublishes = 1
    MaxProducers = 1
    MaxCrashes = 1
    MaxRefusals = 1
    MaxFaults = 1
CHECK_DEADLOCK FALSE
INVARIANTS
    OldSessionIsGone
    EverythingConsumed
PROPERTY RecoversAfterRestart
