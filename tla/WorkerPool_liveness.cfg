SPECIFICATION FairSpec
CONSTANTS
    MaxProcs = 3
    NumWorkers = 1
    Rooms = {r1}
    Fds = {1, 2}
    MaxRouters = 0
    RespawnLimit = 1
    RespawnWindow = 1
    MaxQueue = 1
    EventFd = EventFd
    HealthTimerFd = HealthTimerFd
    NoProc = NoProc
    NoFd = NoFd
CHECK_DEADLOCK FALSE
INVARIANT RespawnRateBounded
PROPERTY DeathsAreHandled
