SPECIFICATION FairSpec
CONSTANTS
    MaxProcs = 2
    NumWorkers = 1
    Rooms = {r1}
    Fds = {1, 2}
    MaxRouters = 0
    RespawnLimit = 1
    RespawnWindow = 0
    MaxQueue = 1
    EventFd = EventFd
    HealthTimerFd = HealthTimerFd
    NoProc = NoProc
    NoFd = NoFd
CHECK_DEADLOCK FALSE
PROPERTY CrashedRoomsAreRestarted
