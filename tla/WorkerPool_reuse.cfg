SPECIFICATION Spec
CONSTANTS
    MaxProcs = 3
    NumWorkers = 2
    Rooms = {r1}
    Fds = {1, 2, 3}
    MaxRouters = 1
    RespawnLimit = 1
    RespawnWindow = 0
    MaxQueue = 1
    EventFd = EventFd
    HealthTimerFd = HealthTimerFd
    NoProc = NoProc
    NoFd = NoFd
CHECK_DEADLOCK FALSE
INVARIANTS
    RoutersMatchRooms
    OpenWorkersAreWatched
    RoomsFollowTheirWorkers
PROPERTIES
    OnlyBrokenWorkersAreDropped
