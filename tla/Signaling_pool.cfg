CONSTANTS
    NumWorkers = 2
    ProcsPerWorker = 1
    Rooms = {r1}
    Peers = {p1, p2}
    Sockets = {s1, s2, s3}
    NoWorker = NoWorker
    NoSocket = NoSocket
    NoRoom = NoRoom
    NoPeer = NoPeer
    MaxSessions = 3
    MaxDeaths = 0
    MaxBacklog = 0
SPECIFICATION Spec
CHECK_DEADLOCK FALSE
SYMMETRY Symmetry
INVARIANTS SocketMapInv PendingJoinIsInFlight
PROPERTIES ImplementsSessionDirectory
