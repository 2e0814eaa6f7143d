CONSTANTS
    NumWorkers = 1
    ProcsPerWorker = 1
    Rooms = {r1}
    Peers = {p1}
    Sockets = {s1, s2}
    NoWorker = NoWorker
    NoSocket = NoSocket
    NoRoom = NoRoom
    NoPeer = NoPeer
    MaxSessions = 2
    MaxDeaths = 1
    MaxBacklog = 0
SPECIFICATION FairSpec
CHECK_DEADLOCK FALSE
PROPERTIES JoinIsAnswered ClosedSessionIsRemoved DeadRoomIsAnnounced
