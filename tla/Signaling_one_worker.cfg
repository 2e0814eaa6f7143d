CONSTANTS
    NumWorkers = 1
    ProcsPerWorker = 1
    Rooms = {r1}
    Peers = {p1, p2}
    Sockets = {s1, s2, s3}
    NoWorker = NoWorker
    NoSocket = NoSocket
    NoRoom = NoRoom
    NoPeer = NoPeer
    MaxSessions = 3
    MaxDeaths = 1
    MaxBacklog = 1
SYMMETRY Symmetry
SPECIFICATION Spec
CHECK_DEADLOCK FALSE
INVARIANTS PeersFollowSockets PeerStateInv
PROPERTIES PeerLostOnlyToReplacementOrRestart
