CONSTANTS
    Peers = {p1}
    Members = {p1}
    Waits = {w1}
    Capacity = 1
    Permits = 1
    MaxPending = 1
    MaxChanges = 1
    MaxNews = 1
SPECIFICATION FairSpec
INVARIANTS
    TypeOK
    OutgoingIsRunning
    SummarySound
PROPERTIES
    WaitsAnswered
    ChangesReachPeers
    ShutdownEnds
CHECK_DEADLOCK FALSE
