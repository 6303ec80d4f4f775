CONSTANTS
    Devices = {1, 2, 3, 4}
    Founders = {1, 2, 3, 4}
    Online = {1, 2}
    Links <- Everyone
    Sessions = {"s1"}
    Requests <- TwoRemovals
    MaxRetries = 8
    MaxFaults = 0
    Hash <- ByAuthor
SPECIFICATION FairSpec
PROPERTY CommandsTakeEffect
CHECK_DEADLOCK FALSE
