CONSTANTS
    Devices = {1, 2, 3, 4}
    Founders = {1, 2, 4}
    Online = {1, 2, 3}
    Links <- Everyone
    Sessions = {"s1"}
    Requests <- AdmitAgainstRemove
    MaxRetries = 8
    MaxFaults = 1
    Hash <- ByAuthor
SPECIFICATION Spec
INVARIANT TypeOK
INVARIANT StoredSound
INVARIANT RetriesBounded
CHECK_DEADLOCK FALSE
