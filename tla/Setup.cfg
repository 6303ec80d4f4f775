CONSTANTS
    Defaults = {1, 2}
    Remotes = {r1, r2}
    MaxProcs = 3
SPECIFICATION Spec
INVARIANTS
    TypeOK
    PersistentIdentity
    OneGroup
    SocketIsServed
    OnlyTornFilesBlock
CHECK_DEADLOCK FALSE
