CONSTANTS
    Files = {1, 2}
    Size <- MCSize
    Window = 1
    FrameUnits = 2
    MaxTransfers = 2
    MaxFileBytes = 2
    MaxConnection = 12
    MaxEdits = 1
    MaxFaults = 1
SPECIFICATION Spec
INVARIANTS
    TypeOK
    HonestNeverRejected
    SuccessIsMutual
PROPERTIES
    SessionsEnd
    EventuallyInSync
