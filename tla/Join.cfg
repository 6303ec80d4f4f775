CONSTANTS
    Devices = {d1, d2}
    Inviter = inviter
    Names = {n1, n2}
    BadName = bad
    None = none
    Removed = removed
    MaxInvites = 2
    MaxRuns = 2
    MaxStops = 1
SPECIFICATION Spec
SYMMETRY Symmetry
INVARIANTS
    TypeOK
    OneAdmissionPerInvitation
    AdmittedOnlyApproved
    InstalledWasAdmitted
    AcknowledgedIsInstalled
    PendingHasSession
CHECK_DEADLOCK FALSE
