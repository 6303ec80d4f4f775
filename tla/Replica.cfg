CONSTANTS
    c1 = c1
    c2 = c2
    Authors = {1, 2, 3}
    Contents = {c1, c2}
    Tombstone = Tombstone
    NoRecord = NoRecord
    MaxTime = 3
    Digest <- MCDigest
    Local = 2
    Remote <- EditAndDeletion
    UserFiles <- OldAndTie
    Sessions = {s1, s2}
    Roots = {r1, r2}
    NoRoot = NoRoot
    NoFile = NoFile
    Unstable = Unstable
    Stored <- Exact
    Skew = 0
    MaxClock = 2
    MaxEdits = 1
SPECIFICATION Spec
INVARIANTS
    TypeOK
    ClockBound
    OnlyKnownDeleted
    NoEcho
    OnlyOvertakenDiffer
    OnlyCrossedDeletions
PROPERTY
    RegisterSpec
SYMMETRY SlotSymmetry
