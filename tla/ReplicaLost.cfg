CONSTANTS
    c1 = c1
    c2 = c2
    Authors = {1, 2, 3}
    Contents = {c1, c2}
    Tombstone = Tombstone
    NoRecord = NoRecord
    MaxTime = 2
    Digest <- MCDigest
    Local = 2
    Remote <- TwoEdits
    UserFiles <- NoWrites
    Sessions = {s1}
    Roots = {r1}
    NoRoot = NoRoot
    NoFile = NoFile
    Unstable = Unstable
    Stored <- Coarse
    Skew = 0
    MaxClock = 1
    MaxEdits = 0
SPECIFICATION FairSpec
PROPERTY
    WinnerReachesDisk
