CONSTANTS
    c1 = c1
    c2 = c2
    Authors = {1, 2, 3}
    Contents = {c1, c2}
    Tombstone = Tombstone
    NoRecord = NoRecord
    MaxTime = 3
    Digest <- MCDigest
    Local = 2
    Remote <- OneEdit
    UserFiles <- NoWrites
    Sessions = {s1}
    Roots = {r1}
    NoRoot = NoRoot
    NoFile = NoFile
    Unstable = Unstable
    Stored <- Exact
    Skew = 1
    MaxClock = 1
    MaxEdits = 0
SPECIFICATION Spec
INVARIANT
    DeletionsAreReal
