SPECIFICATION Spec
CONSTANTS
    Paths = {p1, p2}
    First = p1
    Files = {f1, f2}
    Future = {f2}
    Sessions = {s1}
    None = None
    MaxUpsets = 1
    MaxCommands = 1
    MaxStarts = 1
    MaxRecords = 1
INVARIANTS TypeOK CommandsHold
PROPERTIES DeletedWasThere RowsReconcile
CHECK_DEADLOCK FALSE
