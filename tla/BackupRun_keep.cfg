SPECIFICATION RunSpec
CONSTANTS
    MaxFiles = 3
    Chunks = 2
    Keep = 2
    DestKeep = 2
    Modes = {"local"}
    LateOps = {}
    Absent = Absent
INVARIANT LastCopiesKept
CHECK_DEADLOCK FALSE
