SPECIFICATION RelaySpec
CONSTANTS
    c1 = c1
    c2 = c2
    c3 = c3
    r1 = r1
    r2 = r2
    Conns = {c1, c2, c3}
    Calls = {q1}
    None = None
    MaxLive = 2
    MaxSecrets = 2
    Requests = {r1, r2}
    MaxSlots = 1
    KeepJobs = 0
    MaxNow = 1
    MaxSessions = 2
    MaxRestarts = 1
INVARIANTS
    PendingIsWaiting
    DeletedUnreachable
    SlotsAccounted
    FilesWhole
CHECK_DEADLOCK FALSE
