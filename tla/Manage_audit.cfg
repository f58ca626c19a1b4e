SPECIFICATION Spec
CONSTANTS
    Requests = {r1, r2}
    MaxSlots = 1
    KeepJobs = 0
    MaxNow = 2
    MaxSessions = 2
    MaxRestarts = 1
INVARIANT EveryChangeAudited
CHECK_DEADLOCK FALSE
