SPECIFICATION PanelSpec
CONSTANTS
    NoUser = NoUser
    MaxUsers = 2
    ELEVATE = 1
    MaxSessions = 2
    MaxSecrets = 2
    MaxRequests = 2
    MaxNow = 3
    HourLen = 2
    Servers = {s1}
    MaxPlans = 2
    MaxParallel = 1
    EveryHours = {5, 6, 48}
    StartHours = {3, 23}
    Times = {0, 7, 150}
    Nil = Nil
INVARIANTS
    CodesUsedOnce
    SessionsHoldFactor
    AdminRemains
    RunsAccounted
PROPERTIES
    OneTaskPerPlan
    NextRunRight
CHECK_DEADLOCK FALSE
