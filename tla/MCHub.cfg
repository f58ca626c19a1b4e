SPECIFICATION HubSpec
CONSTANTS
    Servers = {"s1"}
    Mounts = {"m1"}
    Containers = {"c1"}
    Checks = {"k1"}
    Certs = {"x1"}
    Plans = {"p1"}
    HostKinds = {"cpu"}
    DiskKinds = {"disk"}
    EditedKinds = {"disk", "check"}
    RuleSettings <- MCRuleSettings
    DefaultRule <- MCDefaultRule
    KeepEvents = 0
    StartupGrace = 1
    Nil = Nil
    MaxLevel = 1
    MaxNow = 2
    MaxEvents = 2
    HourLen = 2
    Late = 1
    Ahead = 1
    Window = 2
    KeepMinutes = 6
    KeepHours = 8
    Span = 8
    MaxValue = 1
    LastMinute = 8
    MaxSamples = 3
INVARIANTS
    EngineConsistent
    SinceLastClear
    MinutesRight
    HourFinal
    ChartWhole
PROPERTIES
    EndsOnEvidence
    LifeCycle
