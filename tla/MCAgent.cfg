SPECIFICATION MCSpec
CONSTANTS
    MaxBuffered = 3
    MaxSamples = 7
    Conns = {c1, c2}
    Calls = {r1}
    None = None
    MaxLive = 1
    MaxSecrets = 1
    MaxFiles = 3
    Chunks = 2
    Keep = 1
    DestKeep = 1
    Modes = {"local", "copy", "move"}
    LateOps = {"run", "write"}
    Absent = Absent
INVARIANTS
    QueueWhole
    NoSleepOnSamples
    BackupsWhole
PROPERTIES
    EverythingGoesOut
    RunEnds
    CallsEnd
CHECK_DEADLOCK FALSE
