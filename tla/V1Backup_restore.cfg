SPECIFICATION BackupSpec
CONSTANTS
    Nil = Nil
    SourceTypes = {"site"}
    DestTypes = {"remote"}
    Retentions = {1}
    DefaultKeep = 2
    MaxSecond = 2
    MaxVersion1 = 2
INVARIANT RestoreReachesSource
CHECK_DEADLOCK FALSE
