SPECIFICATION ChecksFairSpec
CONSTANTS
    MaxChecks = 2
    Threshold = 2
    Nil = Nil
    MaxHubRestarts = 1
INVARIANTS
    ChecksTyped
PROPERTIES
    AlertsFollowProbes
    EveryCheckProbed
