SPECIFICATION LinkSpec
CONSTANTS
    Conns = {c1, c2, c3}
    Calls = {}
    None = None
    MaxLive = 2
    MaxSecrets = 2
INVARIANT EndedIsOffline
CHECK_DEADLOCK FALSE
