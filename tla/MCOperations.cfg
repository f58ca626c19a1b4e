SPECIFICATION OperationsSpec
CONSTANTS
    d1 = d1
    d2 = d2
    z1 = z1
    z2 = z2
    a1 = a1
    a2 = a2
    DomServers = {"s"}
    DomNames = {"n"}
    Callers = {c1, c2}
    Nothing = Nothing
    CacheTTL = 2
    CallTime = 1
    LookupTime = 1
    MaxTime = 3
    CertDays = {0, 1}
    CertRules <- MCCertRules
    Tokens = {"t", "u"}
    NoToken = NoToken
    DefaultApi = "default"
    Mirrors = {"m", "n"}
    MaxSending = 2
    LastYear = 2040
    Nil = Nil
    Domains = {d1, d2}
    AppNames = {a1, a2}
    Ports = {1, 2}
    Threads = {1}
    MaxVersion = 2
    MaxApps = 2
    Zones = {z1, z2}
    Records = {"a", "x"}
    BadRecords = {"x"}
    Days = {0, 1}
    DayRange = 2
    MaxSerial = 4
    SourceTypes = {"site", "database"}
    DestTypes = {"remote", "local"}
    Retentions <- MCRetentions
    DefaultKeep = 2
    MaxSecond = 3
    MaxVersion1 = 2
    Roots = {f1}
    FileNames = {f1, f2}
    MaxDepth = 3
    MaxContent = 2
    MaxNodes = 5
    CronUsers = {"u", "w"}
    CronJobs = {1, 2}
    MaxOwn = 2
    MailDomains = {d1, d2}
    Selectors = {"s", "t"}
    MaxKey = 2
    Accounts = {"a"}
    Words = {"shop"}
    Subjects = {d1, d2}
    Window = 2
    MaxHour = 2
INVARIANTS
    FreshAnswers
    TokenStaysHome
    JalaliCounts
    SitesAgree
    AppsWhole
    SecondaryFollows
    LastArchiveKept
    CrontabWhole
    MailConsistent
    AccountsAgree
    ToldInTime
PROPERTIES
    NothingLost
CHECK_DEADLOCK FALSE
