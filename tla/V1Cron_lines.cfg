SPECIFICATION CronSpec
CONSTANTS
    Nil = Nil
    CronUsers = {"u", "w"}
    CronJobs = {1, 2}
    MaxOwn = 2
INVARIANT OwnLinesStay
CHECK_DEADLOCK FALSE
