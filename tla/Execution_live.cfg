CONSTANTS
    r1 = r1  r2 = r2  l1 = l1
    Killers = {k1}
    Stoppers = {s1, s2}
    None = None
    Graceful = TRUE
    TTLOutlives = TRUE
    Logs = {row1, row2}
    Jobs <- MCJobs
    Children <- MCChildren
    RetryCount <- MCRetryCount
    Window = 0
    Cap = 1
    MaxTimers = 1
    MaxFires = 1
    MaxReports = 1
SPECIFICATION ExecutionSpec
INVARIANTS VerdictIsEarned RunningIsWatched
PROPERTIES StopReturns DrainSettles RetriesEnd
CHECK_DEADLOCK FALSE
