CONSTANTS
    r1 = r1  r2 = r2  r3 = r3
    l1 = l1  l2 = l2
    Reqs <- MCReqs
    Logs <- MCLogs
    LogOf <- MCLogOf
    Killers = {k1}
    Stoppers = {s1, s2}
    None = None
    Graceful = TRUE
    TTLOutlives = TRUE
SPECIFICATION Spec
INVARIANT DuplicateNilIsSuccess
CHECK_DEADLOCK FALSE
