CONSTANTS
    n1 = n1  n2 = n2  w1 = w1  w2 = w2  d1 = d1  j1 = j1  j2 = j2
    Nodes = {n1}
    Workers = {w1, w2}
    Jobs = {d1}
    CronOf <- Every
    Discard = {d1}
    Fanout <- One
    Period = 1
    LockTTL = 2
    Deadline = 2
    QueueCap = 2
    MaxTime = 2
    MaxManual = 1
    MaxLogs = 3
    MaxOps = 1
    Ops = {"add", "update", "remove", "stop"}
    Failing = FALSE
    Crashing = TRUE
    Prompt = TRUE
    InOrder = TRUE
SPECIFICATION CasesSpec
SYMMETRY Symmetry
INVARIANTS CasesTypeOK ArmedThroughout SentOncePerTick 
PROPERTY DispatchUnderLock
CHECK_DEADLOCK FALSE
