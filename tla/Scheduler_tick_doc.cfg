CONSTANTS
    j1 = j1
    Nodes = {n1, n2}
    Workers = {w1}
    Jobs = {j1}
    CronOf <- Every
    Discard = {}
    Fanout <- One
    Period = 1
    LockTTL = 2
    Deadline = 2
    QueueCap = 2
    MaxTime = 1
    MaxManual = 0
    MaxLogs = 4
    MaxOps = 0
    Ops <- NoOps
    Failing = FALSE
    Crashing = FALSE
    Prompt = TRUE
    InOrder = TRUE
SPECIFICATION Spec
SYMMETRY Symmetry
INVARIANT SameTickOnce
CHECK_DEADLOCK FALSE
