CONSTANTS
    Addrs = {a1}
    Slots = {s1, s2}
    TTL = 2
    MaxStarts = 2
    MaxBoots = 1
    Off = Off
    Workers = {w1, w2}
    Callers = {c1, c2}
    MaxTime = 2
    MaxLimiters = 2
    MaxDefs = 2
    MaxCalls = 5
    NoJob = NoJob
    RouteAddrs = {x, y, z}
    Hashes = {0, 5}
    MaxRoutes = 4
    Runs = {r1}
    Builtin = {"SHELL", "CMD"}
    MaxOutput = 5
    MaxChunk = 2
    Names = {t1}
    Values = {v1}
    MaxID = 2
    MaxUpdates = 2
    MaxJobs = 1
    QueueCap = 2
    MaxEvents = 3
SPECIFICATION ClusterSpec
INVARIANTS
    ClusterTypeOK
    LeaveIsFinal
    
    LimitsHold
    LastCallHolds
    
    
    
    StopDrains
SYMMETRY Symmetry
CHECK_DEADLOCK FALSE
