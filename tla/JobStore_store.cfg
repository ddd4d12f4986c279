CONSTANTS
    Ids = {j1}
    Times = {1}
    Callers = {c1, c2}
    MaxEntries = 2
    MaxOps = 1
    NoTime = NoTime
    NoJob = NoJob
SPECIFICATION FairSpec
INVARIANTS TypeOK CleanIsStored IndexesAgree
PROPERTY EventuallyStored
CHECK_DEADLOCK FALSE
