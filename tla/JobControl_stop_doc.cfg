CONSTANTS
    Callers = {c1, c2}
    MaxDefs = 2
    MaxCalls = 5
    NoJob = NoJob
SPECIFICATION Spec
INVARIANT StopDisables
CHECK_DEADLOCK FALSE
