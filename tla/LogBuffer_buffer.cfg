CONSTANTS
    Recs = {r1, r2, r3}
    BatchSize = 2
    RingCap = 1
SPECIFICATION FairSpec
INVARIANTS CreatedIsStored StopFlushes
PROPERTY AcceptedIsSettled
CHECK_DEADLOCK FALSE
