CONSTANTS Processes = {p1, p2} MaxWatchEnds = 1
SPECIFICATION FairSpec
INVARIANTS TypeOK OneScheduler 
PROPERTY Takeover
CHECK_DEADLOCK FALSE
