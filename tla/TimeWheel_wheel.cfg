CONSTANTS
    Slots <- MCSlots
    IDs = {i1}
    FireTimes = {2, 14}
    MaxAdds = 2
    MaxCancels = 1
    Cap = 1
    MaxStep = 2
    MaxTime = 21
SPECIFICATION Spec
INVARIANTS TypeOK LiveIsIndexed 
CHECK_DEADLOCK FALSE
