CONSTANTS
    Jobs = {j1}
    Items = {1, 2}
    Workers = {w1}
    Callers = {c1, c2}
    None = None
    MaxQueue = 1
    MaxFaults = 1
SPECIFICATION Spec
INVARIANTS TypeOK CompletedIsDone PauseHolds
PROPERTY JobEnds
CHECK_DEADLOCK FALSE
