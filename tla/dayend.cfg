SPECIFICATION FairSpec
CONSTANTS
    MisBooks = {mis}
    CncBooks = {cnc1, cnc2}
    FoBooks = {opt}
    Cron = cron
    Backup = backup
    Midnight = midnight
    Login = login
    Viewer = viewer
    MaxQty = 1
    Capital = 9
    MaxOrders = 2
    MaxCrashes = 1
    Circumstances = {"fails"}
INVARIANTS TypeOK  SharesKept 
PROPERTIES SquaredOff
CHECK_DEADLOCK FALSE
