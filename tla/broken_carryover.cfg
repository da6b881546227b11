SPECIFICATION Spec
CONSTANTS
    MisBooks = {mis}
    CncBooks = {cnc1}
    FoBooks = {opt}
    Cron = cron
    Backup = backup
    Midnight = midnight
    Login = login
    Viewer = viewer
    MaxQty = 1
    Capital = 9
    MaxOrders = 2
    MaxCrashes = 0
    Circumstances = {}
PROPERTIES CatchesUpWithPast
CHECK_DEADLOCK FALSE
