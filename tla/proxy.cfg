SPECIFICATION Spec
CONSTANTS
    Symbols = {s1, s2}
    Modes = {1, 2}
    MaxSymbols = 1
    MaxConnections = 2
    Clients = {c1, c2}
    None = None
    MaxLogins = 1
    MaxWanted = 2
    MaxRefusals = 1
INVARIANTS TypeOK IndexMatches PoolCounts PoolOneConnection Served NothingUnused AdapterNeeded Fresh
SYMMETRY Symmetry
CHECK_DEADLOCK FALSE
