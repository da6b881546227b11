\* An immediate execution overlaps with a polling pass.
SPECIFICATION Spec
CONSTANTS
    o1 = o1  o2 = o2  o3 = o3  o4 = o4  b1 = b1  b2 = b2
    api1 = api1  api2 = api2  ws1 = ws1  poll1 = poll1
    NoOrder = NoOrder
    OrderIds = {o1, o2}
    Books = {b1}
    DeliveryBooks = {}
    Holding <- NoHolding
    Quantities <- OneUnit
    Rates = {1}
    Pnls <- Flat
    ApiThreads = {api1}
    WsThreads = {}
    PollThreads = {poll1}
    Kinds = {"marketable"}
    Requests = {}
    Serial = FALSE
    MaxFaults = 0
    Capital = 6
SYMMETRY OrderSymmetry
INVARIANTS OneTradePerOrder
\* An account that has used all its order identifiers may stop.
CHECK_DEADLOCK FALSE
