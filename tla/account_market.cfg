\* MARKET orders and closes, in sequence, over two books.
SPECIFICATION Spec
CONSTANTS
    o1 = o1  o2 = o2  o3 = o3  o4 = o4  b1 = b1  b2 = b2
    api1 = api1  api2 = api2  ws1 = ws1  poll1 = poll1
    NoOrder = NoOrder
    OrderIds = {o1, o2, o3}
    Books = {b1, b2}
    DeliveryBooks = {}
    Holding <- NoHolding
    Quantities <- TwoUnits
    Rates = {2, 4}
    Pnls <- GainOrLoss
    ApiThreads = {api1}
    WsThreads = {}
    PollThreads = {}
    Kinds = {"market"}
    Requests = {"close"}
    Serial = TRUE
    MaxFaults = 0
    Capital = 12
SYMMETRY OrderSymmetry
INVARIANTS  UsedNotNegative RealizedIsSum
\* An account that has used all its order identifiers may stop.
CHECK_DEADLOCK FALSE
