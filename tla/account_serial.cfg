\* Operations in sequence, a weekly reset among them, over a margin book and a
\* delivery book.
SPECIFICATION Spec
CONSTANTS
    o1 = o1  o2 = o2  o3 = o3  o4 = o4  b1 = b1  b2 = b2
    api1 = api1  api2 = api2  ws1 = ws1  poll1 = poll1
    NoOrder = NoOrder
    OrderIds = {o1, o2}
    Books = {b1, b2}
    DeliveryBooks = {b1}
    Holding <- OneHeld
    Quantities <- TwoUnits
    Rates = {2}
    Pnls <- GainOrLoss
    ApiThreads = {api1}
    WsThreads = {ws1}
    PollThreads = {}
    Kinds = {"market", "marketable", "resting"}
    Requests = {"cancel", "modify", "close", "funds"}
    Serial = TRUE
    MaxFaults = 0
    Capital = 6
INVARIANTS Conservation PositionIsNetOfTrades 
PROPERTIES ImplementsOrderBook
\* An account that has used all its order identifiers may stop.
CHECK_DEADLOCK FALSE
