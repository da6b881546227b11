------------------------ MODULE SandboxAccountChecks ------------------------
(***************************************************************************)
(* What is checked of SandboxAccount that takes sums over books or         *)
(* threads, and its refinement of SandboxOrderBook.                        *)
(***************************************************************************)
EXTENDS SandboxAccount, FiniteSetsExt

\* When nothing is under way, the blocked money is what the open positions and
\* the open orders have blocked: margin is blocked when an order is placed and
\* released when the order is cancelled or the position closed, not otherwise.
MarginAccounted ==
    Quiescent =>
        funds.used = TotalMargin(positions)
                     + MapThenSumSet(LAMBDA o : orders[o].margin,
                                     {o \in OrderIds : Open(o)})

\* When nothing is under way, the profit booked on the funds row is the sum of
\* the profits the positions record: _update_position books each one in both.
RealizedIsSum ==
    Quiescent =>
        funds.realized = MapThenSumSet(LAMBDA b : positions[b].realized, Books)

(***************************************************************************)
(* Quantity of a fill whose trade is committed and whose position is not:  *)
(* between the commit of _execute_order and that of _update_position.      *)
(***************************************************************************)
InFlight(t, b) ==
    LET th  == threads[t]
        row == IF th.step = "position" THEN orders[th.oid] ELSE th.row
    IN  IF th.step \in {"position", "release", "apply"} /\ row.book = b
        THEN row.qty ELSE 0

Net(b) == positions[b].qty + MapThenSumSet(LAMBDA t : InFlight(t, b), Threads)

OrderBook == INSTANCE SandboxOrderBook WITH
    Quantities <- Int \ {0},
    status     <- [o \in OrderIds |-> orders[o].status],
    order      <- [o \in OrderIds |-> [book |-> orders[o].book, qty |-> orders[o].qty]],
    net        <- [b \in Books |-> Net(b)]

\* Operations that do not overlap implement the order book: every order goes
\* through its life once and every fill reaches its position once.
ImplementsOrderBook == OrderBook!Spec
=============================================================================
