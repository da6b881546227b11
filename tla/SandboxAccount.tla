--------------------------- MODULE SandboxAccount ---------------------------
(***************************************************************************)
(* One user's account of the sandbox (paper trading) engine:               *)
(* sandbox/order_manager.py, execution_engine.py, fund_manager.py and the  *)
(* part of websocket_execution_engine.py and position_manager.py that      *)
(* calls them.  The tables sandbox_orders, sandbox_trades,                 *)
(* sandbox_positions and sandbox_funds are shared; each thread has its own *)
(* SQLAlchemy session, so a thread works on copies of the rows it loaded   *)
(* and its writes appear when it commits.  One action is what a thread     *)
(* does from one of its reads or commits up to the next one.               *)
(*                                                                         *)
(* Three kinds of threads act on the account: request threads (place,      *)
(* modify, cancel, close, read funds), market data threads (a tick runs    *)
(* the pending orders of WebSocketExecutionEngine's index) and polling     *)
(* threads (a pass runs every open order of the table).                    *)
(***************************************************************************)
EXTENDS SandboxFunds, SandboxNetting, FiniteSets

CONSTANTS
    OrderIds,       \* identifiers _generate_order_id may return
    Books,          \* (symbol, exchange, product) triples: keys of a position
    DeliveryBooks,  \* the books whose product is CNC (equity delivery)
    Holding,        \* settled holdings quantity of each delivery book
    Quantities,     \* signed order quantities requests use
    Rates,          \* margins per unit of quantity requests meet
    Pnls,           \* profits and losses a fill may realize
    ApiThreads, WsThreads, PollThreads,
    NoOrder,        \* null order identifier
    (* Scenario: which part of the behaviour an instance explores. *)
    Kinds,          \* kinds of order placed
    Requests,       \* other requests made
    Serial,         \* TRUE: operations do not overlap in time
    MaxFaults       \* bound on crashes and database errors

Threads == ApiThreads \cup WsThreads \cup PollThreads

AllKinds == {"market", "marketable", "resting"}
AllRequests == {"cancel", "modify", "close", "funds"}

ASSUME AccountAssumption ==
    /\ IsFiniteSet(Books) /\ Books # {}
    /\ DeliveryBooks \subseteq Books
    /\ Holding \in [DeliveryBooks -> Nat]
    /\ Quantities \subseteq Int \ {0}
    /\ Rates \subseteq Nat \ {0}
    /\ Pnls \subseteq Int
    /\ IsFiniteSet(Threads)
    /\ ApiThreads \cap WsThreads = {}
    /\ PollThreads \cap (ApiThreads \cup WsThreads) = {}
    /\ NoOrder \notin OrderIds
    /\ Kinds \subseteq AllKinds
    /\ Requests \subseteq AllRequests
    /\ Serial \in BOOLEAN
    /\ MaxFaults \in Nat

VARIABLES
    funds,      \* the row of sandbox_funds
    orders,     \* sandbox_orders, by orderid ("none": no such row)
    trades,     \* how many rows of sandbox_trades an orderid has
    traded,     \* signed quantity traded in a book since the last reset
    positions,  \* sandbox_positions, by book
    index,      \* WebSocketExecutionEngine._pending_orders_index
    resetDue,   \* a configured weekly reset has not been applied yet
    threads,    \* what each thread is doing, with its copies of rows
    faults      \* crashes and database errors so far

tables == <<funds, orders, trades, traded, positions, resetDue>>
vars == <<tables, index, threads, faults>>

-----------------------------------------------------------------------------
(* Rows and thread states *)

Statuses == {"none", "open", "complete", "cancelled", "rejected"}

OrderRow ==
    [status : Statuses, book : Books, qty : Int, margin : Nat]

NoRow == [status |-> "none", book |-> CHOOSE b \in Books : TRUE,
          qty |-> 0, margin |-> 0]

Steps == {"idle",
          "block", "insert", "reject",                  \* place_order
          "load", "check", "execute",                   \* _process_order
          "position", "release", "apply",               \* _update_position
          "sum", "read", "reconcile",                   \* reconcile_margin
          "finish", "pass",
          "cancel", "modify", "reset", "wipe"}

ThreadState ==
    [step   : Steps,
     oid    : OrderIds \cup {NoOrder},   \* the order being worked on
     row    : OrderRow,                  \* copy of that order's row
     kind   : AllKinds,                  \* of the order being placed
     held   : PositionRow,               \* copy of the position's row
     pnl    : Int,                       \* profit the fill realizes
     total  : Nat,                       \* position margin summed up
     seen   : FundsRow,                  \* copy of the funds row
     picked : SUBSET (OrderIds \X OrderRow)] \* rest of a polling pass

Idle == [step |-> "idle", oid |-> NoOrder, row |-> NoRow, kind |-> "resting",
         held |-> NoPosition, pnl |-> 0, total |-> 0, seen |-> InitialFunds,
         picked |-> {}]

(***************************************************************************)
(* The sum of margin_blocked over the open positions.  The margins are     *)
(* natural numbers, so the sum is counted: one pair for every unit of      *)
(* margin of every open position.                                          *)
(***************************************************************************)
MarginUnits(pos, b) == {b} \X (1 .. pos[b].margin)

TotalMargin(pos) ==
    Cardinality(UNION {MarginUnits(pos, b) : b \in {c \in Books : pos[c].qty # 0}})

TypeOK ==
    /\ funds \in FundsRow
    /\ orders \in [OrderIds -> OrderRow]
    /\ trades \in [OrderIds -> Nat]
    /\ traded \in [Books -> Int]
    /\ positions \in [Books -> PositionRow]
    /\ index \subseteq OrderIds
    /\ resetDue \in BOOLEAN
    /\ threads \in [Threads -> ThreadState]
    /\ faults \in 0 .. MaxFaults

Init ==
    /\ funds = InitialFunds
    /\ orders = [o \in OrderIds |-> NoRow]
    /\ trades = [o \in OrderIds |-> 0]
    /\ traded = [b \in Books |-> 0]
    /\ positions = [b \in Books |-> NoPosition]
    /\ index = {}
    /\ resetDue = ("funds" \in Requests)
    /\ threads = [t \in Threads |-> Idle]
    /\ faults = 0

-----------------------------------------------------------------------------
(* Helpers of the actions *)

At(t, step) == threads[t].step = step

MayStart(t) ==
    /\ At(t, "idle")
    /\ Serial => \A u \in Threads : At(u, "idle")

Goto(t, step) == threads' = [threads EXCEPT ![t].step = step]

Become(t, state) == threads' = [threads EXCEPT ![t] = state]

Open(o) == orders[o].status = "open"

\* place_order: every order blocks margin but a CNC sale of owned shares.
BlocksMargin(row) == ~(row.book \in DeliveryBooks /\ row.qty < 0)

\* place_order: a CNC sale needs that much in the position and the holdings.
Deliverable(b, q, held) ==
    \/ b \notin DeliveryBooks
    \/ q > 0
    \/ -q <= (IF held > 0 THEN held ELSE 0) + Holding[b]

-----------------------------------------------------------------------------
(* OrderManager.place_order and PositionManager.close_position *)

(***************************************************************************)
(* The request is validated against the position row as it is now, and the *)
(* margin to block is fixed.  The validations that depend on the request   *)
(* alone (symbol, lot size, price fields) decide before any state is read. *)
(***************************************************************************)
PlaceOrder(t) ==
    /\ MayStart(t)
    /\ \E b \in Books, q \in Quantities, rate \in Rates, kind \in Kinds :
         LET held == positions[b].qty
             need == MarginToBlock(held, q, rate)
             ok   == Deliverable(b, q, held)
         IN  Become(t, [Idle EXCEPT
               !.step = IF ok THEN "block" ELSE "reject",
               !.kind = kind,
               !.row  = [status |-> IF ok THEN "open" ELSE "rejected",
                         book   |-> b,
                         qty    |-> q,
                         margin |-> IF ok THEN need ELSE 0]])
    /\ UNCHANGED <<tables, index, faults>>

(***************************************************************************)
(* close_position reads the position and places the reverse MARKET order.  *)
(* place_order then reads the same session object again, so what it sees   *)
(* is the quantity close_position read: nothing to block.  A quantity of   *)
(* zero fails place_order's validation.                                    *)
(***************************************************************************)
ClosePosition(t) ==
    /\ "close" \in Requests
    /\ MayStart(t)
    /\ \E b \in Books, kind \in Kinds \ {"marketable"} :
         /\ positions[b].live
         /\ positions[b].qty # 0
         /\ Become(t, [Idle EXCEPT
              !.step = "block",
              !.kind = kind,
              !.row  = [status |-> "open", book |-> b,
                        qty |-> -positions[b].qty, margin |-> 0]])
    /\ UNCHANGED <<tables, index, faults>>

\* FundManager.block_margin: check and update under the lock, one commit.
BlockMarginStep(t) ==
    LET row == threads[t].row
        due == IF BlocksMargin(row) THEN row.margin ELSE 0
    IN  /\ At(t, "block")
        /\ \/ /\ CanBlock(funds, due) \/ due = 0
              /\ funds' = BlockMargin(funds, due)
              /\ Goto(t, "insert")
           \/ /\ ~CanBlock(funds, due) /\ due > 0
              /\ Become(t, Idle)
              /\ UNCHANGED funds
        /\ UNCHANGED <<orders, trades, traded, positions, resetDue, index, faults>>

\* Variant: the engine is told of the order before place_order runs it.
InsertOrderNotified(t) ==
    /\ At(t, "insert")
    /\ \E o \in OrderIds :
         /\ orders[o].status = "none"
         /\ orders' = [orders EXCEPT ![o] = threads[t].row]
         /\ threads' = [threads EXCEPT
              ![t].oid  = o,
              ![t].step = IF threads[t].kind = "resting" THEN "finish" ELSE "load"]
         /\ index' = IF WsThreads # {} THEN index \cup {o} ELSE index
    /\ UNCHANGED <<funds, trades, traded, positions, resetDue, faults>>

\* The row is committed as open; what follows depends on the price type.
InsertOrder(t) ==
    /\ At(t, "insert")
    /\ \E o \in OrderIds :
         /\ orders[o].status = "none"
         /\ orders' = [orders EXCEPT ![o] = threads[t].row]
         /\ threads' = [threads EXCEPT
              ![t].oid  = o,
              ![t].step = IF threads[t].kind = "resting" THEN "finish" ELSE "load"]
    /\ UNCHANGED <<funds, trades, traded, positions, resetDue, index, faults>>

\* A CNC sale without the shares is kept as a rejected order.
InsertRejected(t) ==
    /\ At(t, "reject")
    /\ \E o \in OrderIds :
         /\ orders[o].status = "none"
         /\ orders' = [orders EXCEPT ![o] = threads[t].row]
    /\ Become(t, Idle)
    /\ UNCHANGED <<funds, trades, traded, positions, resetDue, index, faults>>

-----------------------------------------------------------------------------
(* Who runs a pending order *)

\* Variant: whatever is in the index is processed.
TickUnchecked(t) ==
    /\ t \in WsThreads
    /\ MayStart(t)
    /\ \E o \in index :
         Become(t, [Idle EXCEPT !.step = "check", !.oid = o, !.row = orders[o]])
    /\ UNCHANGED <<tables, index, faults>>

(***************************************************************************)
(* _on_market_data and _check_and_execute_order: an indexed order still    *)
(* open is processed at this tick, any other is dropped from the index.    *)
(***************************************************************************)
Tick(t) ==
    /\ t \in WsThreads
    /\ MayStart(t)
    /\ \E o \in index :
         \/ /\ Open(o)
            /\ Become(t, [Idle EXCEPT !.step = "check", !.oid = o,
                                      !.row = orders[o]])
            /\ UNCHANGED index
         \/ /\ ~Open(o)
            /\ index' = index \ {o}
            /\ UNCHANGED threads
    /\ UNCHANGED <<tables, faults>>

\* check_and_execute_pending_orders: the open orders are loaded once.
PollPass(t) ==
    /\ t \in PollThreads
    /\ MayStart(t)
    /\ \E o \in OrderIds : Open(o)
    /\ Become(t, [Idle EXCEPT !.step = "pass",
                              !.picked = {<<o, orders[o]>> :
                                            o \in {p \in OrderIds : Open(p)}}])
    /\ UNCHANGED <<tables, index, faults>>

\* A commit expires every row its session holds: it is read again on access.
Expire(picked) == {<<p[1], NoRow>> : p \in picked}

\* ... and processed one by one, whatever became of them meanwhile: from the
\* copy of the selection, or read again once the pass has committed.
PollOrder(t) ==
    /\ At(t, "pass")
    /\ \E p \in threads[t].picked :
         threads' = [threads EXCEPT
           ![t].step   = IF p[2] = NoRow THEN "load" ELSE "check",
           ![t].oid    = p[1],
           ![t].row    = p[2],
           ![t].picked = @ \ {p}]
    /\ UNCHANGED <<tables, index, faults>>

-----------------------------------------------------------------------------
(* ExecutionEngine._process_order and _execute_order *)

\* The order's row is (re)loaded into the session of the thread.
LoadOrder(t) ==
    /\ At(t, "load")
    /\ threads' = [threads EXCEPT
         ![t].row  = orders[threads[t].oid],
         ![t].step = IF t \in ApiThreads /\ threads[t].kind = "marketable"
                     THEN "execute"      \* place_order calls _execute_order
                     ELSE "check"]
    /\ UNCHANGED <<tables, index, faults>>

(***************************************************************************)
(* _process_order: an order that has a trade already is only marked        *)
(* complete; otherwise it executes when the quote meets its price, as it   *)
(* always does for the MARKET order a request runs.  The status of the     *)
(* loaded row is not looked at.                                            *)
(***************************************************************************)
CheckTrade(t) ==
    LET o == threads[t].oid
    IN  /\ At(t, "check")
        /\ \/ /\ trades[o] > 0
              /\ \/ /\ threads[t].row.status = "open"
                    /\ orders' = [orders EXCEPT ![o].status = "complete"]
                    /\ threads' = [threads EXCEPT ![t].step = "finish",
                                                  ![t].picked = Expire(@)]
                 \/ /\ threads[t].row.status # "open"
                    /\ Goto(t, "finish")
                    /\ UNCHANGED orders
           \/ /\ trades[o] = 0
              /\ \/ Goto(t, "execute")
                 \/ /\ t \notin ApiThreads
                    /\ Goto(t, "finish")
              /\ UNCHANGED orders
        /\ UNCHANGED <<funds, trades, traded, positions, resetDue, index, faults>>

\* Variant: the trade is committed before the status.
ExecuteOrderUnmarked(t) ==
    LET row == threads[t].row
    IN  /\ At(t, "execute")
        /\ trades' = [trades EXCEPT ![threads[t].oid] = @ + 1]
        /\ traded' = [traded EXCEPT ![row.book] = @ + row.qty]
        /\ threads' = [threads EXCEPT ![t].step = "position",
                                      ![t].picked = Expire(@)]
        /\ UNCHANGED <<funds, orders, positions, resetDue, index, faults>>

\* _execute_order: the trade and the status "complete" in one commit (a
\* column is written only when it differs from the loaded row's).
ExecuteOrder(t) ==
    LET o == threads[t].oid
        row == threads[t].row
    IN  /\ At(t, "execute")
        /\ trades' = [trades EXCEPT ![o] = @ + 1]
        /\ traded' = [traded EXCEPT ![row.book] = @ + row.qty]
        /\ orders' = IF row.status = "complete" THEN orders
                     ELSE [orders EXCEPT ![o].status = "complete"]
        /\ threads' = [threads EXCEPT ![t].step = "position",
                                      ![t].picked = Expire(@)]
        /\ UNCHANGED <<funds, positions, resetDue, index, faults>>

-----------------------------------------------------------------------------
(* ExecutionEngine._update_position *)

\* The position is read; the order's row was expired by the commit.
ReadPosition(t) ==
    LET row  == orders[threads[t].oid]
        held == positions[row.book]
    IN  /\ At(t, "position")
        /\ \E pnl \in Pnls :
             threads' = [threads EXCEPT
               ![t].row  = row,
               ![t].held = held,
               ![t].pnl  = IF Realizes(held, row.qty) THEN pnl ELSE 0,
               ![t].step = IF MarginReleased(held, row.qty) > 0
                           THEN "release" ELSE "apply"]
        /\ UNCHANGED <<tables, index, faults>>

(***************************************************************************)
(* release_margin commits the whole session.  On a reduction the new       *)
(* accumulated_realized_pnl is already in it, on a full close it is not.   *)
(***************************************************************************)
ReleaseMarginStep(t) ==
    LET th == threads[t]
        b  == th.row.book
    IN  /\ At(t, "release")
        /\ positions[b].live \/ Closes(th.held, th.row.qty)
        /\ funds' = ReleaseMargin(funds, MarginReleased(th.held, th.row.qty), th.pnl)
        /\ positions' = IF Reduces(th.held, th.row.qty)
                        THEN [positions EXCEPT ![b].realized = th.held.realized + th.pnl]
                        ELSE positions
        /\ Goto(t, "apply")
        /\ UNCHANGED <<orders, trades, traded, resetDue, index, faults>>

\* Variant: a reduction books its profit again with the netted position.
RealizedTwice(now, held, q, pnl) == now + pnl

\* accumulated_realized_pnl when the position's changes are committed.
RealizedAfter(now, held, q, pnl) ==
    LET released == MarginReleased(held, q) > 0
    IN  IF released THEN IF Closes(held, q) THEN now + pnl ELSE now
        ELSE IF pnl = 0 THEN now ELSE held.realized + pnl

\* margin_blocked likewise: left alone when the fill does not change it.
MarginCommitted(now, held, q, orderMargin) ==
    LET m == MarginAfter(held, q, orderMargin)
    IN  IF m = held.margin /\ MarginReleased(held, q) = 0 THEN now ELSE m

\* Variant: the excess of a reversal is forgotten.
ApplyPositionFlat(t) ==
    LET th == threads[t]
        b  == th.row.book
        q  == th.held.qty + th.row.qty
    IN  /\ At(t, "apply")
        /\ positions[b].live = th.held.live
        /\ positions' = [positions EXCEPT ![b] =
             [live     |-> TRUE,
              qty      |-> IF Reverses(th.held, th.row.qty) THEN 0 ELSE q,
              margin   |-> MarginCommitted(positions[b].margin, th.held,
                                           th.row.qty, th.row.margin),
              realized |-> RealizedAfter(positions[b].realized, th.held,
                                         th.row.qty, th.pnl)]]
        /\ Goto(t, "sum")
        /\ UNCHANGED <<funds, orders, trades, traded, resetDue, index, faults>>

\* The netted position is committed: computed from the copy read earlier.
ApplyPosition(t) ==
    LET th == threads[t]
        b  == th.row.book
    IN  /\ At(t, "apply")
        /\ positions[b].live = th.held.live
        /\ positions' = [positions EXCEPT ![b] =
             [live     |-> TRUE,
              qty      |-> th.held.qty + th.row.qty,
              margin   |-> MarginCommitted(positions[b].margin, th.held,
                                           th.row.qty, th.row.margin),
              realized |-> RealizedAfter(positions[b].realized, th.held,
                                         th.row.qty, th.pnl)]]
        /\ Goto(t, "sum")
        /\ UNCHANGED <<funds, orders, trades, traded, resetDue, index, faults>>

(***************************************************************************)
(* The position row was inserted or deleted by another thread since it was *)
(* read: the session raises, and _execute_order marks the order rejected.  *)
(***************************************************************************)
LosePosition(t) ==
    LET th == threads[t]
        b  == th.row.book
    IN  /\ \/ At(t, "apply")
           \/ At(t, "release") /\ ~Closes(th.held, th.row.qty)
        /\ positions[b].live # th.held.live
        /\ orders' = [orders EXCEPT ![th.oid].status = "rejected"]
        /\ Goto(t, "finish")
        /\ UNCHANGED <<funds, trades, traded, positions, resetDue, index, faults>>

-----------------------------------------------------------------------------
(* validate_margin_consistency and reconcile_margin *)

SumPositions(t) ==
    /\ At(t, "sum")
    /\ threads' = [threads EXCEPT ![t].total = TotalMargin(positions),
                                  ![t].step = "read"]
    /\ UNCHANGED <<tables, index, faults>>

\* Variant: a discrepancy is reported and not fixed.
ReadFundsUnfixed(t) ==
    /\ At(t, "read")
    /\ threads' = [threads EXCEPT ![t].seen = funds, ![t].step = "finish"]
    /\ UNCHANGED <<tables, index, faults>>

\* The funds row is read without FundManager._lock.
ReadFunds(t) ==
    /\ At(t, "read")
    /\ threads' = [threads EXCEPT
         ![t].seen = funds,
         ![t].step = IF funds.used = threads[t].total THEN "finish" ELSE "reconcile"]
    /\ UNCHANGED <<tables, index, faults>>

Reconcile(t) ==
    /\ At(t, "reconcile")
    /\ funds' = ReconcileMargin(funds, threads[t].seen, threads[t].total)
    /\ Goto(t, "finish")
    /\ UNCHANGED <<orders, trades, traded, positions, resetDue, index, faults>>

-----------------------------------------------------------------------------
(* What the caller does when the order has been run *)

\* Variant: the tick drops the order whether or not it was executed.
FinishDropped(t) ==
    LET o == threads[t].oid
    IN  /\ At(t, "finish")
        /\ index' = IF t \in ApiThreads /\ Open(o) /\ WsThreads # {}
                    THEN index \cup {o} ELSE index \ {o}
        /\ Become(t, Idle)
        /\ UNCHANGED <<tables, faults>>

(***************************************************************************)
(* place_order hands an order that is still open to the WebSocket engine   *)
(* when one runs; _check_and_execute_order drops one that is not open any  *)
(* more; a polling pass goes on to its next order.                         *)
(***************************************************************************)
Finish(t) ==
    LET o == threads[t].oid
    IN  /\ At(t, "finish")
        /\ \/ /\ t \in ApiThreads
              /\ index' = IF Open(o) /\ WsThreads # {} THEN index \cup {o} ELSE index
              /\ Become(t, Idle)
           \/ /\ t \in WsThreads
              /\ index' = IF Open(o) THEN index ELSE index \ {o}
              /\ Become(t, Idle)
           \/ /\ t \in PollThreads
              /\ Become(t, IF threads[t].picked = {} THEN Idle
                           ELSE [Idle EXCEPT !.step = "pass",
                                             !.picked = threads[t].picked])
              /\ UNCHANGED index
        /\ UNCHANGED <<tables, faults>>

-----------------------------------------------------------------------------
(* OrderManager.cancel_order and modify_order *)

\* Variant: an order in any status may be cancelled.
LoadAnyForRequest(t, request) ==
    /\ request \in Requests
    /\ MayStart(t)
    /\ \E o \in OrderIds :
         /\ orders[o].status # "none"
         /\ Become(t, [Idle EXCEPT !.step = request, !.oid = o, !.row = orders[o]])
    /\ UNCHANGED <<tables, index, faults>>

\* Both read the order and go on only when it is open.
LoadForRequest(t, request) ==
    /\ request \in Requests
    /\ MayStart(t)
    /\ \E o \in OrderIds :
         /\ Open(o)
         /\ Become(t, [Idle EXCEPT !.step = request, !.oid = o, !.row = orders[o]])
    /\ UNCHANGED <<tables, index, faults>>

(***************************************************************************)
(* The status and the release of margin are one commit.  For an order with *)
(* no margin the fallback recomputes one from the order's own price or the *)
(* last traded price, at any of the rates.                                 *)
(***************************************************************************)
CancelOrder(t) ==
    LET o == threads[t].oid
        row == threads[t].row
    IN  /\ At(t, "cancel")
        /\ orders' = [orders EXCEPT ![o].status = "cancelled"]
        /\ \E rate \in Rates :
             funds' = ReleaseMargin(funds,
                        IF row.margin > 0 THEN row.margin
                        ELSE IF BlocksMargin(row) THEN MarginRequired(row.qty, rate)
                        ELSE 0, 0)
        /\ Become(t, Idle)
        /\ UNCHANGED <<trades, traded, positions, resetDue, index, faults>>

\* Variant: the whole row is written back as it was loaded.
ModifyOrderWhole(t) ==
    LET row == threads[t].row
    IN  /\ At(t, "modify")
        /\ \E q \in Quantities :
             /\ (q > 0) = (row.qty > 0)
             /\ orders' = [orders EXCEPT ![threads[t].oid] = [row EXCEPT !.qty = q]]
        /\ Become(t, Idle)
        /\ UNCHANGED <<funds, trades, traded, positions, resetDue, index, faults>>

\* A new quantity in the same direction; margin_blocked is left as it is.
ModifyOrder(t) ==
    /\ At(t, "modify")
    /\ \E q \in Quantities :
         /\ (q > 0) = (threads[t].row.qty > 0)
         /\ orders' = [orders EXCEPT ![threads[t].oid].qty = q]
    /\ Become(t, Idle)
    /\ UNCHANGED <<funds, trades, traded, positions, resetDue, index, faults>>

-----------------------------------------------------------------------------
(* FundManager.get_funds with a weekly reset configured *)

\* _check_and_reset_funds compares last_reset_date without the lock.
GetFunds(t) ==
    /\ "funds" \in Requests
    /\ MayStart(t)
    /\ resetDue
    /\ Goto(t, "reset")
    /\ UNCHANGED <<tables, index, faults>>

\* _reset_funds, first commit: the funds row.  Orders are left alone.
ResetFunds(t) ==
    /\ At(t, "reset")
    /\ funds' = InitialFunds
    /\ resetDue' = FALSE
    /\ Goto(t, "wipe")
    /\ UNCHANGED <<orders, trades, traded, positions, index, faults>>

\* _reset_funds, second commit: all positions (and holdings) are deleted.
WipePositions(t) ==
    /\ At(t, "wipe")
    /\ positions' = [b \in Books |-> NoPosition]
    /\ traded' = [b \in Books |-> 0]
    /\ Become(t, Idle)
    /\ UNCHANGED <<funds, orders, trades, resetDue, index, faults>>

-----------------------------------------------------------------------------
(* Faults *)

(***************************************************************************)
(* The process dies and starts again: the sessions and the index are lost, *)
(* the tables stay, WebSocketExecutionEngine.start rebuilds the index.     *)
(***************************************************************************)
Crash ==
    /\ faults < MaxFaults
    /\ faults' = faults + 1
    /\ threads' = [t \in Threads |-> Idle]
    /\ index' = IF WsThreads # {} THEN {o \in OrderIds : Open(o)} ELSE {}
    /\ UNCHANGED tables

\* A commit of _execute_order or _update_position fails: order rejected.
CommitFails(t) ==
    /\ faults < MaxFaults
    /\ faults' = faults + 1
    /\ At(t, "execute") \/ At(t, "apply")
    /\ orders' = [orders EXCEPT ![threads[t].oid].status = "rejected"]
    /\ threads' = [threads EXCEPT ![t].step = "finish", ![t].picked = Expire(@)]
    /\ UNCHANGED <<funds, trades, traded, positions, resetDue, index>>

\* release_margin rolls back and returns False; its caller ignores that.
ReleaseFails(t) ==
    /\ faults < MaxFaults
    /\ faults' = faults + 1
    /\ At(t, "release")
    /\ positions[threads[t].row.book].live
    /\ Goto(t, "apply")
    /\ UNCHANGED <<tables, index>>

-----------------------------------------------------------------------------

Request(t) ==
    \/ PlaceOrder(t)
    \/ ClosePosition(t)
    \/ LoadForRequest(t, "cancel")
    \/ LoadForRequest(t, "modify")
    \/ GetFunds(t)

\* The steps a thread takes once it has started something.
Continue(t) ==
    \/ BlockMarginStep(t) \/ InsertOrder(t) \/ InsertRejected(t)
    \/ PollOrder(t) \/ LoadOrder(t) \/ CheckTrade(t) \/ ExecuteOrder(t)
    \/ ReadPosition(t) \/ ReleaseMarginStep(t) \/ ApplyPosition(t) \/ LosePosition(t)
    \/ SumPositions(t) \/ ReadFunds(t) \/ Reconcile(t) \/ Finish(t)
    \/ CancelOrder(t) \/ ModifyOrder(t)
    \/ ResetFunds(t) \/ WipePositions(t)

Next ==
    \/ \E t \in ApiThreads : Request(t)
    \/ \E t \in WsThreads : Tick(t)
    \/ \E t \in PollThreads : PollPass(t)
    \/ \E t \in Threads : Continue(t) \/ CommitFails(t) \/ ReleaseFails(t)
    \/ Crash

Spec == Init /\ [][Next]_vars

-----------------------------------------------------------------------------
(* Properties *)

Quiescent == \A t \in Threads : At(t, "idle")

\* No order is executed twice: place_order runs an order before it tells the
\* engine about it, and _process_order skips an order that has a trade.
OneTradePerOrder == \A o \in OrderIds : trades[o] <= 1

\* An order that still waits for its price has no trade and a complete one
\* has: trade and status are one commit in _execute_order.
TradeMeansNotOpen ==
    \A o \in OrderIds :
        /\ Open(o) => trades[o] = 0
        /\ orders[o].status = "complete" => trades[o] > 0

\* Money is neither made nor lost by blocking, releasing and reconciling
\* margin: balance and margin differ from the capital by booked profit only.
Conservation == Equity(funds) = Capital

\* When nothing is under way every position is the net of the user's trades:
\* the netting of _update_position loses and repeats no fill.
PositionIsNetOfTrades ==
    Quiescent => \A b \in Books : positions[b].qty = traded[b]

\* used_margin is an amount of blocked money: releases never exceed blocks.
UsedNotNegative == funds.used >= 0

\* An order the user cancelled is not traded: cancel_order refuses a complete
\* order, and an engine is to execute open ones only.
CancelledNotTraded ==
    \A o \in OrderIds : orders[o].status = "cancelled" => trades[o] = 0

\* Every open order that no request is still placing is in the engine's
\* index, so a tick of its symbol will look at it.
OpenOrdersIndexed ==
    \A o \in OrderIds :
        Open(o) => \/ o \in index
                  \/ \E t \in ApiThreads :
                        /\ threads[t].oid = o
                        /\ threads[t].step \notin {"idle", "cancel", "modify"}
=============================================================================
