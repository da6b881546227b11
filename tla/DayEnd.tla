------------------------------- MODULE DayEnd -------------------------------
(***************************************************************************)
(* What happens to the positions of one user around the end of the day:    *)
(* square-off of intraday positions (squareoff_manager.py, run by the jobs *)
(* of squareoff_thread.py), settlement of delivery positions into holdings *)
(* (holdings_manager.py), settlement of expired contracts                  *)
(* (position_manager.py), and what a login catches up with                 *)
(* (catch_up_processor.py).  Each is a loop over a list read in advance,   *)
(* with commits in between; nothing keeps two of them, or a crash, apart.  *)
(*                                                                         *)
(* Every unit is bought, sold and margined at the price 1: profit arises   *)
(* when a contract expires worthless.  A fill is one step here; its own    *)
(* races, and the margin of orders that wait, are those of SandboxAccount. *)
(***************************************************************************)
EXTENDS SandboxFunds, SandboxNetting, FiniteSets, Functions

CONSTANTS
    MisBooks,           \* intraday books: product MIS
    CncBooks,           \* delivery books: product CNC
    FoBooks,            \* derivatives that expire: product NRML, an option
    Cron, Backup,       \* the two square-off jobs of an exchange
    Midnight,           \* the settlement job
    Login,              \* the thread of a login: run_catch_up_tasks
    Viewer,             \* a request that lists the positions, or a start in analyzer mode
    MaxQty,             \* bound: size of positions, holdings and orders
    MaxOrders,          \* bound: how many orders users place
    MaxCrashes,         \* bound: how often the server dies
    Circumstances       \* which of AllCircumstances may occur

AllCircumstances ==
    {"overlap",         \* a settlement starts while another one is under way
     "crash",           \* the server dies between two commits of a settlement
     "fails",           \* the first commit of a settlement fails
     "undoes",          \* a later one does, and takes back the deletion that was pending
     "together",        \* a square-off and a settlement are under way at one time
     "trades"}          \* users trade during a settlement

Books == MisBooks \cup CncBooks \cup FoBooks
Squarers == {Cron, Backup}
Settlers == {Midnight, Login, Viewer}
Jobs == Squarers \cup Settlers

ASSUME DayEndAssumption ==
    /\ IsFiniteSet(Books)
    /\ MisBooks \cap CncBooks = {} /\ MisBooks \cap FoBooks = {} /\ CncBooks \cap FoBooks = {}
    /\ Squarers \cap Settlers = {} /\ Cron # Backup
    /\ MaxQty \in Nat /\ MaxOrders \in Nat /\ MaxCrashes \in Nat
    /\ Circumstances \subseteq AllCircumstances

VARIABLES
    phase,          \* night until 9:00, day, and evening from the square-off time on
    cronDue,        \* the cron job of this evening has not run yet
    positions,      \* sandbox_positions
    created,        \* the day of created_at
    opened,         \* history: the day the present quantity was opened
    resting,        \* quantity of the open order of an intraday book, 0 for none
    holdings,       \* sandbox_holdings, 0 for none
    traded,         \* history: net quantity traded in a delivery book
    expired,        \* the contracts that have expired
    funds,          \* sandbox_funds
    jobs,           \* what each job is doing
    orders,         \* how many orders users have placed
    crashes,        \* how often the server has died
    disturbed       \* history: a circumstance has occurred

rows == <<positions, created, opened>>
vars == <<phase, cronDue, rows, resting, holdings, traded, expired, funds, jobs, orders, crashes, disturbed>>

Days == {"none", "today", "earlier"}
Tasks == {"idle",
          "cancel", "close", "check", "fill",   \* check_and_square_off
          "stale",                              \* catch_up_mis_squareoff
          "settle",                             \* process_t1_settlement
          "expire", "released"}                 \* _settle_expired_position

\* seen: the rows as the list was read; a commit of the job expires them.
\* gone: rows marked for deletion, which the next commit deletes.
JobRecord == [task : Tasks, book : Books \cup {Cron}, todo : SUBSET Books,
              seen : [Books -> PositionRow], fresh : BOOLEAN, gone : SUBSET Books]

Idle == [task |-> "idle", book |-> Cron, todo |-> {},
         seen |-> [b \in Books |-> NoPosition], fresh |-> FALSE, gone |-> {}]

TypeOK ==
    /\ phase \in {"night", "day", "evening"} /\ cronDue \in BOOLEAN
    /\ positions \in [Books -> PositionRow]
    /\ created \in [Books -> Days] /\ opened \in [Books -> Days]
    /\ resting \in [MisBooks -> Int]
    /\ holdings \in [CncBooks -> Int] /\ traded \in [CncBooks -> Int]
    /\ expired \subseteq FoBooks
    /\ funds \in FundsRow
    /\ jobs \in [Jobs -> JobRecord]
    /\ orders \in 0..MaxOrders /\ crashes \in 0..MaxCrashes /\ disturbed \in BOOLEAN

Init ==
    /\ phase = "day" /\ cronDue = FALSE
    /\ positions = [b \in Books |-> NoPosition]
    /\ created = [b \in Books |-> "none"] /\ opened = created
    /\ resting = [b \in MisBooks |-> 0]
    /\ holdings = [b \in CncBooks |-> 0] /\ traded = holdings
    /\ expired = {}
    /\ funds = InitialFunds
    /\ jobs = [j \in Jobs |-> Idle]
    /\ orders = 0 /\ crashes = 0 /\ disturbed = FALSE

-----------------------------------------------------------------------------
At(j, task) == jobs[j].task = task
SquaringOff == \E j \in Squarers : ~At(j, "idle")
Settling == \E j \in Settlers : ~At(j, "idle")

\* A circumstance is let in, and remembered, when its condition holds.
Disturbs(condition, circumstance) ==
    /\ condition => circumstance \in Circumstances
    /\ disturbed' = (disturbed \/ condition)

\* The row of a book as the job's session has it.
Row(j, b) == IF jobs[j].fresh THEN jobs[j].seen[b] ELSE positions[b]

\* The rows of the list are those of the session until the next commit.
Begin(j, task, todo) ==
    jobs' = [jobs EXCEPT ![j] =
               [Idle EXCEPT !.task = task, !.todo = todo, !.fresh = TRUE,
                            !.seen = [b \in Books |-> IF b \in todo THEN positions[b] ELSE NoPosition]]]
\* A commit expires the rows of the session.
Commit(j, record) == jobs' = [jobs EXCEPT ![j] = [record EXCEPT !.seen = Idle.seen, !.fresh = FALSE]]
Skip(j, b) == jobs' = [jobs EXCEPT ![j].todo = @ \ {b}, ![j].seen[b] = NoPosition]
Finish(j) == jobs' = [jobs EXCEPT ![j] = Idle]

Forget(days, b) == [days EXCEPT ![b] = "none"]

\* A row that stays when its position has been settled.
Closed(profit) == [live |-> TRUE, qty |-> 0, margin |-> 0, realized |-> profit]

\* Rows are deleted by their keys, whatever they hold by now.
Delete(B) ==
    /\ positions' = [b \in Books |-> IF b \in B THEN NoPosition ELSE positions[b]]
    /\ created' = [b \in Books |-> IF b \in B THEN "none" ELSE created[b]]
    /\ opened' = [b \in Books |-> IF b \in B THEN "none" ELSE opened[b]]

\* The margin of all positions, as reconcile_margin adds it up after each fill.
TotalMargin(table) == FoldFunction(+, 0, [b \in Books |-> table[b].margin])

Reconciled(f, rowsNow) == ReconcileMargin(f, f, TotalMargin(rowsNow))

\* The margin of an order for q units against a position of held units.
OrderMargin(b, held, q) ==
    IF b \in CncBooks /\ q < 0 THEN 0 ELSE MarginToBlock(held, q, 1)

\* A fill of q units: margin of the order, netting and reconciliation.  A row
\* that is opened again keeps its created_at.
Fill(b, q, margin) ==
    LET pos == positions[b]
        after == [live |-> TRUE, qty |-> pos.qty + q, margin |-> MarginAfter(pos, q, margin),
                  realized |-> pos.realized]
    IN /\ CanBlock(funds, margin)
       /\ positions' = [positions EXCEPT ![b] = after]
       /\ created' = [created EXCEPT ![b] = IF @ = "none" THEN "today" ELSE @]
       /\ opened' = [opened EXCEPT ![b] =
                        IF after.qty = 0 THEN "none"
                        ELSE IF Opens(pos, q) \/ Reverses(pos, q) THEN "today" ELSE @]
       /\ funds' = Reconciled(ReleaseMargin(BlockMargin(funds, margin), MarginReleased(pos, q), 0),
                              positions')
       /\ traded' = IF b \in CncBooks THEN [traded EXCEPT ![b] = @ + q] ELSE traded

-----------------------------------------------------------------------------
(* Users and the clock.                                                    *)

Quantities == (-MaxQty)..MaxQty \ {0}

\* place_order: intraday orders that open or add are refused after hours, and
\* delivery sales need the shares.
Allowed(b, q) ==
    /\ b \in MisBooks /\ phase # "day" => Opposite(positions[b].qty, q)
    /\ b \in CncBooks /\ q < 0 =>
          (IF positions[b].qty > 0 THEN positions[b].qty ELSE 0) + holdings[b] >= -q
    /\ b \notin expired

Orders == orders < MaxOrders /\ orders' = orders + 1

Trade(b, q) ==
    /\ Orders
    /\ Allowed(b, q)
    /\ Size(positions[b].qty + q) <= MaxQty
    /\ b \in CncBooks => Size(traded[b] + q) <= MaxQty
    /\ Fill(b, q, OrderMargin(b, positions[b].qty, q))
    /\ Disturbs(Settling, "trades")
    /\ UNCHANGED <<phase, cronDue, resting, holdings, expired, jobs, crashes>>

PlaceResting(b, q) ==
    /\ Orders
    /\ Allowed(b, q) /\ resting[b] = 0
    /\ resting' = [resting EXCEPT ![b] = q]
    /\ UNCHANGED <<phase, cronDue, rows, holdings, traded, expired, funds, jobs, disturbed, crashes>>

\* The engine runs the order that waited.
RestingFills(b) ==
    /\ resting[b] # 0
    /\ Size(positions[b].qty + resting[b]) <= MaxQty
    /\ Fill(b, resting[b], OrderMargin(b, positions[b].qty, resting[b]))
    /\ resting' = [resting EXCEPT ![b] = 0]
    /\ Disturbs(Settling, "trades")
    /\ UNCHANGED <<phase, cronDue, holdings, expired, jobs, orders, crashes>>

Older(days) == [b \in Books |-> IF days[b] = "today" THEN "earlier" ELSE days[b]]

TimePasses ==
    \/ /\ phase = "night" /\ phase' = "day"
       /\ UNCHANGED <<cronDue, created, opened>>
    \/ /\ phase = "day" /\ phase' = "evening" /\ cronDue' = TRUE
       /\ UNCHANGED <<created, opened>>
    \/ /\ phase = "evening" /\ phase' = "night" /\ cronDue' = FALSE
       /\ created' = Older(created) /\ opened' = Older(opened)

ClockTicks ==
    /\ TimePasses
    /\ UNCHANGED <<positions, resting, holdings, traded, expired, funds, jobs, disturbed, orders, crashes>>

ContractExpires(b) ==
    /\ phase = "night" /\ b \notin expired
    /\ expired' = expired \cup {b}
    /\ UNCHANGED <<phase, cronDue, rows, resting, holdings, traded, funds, jobs, disturbed, orders, crashes>>

-----------------------------------------------------------------------------
(* check_and_square_off: the time is read once, at the start.              *)

SquareOffStarts(j) ==
    /\ At(j, "idle") /\ phase = "evening"
    /\ j = Cron => cronDue
    /\ Settling => "together" \in Circumstances
    /\ cronDue' = (cronDue /\ j # Cron)
    /\ jobs' = [jobs EXCEPT ![j] = [Idle EXCEPT !.task = "cancel",
                                                !.todo = {b \in MisBooks : resting[b] # 0}]]
    /\ UNCHANGED <<phase, rows, resting, holdings, traded, expired, funds, disturbed, orders, crashes>>

\* cancel_order refuses an order that is no longer open.
CancelsOrder(j, b) ==
    /\ At(j, "cancel") /\ b \in jobs[j].todo
    /\ resting' = [resting EXCEPT ![b] = 0]
    /\ Skip(j, b)
    /\ UNCHANGED <<phase, cronDue, rows, holdings, traded, expired, funds, disturbed, orders, crashes>>

\* Variant: short positions are not listed.
ListsPositionsLong(j) ==
    /\ At(j, "cancel") /\ jobs[j].todo = {}
    /\ Begin(j, "close", {b \in MisBooks : positions[b].qty > 0})
    /\ UNCHANGED <<phase, cronDue, rows, resting, holdings, traded, expired, funds, disturbed, orders, crashes>>

ListsPositions(j) ==
    /\ At(j, "cancel") /\ jobs[j].todo = {}
    /\ Begin(j, "close", {b \in MisBooks : positions[b].qty # 0})
    /\ UNCHANGED <<phase, cronDue, rows, resting, holdings, traded, expired, funds, disturbed, orders, crashes>>

\* close_position takes the quantity from the row the session has; an order for
\* nothing is refused.
ReadsPosition(j, b) ==
    /\ At(j, "close") /\ b \in jobs[j].todo
    /\ IF Row(j, b).qty = 0 THEN Skip(j, b)
       ELSE jobs' = [jobs EXCEPT ![j].task = "check", ![j].book = b, ![j].todo = @ \ {b},
                                 ![j].seen[b] = Row(j, b)]
    /\ UNCHANGED <<phase, cronDue, rows, resting, holdings, traded, expired, funds, disturbed, orders, crashes>>

\* place_order: after hours the position must still be open in the database.
ChecksReducing(j) ==
    LET b == jobs[j].book IN
    /\ At(j, "check")
    /\ jobs' = [jobs EXCEPT ![j].task =
                  IF phase = "day" \/ positions[b].qty # 0 THEN "fill" ELSE "close"]
    /\ UNCHANGED <<phase, cronDue, rows, resting, holdings, traded, expired, funds, disturbed, orders, crashes>>

\* The closing order has been sized by what was read, not by what is held now.
ClosesPosition(j) ==
    LET b == jobs[j].book IN
    /\ At(j, "fill")
    /\ Fill(b, -jobs[j].seen[b].qty, 0)
    /\ Commit(j, [jobs[j] EXCEPT !.task = "close", !.book = Cron])
    /\ Disturbs(Settling, "together")
    /\ UNCHANGED <<phase, cronDue, resting, holdings, expired, orders, crashes>>

SquareOffEnds(j) ==
    /\ At(j, "close") /\ jobs[j].todo = {}
    /\ Finish(j)
    /\ UNCHANGED <<phase, cronDue, rows, resting, holdings, traded, expired, funds, disturbed, orders, crashes>>

-----------------------------------------------------------------------------
(* catch_up_mis_squareoff: row and funds change in one commit, but both are *)
(* written over whatever has been committed since they were read.          *)

SettlementMayStart(j) ==
    /\ At(j, "idle")
    /\ Settling => "overlap" \in Circumstances
    /\ SquaringOff => "together" \in Circumstances

StaleListed(j) ==
    /\ j = Login /\ SettlementMayStart(j)
    /\ Begin(j, "stale", {b \in MisBooks : positions[b].qty # 0 /\ created[b] = "earlier"})
    /\ UNCHANGED <<phase, cronDue, rows, resting, holdings, traded, expired, funds, disturbed, orders, crashes>>

\* The margin is given back, and used_margin kept from falling below zero.
SettlesStale(j, b) ==
    LET freed == Row(j, b).margin IN
    /\ At(j, "stale") /\ b \in jobs[j].todo
    /\ positions' = [positions EXCEPT ![b] = Closed(@.realized)]
    /\ opened' = Forget(opened, b)
    /\ funds' = [funds EXCEPT !.avail = @ + freed,
                              !.used = IF @ >= freed THEN @ - freed ELSE 0]
    /\ Commit(j, [jobs[j] EXCEPT !.todo = @ \ {b}])
    /\ UNCHANGED <<phase, cronDue, created, resting, holdings, traded, expired, disturbed, orders, crashes>>

-----------------------------------------------------------------------------
(* process_t1_settlement.  The commit that moves the margin moves the       *)
(* shares too, and deletes the positions settled before; the position      *)
(* itself goes with the next commit.                                       *)

SettlementDue == {b \in CncBooks : created[b] = "earlier"}

\* At midnight, after the intraday positions at a login, and after the expired
\* contracts at a start in analyzer mode.
SettlementStarts(j) ==
    /\ IF j = Midnight THEN phase = "night" /\ SettlementMayStart(j)
       ELSE jobs[j].task \in {"stale", "expire"} /\ jobs[j].todo = {}
    /\ Begin(j, "settle", SettlementDue)
    /\ UNCHANGED <<phase, cronDue, rows, resting, holdings, traded, expired, funds, disturbed, orders, crashes>>

\* A row without quantity is only marked for deletion.
SettlesNothing(j, b) ==
    /\ At(j, "settle") /\ b \in jobs[j].todo
    /\ Row(j, b).qty = 0
    /\ jobs' = [jobs EXCEPT ![j].todo = @ \ {b}, ![j].gone = @ \cup {b}]
    /\ UNCHANGED <<phase, cronDue, rows, resting, holdings, traded, expired, funds, disturbed, orders, crashes>>

\* Variant: the proceeds of a sale reduce the margin, as a purchase does.
SettledFundsBought(f, q, held) == [f EXCEPT !.used = @ - Size(q)]

\* transfer_margin_to_holdings, or credit_sale_proceeds for a sale of holdings.
SettledFunds(f, q, held) ==
    IF q < 0 /\ held # 0 THEN [f EXCEPT !.avail = @ - q]
    ELSE [f EXCEPT !.used = @ - Size(q)]

\* Variant: the rows marked for deletion are left out of the commit.
SettlesUndeleted(j, b) ==
    LET q == Row(j, b).qty IN
    /\ At(j, "settle") /\ b \in jobs[j].todo /\ q # 0
    /\ holdings' = [holdings EXCEPT ![b] = @ + q]
    /\ funds' = SettledFunds(funds, q, holdings[b])
    /\ Commit(j, [jobs[j] EXCEPT !.todo = @ \ {b}, !.gone = {b}])
    /\ UNCHANGED <<phase, cronDue, rows, resting, traded, expired, disturbed, orders, crashes>>

Settles(j, b) ==
    LET q == Row(j, b).qty IN
    /\ At(j, "settle") /\ b \in jobs[j].todo /\ q # 0
    /\ holdings' = [holdings EXCEPT ![b] = @ + q]
    /\ funds' = SettledFunds(funds, q, holdings[b])
    /\ Delete(jobs[j].gone)
    /\ Commit(j, [jobs[j] EXCEPT !.todo = @ \ {b}, !.gone = {b}])
    /\ UNCHANGED <<phase, cronDue, resting, traded, expired, disturbed, orders, crashes>>

\* The commit fails and is rolled back, with all that was pending; the result is
\* ignored and the position deleted all the same.
SettleFails(j, b) ==
    /\ At(j, "settle") /\ b \in jobs[j].todo /\ Row(j, b).qty # 0
    /\ Commit(j, [jobs[j] EXCEPT !.todo = @ \ {b}, !.gone = {b}])
    /\ Disturbs(TRUE, IF jobs[j].gone = {} THEN "fails" ELSE "undoes")
    /\ UNCHANGED <<phase, cronDue, rows, resting, holdings, traded, expired, funds, orders, crashes>>

SettlementEnds(j) ==
    /\ At(j, "settle") /\ jobs[j].todo = {}
    /\ Delete(jobs[j].gone)
    /\ Finish(j)
    /\ UNCHANGED <<phase, cronDue, resting, holdings, traded, expired, funds, disturbed, orders, crashes>>

-----------------------------------------------------------------------------
(* cleanup_expired_contracts, _check_and_close_expired_positions: margin   *)
(* and profit are committed before the position is closed.                 *)

ExpiredListed(j) ==
    /\ j = Viewer /\ SettlementMayStart(j)
    /\ Begin(j, "expire", {b \in expired : positions[b].qty # 0})
    /\ UNCHANGED <<phase, cronDue, rows, resting, holdings, traded, expired, funds, disturbed, orders, crashes>>

\* An option expires worthless: the price paid or received is the profit.
ExpiryPnl(row) == -row.qty

ReleasesExpired(j, b) ==
    LET row == Row(j, b) IN
    /\ At(j, "expire") /\ b \in jobs[j].todo
    /\ funds' = ReleaseMargin(funds, row.margin, ExpiryPnl(row))
    /\ jobs' = [jobs EXCEPT ![j] =
                  [jobs[j] EXCEPT !.task = "released", !.book = b, !.todo = @ \ {b},
                                  !.seen = [Idle.seen EXCEPT ![b] = row]]]
    /\ UNCHANGED <<phase, cronDue, rows, resting, holdings, traded, expired, disturbed, orders, crashes>>

\* Variant: the position is closed without the profit.
ClosesExpiredUnbooked(j) ==
    LET b == jobs[j].book IN
    /\ At(j, "released")
    /\ positions' = [positions EXCEPT ![b] = Closed(@.realized)]
    /\ opened' = Forget(opened, b)
    /\ Commit(j, [jobs[j] EXCEPT !.task = "expire", !.book = Cron])
    /\ UNCHANGED <<phase, cronDue, created, resting, holdings, traded, expired, funds, disturbed, orders, crashes>>

ClosesExpired(j) ==
    LET b == jobs[j].book row == jobs[j].seen[b] IN
    /\ At(j, "released")
    /\ positions' = [positions EXCEPT ![b] = Closed(row.realized + ExpiryPnl(row))]
    /\ opened' = Forget(opened, b)
    /\ Commit(j, [jobs[j] EXCEPT !.task = "expire", !.book = Cron])
    /\ UNCHANGED <<phase, cronDue, created, resting, holdings, traded, expired, funds, disturbed, orders, crashes>>

\* A request for the positions ends here; a start in analyzer mode goes on with
\* the delivery positions (SettlementStarts).
ViewEnds(j) ==
    /\ At(j, "expire") /\ jobs[j].todo = {}
    /\ Finish(j)
    /\ UNCHANGED <<phase, cronDue, rows, resting, holdings, traded, expired, funds, disturbed, orders, crashes>>

-----------------------------------------------------------------------------
\* The server dies in the middle of a job; the scheduler starts again with it.
Crash ==
    /\ \E j \in Jobs : ~At(j, "idle")
    /\ crashes < MaxCrashes /\ crashes' = crashes + 1
    /\ Disturbs(Settling, "crash")
    /\ jobs' = [j \in Jobs |-> Idle]
    /\ UNCHANGED <<phase, cronDue, rows, resting, holdings, traded, expired, funds, orders>>

SquareOff(j) ==
    \/ SquareOffStarts(j) \/ ListsPositions(j)
    \/ \E b \in MisBooks : CancelsOrder(j, b) \/ ReadsPosition(j, b)
    \/ ChecksReducing(j) \/ ClosesPosition(j) \/ SquareOffEnds(j)

Settlement(j) ==
    \/ StaleListed(j) \/ ExpiredListed(j)
    \/ SettlementStarts(j) \/ SettlementEnds(j) \/ ViewEnds(j)
    \/ \E b \in MisBooks : SettlesStale(j, b)
    \/ \E b \in CncBooks : SettlesNothing(j, b) \/ Settles(j, b) \/ SettleFails(j, b)
    \/ \E b \in FoBooks : ReleasesExpired(j, b)
    \/ ClosesExpired(j)

Next ==
    \/ \E b \in Books, q \in Quantities : Trade(b, q)
    \/ \E b \in MisBooks : RestingFills(b) \/ \E q \in Quantities : PlaceResting(b, q)
    \/ \E j \in Squarers : SquareOff(j)
    \/ \E j \in Settlers : Settlement(j)
    \/ \E b \in FoBooks : ContractExpires(b)
    \/ ClockTicks \/ Crash

Spec == Init /\ [][Next]_vars

\* Threads go on, and the scheduler runs the backup job once a minute whatever
\* else is under way: where settlements are kept apart from it by Circumstances,
\* it runs between two of them.
FairSpec ==
    /\ Spec
    /\ SF_vars(SquareOff(Backup)) /\ WF_vars(SquareOff(Cron))
    /\ \A j \in Settlers : WF_vars(Settlement(j) /\ ~At(j, "idle"))

-----------------------------------------------------------------------------
(* Properties *)

\* No money appears or disappears at the end of a day: cash, margin and what the
\* settled shares cost always add up to the capital and the booked profit, at
\* each commit of a settlement and whatever crashes or fills come in between.
Wealth ==
    funds.avail + funds.used + FoldFunction(+, 0, holdings) = Capital + funds.realized

\* Shares move from positions to holdings once: unless a settlement has been
\* disturbed, what a user bought is in one of the two, and is not lost.
SharesKept ==
    (~disturbed /\ ~Settling) =>
        \A b \in CncBooks : positions[b].qty + holdings[b] = traded[b]

\* Margin and profit are settled once: between settlements, the margin in use is
\* that of the positions, and the profit booked is that of the positions.
SettledOnce ==
    (~disturbed /\ ~Settling) =>
        /\ funds.used = TotalMargin(positions)
        /\ funds.realized = FoldFunction(+, 0, [b \in Books |-> positions[b].realized])

\* In the evening every intraday position is closed and every intraday order is
\* gone in the end, although the two jobs may close a position twice between them
\* and orders may still be filled while they run ("a safety net").
Flat == \A b \in MisBooks : positions[b].qty = 0 /\ resting[b] = 0
SquaredOff == phase = "evening" ~> (Flat \/ phase # "evening")

\* The catch-up at a login closes positions of previous days only ("their P&L
\* should NOT be added to today_realized_pnl").
CatchesUpWithPast ==
    [][\A b \in MisBooks :
         (At(Login, "stale") /\ positions[b].qty # 0 /\ positions'[b].qty = 0
            /\ jobs'[Login].todo # jobs[Login].todo)
         => opened[b] = "earlier"]_vars
=============================================================================
