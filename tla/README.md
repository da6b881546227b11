# TLA+ models of OpenAlgo

The repository holds a trading platform (`src/openalgo`, Flask), an option chain
viewer (`src/option-chain`), a Kafka tick pipeline (`src/pipeline`), a tick
server (`src/ticks`) and a React frontend (`src/frontend`). Most of its lines
map requests to HTTP calls of some thirty brokers or draw pages. This directory
specifies the parts that have logic and state of their own, checks them with TLC
and proves their main invariants with TLAPS:

- the **sandbox** (`sandbox/`), a paper-trading exchange that request threads,
  market-data callbacks, polling threads and scheduler jobs write to, with its
  evening and night jobs;
- the **strategy host** (`blueprints/python_strategy.py`), which runs the
  programs of users as processes;
- the **WebSocket proxy** (`websocket_proxy/`), which shares one user's broker
  connections among clients;
- the **download jobs** of Historify (`services/historify_service.py`).

Paths below are relative to `src/openalgo`.

1. [Inventory](#1-inventory)
2. [Modules and their correspondence to the code](#2-modules)
3. [Runs and bounds](#3-runs)
4. [Fairness](#4-fairness)
5. [Proofs](#5-proofs)
6. [Where the code and its documentation disagree](#6-divergences)
7. [What is not modelled](#7-not-modelled)
8. [Plan](#8-plan)

## 1. Inventory

### Components

| Component | State | Operations | Correct when |
|---|---|---|---|
| Fund manager, `sandbox/fund_manager.py` | one row of `sandbox_funds` per user: `available_balance`, `used_margin`, `realized_pnl`; a class-level lock | `block_margin`, `release_margin`, transfer to holdings, proceeds of sales (under the lock), `reconcile_margin` (not under it), `get_funds` with the weekly reset | balance + margin = capital + booked profit; margin equals what orders and positions have blocked; no amount is negative |
| Order manager, `sandbox/order_manager.py` | rows of `sandbox_orders` | `place_order`, `modify_order`, `cancel_order` | an order passes once through open to complete, cancelled or rejected; its margin is blocked once and released once |
| Execution engine, `sandbox/execution_engine.py` | rows of `sandbox_trades`, `sandbox_positions` | polling pass, `_process_order`, `_execute_order`, `_update_position` | one trade per order; a position is the net of its trades |
| WebSocket engine, `sandbox/websocket_execution_engine.py` | index of pending orders by symbol, reference counts, fallback thread | `start`, `stop`, tick callback, `notify_order_placed`, `notify_order_completed`, health monitor | every open order is in the index; a tick runs each at most once |
| Engine threads, `sandbox/execution_thread.py` | references to the running engine, one lock, a stop event shared by watchers | `start_execution_engine`, `stop_execution_engine`, upgrade watcher, polling thread | exactly one engine after a start, none after a stop; calls return; polling is upgraded |
| Position manager, `sandbox/position_manager.py` | positions | `close_position`, expiry settlement, marking to market, session boundaries | a close never reverses; an expired position is settled once |
| Holdings manager, `sandbox/holdings_manager.py` | `sandbox_holdings` | T+1 settlement of delivery positions | shares and margin move once |
| Square-off, `sandbox/squareoff_manager.py`, `squareoff_thread.py` | APScheduler jobs | cron job and a backup job for each exchange | every MIS position is closed in the evening |
| Catch-up, `sandbox/catch_up_processor.py` | none | missed settlement and square-off at a login | what was missed is done once, and to past days only |
| Strategy host, `blueprints/python_strategy.py` | `RUNNING_STRATEGIES`, `STRATEGY_CONFIGS`, the configuration file, the processes of the operating system, `PROCESS_LOCK` | start, stop, delete, cron jobs, the enforcer of market hours, restoration after a start or a login, cleanup of dead processes | a strategy runs once; its process can be found again; a stop is respected; a pause ends |
| WebSocket proxy, `websocket_proxy/server.py` | sessions, subscriptions, index of subscribers, pools by user | authenticate, subscribe, unsubscribe, departure, recovery from an authentication error, invalidation by a login | the tables agree; a subscriber is served; nothing is kept for nobody; no connection outlives its token |
| Connection pool, `websocket_proxy/connection_manager.py` | connections, counts, which connection carries a symbol in which mode | subscribe, upgrade, downgrade, unsubscribe, initialize, connect, disconnect | counts are right and within the limit; a symbol is on one connection |
| Download jobs, `services/historify_service.py`, `database/historify_db.py` | job and item rows, `_running_jobs`, `_paused_jobs`, an executor of threads | create, pause, resume, cancel, delete, retry; the loop of a worker | a completed job has all its items; a pause holds; a job ends |

The sandbox's parts interact through tables and direct calls: REST requests go
to `services/sandbox_service.py`, which calls the managers; `place_order` runs
the order through the execution engine at once and then tells the WebSocket
engine about it if it is still open; a tick makes that engine run every indexed
order of the symbol; a polling thread runs every open order of the table; the
engine calls the fund manager when a fill reduces a position and reconciles the
funds row after every fill; the analyzer switch starts and stops engines and
scheduler; scheduler jobs square off and settle; a login catches up. The
strategy host, the proxy and the download jobs are each on their own: they
share with the rest the login, which stores a token (`database/auth_db.py`),
tears pools down, restores strategies and starts the catch-up.

### Components without a module

Market data service (cache and fan-out of ticks by priority), event bus, action
center (approval of semi-automatic orders), Flow scheduler and executor, sandbox
service facade, broker adapters, REST API, bots, MCP server, tick pipeline,
option chain application and frontends. `PROJECT.json` gives the reason for each.

### What is hard here

- **Sessions.** `db_session` is a `scoped_session`: each thread has its own, and
  its rows are copies from the last load until the next commit. Between a check
  (`order_status == "open"`, no trade yet, quantity held) and the write that
  relies on it, other threads commit.
- **Several executors** of one order: the request that placed it, a tick, a
  polling pass that works for seconds from an old selection.
- **Money in two places**: the funds row sums up what orders and positions
  record; each is committed apart, and one writer of the funds row works without
  the lock the others take.
- **Commits apart**: margin, order, trade with status, position with margin and
  reconciliation are five commits; a settlement is one or two for each position;
  a crash or an error may fall between any two.
- **Decisions before the lock**: the strategy host decides outside `PROCESS_LOCK`
  whether to start or stop; the requests on a download job check its status
  before they take `_job_state_lock`.
- **Locks that are not reentrant**: `delete_strategy`, `cleanup_on_exit` and
  `cancel_job` call, under a lock, a function that takes it again.
- **Caches in two places**: a pool of broker connections is held by the proxy
  and by a registry; a login invalidates one by a call and both by a message.
- **A lock for one call at a time**: the recovery of a pool is a chain of calls;
  a login may come between any two.
- **Processes outlive the server**, and identifiers of processes are found again
  in a file that is written after the process is spawned.
- **Joins with timeouts**: a stopped thread may be in a pass for longer than
  anybody waits for it, and the next start does not know of it.

`PROJECT.json` lists these as hazards, each at the line where it bites, with the
properties that cover it.

## 2. Modules

| Module | Models |
|---|---|
| `SandboxFunds` | the funds row and the arithmetic of blocking, releasing and reconciling |
| `SandboxNetting` | netting a fill into a position, the margin to block, release and keep |
| `SandboxAccount` | one account with its threads: requests, ticks, polling passes, crashes, errors |
| `SandboxAccountChecks` | properties that need sums, and the refinement of the order book |
| `SandboxOrderBook` | abstract specification: what a user is promised about orders and positions |
| `MCSandboxAccount` | constants of the TLC instances of `SandboxAccount` |
| `SandboxEngines` | starting, stopping and upgrading the engine threads |
| `DayEnd` | the evening and the night of one account: square-off, settlement, expiry, catch-up |
| `StrategyHost` | processes of strategies under requests, jobs, restorations, deaths and restarts |
| `ConnectionPool` | the operations of a pool as functions from pools to pools |
| `WsProxy` | the event loop, the clients' tables, the pool, logins and the broker's token |
| `HistorifyJobs` | download jobs: requests, workers, the two dictionaries, restarts |
| `SetInduction` | induction over the subsets of a finite set: least elements and sums |
| `SandboxAccount_proofs`, `SandboxEngines_proofs`, `DayEnd_proofs`, `ConnectionPool_proofs`, `WsProxy_proofs`, `StrategyHost_proofs`, `HistorifyJobs_proofs` | the theorems |

`DayEnd` is built on `SandboxFunds` and `SandboxNetting`, the arithmetic of
`SandboxAccount`; `WsProxy` extends `ConnectionPool`. `PROJECT.json` maps every
definition to its lines. Operators called "Variant" in a module are not part of
the specification: they are wrong versions of the definition that follows them,
used to confirm that the properties notice.

### SandboxAccount

*State.* `funds`, `orders`, `trades`, `positions` are the tables, `index` the
WebSocket engine's index, `threads` what each thread is doing together with its
copies of rows. `traded` is a history variable (the sum of the fills of a book
since the last reset), `resetDue` says that a weekly reset has come due and
`faults` counts injected faults. Money and quantities are integers; a margin is
quantity times a rate, the rate standing for price over leverage at the time.
A quantity is signed: selling is negative.

*Steps.* One action is what a thread does from one of its reads or commits to
the next one, which is where other threads can get in between. `place_order`
is the longest: `PlaceOrder` (validations, margin against the position as it is
now), `BlockMarginStep`, `InsertOrder`, then the run of the order, then `Finish`
(tell the engine if the order is still open). The run is shared with ticks and
passes: `LoadOrder`, `CheckTrade`, `ExecuteOrder` (trade and status, one
commit), `ReadPosition`, `ReleaseMarginStep`, `ApplyPosition` (or `LosePosition`
when the insert collides), `SumPositions`, `ReadFunds`, `Reconcile`.

*Whether a price is met* is a choice: the quote is an input. So are the realized
profit of a fill (`Pnls`) and the rate met (`Rates`).

*SQLAlchemy semantics the steps rely on* (`database/sandbox_db.py:49-51` and the
calls): sessions do not flush by themselves and expire their rows on commit, so
the row of an order is read afresh after `_execute_order`'s commit, while the
trade was built from the copy loaded before it; `block_margin` and
`release_margin` read the funds row inside the lock, so each is atomic, and
`release_margin`'s commit also commits whatever else the session holds;
`reconcile_margin` reads and writes the row outside the lock, as two steps;
`close_position` keeps its position object alive, so the `place_order` it calls
sees the same copy; two inserts of one new position collide and the loser's
order is marked rejected although its trade exists; an update writes the columns
whose values differ from the loaded ones and no others; the result of a failed
`release_margin` is ignored.

*Faults.* `Crash` drops all threads and the index at any step, and the restarted
engine rebuilds the index. `CommitFails` is an exception in `_execute_order` or
`_update_position`, `ReleaseFails` an exception inside `release_margin`.

### SandboxOrderBook

Abstract state: a status and contents per order, a net quantity per book.
`ImplementsOrderBook` instantiates it in `SandboxAccountChecks`; a fill happens
at the commit of the trade, so a book's net is the position's quantity plus the
fills whose trade is committed and whose position is not (`InFlight`).

### SandboxEngines

*State.* The module globals of `execution_thread.py` (`lock`, `executionThread`,
`upgradeThread`, `upgradeStop`), the polling threads with their events, the
watchers, whether the WebSocket engine runs, whether the proxy answers, and
`wanted`, a history variable: the last call that took effect.

*Steps.* `start_execution_engine` runs as one step under the lock: nothing it
reads can change while it runs but the proxy's health, which it reads once.
`stop_execution_engine` is a step before and after each join. A join returns
when the thread has ended or on its timeout, so it may always return, with one
restriction the code justifies: a polling thread between two passes tests its
event every second and therefore ends within the ten seconds of its join; only
one that is in a pass can outlast it. `_auto_upgrade_enabled` is not a variable:
it is set exactly when `EngineType` is `"websocket"` and polling is started,
which is where it is read. `subscribe_critical` appends to a dictionary and is
taken not to raise. A dead thread nobody refers to stands for a new one, so the
number of thread objects bounds how many are alive at once, not how many starts
there are.

The account's `PollThreads` and the engines' `polls` are the same threads: a
stop forgets a polling thread whose pass outlasts its join and the next start
adds another, so that two may serve at once for a while (section 6). That is
what decides which of the account's properties can be relied on.

### DayEnd

*State.* The rows of the positions with the day of `created_at`, the resting
intraday orders, the holdings, the funds row, the time of day, and for each job
(`Cron`, `Backup`, `Midnight`, `Login`, `Viewer`) its task, the list it has yet to go through, and the
rows of that list as its session has them: the first commit of a job expires the
rows of its session, so the first position of a list is handled as it was read
and the next ones as they are. `opened` and `traded` are histories: the day the
present quantity was opened, and the net quantity bought in a delivery book.

*Steps.* A square-off job cancels the orders, lists the positions and, for each,
reads the quantity (`ReadsPosition`), passes the check that an order after hours
reduces (`ChecksReducing`) and fills (`ClosesPosition`); the two jobs of an
exchange may be anywhere relative to each other. A T+1 settlement commits
margin and shares of a position together with the deletion of the one before
(`Settles`), which is where a failed commit or a crash bites. Expiry commits
margin and profit before the position (`ReleasesExpired`, `ClosesExpired`).
Every unit is bought and margined at the price 1, and a fill is one step: its
races belong to `SandboxAccount`.

*Circumstances* names the coincidences a property may not survive (section 6): a
settlement that overlaps with another (`overlap`), with a square-off (`together`)
or with trading (`trades`), a crash inside one (`crash`), a commit of a
settlement that fails (`fails`), and one that fails while the deletion of the
position before is pending, which it takes back (`undoes`). A run lets in those
of its set; `disturbed` remembers that one has occurred. The position whose
commit failed is deleted with its shares, as in the code: with `fails` money is
still conserved, shares are not, and `SharesKept` speaks of undisturbed nights.

### StrategyHost

*State.* `running` is `RUNNING_STRATEGIES`, `config` is `STRATEGY_CONFIGS`,
`saved` the file, `proc` the process table with zombies and parents, `lock` is
`PROCESS_LOCK`, `calls` what requests, the enforcer and the restorer are doing.

*Steps.* `start_strategy_process` is refused or spawns (`StartSpawns`) and then
records (`StartRecords`); `stop_strategy_process` kills and then records; both
hold the lock in between. Routes, cron jobs, `market_hours_enforcer` and
`restore_strategy_states` decide in steps of their own, without it. A zombie is
seen differently by `Popen.poll` (ended, and reaped), `psutil.is_running` and
`pid_exists` (still there): `TrackedDead` and `StaleFlag` follow the calls.
`Restart` kills the server, with its processes surviving or not, and begins with
the restoration. `Circumstances` again names what the properties do not survive:
the deletion of a running strategy, contracts that are not ready when the server
alone restarts, calls before the restoration has ended, a start that overtakes a
restoring restart, a kill between a spawn and its record.

### ConnectionPool and WsProxy

*The pool* is a record: connections with what each streams, the counts the code
keeps apart from the map, and the map `at` from a symbol in a mode to its
connection. `Subscribe` places a new symbol on the first connection with room or
opens one, upgrades a symbol on its own connection and only writes down a mode
below the highest; `Unsubscribe` downgrades by stopping a mode and asking for
the next lower one, with the rollback of the code and its ignored result. What
the broker answers is an argument.

*The proxy.* Handlers run on one event loop and await nothing between two
changes of state, so `loop` is a program counter: each call to the pool is a
step of its own, and between two of them a thread of the web application may
store a token (`UpsertAuth`) and throw the pool away (`CleanupPools`), or the
broker may end the token (`TokenEnds`). `_attempt_auth_recovery` is
`Snapshots`, `Rebuilds`, `Restarts`, `Restores` for each key, `Retries`;
`authenticate_client` is `Authenticate`, `Initializes`, `Connects` and its
second try `ForcesInitialize`, `Connects`; `cleanup_client` is `Disconnects`,
`LeavesKey` for each key, `LeavesLast`. `lost` and `refused` are histories: the
symbols whose feed was ended under a subscriber, and the keys whose
unsubscription the broker refused.

*Abstractions.* One user per deployment
(`docs/websocket-architecture.md:382`), the caches of tokens left out, the
proxy in the process of the web application, an adapter modelled after
`angel_adapter.py` (a subscription for each mode), the others by the interface
the pool uses.

### HistorifyJobs

*State.* `status` and `items` are the rows, `running` and `event` the two
dictionaries, `stuck` says that `_job_state_lock` is lost, `queue` and `workers`
are the executor, `callers` the requests. `since` counts the items begun since a
pause and `doubled` remembers jobs that were retried while they had a worker.

*Steps.* A request reads the status (`Request`, `Retry`), then writes the row and
takes the lock (`Pause`, `Resume`, `CancelMarks` and `CancelHangs`, `Start`). A
worker takes a job, loads what is unfinished, and for each item asks under the
lock whether the job is wanted and paused (`Checks`), waits on the event it has
in hand (`Waits`: an event that has been replaced stays as it was), begins and
ends the item; then it writes the result and cleans up. The resets of a retry
and its status are one step. Items skipped because nothing is missing count as
done. `Restart` empties the memory and leaves the rows; failed writes of rows,
whose exceptions the code swallows, are not modelled.

## 3. Runs

| Run | Question and answer | Bounds |
|---|---|---|
| `account_overlap` | Two requests and the tick thread overlap, with one crash, failed commit or failed release anywhere. No order is traded twice, trade and status agree, every open order is indexed. | 2 orders, 1 book, 2 request threads, 1 tick thread, 1 fault |
| `account_poll` | Placing, cancelling and modifying overlap with stale polling passes. Trade and status still agree. | 2 orders, 1 book, 1 request thread, 1 polling thread |
| `account_serial` | Operations one after the other: all kinds of orders, cancel, modify, close, weekly reset, delivery orders. Money is conserved, positions are the net of trades, cancelled orders stay untraded, and the account implements the order book. | 2 orders, 2 books (one delivery), quantities -2..2 |
| `account_market` | Market orders and closes at rates that move. Margin is exactly accounted for and never negative, profits are booked once in both places. | 3 orders, 2 books, 2 rates |
| `engines_switch` | Two callers switch the engine while threads outlive their joins and the proxy comes and goes. One engine serves when it should; forgotten threads have been told to stop and end; every call returns; polling is upgraded. | 2 callers, 2 polling threads, 2 watchers |
| `dayend` | Square-off by cron and backup, T+1 settlement, expiry and catch-up in one evening and night, with failed commits and a crash between jobs. Wealth is conserved, shares are in one place, nothing is settled twice, every intraday position is closed by the market's end. | 1 intraday, 2 delivery and 1 option book, quantity 1, 2 orders, 1 crash, a settlement's first commit may fail |
| `strategies` | Requests, the enforcer, cron jobs, the restorer, deaths of processes and restarts interleave. A strategy has one process, its identifier is on file, a stopped strategy stays stopped, a paused one is resumed. | 1 strategy, 1 request thread, the enforcer and the restorer, 2 process identifiers |
| `proxy` | Two clients come, subscribe, change modes, leave; the broker refuses, its token ends, a login replaces it. Tables agree, counts are right, subscribers are served and nothing is kept for nobody. | 2 clients, 2 symbols, 2 modes, 1 symbol per connection, 2 connections, 1 login, 1 refusal |
| `jobs` | Two requests and a worker meet on one job; items fail; the server restarts. A completed job has all its items, a pause holds, a job ends. | 1 job, 2 items, 1 worker, 2 callers, 1 waiting job, 1 fault |
| `broken_duplicate`, `broken_delete`, `broken_carryover` | Each shows one disagreement of section 6. | the smallest instance that shows it |

*Why the bounds are enough.* Every hazard of the account is between two
operations on one order, on one position or on the funds row. Two orders in one
book give two fills of one position, a fill beside a resting order, and a
cancellation beside an execution; two request threads with the tick thread give
every pair of operations and a third party that commits in between. Quantities
up to two give partial closes, exact closes and reversals. Three orders over two
books let a position be opened, reversed and closed while another one carries
margin. One fault at any step is enough: after it every thread is idle or goes
on by itself, and recovery does not look at earlier faults. Two polling threads
and two watchers are the reference and a forgotten one; a third would be
forgotten for the same reason.

In `dayend` two delivery books are needed because a settlement commits one
book's transfer with the deletion of the book before it; the jobs' other steps
are on one position each. In `strategies` two identifiers are the old and the
new process; strategies share nothing but the lock, and the restorer's order
among strategies only delays. In `proxy` two modes and two clients are what
gives a downgrade with and without another subscriber, and one symbol per
connection forces the second connection and then the limit. In `jobs` two
callers give every pair of requests, and a second item is one that comes after
a pause, a failure or a cancellation. What depends on numbers beyond these is
proved (section 5).

*Scenario constants* (`Kinds`, `Requests`, `Serial`, `MaxFaults`,
`Circumstances`) select what an instance explores. `Serial` makes an operation
start only when no other is under way. `Circumstances` lists the coincidences
let in among those under which the code is known not to keep a property
(section 6); a passing run says that nothing else breaks it. `strategies`
leaves them out, and `dayend` all but `fails`.

*Deadlock* is checked by `engines_switch`. The other configurations bound the
number of orders, logins, faults, processes or jobs, and an instance ends when
these are used up, hence `CHECK_DEADLOCK FALSE`; that calls and jobs get on is
stated by liveness properties instead.

## 4. Fairness

The properties of the account and of the proxy are safety properties and assume
no fairness.

`SandboxEngines!Fairness` is what the code justifies: threads are scheduled;
passes end, since requests for quotes have timeouts and a pass handles a finite
selection; joins end by their timeouts (weak fairness). A thread waiting for
`_thread_lock` gets it (strong fairness): the lock is held for some twenty-five
seconds at most, and every thread that returns for it sleeps at least five
seconds before. Nothing is assumed of callers or of the proxy:
`UpgradeHappens` and `StopEndsThreads` say what follows once they stay as they
are.

`DayEnd!FairSpec` has the backup job strongly fair, since APScheduler runs it
every minute from the square-off time on and it begins anew after any failure,
and weak fairness for the steps of a job that has begun. Nothing is assumed of
users or crashes (of which there are finitely many), and the market does not end
by fairness: `SquaredOff` says that positions are closed, not by when.

`StrategyHost!FairSpec` has strong fairness for the steps of threads that need
`PROCESS_LOCK`, which its holders give back without waiting for anybody, and for
the two interval jobs, the enforcer and the cleanup of dead processes. Nothing
is assumed of users, of processes, of the calendar or of restarts:
`PausedResumes` allows for each of them.

`HistorifyJobs!FairSpec` has weak fairness for each worker: executor threads are
scheduled and downloads end by the timeouts of their requests. Callers are not
fair, so nobody need resume a paused job; `JobEnds` leaves such jobs out.

## 5. Proofs

| Theorem | Statement | Assumes |
|---|---|---|
| *`SandboxAccount_proofs`* | | |
| `TypeCorrect` | `Spec => []TypeOK` | the constants' types |
| `StatusAgreesWithTrade` | `Spec => []TradeMeansNotOpen` | the constants' types |
| `NoOrderForgotten` | `Spec => []OpenOrdersIndexed` | there is a WebSocket engine (`WsThreads # {}`) |
| `OneTradeWithoutPolling` | `Spec => []OneTradePerOrder` | `PollThreads = {}`, at most one tick thread |
| `SerialConservation` | `Spec => []Conservation` | `Serial` |
| `SerialCancelHolds` | `Spec => []CancelledNotTraded` | `Serial` |
| `SerialPositions` | `Spec => []PositionIsNetOfTrades` | `Serial`, `MaxFaults = 0` |
| `AccountImplementsOrderBook` | `Spec => ImplementsOrderBook` | `Serial`, `MaxFaults = 0` |
| `MarketMargins` | `Spec => []MarginAccounted` | `MarketOnly` |
| `MarketReleases` | `Spec => []UsedNotNegative` | `MarketOnly` |
| `MarketProfits` | `Spec => []RealizedIsSum` | `MarketOnly`, `NothingRoundedAway` |
| *`DayEnd_proofs`* | | |
| `TypeCorrect` | `Spec => []TypeOK` | the constants' types |
| `SharesDelivered` | `Spec => []SharesKept` | `FailuresOnly` |
| `WealthKept` | `Spec /\ [][NoneTurned]_vars => []Wealth` | `FailuresOnly` |
| `SettledOnlyOnce` | `Spec /\ [][NoneTurned]_vars => []SettledOnce` | `FailuresOnly` |
| *`SandboxEngines_proofs`* | | |
| `EnginesTypeCorrect` | `Spec => []TypeOK` | the constants' types |
| `ForgottenPollsAreStopping` | `Spec => []ForgottenPollsStop` | the constants' types |
| `EnginesServeAsWanted` | `Spec => []ServedAsWanted` | the constants' types |
| *`ConnectionPool_proofs`, `WsProxy_proofs`* | | |
| `ProxyTypeCorrect` | `Spec => []TypeOK` | the constants' types |
| `TablesAgree` | `Spec => []IndexMatches` | the constants' types |
| `CountsAreRight` | `Spec => []PoolCounts` | the constants' types |
| `SymbolOnOneConnection` | `Spec => []PoolOneConnection` | the constants' types |
| `SubscribersServed` | `Spec => []Served` | the constants' types |
| `NoSubscriptionLeft` | `Spec => []NothingUnused` | the constants' types |
| `AdapterHeldForSomeone` | `Spec => []AdapterNeeded` | the constants' types |
| `NoStaleConnection` | `Spec => []Fresh` | the constants' types |
| *`HistorifyJobs_proofs`* | | |
| `JobsTypeCorrect` | `Spec => []TypeOK` | the constants' types |
| `PausesHold` | `Spec => []PauseHolds` | the constants' types |
| `CompletedJobsAreDone` | `Spec => []CompletedIsDone` | the constants' types |
| *`StrategyHost_proofs`* | | |
| `HostTypeCorrect` | `Spec => []TypeOK` | `Circumstances = {}` |
| `LiveProcessIsSaved` | `Spec => []LiveIsSaved` | `Circumstances = {}` |
| `StrategyRunsOnce` | `Spec => []OneProcess` | `Circumstances = {}` |
| `StoppedStaysStopped` | `Spec => StoppedStays` | `Circumstances = {}` |

"The constants' types" are the `ASSUME`s of the modules: bounds are natural
numbers, sets of processes are disjoint, and the sets that are counted or summed
over (threads, books, keys) are finite. No theorem bounds them: they hold for any
number of orders, books, threads, clients, jobs, faults and days.

*Account, `TypeCorrect`* needs `TypeInv`: `TypeOK` and that a thread at a step on an order
has an order identifier (`WorksOnOrder`). The
substance is that margins stay natural numbers: `SandboxNetting`'s shares of a
margin (integer division by the quantity held or filled) never exceed it, which
lemmas about `MarginReleased` and `MarginAfter` establish.

*`SerialConservation`.* `Conservation` is not inductive: `Reconcile` writes a
balance computed from a copy of the row. `SerialInv` adds that only one thread is
active (`OneAtATime`) and that its copy is the current row (`SeenIsCurrent`).
Without `Serial` the property is false (section 6): the theorem says that the
overlap is the only reason.

*`OneTradeWithoutPolling`.* `TradeInv` says that a trade exists only for an order
that has been placed, that an order under work is run by one thread and has no
trade before `ExecuteOrder`, that only orders whose request has finished running
them are in the index, and that a request about to insert an order has made its row. The
steps of a run are grouped (`Leaves`, `Inserts`, `Selects`, `GoesOn`, `Executes`)
by how they touch these facts. It holds for any number of overlapping requests,
crashes and failed commits; `broken_duplicate` shows that the premise on polling
is needed.

*`StatusAgreesWithTrade`, `NoOrderForgotten`.* Any number of requests, ticks and
polling passes, overlapping at will. `StatusInv` adds to the property what the
copies of a thread may be: a request about to insert an order has made its row, a
thread works on orders that are in the table, a copy that says "complete" was
right and stays so, and what a pass has yet to run was open when it was selected
(`Sound`). The status of a row moves in one direction only, which is what makes
stale copies harmless here. The steps are grouped by what they do to statuses
(`StatusesSame`, a row inserted, an order ended, an order traded), and each group
is argued once. Without a WebSocket engine nobody keeps the index; hence the
hypothesis of `NoOrderForgotten`.

*`SerialCancelHolds`, `SerialPositions`, `AccountImplementsOrderBook`.* When one
operation runs at a time, a thread's copies are the rows (`Lone`: the order it is
to run is open, its copy is the row, what a pass has left to run are other open
orders), and `LoneInv` is inductive with `CancelledNotTraded`. `NetInv` adds that
the quantity of a position and what is in flight of it (`InFlight`: a trade
committed whose position is not) is what was traded: the position alone lags
behind its trades between two commits. The refinement maps each step of the
thread at work to a placement, a fill, a modification, a cancellation, a reset or
a stutter of `SandboxOrderBook`. A failed commit between trade and position does
lose a fill, so these two need `MaxFaults = 0`; overlapping operations break all
three (section 6), so they need `Serial`.

*`MarketMargins`, `MarketReleases`, `MarketProfits`.* `MarketOnly` is the instance
of the run `account_market`: market orders and closes one after the other, without
faults. (Waiting orders lose their margin to `reconcile_margin`, and a cancelled one
may release what it never blocked: section 6.) `Calm` says how funds and positions
agree when nobody is at work, `Busy` by how much they differ at each step of an
order: what is blocked, released or booked and not yet in the position. Sums over
the positions change by one term at a time, by the lemmas of `SetInduction`.
`MarketProfits` also needs that no share of a margin rounds to nothing
(`NothingRoundedAway`): the code books the profit of a fill only when it releases
margin (`execution_engine.py:513`), and TLC finds the sum broken with a rate below
the quantity.

*Sums.* The library's induction theorems take an operator as a parameter, which the
installed provers cannot instantiate. `SetInduction` takes induction from the
library's facts on finite sets instead, for sets of subsets (`AllSubsets`), and from
it derives least elements (`Least`), and that the fold of the models' sums
(`FoldFunction(+, 0, f)`) is `SumOf(f)`, is an integer, a natural number no less than
its terms when these are, and changes with one term as the term does (`SumUpdate`).

*Day end.* `FailuresOnly` admits the circumstance `fails` and no other: settlements
overlap with nothing and are not cut by a crash, their first commit may fail. Users,
the clock, the two square-off jobs, crashes of these and any number of nights are
as in the model. A settlement writes its tables in several commits, so the
properties do not hold in its middle as they are stated. The invariant looks ahead:
`AheadNow` is the table as it will be once what is marked for deletion is deleted and
the contract whose margin is released is closed; each step of a settlement either
keeps it (`Keeps`) or brings the end of one position (`Turns`). `LoneInv` says that a
settlement is alone and that the rows its session still has are those of the table
(`Sound`), without which none of this would follow. `SharesOK` states the shares
over `AheadNow`. For money, `MoneyInv` adds that a delivery position has its cost for
a margin, and what is sold short of it is held, so that a settlement tells a sale of
holdings from a purchase (`RowsOK`), and that the margin in use covers that of the
positions ahead, so that the catch-up's clamp at zero never acts (`MoneyOK`).
`NoneTurned` is a hypothesis on users: no purchase closes a short delivery position
and opens a long one at once. It holds of every behaviour when quantities are 1, as
in the run; without it the margin is not the cost and `Wealth` fails (section 6).
`Wealth` survives the failed commit, `SharesKept` and `SettledOnce` speak of
undisturbed nights.

*Engines.* `IInv` records who holds the lock and, for each step the holder can be
at, what is true of the two engines; `ServedAsWanted` alone says nothing while
the lock is held.

*Proxy.* The properties of the tables hold between requests only, since a handler
changes session, subscriptions and index one after the other with calls to the
pool in between. `Inv` is `TypeOK`, `IndexMatches`, `PoolOK` (counts, limit and
one connection for a symbol), `LoopOK` (what is true of the tables at each step
of the handler under way: which key the tables differ in, which remain to be
left) and `MessagesOK`. `ConnectionPool_proofs` has one lemma for each operation
of a pool (`PlacedOK`, `TakenOK`, `DroppedOK`, `DowngradeOK`, `OpenedOK`, ...): it
takes a sound pool to a sound pool whatever the broker answers. They are proved
apart from the proxy and cited by its steps. The first connection with room is a
`CHOOSE` of a least number, which exists by `SetInduction`'s `Least`.

*Proxy: who is served, what is kept.* `Served`, `NothingUnused`, `AdapterNeeded`
and `Fresh` relate the proxy's tables to the pool's, and a login may throw the
pool away between any two calls. `ServiceInv` adds five parts to `Inv`. `HeldOK`: a
handler that takes the proxy to hold the pool, or not to, is right, and a broker's
connection is not held without a client unless it is kept. `BareOK`: a pool that
is not held has no key. `FreshOK`: while a connection made with an ended token is
there and the token is good, a message to the holder and the cleanup of the
registered pool are on the way. `WantedOK`: what is tracked, and what a recovery is
about to restore, is wanted or was refused. `ServedOK`: what is wanted is tracked
or its symbol is lost, and the highest mode of each symbol is streamed. Each
operation of the pool has a lemma about what it still delivers, as it has one about
soundness. No hypothesis is needed: the histories `lost` and `refused` name what
the properties leave out.

*Download jobs.* `PauseHolds` and `CompletedIsDone` speak of jobs that have not
been retried under a worker. Their invariant adds that such a job is in one place
only, queue, worker or nowhere (`AloneOK`), that the status of its row agrees
with the dictionaries (`RestOK`, `UnknownOK`, `PausedOK`), that a worker waits on
the job's own event (`WaitsOK`), that an item a worker no longer lists is ended
(`SoundOK`, `DoneOK`) and what a retry under way has read (`RetryOK`).

*Strategy host.* Neither `OneProcess` nor `LiveIsSaved` is inductive: what stops a
second process is that the server knows the first. `AliveOK` says of each live
process that it is in its strategy's row and in the file, or that the holder of
the lock is about to write it there; that it is tracked, or its strategy is
still ahead of the restoration; and that nobody is about to act on its death.
`RefsOK` says that what refers to a live process refers to one of its own
strategy (identifiers are used again), `CallsOK` who is at which step when the
lock is held, `RestorerOK` and `BootOK` what the restoration has yet to do and
that nobody else acts before it has ended. The steps are grouped by how they
touch live processes (`QuietThread`, `UnderLock`, `RestorerStep`,
`BackgroundStep`); `StartSpawns`, `StartRecords` and `Restart` are argued on
their own. Each of the four circumstances of section 6 breaks a part of `AliveOK`:
the premise is exactly what the argument needs. `StoppedStays` is an action
property; it needs the types only.

*Only model-checked:* liveness (`CallsReturn`, `StopEndsThreads`,
`UpgradeHappens`, `SquaredOff`, `PausedResumes`, `JobEnds`): fairness and ENABLED
are out of the prover's reach. Every invariant of a passing run has its theorem,
under the hypotheses above; `account_poll` and `account_overlap` check
`TradeMeansNotOpen` without any, as the theorem does. No module a theorem is about
reaches a recursive operator.

## 6. Divergences

Shown by a run, with the quoted text in `PROJECT.json`:

- `broken_duplicate`: the polling engine runs an order `place_order` is about to
  run, and both trade it.
- `broken_delete`: deleting a running strategy takes `PROCESS_LOCK` a second time
  and never returns, with every later start and stop.
- `broken_carryover`: an intraday position that was closed and is reopened keeps
  its old `created_at`, so a login during the day closes it as one carried over.

Found while modelling, not kept as runs.

*Account and engines.*

- `release_margin` subtracts without a floor, while
  `docs/prd/sandbox-margin-system.md:91` shows one; cancelling an order that never
  blocked margin releases a recomputed amount (`order_manager.py:879`), and a
  cancellation that overlaps with the execution releases twice.
- `reconcile_margin` sets the margin to the sum over positions, so any fill hands
  back the margin of orders that still wait; it does so without the lock and
  overwrites a concurrent block or release.
- Two fills of one position read the same quantity; the documentation asks for a
  lock the code does not have.
- Two resting CNC sales are validated against the same shares.
- The margin of a reversed position is scaled down from an amount that was
  blocked for the excess only.
- `modify_order` leaves `margin_blocked` as it is when the quantity changes; the
  design document (`docs/design/07-sandbox/README.md:1542`) recomputes it.
- The profit of a position without margin is not booked on the funds row
  (`execution_engine.py:513`).
- The balance equation of the design document (line 263) has the sign of
  used margin different from the code's.
- A stop forgets a polling thread whose pass outlasts the join, and the next
  start adds a second one: for a while two serve.
- A watcher that waits for `_thread_lock` while its join times out finds the
  shared event cleared by the next start and goes on as a second watcher
  (`execution_thread.py:240`); `StopEndsThreads` shows it ends at the next stop.
- A tick that has copied the identifiers of a symbol's orders races a
  cancellation: both call `notify_order_completed`, the symbol's count goes down
  twice, and the feed may be given up while another order still waits for it
  (`websocket_execution_engine.py:175`, `237`, `366`).

*Evening and night.*

- A cron job and a backup job that read the same position both close it: the
  position reverses, and the next pass closes it again.
- A crash in a T+1 settlement after its first commit moves the same shares a
  second time; the catch-up's clamp of `used_margin` at zero then loses money.
- A commit that fails in a T+1 settlement is rolled back with all that was
  pending (`fund_manager.py:327`), the deletion of the position settled before it
  included. That position is settled again the next night: its shares are moved
  twice, its cost is taken from the margin of others, or, for a sale of holdings,
  its proceeds are paid twice (`undoes`; three orders in two delivery books show
  it). Proving `Wealth` brought this to light: with the two orders of `dayend`
  money still added up.
- After a purchase that turns a delivery position from short to long, its margin
  is the scaled-down one (see *Account and engines*), but a settlement takes the
  full cost off `used_margin`: less is left than the other positions need, and the
  catch-up's clamp at zero then makes money of nothing (a quantity of 2 shows it).
- Two requests for the positions after an expiry release margin and profit twice.
- The catch-up writes the funds row without the lock.
- `process_session_settlement` imports a module that does not exist
  (`database.db`) and is called by nothing; `process_all_users_settlement` is
  called by nothing.

*Strategy host.*

- `cleanup_on_exit` takes the lock twice as `delete_strategy` does.
- When the server alone restarts and the contracts are not ready, or a request
  comes before the restoration has ended, a live process is forgotten and a
  second one can be started (`lateContracts`, `earlyCalls`, `restartOvertaken`).
- A kill between the spawn and the save leaves a process nobody knows
  (`killedMidway`).
- A failed resume clears the pause: the strategy is not tried again.
- After a login a live child is tracked by a `psutil` object, whose zombie counts
  as running until the cleanup (`python_strategy.py:2711`).

*Proxy.*

- The cleanup by a login while a client holds the pool lets the later
  `initialize(force)` clear nothing and add a connection: one more than the limit.
- `Fresh` needs both the call in the process and the message; either alone leaves
  a connection with the old token.
- A refused downgrade whose rollback is refused too leaves an entry for a mode
  nobody streams.
- The logout's `upsert_auth` with an empty broker matches no pool.
- Failed restorations are only logged; a failed unsubscription leaves the key in
  the pool's table; a repeated login ends feeds without telling the clients.
- `authenticate_client` does not recognise the form in which a pool reports a
  failed `initialize` (`server.py:728`).
- A symbol subscribed in LTP, then Quote, and given up in the same order still
  streams LTP: giving up the lower mode makes no call, and the last call stops
  Quote only (`connection_manager.py:806`).

*Download jobs.*

- `cancel_job` (`historify_service.py:1857-1865`) calls `_cleanup_job` under the
  lock that function takes: it hangs for good, with every worker at its next item
  and every later request.
- `cleanup_zombie_jobs` (1315) is called by nothing: after a restart a job stays
  "running", cannot be deleted, and cancelling it hangs. Jobs "pending" at a
  restart can be neither cancelled nor retried.
- A failed job without failed items cannot be retried, against its docstring.
- Retrying a paused job replaces its event: the old worker waits on the old one,
  or two workers run the job and the cleanup of the second makes the first mark a
  completed job "cancelled". A retry between the final status and `_cleanup_job`
  ends "cancelled", a pause there leaves "paused" without a worker.
- Deleting a paused job leaves its worker waiting for good; paused jobs occupy
  threads of the executor.
- Incremental downloads that skip an item `continue` past
  `update_job_progress`, so counters stay behind and the page offers no retry.
- `update_job_status` and `update_job_item_status` swallow exceptions.

Two workers on one job were explored apart from the runs (two workers, one
caller): safety and liveness hold outside the cases above, but the instance is
too large to keep.

## 7. Not modelled

- Prices, quotes, order types beyond their effect (run at once, run when
  touched, rest), symbol validation, lot sizes, brokerage: they decide before
  any state is read, or are the choice whether an order runs.
- Rounding of decimals. Margins are integers; `MarginReleased` and `MarginAfter`
  divide as the code does in proportion.
- Several users: the rows of users are disjoint, the lock is the only thing they
  share, and a lock held by another user only delays.
- The unflushed state a refused modification leaves in a long-lived session;
  requests of the web server drop their session at the end
  (`app.py:861-899`).
- A second reset by overlapping `get_funds` calls: resets are explored with
  `Serial` only.
- Marking to market, the session boundary and daily statistics of the sandbox:
  they write columns nothing else decides on.
- The WebSocket engine's reference counts, health monitor and fallback thread
  (see the plan).
- Historify's watchlists, schedules, imports, exports and candles; the proxy's
  statistics, pings, sending of ticks and token caches; uploading and editing
  strategies, their logs and event stream.
- The market data service, action center, event bus, Flow executor, bots, MCP
  server, tick pipeline and option chain application: each either forwards calls
  or keeps caches whose loss is repaired by the next value.
- Broker adapters, REST handlers and the frontends: mappings of formats and
  pages. They are by far the most lines of the repository, and a model of them
  would restate formats without state; this is why the mapped lines are a small
  share of all lines. Of the parts with state and concurrency of their own, the
  mapped share is what the components in `PROJECT.json` say.

## 8. Plan

Done: funds, netting, account, order book and engine threads; square-off,
settlement, expiry and catch-up; the strategy host; the proxy with its pool; the
download jobs; a theorem for every invariant a passing run checks, for the action
properties and for the refinement of the order book.

Left, in this order:

1. The WebSocket engine's feed: reference counts under `notify_order_completed`
   from two threads, health monitor and fallback thread (at most one fallback loop
   that is not told to stop).
2. The market data service (delivery by priority, stale cache) and the action
   center (an approval twice).
3. Proofs with weaker hypotheses: `Conservation` for overlapping requests that do
   not reconcile at the same time, `PositionIsNetOfTrades` for operations on
   different positions, `SharesKept` through the circumstance `together`, which
   touches other positions than a settlement does, and the type correctness of the
   strategy host under its circumstances.
