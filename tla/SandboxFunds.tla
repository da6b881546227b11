---------------------------- MODULE SandboxFunds ----------------------------
(***************************************************************************)
(* The funds row of one sandbox user (table sandbox_funds) and what the    *)
(* operations of FundManager (sandbox/fund_manager.py) do to it.           *)
(*                                                                         *)
(* Amounts are whole numbers of the smallest money unit.  Three columns    *)
(* are kept: available_balance, used_margin and realized_pnl.  The columns *)
(* today_realized_pnl, unrealized_pnl and total_pnl never feed back into   *)
(* these three and are left out.                                           *)
(***************************************************************************)
EXTENDS Integers

CONSTANT Capital          \* starting_capital of the configuration

ASSUME CapitalAssumption == Capital \in Nat

FundsRow == [avail : Int, used : Int, realized : Int]

\* initialize_funds, and the row _reset_funds writes.
InitialFunds == [avail |-> Capital, used |-> 0, realized |-> 0]

\* block_margin refuses when available_balance < amount.
CanBlock(f, amount) == f.avail >= amount

BlockMargin(f, amount) ==
    [f EXCEPT !.avail = @ - amount, !.used = @ + amount]

\* Variant: the profit reaches the balance and not realized_pnl.
ReleaseMarginUnbooked(f, amount, pnl) ==
    [f EXCEPT !.avail = @ + amount + pnl, !.used = @ - amount]

\* release_margin: no floor, used_margin may go below zero.
ReleaseMargin(f, amount, pnl) ==
    [avail    |-> f.avail + amount + pnl,
     used     |-> f.used - amount,
     realized |-> f.realized + pnl]

(***************************************************************************)
(* reconcile_margin(auto_fix=True) writes used_margin and                  *)
(* available_balance, both computed from the row it read earlier (seen),   *)
(* outside FundManager._lock; realized_pnl keeps its current value.        *)
(***************************************************************************)
ReconcileMargin(f, seen, total) ==
    [f EXCEPT !.used = total, !.avail = seen.avail + (seen.used - total)]

\* What a funds row is worth net of the profit and loss it has booked.
Equity(f) == f.avail + f.used - f.realized
=============================================================================
