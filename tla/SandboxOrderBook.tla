-------------------------- MODULE SandboxOrderBook --------------------------
(***************************************************************************)
(* What the sandbox promises about orders and positions, without threads,  *)
(* margin or money: an order is accepted or rejected once, an accepted one *)
(* is filled or cancelled at most once, and a position is the net of the   *)
(* fills since the last reset.  The statuses are those of sandbox_orders.  *)
(***************************************************************************)
EXTENDS Integers

CONSTANTS
    OrderIds, Books,
    Quantities      \* signed quantities an order may have, zero is none of them

VARIABLES
    status,     \* of each order, "none" before it is placed
    order,      \* the book and the signed quantity of each order placed
    net         \* signed quantity held in each book

bookVars == <<status, order, net>>

Blank == [book |-> CHOOSE b \in Books : TRUE, qty |-> 0]

Init ==
    /\ status = [o \in OrderIds |-> "none"]
    /\ order = [o \in OrderIds |-> Blank]
    /\ net = [b \in Books |-> 0]

\* The orders differ in o alone, and what o has become is one of rows.
Becomes(o, rows) == order'[o] \in rows /\ order' = [order EXCEPT ![o] = order'[o]]

Accept(o) ==
    /\ status[o] = "none"
    /\ Becomes(o, [book : Books, qty : Quantities])
    /\ \E s \in {"open", "rejected"} : status' = [status EXCEPT ![o] = s]
    /\ UNCHANGED net

Fill(o) ==
    /\ status[o] = "open"
    /\ status' = [status EXCEPT ![o] = "complete"]
    /\ net' = [net EXCEPT ![order[o].book] = @ + order[o].qty]
    /\ UNCHANGED order

Cancel(o) ==
    /\ status[o] = "open"
    /\ status' = [status EXCEPT ![o] = "cancelled"]
    /\ UNCHANGED <<order, net>>

\* Only the size of an order may be modified, never its book or direction.
Modify(o) ==
    /\ status[o] = "open"
    /\ Becomes(o, [book : {order[o].book}, qty : Quantities])
    /\ (order'[o].qty > 0) = (order[o].qty > 0)
    /\ UNCHANGED <<status, net>>

\* A reset forgets the positions and leaves the orders alone.
Reset ==
    /\ net' = [b \in Books |-> 0]
    /\ UNCHANGED <<status, order>>

Next ==
    \/ \E o \in OrderIds : Accept(o) \/ Fill(o) \/ Cancel(o) \/ Modify(o)
    \/ Reset

Spec == Init /\ [][Next]_bookVars
=============================================================================
