--------------------------- MODULE SandboxNetting ---------------------------
(***************************************************************************)
(* Margin required by an order and the netting of a fill into a position:  *)
(* the arithmetic of OrderManager.place_order and                          *)
(* ExecutionEngine._update_position.                                       *)
(*                                                                         *)
(* Quantities are signed: positive for BUY and long, negative for SELL and *)
(* short.  "rate" is the margin of one unit of quantity, that is the price *)
(* the margin is computed at divided by the leverage of the instrument     *)
(* (calculate_margin_required).  Prices reach a position only through the  *)
(* profit or loss a fill realizes, so that is an argument too.             *)
(***************************************************************************)
EXTENDS Integers

\* A row of sandbox_positions; live says whether the row exists.
PositionRow ==
    [live : BOOLEAN, qty : Int, margin : Nat, realized : Int]

NoPosition == [live |-> FALSE, qty |-> 0, margin |-> 0, realized |-> 0]

Size(q) == IF q < 0 THEN -q ELSE q

Smaller(m, n) == IF m <= n THEN m ELSE n

Opposite(held, q) == (held > 0 /\ q < 0) \/ (held < 0 /\ q > 0)

\* Variant: the signed quantity is multiplied.
MarginRequiredSigned(q, rate) == q * rate

MarginRequired(q, rate) == Size(q) * rate

(***************************************************************************)
(* place_order: an order against the position needs no margin up to the    *)
(* quantity held, and margin for the excess beyond it.                     *)
(***************************************************************************)
MarginToBlock(held, q, rate) ==
    IF ~Opposite(held, q) THEN MarginRequired(q, rate)
    ELSE IF Size(q) <= Size(held) THEN 0
         ELSE MarginRequired(Size(q) - Size(held), rate)

\* The branches of _update_position, in the order the code tests them.
Opens(pos, q)   == pos.qty = 0
Closes(pos, q)  == pos.qty # 0 /\ pos.qty + q = 0
Adds(pos, q)    == pos.qty # 0 /\ ~Opposite(pos.qty, q)
Reduces(pos, q) == Opposite(pos.qty, q) /\ pos.qty + q # 0

Reverses(pos, q) == Reduces(pos, q) /\ Size(q) > Size(pos.qty)

\* The branches that compute a realized profit or loss.
Realizes(pos, q) == Closes(pos, q) \/ Reduces(pos, q)

\* Variant: a fill larger than the position releases more than its share.
MarginReleasedWhole(pos, q) ==
    IF Realizes(pos, q) THEN (pos.margin * Size(q)) \div Size(pos.qty) ELSE 0

(***************************************************************************)
(* Margin handed to release_margin: all of the position's on a close, the  *)
(* reduced share of it otherwise (rounded to the money unit).              *)
(***************************************************************************)
MarginReleased(pos, q) ==
    IF Realizes(pos, q)
    THEN (pos.margin * Smaller(Size(pos.qty), Size(q))) \div Size(pos.qty)
    ELSE 0

(***************************************************************************)
(* margin_blocked of the position once the fill is netted: the order's     *)
(* margin comes in when the fill opens or adds, the released share goes    *)
(* out when it reduces or closes.  After a reversal, the share of the      *)
(* order's margin that its excess quantity has in the whole order.         *)
(***************************************************************************)
MarginAfter(pos, q, orderMargin) ==
    IF Opens(pos, q) THEN orderMargin
    ELSE IF Adds(pos, q) THEN pos.margin + orderMargin
    ELSE IF Reverses(pos, q)
         THEN (orderMargin * (Size(q) - Size(pos.qty))) \div Size(q)
         ELSE pos.margin - MarginReleased(pos, q)
=============================================================================
