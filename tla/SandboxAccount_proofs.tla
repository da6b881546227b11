----------------------- MODULE SandboxAccount_proofs -----------------------
(***************************************************************************)
(* Theorems about SandboxAccount, for every value of its constants that    *)
(* satisfies the assumptions.                                              *)
(***************************************************************************)
EXTENDS SandboxAccountChecks, SetInduction

-----------------------------------------------------------------------------
(* The operators on margins and positions *)

\* The size of an integer is a natural number.
LEMMA SizeType ==
    ASSUME NEW q \in Int
    PROVE  /\ Size(q) \in Nat
           /\ q # 0 => Size(q) > 0
  BY DEF Size

\* A share of a margin is at most the margin: the division does not exceed it.
LEMMA ShareBound ==
    ASSUME NEW m \in Nat, NEW part \in Nat, NEW whole \in Nat, whole > 0,
           part <= whole
    PROVE  (m * part) \div whole \in 0 .. m
  <1>1. m * part \in Nat /\ m * part <= m * whole
    OBVIOUS
  <1>2. (m * part) \div whole \in Int
    BY <1>1
  <1> QED
    BY <1>1, <1>2

\* release_margin is never asked for more than the position has blocked.
LEMMA MarginReleasedBound ==
    ASSUME NEW pos \in PositionRow, NEW q \in Int
    PROVE  MarginReleased(pos, q) \in 0 .. pos.margin
  <1>1. pos.margin \in Nat /\ pos.qty \in Int
    BY DEF PositionRow
  <1>2. CASE ~Realizes(pos, q)
    BY <1>1, <1>2 DEF MarginReleased
  <1>3. CASE Realizes(pos, q)
    <2>1. pos.qty # 0
      BY <1>1, <1>3 DEF Realizes, Closes, Reduces, Opposite
    <2>2. Size(pos.qty) \in Nat /\ Size(pos.qty) > 0 /\ Size(q) \in Nat
      BY <1>1, <2>1, SizeType
    <2>3. Smaller(Size(pos.qty), Size(q)) \in Nat
          /\ Smaller(Size(pos.qty), Size(q)) <= Size(pos.qty)
      BY <2>2 DEF Smaller
    <2> QED
      BY <1>1, <1>3, <2>2, <2>3, ShareBound DEF MarginReleased
  <1> QED
    BY <1>2, <1>3

\* The margin a position is left with is an amount.
LEMMA MarginAfterType ==
    ASSUME NEW pos \in PositionRow, NEW q \in Int, NEW m \in Nat
    PROVE  MarginAfter(pos, q, m) \in Nat
  <1>1. pos.margin \in Nat /\ pos.qty \in Int
    BY DEF PositionRow
  <1>2. pos.margin - MarginReleased(pos, q) \in Nat
    BY <1>1, MarginReleasedBound
  <1>3. ASSUME Reverses(pos, q)
        PROVE  (m * (Size(q) - Size(pos.qty))) \div Size(q) \in Nat
    <2>1. Size(q) \in Nat /\ Size(pos.qty) \in Nat /\ Size(q) > Size(pos.qty)
      BY <1>1, <1>3, SizeType DEF Reverses
    <2>2. Size(q) - Size(pos.qty) \in Nat /\ Size(q) > 0
      BY <2>1
    <2> QED
      BY <2>1, <2>2, ShareBound
  <1> QED
    BY <1>1, <1>2, <1>3 DEF MarginAfter

\* The margin of an order is an amount.
LEMMA MarginToBlockType ==
    ASSUME NEW held \in Int, NEW q \in Int, NEW rate \in Nat
    PROVE  MarginToBlock(held, q, rate) \in Nat
  <1>1. Size(held) \in Nat /\ Size(q) \in Nat
    BY SizeType
  <1>2. ASSUME Size(q) > Size(held)
        PROVE  Size(Size(q) - Size(held)) = Size(q) - Size(held)
    BY <1>1, <1>2 DEF Size
  <1>3. Size(q) * rate \in Nat
    BY <1>1
  <1>4. ASSUME Size(q) > Size(held)
        PROVE  (Size(q) - Size(held)) * rate \in Nat
    BY <1>1, <1>4
  <1> QED
    BY <1>1, <1>2, <1>3, <1>4 DEF MarginToBlock, MarginRequired

\* The margins of the open positions add up to an amount.
LEMMA TotalMarginType ==
    ASSUME NEW pos \in [Books -> PositionRow]
    PROVE  TotalMargin(pos) \in Nat
  <1> DEFINE live == {c \in Books : pos[c].qty # 0}
             units == {MarginUnits(pos, b) : b \in live}
  <1>1. IsFiniteSet(live)
    BY AccountAssumption, FS_Subset
  <1>2. IsFiniteSet(units)
    <2> DEFINE unitsOf == [b \in live |-> MarginUnits(pos, b)]
    <2>1. units = {unitsOf[b] : b \in live}
      OBVIOUS
    <2>2. unitsOf \in Surjection(live, units)
      BY DEF Surjection
    <2> QED
      BY <1>1, <2>2, FS_Surjection
  <1>3. \A u \in units : IsFiniteSet(u)
    <2> SUFFICES ASSUME NEW b \in live
                 PROVE  IsFiniteSet(MarginUnits(pos, b))
      OBVIOUS
    <2>1. pos[b].margin \in Nat
      BY DEF PositionRow
    <2>2. IsFiniteSet(1 .. pos[b].margin)
      BY <2>1, FS_Interval
    <2>3. IsFiniteSet({b})
      BY FS_Singleton
    <2> QED
      BY <2>2, <2>3, FS_Product DEF MarginUnits
  <1>4. IsFiniteSet(UNION units)
    BY <1>2, <1>3, FS_UNION
  <1> QED
    BY <1>4, FS_CardinalityType DEF TotalMargin
\* Blocking, releasing and reconciling give a funds row.
LEMMA FundsTypes ==
    ASSUME NEW f \in FundsRow, NEW seen \in FundsRow,
           NEW amount \in Int, NEW pnl \in Int
    PROVE  /\ BlockMargin(f, amount) \in FundsRow
           /\ ReleaseMargin(f, amount, pnl) \in FundsRow
           /\ ReconcileMargin(f, seen, amount) \in FundsRow
  <1>1. /\ f.avail \in Int /\ f.used \in Int /\ f.realized \in Int
        /\ seen.avail \in Int /\ seen.used \in Int
    BY DEF FundsRow
  <1>2. /\ f.avail - amount \in Int
        /\ f.used + amount \in Int
        /\ seen.avail + (seen.used - amount) \in Int
    BY <1>1
  <1>3. BlockMargin(f, amount) \in FundsRow
    BY <1>2 DEF BlockMargin, FundsRow
  <1>4. ReleaseMargin(f, amount, pnl) \in FundsRow
    BY <1>1 DEF ReleaseMargin, FundsRow
  <1>5. ReconcileMargin(f, seen, amount) \in FundsRow
    BY <1>2 DEF ReconcileMargin, FundsRow
  <1> QED
    BY <1>3, <1>4, <1>5

-----------------------------------------------------------------------------
(* Type correctness *)

\* The steps at which a thread works on an order of the table.
OrderSteps == {"load", "check", "execute", "position", "release", "apply",
               "sum", "read", "reconcile", "finish", "cancel", "modify"}

WorksOnOrder ==
    \A t \in Threads :
        threads[t].step \in OrderSteps => threads[t].oid \in OrderIds

TypeInv == TypeOK /\ WorksOnOrder

\* The constants the rows start from have their types.
LEMMA RowTypes ==
    /\ InitialFunds \in FundsRow
    /\ NoRow \in OrderRow
    /\ NoPosition \in PositionRow
    /\ Idle \in ThreadState
  <1>1. InitialFunds \in FundsRow
    BY CapitalAssumption DEF InitialFunds, FundsRow
  <1>2. NoRow \in OrderRow
    BY AccountAssumption DEF NoRow, OrderRow, Statuses
  <1>3. NoPosition \in PositionRow
    BY DEF NoPosition, PositionRow
  <1>4. Idle \in ThreadState
    BY <1>1, <1>2, <1>3 DEF Idle, ThreadState, Steps, AllKinds
  <1> QED
    BY <1>1, <1>2, <1>3, <1>4

\* A thread's new state keeps the types when it has one itself.
LEMMA BecomeType ==
    ASSUME TypeInv, NEW t \in Threads, NEW s \in ThreadState,
           s.step \in OrderSteps => s.oid \in OrderIds,
           threads' = [threads EXCEPT ![t] = s]
    PROVE  threads' \in [Threads -> ThreadState] /\ WorksOnOrder'
  BY DEF TypeInv, TypeOK, WorksOnOrder

\* So does going to another step of the same work.
LEMMA GotoType ==
    ASSUME TypeInv, NEW t \in Threads, NEW step \in Steps, Goto(t, step),
           step \in OrderSteps => threads[t].oid \in OrderIds
    PROVE  threads' \in [Threads -> ThreadState] /\ WorksOnOrder'
  <1> DEFINE s == [threads[t] EXCEPT !.step = step]
  <1>1. threads[t] \in ThreadState
    BY DEF TypeInv, TypeOK
  <1>2. s \in ThreadState /\ s.step = step /\ s.oid = threads[t].oid
    BY <1>1 DEF ThreadState
  <1>3. threads' = [threads EXCEPT ![t] = s]
    BY DEF Goto
  <1> QED
    BY <1>2, <1>3, BecomeType

\* Ending the work does, too.
LEMMA IdleTypeStep ==
    ASSUME TypeInv, NEW t \in Threads, Become(t, Idle)
    PROVE  threads' \in [Threads -> ThreadState] /\ WorksOnOrder'
  BY RowTypes, BecomeType DEF Become, Idle, OrderSteps

LEMMA TypeInvInit == Init => TypeInv
  <1> SUFFICES ASSUME Init PROVE TypeInv
    OBVIOUS
  <1>1. TypeOK
    BY RowTypes, AccountAssumption DEF Init, TypeOK
  <1>2. WorksOnOrder
    BY DEF Init, WorksOnOrder, Idle, OrderSteps
  <1> QED
    BY <1>1, <1>2 DEF TypeInv

\* Requests start their work with typed copies of the rows they read.
LEMMA TypeInvRequest ==
    ASSUME TypeInv, NEW t \in Threads, Request(t)
    PROVE  TypeInv'
  <1>1. CASE PlaceOrder(t)
    <2>1. PICK b \in Books, q \in Quantities, rate \in Rates, kind \in Kinds :
            LET held == positions[b].qty
                need == MarginToBlock(held, q, rate)
                ok   == Deliverable(b, q, held)
            IN  Become(t, [Idle EXCEPT
                  !.step = IF ok THEN "block" ELSE "reject",
                  !.kind = kind,
                  !.row  = [status |-> IF ok THEN "open" ELSE "rejected",
                            book   |-> b,
                            qty    |-> q,
                            margin |-> IF ok THEN need ELSE 0]])
      BY <1>1 DEF PlaceOrder
    <2> DEFINE held == positions[b].qty
               need == MarginToBlock(held, q, rate)
               ok   == Deliverable(b, q, held)
               row  == [status |-> IF ok THEN "open" ELSE "rejected",
                        book |-> b, qty |-> q, margin |-> IF ok THEN need ELSE 0]
               s    == [Idle EXCEPT !.step = IF ok THEN "block" ELSE "reject",
                                    !.kind = kind, !.row = row]
    <2>2. held \in Int /\ q \in Int /\ rate \in Nat /\ kind \in AllKinds
      BY AccountAssumption DEF TypeInv, TypeOK, PositionRow
    <2>3. need \in Nat
      BY <2>2, MarginToBlockType
    <2> HIDE DEF need, ok
    <2>4. row \in OrderRow
      BY <2>2, <2>3 DEF OrderRow, Statuses
    <2> HIDE DEF row
    <2>5. s \in ThreadState /\ s.step \notin OrderSteps
      BY <2>2, <2>4, RowTypes DEF ThreadState, Steps, OrderSteps, Idle
    <2>6. threads' = [threads EXCEPT ![t] = s]
      BY <2>1 DEF Become, need, ok, row
    <2> QED
      BY <1>1, <2>5, <2>6, BecomeType DEF PlaceOrder, TypeInv, TypeOK, tables
  <1>2. CASE ClosePosition(t)
    <2>1. PICK b \in Books, kind \in Kinds \ {"marketable"} :
            Become(t, [Idle EXCEPT
              !.step = "block",
              !.kind = kind,
              !.row  = [status |-> "open", book |-> b,
                        qty |-> -positions[b].qty, margin |-> 0]])
      BY <1>2 DEF ClosePosition
    <2> DEFINE row == [status |-> "open", book |-> b,
                       qty |-> -positions[b].qty, margin |-> 0]
               s   == [Idle EXCEPT !.step = "block", !.kind = kind, !.row = row]
    <2>2. row \in OrderRow /\ kind \in AllKinds
      BY AccountAssumption
         DEF TypeInv, TypeOK, PositionRow, OrderRow, Statuses
    <2> HIDE DEF row
    <2>3. s \in ThreadState /\ s.step \notin OrderSteps
      BY <2>2, RowTypes DEF ThreadState, Steps, OrderSteps, Idle
    <2>4. threads' = [threads EXCEPT ![t] = s]
      BY <2>1 DEF Become, row
    <2> QED
      BY <1>2, <2>3, <2>4, BecomeType DEF ClosePosition, TypeInv, TypeOK, tables
  <1>3. ASSUME NEW request \in {"cancel", "modify"}, LoadForRequest(t, request)
        PROVE  TypeInv'
    <2>1. PICK o \in OrderIds :
            Become(t, [Idle EXCEPT !.step = request, !.oid = o, !.row = orders[o]])
      BY <1>3 DEF LoadForRequest
    <2> DEFINE s == [Idle EXCEPT !.step = request, !.oid = o, !.row = orders[o]]
    <2>2. orders[o] \in OrderRow
      BY DEF TypeInv, TypeOK
    <2>3. s \in ThreadState /\ s.oid \in OrderIds
      BY <2>2, RowTypes DEF ThreadState, Steps, Idle
    <2>4. threads' = [threads EXCEPT ![t] = s]
      BY <2>1 DEF Become
    <2> QED
      BY <1>3, <2>3, <2>4, BecomeType DEF LoadForRequest, TypeInv, TypeOK, tables
  <1>4. CASE GetFunds(t)
    <2>1. Goto(t, "reset") /\ UNCHANGED <<tables, index, faults>>
      BY <1>4 DEF GetFunds
    <2> QED
      BY <2>1, GotoType DEF Steps, OrderSteps, TypeInv, TypeOK, tables
  <1> QED
    BY <1>1, <1>2, <1>3, <1>4 DEF Request

\* Placing, cancelling, modifying and resetting keep the types.
LEMMA TypeInvManagers ==
    ASSUME TypeInv, NEW t \in Threads,
           \/ BlockMarginStep(t) \/ InsertOrder(t) \/ InsertRejected(t)
           \/ CancelOrder(t) \/ ModifyOrder(t) \/ ResetFunds(t) \/ WipePositions(t)
    PROVE  TypeInv'
  <1> DEFINE th == threads[t]
  <1>1. th \in ThreadState /\ th.row \in OrderRow
    BY DEF TypeInv, TypeOK, ThreadState
  <1>2. CASE BlockMarginStep(t)
    <2> DEFINE due == IF BlocksMargin(th.row) THEN th.row.margin ELSE 0
    <2>1. due \in Nat
      BY <1>1 DEF OrderRow
    <2> HIDE DEF due
    <2>2. BlockMargin(funds, due) \in FundsRow
      BY <2>1, FundsTypes DEF TypeInv, TypeOK
    <2>3. funds' \in FundsRow
      BY <1>2, <2>2 DEF BlockMarginStep, TypeInv, TypeOK, due
    <2>4. Goto(t, "insert") \/ Become(t, Idle)
      BY <1>2 DEF BlockMarginStep
    <2>5. threads' \in [Threads -> ThreadState] /\ WorksOnOrder'
      BY <2>4, GotoType, IdleTypeStep DEF Steps, OrderSteps
    <2> QED
      BY <1>2, <2>3, <2>5 DEF BlockMarginStep, TypeInv, TypeOK
  <1>3. CASE InsertOrder(t)
    <2>1. PICK o \in OrderIds :
            /\ orders' = [orders EXCEPT ![o] = th.row]
            /\ threads' = [threads EXCEPT
                 ![t].oid  = o,
                 ![t].step = IF th.kind = "resting" THEN "finish" ELSE "load"]
      BY <1>3 DEF InsertOrder
    <2> DEFINE step == IF th.kind = "resting" THEN "finish" ELSE "load"
               s == [th EXCEPT !.oid = o, !.step = step]
    <2>2. step \in Steps
      BY DEF Steps
    <2>3. threads' = [threads EXCEPT ![t] = s]
      BY <2>1
    <2> HIDE DEF step
    <2>4. s \in ThreadState /\ s.oid = o
      BY <1>1, <2>2 DEF ThreadState
    <2>5. threads' \in [Threads -> ThreadState] /\ WorksOnOrder'
      BY <2>3, <2>4, BecomeType
    <2> QED
      BY <1>1, <1>3, <2>1, <2>5 DEF InsertOrder, TypeInv, TypeOK
  <1>4. CASE InsertRejected(t)
    <2>1. threads' \in [Threads -> ThreadState] /\ WorksOnOrder'
      BY <1>4, IdleTypeStep DEF InsertRejected
    <2> QED
      BY <1>1, <1>4, <2>1 DEF InsertRejected, TypeInv, TypeOK
  <1>5. CASE CancelOrder(t)
    <2>1. PICK rate \in Rates :
            funds' = ReleaseMargin(funds,
                       IF th.row.margin > 0 THEN th.row.margin
                       ELSE IF BlocksMargin(th.row) THEN MarginRequired(th.row.qty, rate)
                       ELSE 0, 0)
      BY <1>5 DEF CancelOrder
    <2>2. th.row.margin \in Nat /\ th.row.qty \in Int /\ rate \in Nat
      BY <1>1, AccountAssumption DEF OrderRow
    <2>3. MarginRequired(th.row.qty, rate) \in Nat
      BY <2>2, SizeType DEF MarginRequired
    <2>4. funds' \in FundsRow
      BY <2>1, <2>2, <2>3, FundsTypes DEF TypeInv, TypeOK
    <2>5. threads' \in [Threads -> ThreadState] /\ WorksOnOrder'
      BY <1>5, IdleTypeStep DEF CancelOrder
    <2>6. orders' \in [OrderIds -> OrderRow]
      <3>1. orders' = [orders EXCEPT ![th.oid].status = "cancelled"]
        BY <1>5 DEF CancelOrder
      <3>2. orders \in [OrderIds -> OrderRow] /\ "cancelled" \in Statuses
        BY DEF TypeInv, TypeOK, Statuses
      <3> QED
        BY <3>1, <3>2 DEF OrderRow
    <2> QED
      BY <1>5, <2>4, <2>5, <2>6 DEF CancelOrder, TypeInv, TypeOK
  <1>6. CASE ModifyOrder(t)
    <2>1. threads' \in [Threads -> ThreadState] /\ WorksOnOrder'
      BY <1>6, IdleTypeStep DEF ModifyOrder
    <2>2. orders' \in [OrderIds -> OrderRow]
      <3>1. PICK q \in Quantities : orders' = [orders EXCEPT ![th.oid].qty = q]
        BY <1>6 DEF ModifyOrder
      <3>2. orders \in [OrderIds -> OrderRow] /\ q \in Int
        BY AccountAssumption DEF TypeInv, TypeOK
      <3> QED
        BY <3>1, <3>2 DEF OrderRow
    <2> QED
      BY <1>6, <2>1, <2>2 DEF ModifyOrder, TypeInv, TypeOK
  <1>7. CASE ResetFunds(t)
    <2>1. threads' \in [Threads -> ThreadState] /\ WorksOnOrder'
      BY <1>7, GotoType DEF ResetFunds, Steps, OrderSteps
    <2> QED
      BY <1>7, <2>1, RowTypes DEF ResetFunds, TypeInv, TypeOK
  <1>8. CASE WipePositions(t)
    <2>1. threads' \in [Threads -> ThreadState] /\ WorksOnOrder'
      BY <1>8, IdleTypeStep DEF WipePositions
    <2> QED
      BY <1>8, <2>1, RowTypes DEF WipePositions, TypeInv, TypeOK
  <1> QED
    BY <1>2, <1>3, <1>4, <1>5, <1>6, <1>7, <1>8

\* Selecting an order to run and running it up to its trade keep the types.
LEMMA TypeInvExecution ==
    ASSUME TypeInv, NEW t \in Threads,
           \/ Tick(t) \/ PollPass(t) \/ PollOrder(t)
           \/ LoadOrder(t) \/ CheckTrade(t) \/ ExecuteOrder(t)
    PROVE  TypeInv'
  <1> DEFINE th == threads[t]
  <1>1. /\ th \in ThreadState /\ th.row \in OrderRow
        /\ th.picked \in SUBSET (OrderIds \X OrderRow)
        /\ orders \in [OrderIds -> OrderRow]
    BY DEF TypeInv, TypeOK, ThreadState
  <1>2. Expire(th.picked) \in SUBSET (OrderIds \X OrderRow)
    <2>1. \A p \in th.picked : <<p[1], NoRow>> \in OrderIds \X OrderRow
      BY <1>1, RowTypes
    <2> QED
      BY <2>1 DEF Expire
  <1>3. CASE Tick(t)
    <2>1. CASE UNCHANGED threads
      BY <1>3, <2>1 DEF Tick, TypeInv, TypeOK, tables, WorksOnOrder
    <2>2. CASE threads' # threads
      <3>1. PICK o \in index : Become(t, [Idle EXCEPT !.step = "check", !.oid = o,
                                                      !.row = orders[o]])
                               /\ UNCHANGED index
        BY <1>3, <2>2 DEF Tick
      <3> DEFINE s == [Idle EXCEPT !.step = "check", !.oid = o, !.row = orders[o]]
      <3>2. o \in OrderIds /\ orders[o] \in OrderRow
        BY <1>1 DEF TypeInv, TypeOK
      <3>3. s \in ThreadState /\ s.oid = o
        BY <3>2, RowTypes DEF ThreadState, Steps, Idle
      <3>4. threads' = [threads EXCEPT ![t] = s]
        BY <3>1 DEF Become
      <3> QED
        BY <1>3, <3>1, <3>2, <3>3, <3>4, BecomeType
           DEF Tick, TypeInv, TypeOK, tables
    <2> QED
      BY <2>1, <2>2
  <1>4. CASE PollPass(t)
    <2> DEFINE picked == {<<o, orders[o]>> : o \in {p \in OrderIds : Open(p)}}
               s == [Idle EXCEPT !.step = "pass", !.picked = picked]
    <2>1. picked \in SUBSET (OrderIds \X OrderRow)
      BY <1>1
    <2> HIDE DEF picked
    <2>2. s \in ThreadState /\ s.step \notin OrderSteps
      BY <2>1, RowTypes DEF ThreadState, Steps, OrderSteps, Idle
    <2>3. threads' = [threads EXCEPT ![t] = s]
      BY <1>4 DEF PollPass, Become, picked
    <2> QED
      BY <1>4, <2>2, <2>3, BecomeType DEF PollPass, TypeInv, TypeOK, tables
  <1>5. CASE PollOrder(t)
    <2>1. PICK p \in th.picked :
            threads' = [threads EXCEPT
              ![t].step   = IF p[2] = NoRow THEN "load" ELSE "check",
              ![t].oid    = p[1],
              ![t].row    = p[2],
              ![t].picked = @ \ {p}]
      BY <1>5 DEF PollOrder
    <2> DEFINE step == IF p[2] = NoRow THEN "load" ELSE "check"
               rest == th.picked \ {p}
               s == [th EXCEPT !.step = step, !.oid = p[1], !.row = p[2],
                               !.picked = rest]
    <2>2. step \in Steps /\ rest \in SUBSET (OrderIds \X OrderRow)
          /\ p[1] \in OrderIds /\ p[2] \in OrderRow
      BY <1>1 DEF Steps
    <2>3. threads' = [threads EXCEPT ![t] = s]
      BY <2>1
    <2> HIDE DEF step, rest
    <2>4. s \in ThreadState /\ s.oid = p[1]
      BY <1>1, <2>2 DEF ThreadState
    <2> QED
      BY <1>5, <2>2, <2>3, <2>4, BecomeType DEF PollOrder, TypeInv, TypeOK, tables
  <1>6. CASE LoadOrder(t)
    <2> DEFINE step == IF t \in ApiThreads /\ th.kind = "marketable"
                       THEN "execute" ELSE "check"
               row == orders[th.oid]
               s == [th EXCEPT !.row = row, !.step = step]
    <2>1. th.oid \in OrderIds
      BY <1>6 DEF LoadOrder, At, TypeInv, WorksOnOrder, OrderSteps
    <2>2. step \in Steps /\ row \in OrderRow
      BY <1>1, <2>1 DEF Steps
    <2>3. threads' = [threads EXCEPT ![t] = s]
      BY <1>6 DEF LoadOrder
    <2> HIDE DEF step, row
    <2>4. s \in ThreadState /\ s.oid = th.oid
      BY <1>1, <2>2 DEF ThreadState
    <2> QED
      BY <1>6, <2>1, <2>3, <2>4, BecomeType DEF LoadOrder, TypeInv, TypeOK, tables
  <1>7. CASE CheckTrade(t)
    <2>1. th.oid \in OrderIds
      BY <1>7 DEF CheckTrade, At, TypeInv, WorksOnOrder, OrderSteps
    <2>2. orders' \in [OrderIds -> OrderRow]
      <3>1. orders' = orders \/ orders' = [orders EXCEPT ![th.oid].status = "complete"]
        BY <1>7 DEF CheckTrade
      <3>2. "complete" \in Statuses
        BY DEF Statuses
      <3> QED
        BY <1>1, <3>1, <3>2 DEF OrderRow
    <2>3. threads' \in [Threads -> ThreadState] /\ WorksOnOrder'
      <3>1. CASE Goto(t, "finish") \/ Goto(t, "execute")
        BY <2>1, <3>1, GotoType DEF Steps
      <3>2. CASE threads' = [threads EXCEPT ![t].step = "finish",
                                            ![t].picked = Expire(@)]
        <4> DEFINE rest == Expire(th.picked)
                   s == [th EXCEPT !.step = "finish", !.picked = rest]
        <4>1. threads' = [threads EXCEPT ![t] = s]
          BY <3>2
        <4>2. rest \in SUBSET (OrderIds \X OrderRow)
          BY <1>2
        <4> HIDE DEF rest
        <4>3. s \in ThreadState /\ s.oid = th.oid
          BY <1>1, <4>2 DEF ThreadState, Steps
        <4> QED
          BY <2>1, <4>1, <4>3, BecomeType
      <3> QED
        BY <1>7, <3>1, <3>2 DEF CheckTrade
    <2> QED
      BY <1>7, <2>2, <2>3 DEF CheckTrade, TypeInv, TypeOK
  <1>8. CASE ExecuteOrder(t)
    <2>1. th.oid \in OrderIds
      BY <1>8 DEF ExecuteOrder, At, TypeInv, WorksOnOrder, OrderSteps
    <2>2. orders' \in [OrderIds -> OrderRow]
      <3>1. orders' = orders \/ orders' = [orders EXCEPT ![th.oid].status = "complete"]
        BY <1>8 DEF ExecuteOrder
      <3>2. "complete" \in Statuses
        BY DEF Statuses
      <3> QED
        BY <1>1, <3>1, <3>2 DEF OrderRow
    <2>3. threads' \in [Threads -> ThreadState] /\ WorksOnOrder'
      <3> DEFINE rest == Expire(th.picked)
                 s == [th EXCEPT !.step = "position", !.picked = rest]
      <3>1. threads' = [threads EXCEPT ![t] = s]
        BY <1>8 DEF ExecuteOrder
      <3>2. rest \in SUBSET (OrderIds \X OrderRow)
        BY <1>2
      <3> HIDE DEF rest
      <3>3. s \in ThreadState /\ s.oid = th.oid
        BY <1>1, <3>2 DEF ThreadState, Steps
      <3> QED
        BY <2>1, <3>1, <3>3, BecomeType
    <2>4. trades' \in [OrderIds -> Nat]
      BY <1>8, <2>1 DEF ExecuteOrder, TypeInv, TypeOK
    <2>5. traded' \in [Books -> Int]
      <3>1. /\ traded \in [Books -> Int]
            /\ th.row.qty \in Int
            /\ th.row.book \in Books
            /\ traded[th.row.book] + th.row.qty \in Int
        BY <1>1 DEF OrderRow, TypeInv, TypeOK
      <3>2. traded' = [traded EXCEPT ![th.row.book] = @ + th.row.qty]
        BY <1>8 DEF ExecuteOrder
      <3> QED
        BY <3>1, <3>2
    <2> QED
      BY <1>8, <2>2, <2>3, <2>4, <2>5 DEF ExecuteOrder, TypeInv, TypeOK
  <1> QED
    BY <1>3, <1>4, <1>5, <1>6, <1>7, <1>8

\* Netting a fill into its position keeps the types.
LEMMA TypeInvPosition ==
    ASSUME TypeInv, NEW t \in Threads,
           ReadPosition(t) \/ ReleaseMarginStep(t) \/ ApplyPosition(t) \/ LosePosition(t)
    PROVE  TypeInv'
  <1> DEFINE th == threads[t]
             b  == th.row.book
  <1>1. /\ th \in ThreadState /\ th.row \in OrderRow /\ th.held \in PositionRow
        /\ th.pnl \in Int
        /\ orders \in [OrderIds -> OrderRow]
        /\ positions \in [Books -> PositionRow]
        /\ funds \in FundsRow
    BY DEF TypeInv, TypeOK, ThreadState
  <1>2. b \in Books /\ th.row.qty \in Int /\ th.row.margin \in Nat
        /\ th.held.qty \in Int /\ th.held.realized \in Int
    BY <1>1 DEF OrderRow, PositionRow
  <1>3. MarginReleased(th.held, th.row.qty) \in Nat
    BY <1>1, <1>2, MarginReleasedBound DEF PositionRow
  <1>4. th.step \in OrderSteps => th.oid \in OrderIds
    BY DEF TypeInv, WorksOnOrder
  <1>5. CASE ReadPosition(t)
    <2>1. th.oid \in OrderIds
      BY <1>4, <1>5 DEF ReadPosition, At, OrderSteps
    <2> DEFINE row  == orders[th.oid]
               held == positions[row.book]
               step == IF MarginReleased(held, row.qty) > 0 THEN "release" ELSE "apply"
    <2>2. PICK pnl \in Pnls :
            threads' = [threads EXCEPT
              ![t].row  = row,
              ![t].held = held,
              ![t].pnl  = IF Realizes(held, row.qty) THEN pnl ELSE 0,
              ![t].step = step]
      BY <1>5 DEF ReadPosition
    <2> DEFINE booked == IF Realizes(held, row.qty) THEN pnl ELSE 0
               s == [th EXCEPT !.row = row, !.held = held, !.pnl = booked, !.step = step]
    <2>3. row \in OrderRow
      BY <1>1, <2>1
    <2>4. row.book \in Books
      BY <2>3 DEF OrderRow
    <2>5. held \in PositionRow /\ booked \in Int /\ step \in Steps
      BY <1>1, <2>4, AccountAssumption DEF Steps
    <2>6. threads' = [threads EXCEPT ![t] = s]
      BY <2>2
    <2> HIDE DEF row, held, booked, step
    <2>7. s \in ThreadState /\ s.oid = th.oid
      BY <1>1, <2>3, <2>5 DEF ThreadState
    <2> QED
      BY <1>5, <2>1, <2>6, <2>7, BecomeType DEF ReadPosition, TypeInv, TypeOK, tables
  <1>6. CASE ReleaseMarginStep(t)
    <2>1. threads' \in [Threads -> ThreadState] /\ WorksOnOrder'
      BY <1>4, <1>6, GotoType DEF ReleaseMarginStep, At, Steps, OrderSteps
    <2>2. funds' \in FundsRow
      BY <1>1, <1>3, <1>6, FundsTypes DEF ReleaseMarginStep
    <2>3. positions' \in [Books -> PositionRow]
      <3>1. positions' = positions
            \/ positions' = [positions EXCEPT ![b].realized = th.held.realized + th.pnl]
        BY <1>6 DEF ReleaseMarginStep
      <3>2. th.held.realized + th.pnl \in Int
        BY <1>1, <1>2
      <3> QED
        BY <1>1, <3>1, <3>2 DEF PositionRow
    <2> QED
      BY <1>6, <2>1, <2>2, <2>3 DEF ReleaseMarginStep, TypeInv, TypeOK
  <1>7. CASE ApplyPosition(t)
    <2>1. threads' \in [Threads -> ThreadState] /\ WorksOnOrder'
      BY <1>4, <1>7, GotoType DEF ApplyPosition, At, Steps, OrderSteps
    <2> DEFINE now == positions[b]
               new == [live     |-> TRUE,
                       qty      |-> th.held.qty + th.row.qty,
                       margin   |-> MarginCommitted(now.margin, th.held,
                                                    th.row.qty, th.row.margin),
                       realized |-> RealizedAfter(now.realized, th.held,
                                                  th.row.qty, th.pnl)]
    <2>2. now.margin \in Nat /\ now.realized \in Int
      BY <1>1, <1>2 DEF PositionRow
    <2>3. new.margin \in Nat
      BY <1>1, <1>2, <2>2, MarginAfterType DEF MarginCommitted
    <2>4. new.realized \in Int
      BY <1>1, <1>2, <2>2 DEF RealizedAfter
    <2>5. new \in PositionRow
      BY <1>2, <2>3, <2>4 DEF PositionRow
    <2>6. positions' = [positions EXCEPT ![b] = new]
      BY <1>7 DEF ApplyPosition
    <2> HIDE DEF new
    <2>7. positions' \in [Books -> PositionRow]
      BY <1>1, <2>5, <2>6
    <2> QED
      BY <1>7, <2>1, <2>7 DEF ApplyPosition, TypeInv, TypeOK
  <1>8. CASE LosePosition(t)
    <2>1. threads' \in [Threads -> ThreadState] /\ WorksOnOrder'
      BY <1>4, <1>8, GotoType DEF LosePosition, At, Steps, OrderSteps
    <2>2. orders' \in [OrderIds -> OrderRow]
      <3>1. orders' = [orders EXCEPT ![th.oid].status = "rejected"]
        BY <1>8 DEF LosePosition
      <3>2. "rejected" \in Statuses
        BY DEF Statuses
      <3> QED
        BY <1>1, <3>1, <3>2 DEF OrderRow
    <2> QED
      BY <1>8, <2>1, <2>2 DEF LosePosition, TypeInv, TypeOK
  <1> QED
    BY <1>5, <1>6, <1>7, <1>8

\* Checking the margin, reconciling it and finishing keep the types.
LEMMA TypeInvReconcile ==
    ASSUME TypeInv, NEW t \in Threads,
           SumPositions(t) \/ ReadFunds(t) \/ Reconcile(t) \/ Finish(t)
    PROVE  TypeInv'
  <1> DEFINE th == threads[t]
  <1>1. /\ th \in ThreadState /\ th.seen \in FundsRow /\ th.total \in Nat
        /\ th.picked \in SUBSET (OrderIds \X OrderRow)
        /\ funds \in FundsRow
        /\ positions \in [Books -> PositionRow]
    BY DEF TypeInv, TypeOK, ThreadState
  <1>2. th.step \in OrderSteps => th.oid \in OrderIds
    BY DEF TypeInv, WorksOnOrder
  <1>3. CASE SumPositions(t)
    <2> DEFINE total == TotalMargin(positions)
               s == [th EXCEPT !.total = total, !.step = "read"]
    <2>1. total \in Nat
      BY <1>1, TotalMarginType
    <2>2. threads' = [threads EXCEPT ![t] = s]
      BY <1>3 DEF SumPositions
    <2> HIDE DEF total
    <2>3. s \in ThreadState /\ s.oid = th.oid
      BY <1>1, <2>1 DEF ThreadState, Steps
    <2>4. th.oid \in OrderIds
      BY <1>2, <1>3 DEF SumPositions, At, OrderSteps
    <2> QED
      BY <1>3, <2>2, <2>3, <2>4, BecomeType DEF SumPositions, TypeInv, TypeOK, tables
  <1>4. CASE ReadFunds(t)
    <2> DEFINE step == IF funds.used = th.total THEN "finish" ELSE "reconcile"
               s == [th EXCEPT !.seen = funds, !.step = step]
    <2>1. step \in Steps
      BY DEF Steps
    <2>2. threads' = [threads EXCEPT ![t] = s]
      BY <1>4 DEF ReadFunds
    <2> HIDE DEF step
    <2>3. s \in ThreadState /\ s.oid = th.oid
      BY <1>1, <2>1 DEF ThreadState
    <2>4. th.oid \in OrderIds
      BY <1>2, <1>4 DEF ReadFunds, At, OrderSteps
    <2> QED
      BY <1>4, <2>2, <2>3, <2>4, BecomeType DEF ReadFunds, TypeInv, TypeOK, tables
  <1>5. CASE Reconcile(t)
    <2>1. threads' \in [Threads -> ThreadState] /\ WorksOnOrder'
      BY <1>2, <1>5, GotoType DEF Reconcile, At, Steps, OrderSteps
    <2>2. funds' \in FundsRow
      BY <1>1, <1>5, FundsTypes DEF Reconcile
    <2> QED
      BY <1>5, <2>1, <2>2 DEF Reconcile, TypeInv, TypeOK
  <1>6. CASE Finish(t)
    <2>1. th.oid \in OrderIds
      BY <1>2, <1>6 DEF Finish, At, OrderSteps
    <2>2. index' \subseteq OrderIds
      BY <1>6, <2>1 DEF Finish, TypeInv, TypeOK
    <2>3. threads' \in [Threads -> ThreadState] /\ WorksOnOrder'
      <3>1. CASE Become(t, Idle)
        BY <3>1, IdleTypeStep
      <3>2. CASE Become(t, [Idle EXCEPT !.step = "pass", !.picked = th.picked])
        <4> DEFINE s == [Idle EXCEPT !.step = "pass", !.picked = th.picked]
        <4>1. s \in ThreadState /\ s.step \notin OrderSteps
          BY <1>1, RowTypes, ZenonT(60) DEF ThreadState, Steps, OrderSteps, Idle
        <4> QED
          BY <3>2, <4>1, BecomeType DEF Become
      <3> QED
        BY <1>6, <3>1, <3>2 DEF Finish, Become
    <2> QED
      BY <1>6, <2>2, <2>3 DEF Finish, TypeInv, TypeOK, tables
  <1> QED
    BY <1>3, <1>4, <1>5, <1>6

\* Crashes and database errors keep the types.
LEMMA TypeInvFaults ==
    ASSUME TypeInv,
           \/ Crash
           \/ \E t \in Threads : CommitFails(t) \/ ReleaseFails(t)
    PROVE  TypeInv'
  <1>1. faults < MaxFaults /\ faults' = faults + 1 => faults' \in 0 .. MaxFaults
    BY AccountAssumption DEF TypeInv, TypeOK
  <1>2. CASE Crash
    <2>1. threads' \in [Threads -> ThreadState] /\ WorksOnOrder'
      BY <1>2, RowTypes DEF Crash, WorksOnOrder, Idle, OrderSteps
    <2> QED
      BY <1>1, <1>2, <2>1 DEF Crash, TypeInv, TypeOK, tables
  <1>3. ASSUME NEW t \in Threads, CommitFails(t)
        PROVE  TypeInv'
    <2> DEFINE th   == threads[t]
               rest == Expire(th.picked)
               s    == [th EXCEPT !.step = "finish", !.picked = rest]
    <2>1. th \in ThreadState /\ th.picked \in SUBSET (OrderIds \X OrderRow)
      BY DEF TypeInv, TypeOK, ThreadState
    <2>2. \A p \in th.picked : <<p[1], NoRow>> \in OrderIds \X OrderRow
      BY <2>1, RowTypes
    <2>3. rest \in SUBSET (OrderIds \X OrderRow)
      BY <2>2 DEF Expire
    <2>4. threads' = [threads EXCEPT ![t] = s]
      BY <1>3 DEF CommitFails
    <2> HIDE DEF rest
    <2>5. s \in ThreadState /\ s.oid = th.oid
      BY <2>1, <2>3 DEF ThreadState, Steps
    <2>6. th.oid \in OrderIds
      BY <1>3 DEF CommitFails, At, OrderSteps, TypeInv, WorksOnOrder
    <2>7. orders' \in [OrderIds -> OrderRow]
      <3>1. orders' = [orders EXCEPT ![th.oid].status = "rejected"]
        BY <1>3 DEF CommitFails
      <3>2. "rejected" \in Statuses /\ orders \in [OrderIds -> OrderRow]
        BY DEF Statuses, TypeInv, TypeOK
      <3> QED
        BY <3>1, <3>2 DEF OrderRow
    <2>8. threads' \in [Threads -> ThreadState] /\ WorksOnOrder'
      BY <2>4, <2>5, <2>6, BecomeType
    <2> QED
      BY <1>1, <1>3, <2>7, <2>8 DEF CommitFails, TypeInv, TypeOK
  <1>4. ASSUME NEW t \in Threads, ReleaseFails(t)
        PROVE  TypeInv'
    <2>1. threads[t].oid \in OrderIds
      BY <1>4 DEF ReleaseFails, At, OrderSteps, TypeInv, WorksOnOrder
    <2>2. threads' \in [Threads -> ThreadState] /\ WorksOnOrder'
      BY <1>4, <2>1, GotoType DEF ReleaseFails, Steps
    <2> QED
      BY <1>1, <1>4, <2>2 DEF ReleaseFails, TypeInv, TypeOK, tables
  <1> QED
    BY <1>2, <1>3, <1>4

LEMMA TypeInvNext ==
    ASSUME TypeInv, [Next]_vars
    PROVE  TypeInv'
  <1>1. CASE UNCHANGED vars
    BY <1>1 DEF vars, tables, TypeInv, TypeOK, WorksOnOrder
  <1>2. ASSUME NEW t \in ApiThreads, Request(t)
        PROVE  TypeInv'
    BY <1>2, TypeInvRequest DEF Threads
  <1>3. ASSUME NEW t \in WsThreads, Tick(t)
        PROVE  TypeInv'
    BY <1>3, TypeInvExecution DEF Threads
  <1>4. ASSUME NEW t \in PollThreads, PollPass(t)
        PROVE  TypeInv'
    BY <1>4, TypeInvExecution DEF Threads
  <1>5. ASSUME NEW t \in Threads, Continue(t)
        PROVE  TypeInv'
    BY <1>5, TypeInvManagers, TypeInvExecution, TypeInvPosition, TypeInvReconcile
       DEF Continue
  <1>6. ASSUME Crash \/ \E t \in Threads : CommitFails(t) \/ ReleaseFails(t)
        PROVE  TypeInv'
    BY <1>6, TypeInvFaults
  <1> QED
    BY <1>1, <1>2, <1>3, <1>4, <1>5, <1>6 DEF Next

\* Every variable keeps its type in every behaviour, faults included, and a
\* thread that works on an order works on one of the table.
THEOREM TypeCorrect == Spec => []TypeOK
  <1>1. Init => TypeInv
    BY TypeInvInit
  <1>2. TypeInv /\ [Next]_vars => TypeInv'
    BY TypeInvNext
  <1>3. TypeInv => TypeOK
    BY DEF TypeInv
  <1> QED
    BY <1>1, <1>2, <1>3, PTL DEF Spec

-----------------------------------------------------------------------------
(* Conservation of money when operations do not overlap *)

OneAtATime ==
    \A t, u \in Threads :
        threads[t].step # "idle" /\ threads[u].step # "idle" => t = u

SeenIsCurrent ==
    \A t \in Threads : threads[t].step = "reconcile" => threads[t].seen = funds

SerialInv == TypeInv /\ OneAtATime /\ SeenIsCurrent /\ Conservation

\* What a thread does when it starts something and when it goes on.
Starts(t) == Request(t) \/ Tick(t) \/ PollPass(t)

Proceeds(t) == Continue(t) \/ CommitFails(t) \/ ReleaseFails(t)

Frame(t) == \A u \in Threads \ {t} : threads'[u] = threads[u]

\* A thread starts something only when it may and leaves the others alone.
LEMMA StartMoves ==
    ASSUME TypeInv, NEW t \in Threads, Starts(t)
    PROVE  MayStart(t) /\ Frame(t)
  <1> USE DEF TypeInv, TypeOK, Frame
  <1>1. CASE Request(t)
    BY <1>1 DEF Request, PlaceOrder, ClosePosition, LoadForRequest, GetFunds,
                Become, Goto
  <1>2. CASE Tick(t)
    BY <1>2 DEF Tick, Become
  <1>3. CASE PollPass(t)
    BY <1>3 DEF PollPass, Become
  <1> QED
    BY <1>1, <1>2, <1>3 DEF Starts

\* A thread that goes on was not idle and leaves the others alone.
LEMMA ProceedMoves ==
    ASSUME TypeInv, NEW t \in Threads, Proceeds(t)
    PROVE  threads[t].step # "idle" /\ Frame(t)
  <1> USE DEF TypeInv, TypeOK, Frame, At, Goto, Become
  <1>1. CASE BlockMarginStep(t) \/ InsertOrder(t) \/ InsertRejected(t)
             \/ CancelOrder(t) \/ ModifyOrder(t) \/ ResetFunds(t) \/ WipePositions(t)
    BY <1>1 DEF BlockMarginStep, InsertOrder, InsertRejected, CancelOrder,
                ModifyOrder, ResetFunds, WipePositions
  <1>2. CASE PollOrder(t) \/ LoadOrder(t) \/ CheckTrade(t) \/ ExecuteOrder(t)
    BY <1>2 DEF PollOrder, LoadOrder, CheckTrade, ExecuteOrder
  <1>3. CASE ReadPosition(t) \/ ReleaseMarginStep(t) \/ ApplyPosition(t)
             \/ LosePosition(t)
    BY <1>3 DEF ReadPosition, ReleaseMarginStep, ApplyPosition, LosePosition
  <1>4. CASE SumPositions(t) \/ ReadFunds(t) \/ Reconcile(t) \/ Finish(t)
    BY <1>4 DEF SumPositions, ReadFunds, Reconcile, Finish
  <1>5. CASE CommitFails(t) \/ ReleaseFails(t)
    BY <1>5 DEF CommitFails, ReleaseFails
  <1> QED
    BY <1>1, <1>2, <1>3, <1>4, <1>5 DEF Proceeds, Continue

\* Blocking and releasing margin conserve money, and so does a
\* reconciliation that works on the funds row as it is.
LEMMA EquityKept ==
    ASSUME NEW f \in FundsRow, NEW amount \in Int, NEW pnl \in Int
    PROVE  /\ Equity(BlockMargin(f, amount)) = Equity(f)
           /\ Equity(ReleaseMargin(f, amount, pnl)) = Equity(f)
           /\ Equity(ReconcileMargin(f, f, amount)) = Equity(f)
  <1>1. f.avail \in Int /\ f.used \in Int /\ f.realized \in Int
    BY DEF FundsRow
  <1>2. Equity(BlockMargin(f, amount)) = Equity(f)
    <2>1. /\ BlockMargin(f, amount).avail = f.avail - amount
          /\ BlockMargin(f, amount).used = f.used + amount
          /\ BlockMargin(f, amount).realized = f.realized
      BY DEF BlockMargin, FundsRow
    <2> QED
      BY <1>1, <2>1 DEF Equity
  <1>3. Equity(ReleaseMargin(f, amount, pnl)) = Equity(f)
    BY <1>1 DEF Equity, ReleaseMargin
  <1>4. Equity(ReconcileMargin(f, f, amount)) = Equity(f)
    <2>1. /\ ReconcileMargin(f, f, amount).avail = f.avail + (f.used - amount)
          /\ ReconcileMargin(f, f, amount).used = amount
          /\ ReconcileMargin(f, f, amount).realized = f.realized
      BY DEF ReconcileMargin, FundsRow
    <2> QED
      BY <1>1, <2>1 DEF Equity
  <1> QED
    BY <1>2, <1>3, <1>4

\* With operations that do not overlap at most one thread is busy.
LEMMA OneAtATimeNext ==
    ASSUME Serial, TypeInv, OneAtATime, [Next]_vars
    PROVE  OneAtATime'
  <1>1. CASE UNCHANGED vars \/ Crash
    BY <1>1 DEF OneAtATime, vars, Crash, Idle
  <1>2. ASSUME NEW t \in Threads, Starts(t)
        PROVE  OneAtATime'
    <2>1. \A u \in Threads : threads[u].step = "idle"
      BY <1>2, StartMoves DEF MayStart, At
    <2> QED
      BY <1>2, <2>1, StartMoves DEF OneAtATime, Frame
  <1>3. ASSUME NEW t \in Threads, Proceeds(t)
        PROVE  OneAtATime'
    BY <1>3, ProceedMoves DEF OneAtATime, Frame
  <1> QED
    BY <1>1, <1>2, <1>3 DEF Next, Starts, Proceeds, Threads

\* Only reading the funds row brings a thread to a reconciliation, with a copy
\* of the row as it is.
LEMMA ReconcileEntered ==
    ASSUME TypeInv, NEW t \in Threads, Starts(t) \/ Proceeds(t),
           threads'[t].step = "reconcile"
    PROVE  threads'[t].seen = funds /\ UNCHANGED funds
  <1> USE DEF TypeInv, TypeOK, ThreadState
  <1>1. \A step : Goto(t, step) => threads'[t].step = step
    BY DEF Goto
  <1>2. \A s : Become(t, s) => threads'[t] = s
    BY DEF Become
  <1>3. Idle.step = "idle"
    BY DEF Idle
  <1>4. ~PlaceOrder(t) /\ ~ClosePosition(t)
    <2>1. \A kind, row : [Idle EXCEPT !.step = "block", !.kind = kind,
                                      !.row = row].step = "block"
      BY DEF Idle
    <2>2. \A step, kind, row : [Idle EXCEPT !.step = step, !.kind = kind,
                                            !.row = row].step = step
      BY DEF Idle
    <2>3. ~ClosePosition(t)
      BY <1>2, <2>1, Zenon DEF ClosePosition
    <2>4. ASSUME PlaceOrder(t)
          PROVE  \E step \in {"block", "reject"} : \E kind, row :
                   Become(t, [Idle EXCEPT !.step = step, !.kind = kind, !.row = row])
      <3>1. PICK b \in Books, q \in Quantities, rate \in Rates, kind \in Kinds :
              LET held == positions[b].qty
                  need == MarginToBlock(held, q, rate)
                  ok   == Deliverable(b, q, held)
              IN  Become(t, [Idle EXCEPT
                    !.step = IF ok THEN "block" ELSE "reject",
                    !.kind = kind,
                    !.row  = [status |-> IF ok THEN "open" ELSE "rejected",
                              book   |-> b,
                              qty    |-> q,
                              margin |-> IF ok THEN need ELSE 0]])
        BY <2>4 DEF PlaceOrder
      <3> DEFINE ok   == Deliverable(b, q, positions[b].qty)
                 step == IF ok THEN "block" ELSE "reject"
                 row  == [status |-> IF ok THEN "open" ELSE "rejected",
                          book   |-> b,
                          qty    |-> q,
                          margin |-> IF ok THEN MarginToBlock(positions[b].qty, q, rate)
                                     ELSE 0]
      <3>2. Become(t, [Idle EXCEPT !.step = step, !.kind = kind, !.row = row])
        BY <3>1
      <3>3. step \in {"block", "reject"}
        OBVIOUS
      <3> HIDE DEF step, row
      <3> QED
        BY <3>2, <3>3, Zenon
    <2>5. ASSUME PlaceOrder(t)
          PROVE  threads'[t].step \in {"block", "reject"}
      <3>1. PICK step \in {"block", "reject"} : \E kind, row :
              Become(t, [Idle EXCEPT !.step = step, !.kind = kind, !.row = row])
        BY <2>4, <2>5
      <3>2. PICK kind, row :
              Become(t, [Idle EXCEPT !.step = step, !.kind = kind, !.row = row])
        BY <3>1
      <3> DEFINE s == [Idle EXCEPT !.step = step, !.kind = kind, !.row = row]
      <3>3. s.step = step
        BY <2>2
      <3> HIDE DEF s
      <3>4. threads'[t] = s
        BY <1>2, <3>2 DEF s
      <3> QED
        BY <3>3, <3>4
    <2> QED
      BY <2>3, <2>5
  <1>5. ~GetFunds(t) /\ \A request \in {"cancel", "modify"} : ~LoadForRequest(t, request)
    BY <1>1, <1>2 DEF GetFunds, LoadForRequest, Idle
  <1>6. ~Tick(t) /\ ~PollPass(t)
    BY <1>2 DEF Tick, PollPass, Idle, MayStart, At
  <1>7. ~BlockMarginStep(t) /\ ~InsertRejected(t)
    BY <1>1, <1>2, <1>3 DEF BlockMarginStep, InsertRejected
  <1>8. ~CancelOrder(t) /\ ~ModifyOrder(t) /\ ~ResetFunds(t) /\ ~WipePositions(t)
    BY <1>1, <1>2, <1>3 DEF CancelOrder, ModifyOrder, ResetFunds, WipePositions
  <1>9. ~InsertOrder(t) /\ ~LoadOrder(t)
    BY ZenonT(60) DEF InsertOrder, LoadOrder
  <1>10. ~PollOrder(t)
    <2> SUFFICES ASSUME PollOrder(t) PROVE FALSE
      OBVIOUS
    <2>1. PICK p \in threads[t].picked :
            threads' = [threads EXCEPT
              ![t].step   = IF p[2] = NoRow THEN "load" ELSE "check",
              ![t].oid    = p[1],
              ![t].row    = p[2],
              ![t].picked = @ \ {p}]
      BY DEF PollOrder
    <2> DEFINE step == IF p[2] = NoRow THEN "load" ELSE "check"
    <2>2. threads'[t].step = step
      BY <2>1
    <2> QED
      BY <2>2
  <1>11. ~CheckTrade(t) /\ ~ExecuteOrder(t)
    BY <1>1 DEF CheckTrade, ExecuteOrder
  <1>12. ~ReadPosition(t)
    <2> SUFFICES ASSUME ReadPosition(t) PROVE FALSE
      OBVIOUS
    <2> DEFINE row  == orders[threads[t].oid]
               held == positions[row.book]
               step == IF MarginReleased(held, row.qty) > 0 THEN "release" ELSE "apply"
    <2>1. PICK pnl \in Pnls :
            threads' = [threads EXCEPT
              ![t].row  = row,
              ![t].held = held,
              ![t].pnl  = IF Realizes(held, row.qty) THEN pnl ELSE 0,
              ![t].step = step]
      BY DEF ReadPosition
    <2>2. step \in {"release", "apply"}
      OBVIOUS
    <2> HIDE DEF row, held, step
    <2>3. threads'[t].step = step
      BY <2>1
    <2> QED
      BY <2>2, <2>3
  <1>13. ~ReleaseMarginStep(t) /\ ~ApplyPosition(t) /\ ~LosePosition(t)
    BY <1>1 DEF ReleaseMarginStep, ApplyPosition, LosePosition
  <1>14. ~SumPositions(t) /\ ~Reconcile(t)
    BY <1>1 DEF SumPositions, Reconcile
  <1>15. ~Finish(t)
    <2>1. \A picked : [Idle EXCEPT !.step = "pass", !.picked = picked].step = "pass"
      BY DEF Idle
    <2>2. Finish(t) => \/ Become(t, Idle)
                       \/ \E picked : Become(t, [Idle EXCEPT !.step = "pass",
                                                             !.picked = picked])
      BY Zenon DEF Finish
    <2> QED
      BY <1>2, <1>3, <2>1, <2>2
  <1>16. ~CommitFails(t) /\ ~ReleaseFails(t)
    BY <1>1 DEF CommitFails, ReleaseFails
  <1>17. ReadFunds(t)
    BY <1>4, <1>5, <1>6, <1>7, <1>8, <1>9, <1>10, <1>11, <1>12, <1>13, <1>14,
       <1>15, <1>16 DEF Starts, Request, Proceeds, Continue
  <1> QED
    BY <1>17 DEF ReadFunds, tables

\* Every change of the funds row blocks, releases, reconciles or resets.
LEMMA FundsMoves ==
    ASSUME TypeInv, NEW t \in Threads, Starts(t) \/ Proceeds(t)
    PROVE  \/ UNCHANGED funds
           \/ funds' = InitialFunds
           \/ \E amount \in Int : funds' = BlockMargin(funds, amount)
           \/ \E amount, pnl \in Int : funds' = ReleaseMargin(funds, amount, pnl)
           \/ /\ threads[t].step = "reconcile"
              /\ \E total \in Int : funds' = ReconcileMargin(funds, threads[t].seen, total)
  <1> DEFINE th == threads[t]
  <1>1. /\ th \in ThreadState /\ th.row \in OrderRow /\ th.held \in PositionRow
        /\ th.pnl \in Int /\ th.total \in Int
    BY DEF TypeInv, TypeOK, ThreadState
  <1>2. th.row.qty \in Int /\ th.row.margin \in Int
    BY <1>1 DEF OrderRow
  <1>3. CASE BlockMarginStep(t)
    <2>1. (IF BlocksMargin(th.row) THEN th.row.margin ELSE 0) \in Int
      BY <1>2
    <2> QED
      BY <1>3, <2>1 DEF BlockMarginStep
  <1>4. CASE ReleaseMarginStep(t)
    <2>1. MarginReleased(th.held, th.row.qty) \in Int
      BY <1>1, <1>2, MarginReleasedBound DEF PositionRow
    <2> QED
      BY <1>1, <1>4, <2>1 DEF ReleaseMarginStep
  <1>5. CASE CancelOrder(t)
    <2>1. PICK rate \in Rates :
            funds' = ReleaseMargin(funds,
                       IF th.row.margin > 0 THEN th.row.margin
                       ELSE IF BlocksMargin(th.row) THEN MarginRequired(th.row.qty, rate)
                       ELSE 0, 0)
      BY <1>5 DEF CancelOrder
    <2>2. MarginRequired(th.row.qty, rate) \in Int
      BY <1>2, SizeType, AccountAssumption DEF MarginRequired
    <2>3. (IF th.row.margin > 0 THEN th.row.margin
           ELSE IF BlocksMargin(th.row) THEN MarginRequired(th.row.qty, rate)
           ELSE 0) \in Int
      BY <1>2, <2>2
    <2> QED
      BY <2>1, <2>3
  <1>6. CASE Reconcile(t)
    BY <1>1, <1>6 DEF Reconcile, At
  <1>7. CASE ResetFunds(t)
    BY <1>7 DEF ResetFunds
  <1>8. CASE Starts(t)
    BY <1>8 DEF Starts, Request, PlaceOrder, ClosePosition, LoadForRequest,
                GetFunds, Tick, PollPass, tables
  <1>9. CASE InsertOrder(t) \/ InsertRejected(t) \/ ModifyOrder(t) \/ WipePositions(t)
    BY <1>9 DEF InsertOrder, InsertRejected, ModifyOrder, WipePositions
  <1>10. CASE PollOrder(t) \/ LoadOrder(t) \/ CheckTrade(t) \/ ExecuteOrder(t)
    BY <1>10 DEF PollOrder, LoadOrder, CheckTrade, ExecuteOrder, tables
  <1>11. CASE ReadPosition(t) \/ ApplyPosition(t) \/ LosePosition(t)
    BY <1>11 DEF ReadPosition, ApplyPosition, LosePosition, tables
  <1>12. CASE SumPositions(t) \/ ReadFunds(t) \/ Finish(t)
    BY <1>12 DEF SumPositions, ReadFunds, Finish, tables
  <1>13. CASE CommitFails(t) \/ ReleaseFails(t)
    BY <1>13 DEF CommitFails, ReleaseFails, tables
  <1> QED
    BY <1>3, <1>4, <1>5, <1>6, <1>7, <1>8, <1>9, <1>10, <1>11, <1>12, <1>13
       DEF Proceeds, Continue

LEMMA SerialInvNext ==
    ASSUME Serial, SerialInv, [Next]_vars
    PROVE  SerialInv'
  <1>1. TypeInv' /\ OneAtATime'
    BY TypeInvNext, OneAtATimeNext DEF SerialInv
  <1>2. CASE UNCHANGED vars
    BY <1>1, <1>2 DEF SerialInv, SeenIsCurrent, Conservation, Equity, vars, tables
  <1>3. CASE Crash
    BY <1>1, <1>3 DEF SerialInv, SeenIsCurrent, Conservation, Equity, Crash, tables, Idle
  <1>4. ASSUME NEW t \in Threads, Starts(t) \/ Proceeds(t)
        PROVE  SeenIsCurrent' /\ Conservation'
    <2>1. Frame(t)
      BY <1>4, StartMoves, ProceedMoves DEF SerialInv
    <2>2. \A u \in Threads \ {t} : threads[u].step = "idle"
      BY <1>4, StartMoves, ProceedMoves DEF SerialInv, OneAtATime, MayStart, At
    <2>3. SeenIsCurrent'
      <3>1. ASSUME threads'[t].step = "reconcile"
            PROVE  threads'[t].seen = funds'
        BY <1>4, <3>1, ReconcileEntered DEF SerialInv
      <3> QED
        BY <2>1, <2>2, <3>1 DEF SeenIsCurrent, Frame
    <2>4. Conservation'
      <3>1. funds \in FundsRow /\ Equity(funds) = Capital
        BY DEF SerialInv, TypeInv, TypeOK, Conservation
      <3>2. Equity(InitialFunds) = Capital
        BY CapitalAssumption DEF Equity, InitialFunds
      <3>3. ASSUME threads[t].step = "reconcile"
            PROVE  threads[t].seen = funds
        BY <3>3 DEF SerialInv, SeenIsCurrent
      <3>4. Equity(funds') = Capital
        <4>1. CASE UNCHANGED funds \/ funds' = InitialFunds
          BY <3>1, <3>2, <4>1
        <4>2. ASSUME NEW amount \in Int, funds' = BlockMargin(funds, amount)
              PROVE  Equity(funds') = Capital
          BY <3>1, <4>2, EquityKept
        <4>3. ASSUME NEW amount \in Int, NEW pnl \in Int,
                     funds' = ReleaseMargin(funds, amount, pnl)
              PROVE  Equity(funds') = Capital
          BY <3>1, <4>3, EquityKept
        <4>4. ASSUME NEW total \in Int, threads[t].step = "reconcile",
                     funds' = ReconcileMargin(funds, threads[t].seen, total)
              PROVE  Equity(funds') = Capital
          BY <3>1, <3>3, <4>4, EquityKept
        <4> QED
          BY <1>4, <4>1, <4>2, <4>3, <4>4, FundsMoves DEF SerialInv
      <3> QED
        BY <3>4 DEF Conservation, Equity
    <2> QED
      BY <2>3, <2>4
  <1> QED
    BY <1>1, <1>2, <1>3, <1>4 DEF SerialInv, Next, Starts, Proceeds, Threads

\* Operations that do not overlap conserve money, whatever they are, with
\* crashes and failed commits between and within them: balance and margin
\* always add up to the capital and the booked profit.
THEOREM SerialConservation == Serial => (Spec => []Conservation)
  <1> SUFFICES ASSUME Serial PROVE Spec => []Conservation
    OBVIOUS
  <1>1. Init => SerialInv
    <2> SUFFICES ASSUME Init PROVE SerialInv
      OBVIOUS
    <2>1. TypeInv
      BY TypeInvInit
    <2>2. OneAtATime /\ SeenIsCurrent
      BY DEF Init, OneAtATime, SeenIsCurrent, Idle
    <2>3. Conservation
      BY CapitalAssumption DEF Init, Conservation, Equity, InitialFunds
    <2> QED
      BY <2>1, <2>2, <2>3 DEF SerialInv
  <1>2. SerialInv /\ [Next]_vars => SerialInv'
    BY SerialInvNext
  <1>3. SerialInv => Conservation
    BY DEF SerialInv
  <1> QED
    BY <1>1, <1>2, <1>3, PTL DEF Spec

-----------------------------------------------------------------------------
(* One trade per order without the polling engine *)

\* The steps from the insertion or selection of an order to the end of its run.
RunSteps == {"load", "check", "execute", "position", "release", "apply",
             "sum", "read", "reconcile", "finish"}

Runs(t) == threads[t].step \in RunSteps

Placed(o) == orders[o].status # "none"

\* The steps that take an order to its trade without asking for one first.
UntradedYet ==
    \A t \in Threads :
        threads[t].step \in {"load", "execute"} => trades[threads[t].oid] = 0

PlacedWhenTraded == \A o \in OrderIds : ~Placed(o) => trades[o] = 0

PlacedWhenRun == \A t \in Threads : Runs(t) => Placed(threads[t].oid)

\* No two threads run the same order.
RunOnce ==
    \A t, u \in Threads :
        Runs(t) /\ Runs(u) /\ threads[t].oid = threads[u].oid => t = u

\* A request has ended its own run of an order before a tick may select it.
IndexedAfterRun ==
    \A o \in index :
        /\ Placed(o)
        /\ \A t \in ApiThreads : Runs(t) => threads[t].oid # o

NoPass == \A t \in Threads : threads[t].step # "pass"

\* A request about to insert an order has made its row.
DraftMade ==
    \A t \in Threads :
        threads[t].step \in {"block", "insert"} => threads[t].row.status # "none"

TradeInv ==
    /\ TypeInv /\ OneTradePerOrder /\ UntradedYet /\ PlacedWhenTraded
    /\ PlacedWhenRun /\ RunOnce /\ IndexedAfterRun /\ NoPass /\ DraftMade

(***************************************************************************)
(* What a step of a thread means for the runs of orders: it is outside of  *)
(* any run or ends one, it starts one for an order just inserted or        *)
(* selected from the index, it goes on with one, or it trades the order.   *)
(***************************************************************************)
PlacedKept == \A o \in OrderIds : Placed(o) => orders'[o].status # "none"

Leaves(t) ==
    /\ threads'[t].step \notin RunSteps \cup {"pass"}
    /\ threads'[t].step \in {"block", "insert"} => threads'[t].row.status # "none"
    /\ \A o \in index' : o \in index \/ (t \in ApiThreads /\ Runs(t) /\ o = threads[t].oid)
    /\ PlacedKept
    /\ UNCHANGED trades

Inserts(t) ==
    /\ ~Runs(t)
    /\ threads'[t].step \in {"load", "finish"}
    /\ threads'[t].oid \in OrderIds
    /\ ~Placed(threads'[t].oid)
    /\ orders'[threads'[t].oid].status # "none"
    /\ PlacedKept
    /\ UNCHANGED <<trades, index>>

Selects(t) ==
    /\ t \in WsThreads
    /\ ~Runs(t)
    /\ threads'[t].step = "check"
    /\ threads'[t].oid \in index
    /\ UNCHANGED <<orders, trades, index>>

GoesOn(t) ==
    /\ Runs(t)
    /\ threads'[t].step \in RunSteps
    /\ threads'[t].step \in {"load", "execute"} => trades[threads[t].oid] = 0
    /\ threads'[t].oid = threads[t].oid
    /\ PlacedKept
    /\ UNCHANGED <<trades, index>>

Executes(t) ==
    /\ threads[t].step = "execute"
    /\ threads'[t].step = "position"
    /\ threads'[t].oid = threads[t].oid
    /\ PlacedKept
    /\ trades' = [trades EXCEPT ![threads[t].oid] = @ + 1]
    /\ UNCHANGED index

\* Writing one column of a row that is not new leaves it a row.
LEMMA StatusKept ==
    ASSUME TypeInv, NEW o \in OrderIds
    PROVE  /\ \A status \in Statuses \ {"none"} :
                orders' = [orders EXCEPT ![o].status = status] => PlacedKept
           /\ \A q : orders' = [orders EXCEPT ![o].qty = q] => PlacedKept
           /\ orders' = orders => PlacedKept
  <1> USE DEF TypeInv, TypeOK, OrderRow, PlacedKept, Placed
  <1>1. ASSUME NEW status \in Statuses \ {"none"},
               orders' = [orders EXCEPT ![o].status = status]
        PROVE  PlacedKept
    BY <1>1
  <1>2. ASSUME NEW q, orders' = [orders EXCEPT ![o].qty = q]
        PROVE  PlacedKept
    BY <1>2
  <1> QED
    BY <1>1, <1>2

\* Going to another step leaves the rest of a thread's state alone.
LEMMA GotoEffect ==
    ASSUME TypeInv, NEW t \in Threads
    PROVE  /\ \A step : Goto(t, step) =>
                /\ threads'[t].step = step
                /\ threads'[t].oid = threads[t].oid
                /\ threads'[t].row = threads[t].row
           /\ \A s : Become(t, s) => threads'[t] = s
  BY DEF TypeInv, TypeOK, ThreadState, Goto, Become

\* Requests run no order.
LEMMA RequestRuns ==
    ASSUME TypeInv, NEW t \in Threads, Request(t)
    PROVE  Leaves(t)
  <1>1. UNCHANGED <<orders, trades, index>>
    BY DEF Request, PlaceOrder, ClosePosition, LoadForRequest, GetFunds, tables
  <1>2. PlacedKept
    BY <1>1 DEF PlacedKept, Placed
  <1>3. ASSUME NEW step \in {"block", "reject"}, NEW kind,
               NEW row, step = "block" => row.status = "open",
               Become(t, [Idle EXCEPT !.step = step, !.kind = kind, !.row = row])
        PROVE  Leaves(t)
    <2> DEFINE s == [Idle EXCEPT !.step = step, !.kind = kind, !.row = row]
    <2>1. s.step = step /\ s.row = row
      BY DEF Idle
    <2> HIDE DEF s
    <2>2. threads'[t] = s
      BY <1>3, GotoEffect DEF s
    <2> QED
      BY <1>1, <1>2, <1>3, <2>1, <2>2 DEF Leaves, RunSteps
  <1>4. CASE PlaceOrder(t)
    <2>1. PICK b \in Books, q \in Quantities, rate \in Rates, kind \in Kinds :
            LET held == positions[b].qty
                need == MarginToBlock(held, q, rate)
                ok   == Deliverable(b, q, held)
            IN  Become(t, [Idle EXCEPT
                  !.step = IF ok THEN "block" ELSE "reject",
                  !.kind = kind,
                  !.row  = [status |-> IF ok THEN "open" ELSE "rejected",
                            book   |-> b,
                            qty    |-> q,
                            margin |-> IF ok THEN need ELSE 0]])
      BY <1>4 DEF PlaceOrder
    <2> DEFINE ok   == Deliverable(b, q, positions[b].qty)
               step == IF ok THEN "block" ELSE "reject"
               row  == [status |-> IF ok THEN "open" ELSE "rejected",
                        book   |-> b,
                        qty    |-> q,
                        margin |-> IF ok THEN MarginToBlock(positions[b].qty, q, rate)
                                   ELSE 0]
    <2>2. Become(t, [Idle EXCEPT !.step = step, !.kind = kind, !.row = row])
      BY <2>1
    <2> HIDE DEF ok
    <2>3. step \in {"block", "reject"} /\ (step = "block" => row.status = "open")
      OBVIOUS
    <2> HIDE DEF step, row
    <2> QED
      BY <1>3, <2>2, <2>3
  <1>5. CASE ClosePosition(t)
    <2>1. PICK b \in Books, kind \in Kinds \ {"marketable"} :
            Become(t, [Idle EXCEPT
              !.step = "block",
              !.kind = kind,
              !.row  = [status |-> "open", book |-> b,
                        qty |-> -positions[b].qty, margin |-> 0]])
      BY <1>5 DEF ClosePosition
    <2> DEFINE row == [status |-> "open", book |-> b,
                       qty |-> -positions[b].qty, margin |-> 0]
    <2>2. row.status = "open"
      OBVIOUS
    <2>3. Become(t, [Idle EXCEPT !.step = "block", !.kind = kind, !.row = row])
      BY <2>1
    <2> HIDE DEF row
    <2> QED
      BY <1>3, <2>2, <2>3
  <1>6. ASSUME NEW request \in {"cancel", "modify"}, LoadForRequest(t, request)
        PROVE  Leaves(t)
    <2>1. PICK o \in OrderIds :
            Become(t, [Idle EXCEPT !.step = request, !.oid = o, !.row = orders[o]])
      BY <1>6 DEF LoadForRequest
    <2>2. threads'[t].step = request
      BY <2>1, GotoEffect, ZenonT(60) DEF Idle
    <2> QED
      BY <1>1, <1>2, <2>2 DEF Leaves, RunSteps
  <1>7. CASE GetFunds(t)
    <2>1. threads'[t].step = "reset"
      BY <1>7, GotoEffect DEF GetFunds
    <2> QED
      BY <1>1, <1>2, <2>1 DEF Leaves, RunSteps
  <1> QED
    BY <1>4, <1>5, <1>6, <1>7 DEF Request

\* A tick selects an order from the index, or drops one.
LEMMA TickRuns ==
    ASSUME TypeInv, NEW t \in WsThreads, Tick(t)
    PROVE  Leaves(t) \/ Selects(t)
  <1>1. t \in Threads /\ UNCHANGED <<orders, trades>> /\ threads[t].step = "idle"
    BY DEF Threads, Tick, tables, MayStart, At
  <1>2. PICK o \in index :
          \/ /\ Become(t, [Idle EXCEPT !.step = "check", !.oid = o, !.row = orders[o]])
             /\ UNCHANGED index
          \/ /\ index' = index \ {o}
             /\ UNCHANGED threads
    BY DEF Tick
  <1>3. CASE UNCHANGED index
             /\ Become(t, [Idle EXCEPT !.step = "check", !.oid = o, !.row = orders[o]])
    <2> DEFINE s == [Idle EXCEPT !.step = "check", !.oid = o, !.row = orders[o]]
    <2>1. s.step = "check" /\ s.oid = o
      BY DEF Idle
    <2>2. threads'[t] = s
      BY <1>1, <1>3, GotoEffect
    <2> HIDE DEF s
    <2> QED
      BY <1>1, <1>3, <2>1, <2>2 DEF Selects, Runs, RunSteps
  <1>4. CASE index' = index \ {o} /\ UNCHANGED threads
    BY <1>1, <1>4 DEF Leaves, RunSteps, PlacedKept, Placed
  <1> QED
    BY <1>2, <1>3, <1>4

\* What the order and fund managers do outside a run, and the insertion that
\* starts one.
LEMMA ManagersRuns ==
    ASSUME TypeInv, DraftMade, NEW t \in Threads,
           \/ BlockMarginStep(t) \/ InsertOrder(t) \/ InsertRejected(t)
           \/ CancelOrder(t) \/ ModifyOrder(t) \/ ResetFunds(t) \/ WipePositions(t)
    PROVE  Leaves(t) \/ Inserts(t)
  <1> DEFINE th == threads[t]
  <1>1. th \in ThreadState /\ th.row \in OrderRow
    BY DEF TypeInv, TypeOK, ThreadState
  <1>2. ASSUME Become(t, Idle), UNCHANGED <<trades, index>>, PlacedKept
        PROVE  Leaves(t)
    <2>1. threads'[t].step = "idle"
      BY <1>2, GotoEffect DEF Idle
    <2> QED
      BY <1>2, <2>1 DEF Leaves, RunSteps
  <1>3. CASE BlockMarginStep(t)
    <2>1. UNCHANGED <<orders, trades, index>> /\ th.step = "block"
      BY <1>3 DEF BlockMarginStep, At
    <2>2. PlacedKept
      BY <2>1 DEF PlacedKept, Placed
    <2>3. CASE Goto(t, "insert")
      <3>1. threads'[t].step = "insert" /\ threads'[t].row = th.row
        BY <2>3, GotoEffect
      <3>2. th.row.status # "none"
        BY <2>1 DEF DraftMade
      <3> QED
        BY <2>1, <2>2, <3>1, <3>2 DEF Leaves, RunSteps
    <2> QED
      BY <1>2, <1>3, <2>1, <2>2, <2>3 DEF BlockMarginStep
  <1>4. CASE InsertOrder(t)
    <2>1. PICK o \in OrderIds :
            /\ orders[o].status = "none"
            /\ orders' = [orders EXCEPT ![o] = th.row]
            /\ threads' = [threads EXCEPT
                 ![t].oid  = o,
                 ![t].step = IF th.kind = "resting" THEN "finish" ELSE "load"]
      BY <1>4 DEF InsertOrder
    <2> DEFINE step == IF th.kind = "resting" THEN "finish" ELSE "load"
    <2>2. step \in {"finish", "load"}
      OBVIOUS
    <2> HIDE DEF step
    <2>3. threads' = [threads EXCEPT ![t].oid = o, ![t].step = step]
      BY <2>1 DEF step
    <2>4. threads'[t].oid = o /\ threads'[t].step = step
      BY <1>1, <2>3 DEF ThreadState, TypeInv, TypeOK
    <2>5. th.step = "insert" /\ UNCHANGED <<trades, index>>
      BY <1>4 DEF InsertOrder, At
    <2>6. th.row.status # "none"
      BY <2>5 DEF DraftMade
    <2>7. orders'[o] = th.row /\ \A p \in OrderIds \ {o} : orders'[p] = orders[p]
      BY <2>1 DEF TypeInv, TypeOK
    <2>8. PlacedKept
      BY <2>1, <2>7 DEF PlacedKept, Placed
    <2> QED
      BY <2>1, <2>2, <2>4, <2>5, <2>6, <2>7, <2>8 DEF Inserts, Runs, RunSteps, Placed
  <1>5. CASE InsertRejected(t)
    <2>1. PICK o \in OrderIds : /\ orders[o].status = "none"
                               /\ orders' = [orders EXCEPT ![o] = th.row]
      BY <1>5 DEF InsertRejected
    <2>2. \A p \in OrderIds \ {o} : orders'[p] = orders[p]
      BY <2>1 DEF TypeInv, TypeOK
    <2>3. PlacedKept
      BY <2>1, <2>2 DEF PlacedKept, Placed
    <2> QED
      BY <1>2, <1>5, <2>3 DEF InsertRejected
  <1>6. CASE CancelOrder(t)
    <2>1. orders' = [orders EXCEPT ![th.oid].status = "cancelled"]
          /\ th.oid \in OrderIds
      BY <1>6 DEF CancelOrder, At, TypeInv, WorksOnOrder, OrderSteps
    <2>2. PlacedKept
      BY <2>1, StatusKept, ZenonT(60) DEF Statuses
    <2> QED
      BY <1>2, <1>6, <2>2 DEF CancelOrder
  <1>7. CASE ModifyOrder(t)
    <2>1. th.oid \in OrderIds
      BY <1>7 DEF ModifyOrder, At, TypeInv, WorksOnOrder, OrderSteps
    <2>2. PICK q \in Quantities : orders' = [orders EXCEPT ![th.oid].qty = q]
      BY <1>7 DEF ModifyOrder
    <2>3. PlacedKept
      BY <2>1, <2>2, StatusKept
    <2> QED
      BY <1>2, <1>7, <2>3 DEF ModifyOrder
  <1>8. CASE ResetFunds(t)
    <2>1. UNCHANGED <<orders, trades, index>> /\ Goto(t, "wipe")
      BY <1>8 DEF ResetFunds
    <2>2. threads'[t].step = "wipe"
      BY <2>1, GotoEffect
    <2> QED
      BY <2>1, <2>2 DEF Leaves, RunSteps, PlacedKept, Placed
  <1>9. CASE WipePositions(t)
    <2>1. UNCHANGED <<orders, trades, index>> /\ Become(t, Idle)
      BY <1>9 DEF WipePositions
    <2> QED
      BY <1>2, <2>1 DEF PlacedKept, Placed
  <1> QED
    BY <1>3, <1>4, <1>5, <1>6, <1>7, <1>8, <1>9
\* The steps that run an order keep to that order.
LEMMA EngineRuns ==
    ASSUME TypeInv, UntradedYet, NEW t \in Threads,
           \/ LoadOrder(t) \/ CheckTrade(t) \/ ExecuteOrder(t)
           \/ ReadPosition(t) \/ ReleaseMarginStep(t) \/ ApplyPosition(t)
           \/ LosePosition(t) \/ SumPositions(t) \/ ReadFunds(t) \/ Reconcile(t)
           \/ CommitFails(t) \/ ReleaseFails(t)
    PROVE  GoesOn(t) \/ Executes(t)
  <1> DEFINE th == threads[t]
             o  == th.oid
  <1>1. th \in ThreadState /\ (Runs(t) => o \in OrderIds)
    BY DEF TypeInv, TypeOK, WorksOnOrder, Runs, RunSteps, OrderSteps
  <1>2. ASSUME Runs(t), UNCHANGED <<trades, index>>, PlacedKept,
               NEW step \in RunSteps \ {"load"}, step = "execute" => trades[o] = 0,
               threads'[t].step = step, threads'[t].oid = o
        PROVE  GoesOn(t)
    BY <1>2 DEF GoesOn
  <1>3. ASSUME UNCHANGED orders
        PROVE  PlacedKept
    BY <1>3 DEF PlacedKept, Placed
  <1>4. ASSUME Runs(t),
               \/ orders' = [orders EXCEPT ![o].status = "complete"]
               \/ orders' = [orders EXCEPT ![o].status = "rejected"]
        PROVE  PlacedKept
    <2>1. {"complete", "rejected"} \subseteq Statuses \ {"none"}
      BY DEF Statuses
    <2> QED
      BY <1>1, <1>4, <2>1, StatusKept
  <1>5. ASSUME NEW step \in Steps, NEW picked,
               threads' = [threads EXCEPT ![t].step = step, ![t].picked = picked]
        PROVE  threads'[t].step = step /\ threads'[t].oid = o
    BY <1>1, <1>5 DEF ThreadState, TypeInv, TypeOK
  <1>6. CASE LoadOrder(t)
    <2> DEFINE step == IF t \in ApiThreads /\ th.kind = "marketable"
                       THEN "execute" ELSE "check"
    <2>1. th.step = "load" /\ UNCHANGED <<orders, trades, index>>
      BY <1>6 DEF LoadOrder, At, tables
    <2>2. trades[o] = 0 /\ step \in {"execute", "check"} /\ Runs(t)
      BY <2>1 DEF UntradedYet, Runs, RunSteps
    <2> HIDE DEF step
    <2>3. threads' = [threads EXCEPT ![t].row = orders[o], ![t].step = step]
      BY <1>6 DEF LoadOrder, step
    <2>4. threads'[t].step = step /\ threads'[t].oid = o
      BY <1>1, <2>3 DEF ThreadState, TypeInv, TypeOK
    <2> QED
      BY <1>2, <1>3, <2>1, <2>2, <2>4 DEF RunSteps
  <1>7. CASE CheckTrade(t)
    <2>1. Runs(t) /\ UNCHANGED <<trades, index>>
      BY <1>7 DEF CheckTrade, At, Runs, RunSteps
    <2>2. CASE /\ orders' = [orders EXCEPT ![o].status = "complete"]
               /\ threads' = [threads EXCEPT ![t].step = "finish",
                                             ![t].picked = Expire(@)]
      <3>1. PlacedKept
        BY <1>4, <2>1, <2>2
      <3>2. threads'[t].step = "finish" /\ threads'[t].oid = o
        BY <1>5, <2>2 DEF Steps
      <3> QED
        BY <1>2, <2>1, <3>1, <3>2 DEF RunSteps
    <2>3. CASE Goto(t, "finish") /\ UNCHANGED orders
      BY <1>2, <1>3, <2>1, <2>3, GotoEffect DEF RunSteps
    <2>4. CASE Goto(t, "execute") /\ UNCHANGED orders /\ trades[o] = 0
      BY <1>2, <1>3, <2>1, <2>4, GotoEffect DEF RunSteps
    <2> QED
      BY <1>7, <2>2, <2>3, <2>4 DEF CheckTrade
  <1>8. CASE ExecuteOrder(t)
    <2>1. th.step = "execute" /\ UNCHANGED index /\ Runs(t)
          /\ trades' = [trades EXCEPT ![o] = @ + 1]
      BY <1>8 DEF ExecuteOrder, At, Runs, RunSteps
    <2>2. threads' = [threads EXCEPT ![t].step = "position", ![t].picked = Expire(@)]
      BY <1>8 DEF ExecuteOrder
    <2>3. threads'[t].step = "position" /\ threads'[t].oid = o
      BY <1>5, <2>2 DEF Steps
    <2>4. orders' = orders \/ orders' = [orders EXCEPT ![o].status = "complete"]
      BY <1>8 DEF ExecuteOrder
    <2>5. PlacedKept
      BY <1>3, <1>4, <2>1, <2>4
    <2> QED
      BY <2>1, <2>3, <2>5 DEF Executes
  <1>9. CASE ReadPosition(t)
    <2> DEFINE row  == orders[o]
               held == positions[row.book]
               step == IF MarginReleased(held, row.qty) > 0 THEN "release" ELSE "apply"
    <2>1. PICK pnl \in Pnls :
            threads' = [threads EXCEPT
              ![t].row  = row,
              ![t].held = held,
              ![t].pnl  = IF Realizes(held, row.qty) THEN pnl ELSE 0,
              ![t].step = step]
      BY <1>9 DEF ReadPosition
    <2>2. step \in {"release", "apply"}
      OBVIOUS
    <2> HIDE DEF row, held, step
    <2>3. threads'[t].step = step /\ threads'[t].oid = o
      BY <1>1, <2>1 DEF ThreadState, TypeInv, TypeOK
    <2>4. Runs(t) /\ UNCHANGED <<orders, trades, index>>
      BY <1>9 DEF ReadPosition, At, Runs, RunSteps, tables
    <2> QED
      BY <1>2, <1>3, <2>2, <2>3, <2>4 DEF RunSteps
  <1>10. CASE ReleaseMarginStep(t) \/ ApplyPosition(t)
    <2>1. Runs(t) /\ UNCHANGED <<orders, trades, index>>
      BY <1>10 DEF ReleaseMarginStep, ApplyPosition, At, Runs, RunSteps
    <2>2. Goto(t, "apply") \/ Goto(t, "sum")
      BY <1>10 DEF ReleaseMarginStep, ApplyPosition
    <2> QED
      BY <1>2, <1>3, <2>1, <2>2, GotoEffect DEF RunSteps
  <1>11. CASE LosePosition(t)
    <2>1. Runs(t) /\ UNCHANGED <<trades, index>> /\ Goto(t, "finish")
          /\ orders' = [orders EXCEPT ![o].status = "rejected"]
      BY <1>11 DEF LosePosition, At, Runs, RunSteps
    <2>2. PlacedKept
      BY <1>4, <2>1
    <2> QED
      BY <1>2, <2>1, <2>2, GotoEffect DEF RunSteps
  <1>12. CASE SumPositions(t) \/ ReadFunds(t) \/ Reconcile(t)
    <2>1. Runs(t) /\ UNCHANGED <<orders, trades, index>>
      BY <1>12 DEF SumPositions, ReadFunds, Reconcile, At, Runs, RunSteps, tables
    <2>2. threads'[t].step \in {"read", "finish", "reconcile"} /\ threads'[t].oid = o
      <3>1. CASE SumPositions(t)
        <4> HIDE DEF o
        <4>1. threads' = [threads EXCEPT ![t].total = TotalMargin(positions),
                                         ![t].step = "read"]
          BY <3>1 DEF SumPositions
        <4> QED
          BY <1>1, <4>1 DEF ThreadState, TypeInv, TypeOK, o
      <3>2. CASE ReadFunds(t)
        <4> DEFINE step == IF funds.used = th.total THEN "finish" ELSE "reconcile"
        <4>1. step \in {"finish", "reconcile"}
          OBVIOUS
        <4>2. threads' = [threads EXCEPT ![t].seen = funds, ![t].step = step]
          BY <3>2 DEF ReadFunds
        <4> HIDE DEF step
        <4> QED
          BY <1>1, <4>1, <4>2 DEF ThreadState, TypeInv, TypeOK
      <3>3. CASE Reconcile(t)
        BY <3>3, GotoEffect DEF Reconcile
      <3> QED
        BY <1>12, <3>1, <3>2, <3>3
    <2> QED
      BY <1>2, <1>3, <2>1, <2>2 DEF RunSteps
  <1>13. CASE CommitFails(t)
    <2>1. Runs(t) /\ UNCHANGED <<trades, index>>
          /\ orders' = [orders EXCEPT ![o].status = "rejected"]
      BY <1>13 DEF CommitFails, At, Runs, RunSteps
    <2>2. threads' = [threads EXCEPT ![t].step = "finish", ![t].picked = Expire(@)]
      BY <1>13 DEF CommitFails
    <2>3. threads'[t].step = "finish" /\ threads'[t].oid = o
      BY <1>5, <2>2 DEF Steps
    <2>4. PlacedKept
      BY <1>4, <2>1
    <2> QED
      BY <1>2, <2>1, <2>3, <2>4 DEF RunSteps
  <1>14. CASE ReleaseFails(t)
    <2>1. Runs(t) /\ UNCHANGED <<orders, trades, index>> /\ Goto(t, "apply")
      BY <1>14 DEF ReleaseFails, At, Runs, RunSteps, tables
    <2> QED
      BY <1>2, <1>3, <2>1, GotoEffect DEF RunSteps
  <1> QED
    BY <1>6, <1>7, <1>8, <1>9, <1>10, <1>11, <1>12, <1>13, <1>14

\* At the end of its run a request hands its order to the engine's index.
LEMMA FinishRuns ==
    ASSUME TypeInv, PollThreads = {}, NEW t \in Threads, Finish(t)
    PROVE  Leaves(t)
  <1>1. Runs(t) /\ UNCHANGED <<orders, trades>>
    BY DEF Finish, At, Runs, RunSteps, tables
  <1>2. \A o \in index' : o \in index \/ (t \in ApiThreads /\ o = threads[t].oid)
    BY DEF Finish
  <1>3. Become(t, Idle)
    BY DEF Finish
  <1>4. threads'[t].step = "idle"
    BY <1>3, GotoEffect DEF Idle
  <1> QED
    BY <1>1, <1>2, <1>4 DEF Leaves, RunSteps, PlacedKept, Placed
\* A step of a thread keeps every order to one run and one trade.
LEMMA TradeInvStep ==
    ASSUME TradeInv, TypeInv', PollThreads = {},
           \A v, w \in WsThreads : v = w,
           NEW t \in Threads, Frame(t),
           Leaves(t) \/ Inserts(t) \/ Selects(t) \/ GoesOn(t) \/ Executes(t)
    PROVE  TradeInv'
  <1> USE DEF Frame
  <1>1. /\ trades \in [OrderIds -> Nat] /\ index \subseteq OrderIds
        /\ index' \subseteq OrderIds
        /\ \A u \in Threads : Runs(u) => threads[u].oid \in OrderIds
        /\ \A u \in Threads : threads'[u].step \in RunSteps => threads'[u].oid \in OrderIds
    BY DEF TradeInv, TypeInv, TypeOK, WorksOnOrder, Runs, RunSteps, OrderSteps
  <1>2. Threads = ApiThreads \cup WsThreads /\ ApiThreads \cap WsThreads = {}
    BY AccountAssumption DEF Threads
  <1>3. PlacedKept
    BY DEF Leaves, Inserts, Selects, GoesOn, Executes, PlacedKept, Placed
  <1>4. ASSUME NEW u \in Threads, Executes(t), Runs(u), u # t
        PROVE  threads[u].oid # threads[t].oid
    BY <1>4 DEF TradeInv, RunOnce, Executes, Runs, RunSteps
  <1>5. OneTradePerOrder' /\ UntradedYet' /\ PlacedWhenTraded'
    <2>1. CASE UNCHANGED trades
      <3>1. OneTradePerOrder'
        BY <2>1 DEF TradeInv, OneTradePerOrder
      <3>2. PlacedWhenTraded'
        BY <1>3, <2>1 DEF TradeInv, PlacedWhenTraded, PlacedKept, Placed
      <3>3. threads'[t].step \in {"load", "execute"} => trades[threads'[t].oid] = 0
        BY <2>1 DEF Leaves, Inserts, Selects, GoesOn, Executes, RunSteps,
                    TradeInv, PlacedWhenTraded
      <3>4. UntradedYet'
        BY <2>1, <3>3 DEF TradeInv, UntradedYet
      <3> QED
        BY <3>1, <3>2, <3>4
    <2>2. CASE Executes(t)
      <3> DEFINE o == threads[t].oid
      <3>1. o \in OrderIds /\ trades[o] = 0 /\ Runs(t)
        BY <1>1, <2>2 DEF Executes, TradeInv, UntradedYet, Runs, RunSteps
      <3>2. Placed(o)
        BY <3>1 DEF TradeInv, PlacedWhenRun
      <3>3. trades' = [trades EXCEPT ![o] = 1]
        BY <1>1, <2>2, <3>1 DEF Executes
      <3>4. OneTradePerOrder'
        BY <1>1, <3>1, <3>3 DEF TradeInv, OneTradePerOrder
      <3>5. PlacedWhenTraded'
        BY <1>1, <1>3, <3>1, <3>2, <3>3
           DEF TradeInv, PlacedWhenTraded, PlacedKept, Placed
      <3>6. ASSUME NEW u \in Threads, threads'[u].step \in {"load", "execute"}
            PROVE  trades'[threads'[u].oid] = 0
        <4>1. u # t /\ threads'[u] = threads[u]
          BY <2>2, <3>6 DEF Executes
        <4>2. threads[u].oid # o /\ threads[u].oid \in OrderIds
          BY <1>1, <1>4, <2>2, <3>6, <4>1 DEF Runs, RunSteps
        <4> QED
          BY <1>1, <3>3, <3>6, <4>1, <4>2 DEF TradeInv, UntradedYet
      <3> QED
        BY <3>4, <3>5, <3>6 DEF UntradedYet
    <2> QED
      BY <2>1, <2>2 DEF Leaves, Inserts, Selects, GoesOn
  <1>6. PlacedWhenRun'
    <2>1. ASSUME threads'[t].step \in RunSteps
          PROVE  orders'[threads'[t].oid].status # "none"
      <3>1. CASE GoesOn(t) \/ Executes(t)
        <4>1. Runs(t) /\ threads'[t].oid = threads[t].oid
          BY <3>1 DEF GoesOn, Executes, Runs, RunSteps
        <4> QED
          BY <1>1, <1>3, <4>1 DEF TradeInv, PlacedWhenRun, PlacedKept
      <3>2. CASE Selects(t)
        BY <1>1, <1>3, <3>2 DEF Selects, TradeInv, IndexedAfterRun, PlacedKept
      <3> QED
        BY <2>1, <3>1, <3>2 DEF Leaves, Inserts
    <2>2. ASSUME NEW u \in Threads \ {t}, Runs(u)
          PROVE  orders'[threads'[u].oid].status # "none"
      BY <1>1, <1>3, <2>2 DEF TradeInv, PlacedWhenRun, PlacedKept
    <2> QED
      BY <2>1, <2>2 DEF PlacedWhenRun, Runs, Placed
  <1>7. RunOnce'
    <2>1. ASSUME NEW u \in Threads \ {t}, Runs(u), threads'[t].step \in RunSteps
          PROVE  threads'[t].oid # threads[u].oid
      <3>1. CASE GoesOn(t) \/ Executes(t)
        BY <2>1, <3>1 DEF GoesOn, Executes, TradeInv, RunOnce, Runs, RunSteps
      <3>2. CASE Inserts(t)
        BY <2>1, <3>2 DEF Inserts, TradeInv, PlacedWhenRun
      <3>3. CASE Selects(t)
        BY <1>2, <2>1, <3>3 DEF Selects, TradeInv, IndexedAfterRun
      <3> QED
        BY <2>1, <3>1, <3>2, <3>3 DEF Leaves
    <2> QED
      BY <2>1 DEF TradeInv, RunOnce, Runs
  <1>8. IndexedAfterRun'
    <2> SUFFICES ASSUME NEW o \in index'
                 PROVE  /\ orders'[o].status # "none"
                        /\ \A u \in ApiThreads : threads'[u].step \in RunSteps
                                                    => threads'[u].oid # o
      BY DEF IndexedAfterRun, Placed, Runs
    <2>1. o \in index \/ (Leaves(t) /\ t \in ApiThreads /\ Runs(t) /\ o = threads[t].oid)
      BY DEF Leaves, Inserts, Selects, GoesOn, Executes
    <2>2. Placed(o) /\ o \in OrderIds
      BY <1>1, <2>1 DEF TradeInv, IndexedAfterRun, PlacedWhenRun
    <2>3. ASSUME NEW u \in ApiThreads, threads'[u].step \in RunSteps, u # t
          PROVE  threads'[u].oid # o
      <3>1. u \in Threads /\ threads'[u] = threads[u] /\ Runs(u)
        BY <1>2, <2>3 DEF Runs
      <3> QED
        BY <2>1, <2>3, <3>1 DEF TradeInv, IndexedAfterRun, RunOnce
    <2>4. ASSUME t \in ApiThreads, threads'[t].step \in RunSteps
          PROVE  threads'[t].oid # o
      <3>1. o \in index
        BY <2>1, <2>4 DEF Leaves
      <3>2. CASE GoesOn(t) \/ Executes(t)
        BY <2>4, <3>1, <3>2
           DEF GoesOn, Executes, TradeInv, IndexedAfterRun, Runs, RunSteps
      <3>3. CASE Inserts(t)
        BY <2>2, <3>3 DEF Inserts
      <3> QED
        BY <1>2, <2>4, <3>2, <3>3 DEF Leaves, Selects
    <2> QED
      BY <1>3, <2>2, <2>3, <2>4 DEF PlacedKept
  <1>9. NoPass' /\ DraftMade'
    BY DEF TradeInv, NoPass, DraftMade, Leaves, Inserts, Selects, GoesOn,
           Executes, RunSteps
  <1> QED
    BY <1>5, <1>6, <1>7, <1>8, <1>9 DEF TradeInv

LEMMA TradeInvNext ==
    ASSUME PollThreads = {}, \A v, w \in WsThreads : v = w,
           TradeInv, [Next]_vars
    PROVE  TradeInv'
  <1>1. TypeInv /\ TypeInv'
    BY TypeInvNext DEF TradeInv
  <1>2. CASE UNCHANGED vars
    <2> USE <1>2 DEF vars, tables
    <2>1. OneTradePerOrder' /\ UntradedYet' /\ PlacedWhenTraded' /\ PlacedWhenRun'
      BY DEF TradeInv, OneTradePerOrder, UntradedYet, PlacedWhenTraded,
             PlacedWhenRun, Placed, Runs
    <2>2. RunOnce' /\ IndexedAfterRun' /\ NoPass' /\ DraftMade'
      BY DEF TradeInv, RunOnce, IndexedAfterRun, NoPass, DraftMade, Placed, Runs
    <2> QED
      BY <1>1, <2>1, <2>2 DEF TradeInv
  <1>3. CASE Crash
    <2>1. \A t \in Threads : threads'[t].step = "idle"
      BY <1>3 DEF Crash, Idle
    <2>2. UNCHANGED <<orders, trades>> /\ \A o \in index' : Open(o)
      BY <1>3 DEF Crash, tables
    <2>3. OneTradePerOrder' /\ PlacedWhenTraded'
      BY <2>2 DEF TradeInv, OneTradePerOrder, PlacedWhenTraded, Placed
    <2>4. UntradedYet' /\ PlacedWhenRun' /\ RunOnce' /\ NoPass' /\ DraftMade'
      BY <2>1 DEF UntradedYet, PlacedWhenRun, RunOnce, NoPass, DraftMade, Runs, RunSteps
    <2>5. IndexedAfterRun'
      BY <2>1, <2>2, AccountAssumption
         DEF IndexedAfterRun, Runs, RunSteps, Placed, Open, Threads
    <2> QED
      BY <1>1, <2>3, <2>4, <2>5 DEF TradeInv
  <1>4. ASSUME NEW t \in ApiThreads, Request(t)
        PROVE  TradeInv'
    <2>1. t \in Threads /\ Frame(t)
      BY <1>1, <1>4, StartMoves DEF Threads, Starts
    <2> QED
      BY <1>1, <1>4, <2>1, RequestRuns, TradeInvStep
  <1>5. ASSUME NEW t \in WsThreads, Tick(t)
        PROVE  TradeInv'
    <2>1. t \in Threads /\ Frame(t)
      BY <1>1, <1>5, StartMoves DEF Threads, Starts
    <2> QED
      BY <1>1, <1>5, <2>1, TickRuns, TradeInvStep
  <1>6. ASSUME NEW t \in Threads, Continue(t) \/ CommitFails(t) \/ ReleaseFails(t)
        PROVE  TradeInv'
    <2>1. Frame(t)
      BY <1>1, <1>6, ProceedMoves DEF Proceeds
    <2>2. ~PollOrder(t)
      BY DEF TradeInv, NoPass, PollOrder, At
    <2>3. Leaves(t) \/ Inserts(t) \/ GoesOn(t) \/ Executes(t)
      BY <1>1, <1>6, <2>2, ManagersRuns, EngineRuns, FinishRuns
         DEF Continue, TradeInv
    <2> QED
      BY <1>1, <2>1, <2>3, TradeInvStep
  <1> QED
    BY <1>2, <1>3, <1>4, <1>5, <1>6 DEF Next

\* With one WebSocket engine and no polling, no order is ever traded twice,
\* whatever the requests, ticks, crashes and failed commits that overlap: the
\* order is placed in the index only when place_order has ended its own run.
THEOREM OneTradeWithoutPolling ==
    PollThreads = {} /\ (\A v, w \in WsThreads : v = w)
        => (Spec => []OneTradePerOrder)
  <1> SUFFICES ASSUME PollThreads = {}, \A v, w \in WsThreads : v = w
               PROVE  Spec => []OneTradePerOrder
    OBVIOUS
  <1>1. Init => TradeInv
    <2> SUFFICES ASSUME Init PROVE TradeInv
      OBVIOUS
    <2>1. TypeInv
      BY TypeInvInit
    <2>2. \A t \in Threads : threads[t].step = "idle"
      BY DEF Init, Idle
    <2>3. OneTradePerOrder /\ PlacedWhenTraded
      BY DEF Init, OneTradePerOrder, PlacedWhenTraded
    <2>4. UntradedYet /\ PlacedWhenRun /\ RunOnce /\ NoPass /\ DraftMade
      BY <2>2 DEF UntradedYet, PlacedWhenRun, RunOnce, NoPass, DraftMade, Runs, RunSteps
    <2>5. IndexedAfterRun
      BY DEF Init, IndexedAfterRun
    <2> QED
      BY <2>1, <2>3, <2>4, <2>5 DEF TradeInv
  <1>2. TradeInv /\ [Next]_vars => TradeInv'
    BY TradeInvNext
  <1>3. TradeInv => OneTradePerOrder
    BY DEF TradeInv
  <1> QED
    BY <1>1, <1>2, <1>3, PTL DEF Spec
-----------------------------------------------------------------------------
(* The status of an order, its trade and the engine's index *)

(***************************************************************************)
(* What a thread is doing is sound with respect to the table of orders: a  *)
(* request about to insert an order has made its row, only the steps that  *)
(* work on an order name one, the order that is run is in the table, a     *)
(* copy that says complete was right and stays so, and what a polling pass *)
(* has yet to run are orders of the table that were open.                  *)
(***************************************************************************)
Drafts(t) ==
    /\ threads[t].step \in {"block", "insert", "reject"} => t \in ApiThreads
    /\ threads[t].step \in {"block", "insert"} => threads[t].row.status = "open"
    /\ threads[t].step = "reject" => threads[t].row.status = "rejected"

Works(t) ==
    /\ threads[t].step \notin OrderSteps => threads[t].oid = NoOrder
    /\ threads[t].step \in OrderSteps => Placed(threads[t].oid)
    /\ threads[t].step \in {"check", "execute"} /\ threads[t].row.status = "complete"
         => ~Open(threads[t].oid)

Picks(t) ==
    \A p \in threads[t].picked : Placed(p[1]) /\ p[2].status \in {"none", "open"}

Sound(t) == Drafts(t) /\ Works(t) /\ Picks(t)

StatusInv ==
    /\ TypeInv /\ TradeMeansNotOpen /\ PlacedWhenTraded
    /\ \A t \in Threads : Sound(t)

(***************************************************************************)
(* What a step does to the orders: nothing to a status, it puts a new row  *)
(* into the table, it ends an order, or it trades one.                     *)
(***************************************************************************)
StatusesSame ==
    /\ \A o \in OrderIds : orders'[o].status = orders[o].status
    /\ UNCHANGED trades

PutsOrder(o) ==
    /\ ~Placed(o)
    /\ orders'[o].status \in {"open", "rejected"}
    /\ \A p \in OrderIds \ {o} : orders'[p] = orders[p]
    /\ UNCHANGED trades

EndsOrder(o) ==
    /\ Placed(o)
    /\ orders'[o].status \in {"complete", "cancelled", "rejected"}
    /\ orders'[o].status = "complete" => trades[o] > 0
    /\ \A p \in OrderIds \ {o} : orders'[p] = orders[p]
    /\ UNCHANGED trades

TradesOrder(o) ==
    /\ Placed(o)
    /\ orders'[o].status = "complete" \/ (orders'[o].status = orders[o].status /\ ~Open(o))
    /\ \A p \in OrderIds \ {o} : orders'[p] = orders[p]
    /\ trades' = [trades EXCEPT ![o] = @ + 1]

OrdersMove ==
    \/ StatusesSame
    \/ \E o \in OrderIds : PutsOrder(o) \/ EndsOrder(o) \/ TradesOrder(o)

\* An order of the table stays in it, and one that is not open stays so.
Lasting == \A o \in OrderIds : Placed(o) => Placed(o)' /\ (Open(o)' => Open(o))

LEMMA MoveLasts ==
    ASSUME OrdersMove
    PROVE  Lasting
  BY DEF OrdersMove, StatusesSame, PutsOrder, EndsOrder, TradesOrder, Lasting,
         Placed, Open

\* A step keeps trades and statuses in agreement.
LEMMA MoveAgrees ==
    ASSUME TypeInv, TradeMeansNotOpen, PlacedWhenTraded, OrdersMove
    PROVE  TradeMeansNotOpen' /\ PlacedWhenTraded'
  <1>1. trades \in [OrderIds -> Nat]
    BY DEF TypeInv, TypeOK
  <1>2. CASE StatusesSame
    BY <1>2 DEF StatusesSame, TradeMeansNotOpen, PlacedWhenTraded, Placed, Open
  <1>3. ASSUME NEW o \in OrderIds, PutsOrder(o)
        PROVE  TradeMeansNotOpen' /\ PlacedWhenTraded'
    <2>1. trades'[o] = 0
      BY <1>3 DEF PutsOrder, PlacedWhenTraded
    <2> QED
      BY <1>3, <2>1 DEF PutsOrder, TradeMeansNotOpen, PlacedWhenTraded, Placed, Open
  <1>4. ASSUME NEW o \in OrderIds, EndsOrder(o)
        PROVE  TradeMeansNotOpen' /\ PlacedWhenTraded'
    BY <1>4 DEF EndsOrder, TradeMeansNotOpen, PlacedWhenTraded, Placed, Open
  <1>5. ASSUME NEW o \in OrderIds, TradesOrder(o)
        PROVE  TradeMeansNotOpen' /\ PlacedWhenTraded'
    <2>1. trades'[o] > 0 /\ \A p \in OrderIds \ {o} : trades'[p] = trades[p]
      BY <1>1, <1>5 DEF TradesOrder
    <2>2. orders'[o].status \notin {"none", "open"}
      BY <1>5 DEF TradesOrder, Placed, Open
    <2> QED
      BY <1>5, <2>1, <2>2 DEF TradesOrder, TradeMeansNotOpen, PlacedWhenTraded, Placed, Open
  <1> QED
    BY <1>2, <1>3, <1>4, <1>5 DEF OrdersMove

\* What the step leaves alone stays sound.
LEMMA SoundLasts ==
    ASSUME TypeInv, Lasting, NEW u \in Threads, Sound(u), threads'[u] = threads[u]
    PROVE  Sound(u)'
  <1>1. threads[u].step \in OrderSteps => threads[u].oid \in OrderIds
    BY DEF TypeInv, WorksOnOrder
  <1>2. \A p \in threads[u].picked : p[1] \in OrderIds
    BY DEF TypeInv, TypeOK, ThreadState
  <1>3. Drafts(u)'
    BY DEF Sound, Drafts
  <1>4. Works(u)'
    BY <1>1 DEF Sound, Works, Lasting, Runs, RunSteps, OrderSteps
  <1>5. Picks(u)'
    BY <1>2 DEF Sound, Picks, Lasting
  <1> QED
    BY <1>3, <1>4, <1>5 DEF Sound

\* What a step does to the index, and to the request that runs an order.
IndexMove(t) ==
    /\ \A o \in OrderIds : Open(o)' =>
          Open(o) \/ (t \in ApiThreads /\ Runs(t)' /\ threads'[t].oid = o)
    /\ \A o \in index : o \in index' \/ ~Open(o)'
    /\ \A o \in OrderIds : t \in ApiThreads /\ Runs(t) /\ threads[t].oid = o =>
          \/ Runs(t)' /\ threads'[t].oid = o
          \/ WsThreads = {}
          \/ o \in index' \/ ~Open(o)'

Moves(t) == OrdersMove /\ Sound(t)' /\ IndexMove(t)

\* A step that leaves orders, trades and index alone and runs no order.
LEMMA MovesBlank ==
    ASSUME TypeInv, NEW t \in Threads, ~Runs(t), UNCHANGED <<orders, trades, index>>,
           NEW s, threads'[t] = s, s.step \notin OrderSteps, s.oid = NoOrder,
           s.step \in {"block", "insert", "reject"} => t \in ApiThreads,
           s.step \in {"block", "insert"} => s.row.status = "open",
           s.step = "reject" => s.row.status = "rejected",
           \A p \in s.picked : p[1] \in OrderIds /\ Open(p[1]) /\ p[2].status = "open"
    PROVE  Moves(t)
  <1>1. OrdersMove
    BY DEF OrdersMove, StatusesSame
  <1>2. ~Runs(t)'
    BY DEF Runs, RunSteps, OrderSteps
  <1>3. Drafts(t)'
    BY DEF Drafts
  <1>4. Works(t)'
    BY <1>2 DEF Works, OrderSteps
  <1>5. Picks(t)'
    BY DEF Picks, Placed, Open
  <1>6. IndexMove(t)
    BY <1>2 DEF IndexMove, Open
  <1> QED
    BY <1>1, <1>3, <1>4, <1>5, <1>6 DEF Moves, Sound

\* A step of the run of an order that goes on with it, beyond the check.
LEMMA MovesOn ==
    ASSUME TypeInv, NEW t \in Threads, Sound(t), Runs(t), OrdersMove,
           index' = index,
           \A o \in OrderIds : Open(o)' => Open(o),
           threads'[t].oid = threads[t].oid,
           threads'[t].step \in RunSteps,
           threads'[t].step \in {"check", "execute"} /\ threads'[t].row.status = "complete"
              => ~Open(threads[t].oid),
           \/ threads'[t].picked = threads[t].picked
           \/ threads'[t].picked = Expire(threads[t].picked)
    PROVE  Moves(t)
  <1>1. Lasting
    BY MoveLasts
  <1>2. threads[t].oid \in OrderIds
    BY DEF TypeInv, WorksOnOrder, Runs, RunSteps, OrderSteps
  <1>3. Runs(t)'
    BY DEF Runs
  <1>4. Drafts(t)'
    BY DEF Drafts, RunSteps
  <1>5. Works(t)'
    BY <1>1, <1>2, <1>3 DEF Works, Sound, Lasting, Runs, RunSteps, OrderSteps
  <1>6. \A p \in threads[t].picked : p[1] \in OrderIds
    BY DEF TypeInv, TypeOK, ThreadState
  <1>7. CASE threads'[t].picked = threads[t].picked
    BY <1>1, <1>3, <1>4, <1>5, <1>6, <1>7
       DEF Moves, Sound, Picks, Lasting, IndexMove
  <1>8. CASE threads'[t].picked = Expire(threads[t].picked)
    <2>1. ASSUME NEW p \in Expire(threads[t].picked)
          PROVE  /\ \E q \in threads[t].picked : p[1] = q[1]
                 /\ p[2].status = "none"
      BY DEF Expire, NoRow
    <2>2. Picks(t)'
      BY <1>1, <1>6, <1>8, <2>1 DEF Sound, Picks, Lasting
    <2> QED
      BY <1>3, <1>4, <1>5, <2>2 DEF Moves, Sound, IndexMove
  <1> QED
    BY <1>7, <1>8

\* Requests and polling passes begin with copies of the rows as they are.
LEMMA MovesStart ==
    ASSUME TypeInv, NEW t \in Threads, Sound(t),
           \/ t \in ApiThreads /\ Request(t)
           \/ t \in WsThreads /\ Tick(t)
           \/ t \in PollThreads /\ PollPass(t)
    PROVE  Moves(t)
  <1>1. threads[t].step = "idle" /\ ~Runs(t) /\ UNCHANGED <<orders, trades>>
    <2>1. MayStart(t)
      BY StartMoves DEF Starts
    <2> QED
      BY <2>1 DEF MayStart, At, Runs, RunSteps, Request, PlaceOrder, ClosePosition,
                  LoadForRequest, GetFunds, Tick, PollPass, tables
  <1>2. OrdersMove /\ Lasting
    BY <1>1, MoveLasts DEF OrdersMove, StatusesSame
  <1>3. \A s : threads' = [threads EXCEPT ![t] = s] => threads'[t] = s
    BY DEF TypeInv, TypeOK
  <1>4. ASSUME PlaceOrder(t), t \in ApiThreads
        PROVE  Moves(t)
    <2>1. PICK b \in Books, q \in Quantities, rate \in Rates, kind \in Kinds :
            LET held == positions[b].qty
                need == MarginToBlock(held, q, rate)
                ok   == Deliverable(b, q, held)
            IN  Become(t, [Idle EXCEPT
                  !.step = IF ok THEN "block" ELSE "reject",
                  !.kind = kind,
                  !.row  = [status |-> IF ok THEN "open" ELSE "rejected",
                            book   |-> b,
                            qty    |-> q,
                            margin |-> IF ok THEN need ELSE 0]])
      BY <1>4 DEF PlaceOrder
    <2> DEFINE ok   == Deliverable(b, q, positions[b].qty)
               need == MarginToBlock(positions[b].qty, q, rate)
               row  == [status |-> IF ok THEN "open" ELSE "rejected",
                        book |-> b, qty |-> q, margin |-> IF ok THEN need ELSE 0]
               s    == [Idle EXCEPT !.step = IF ok THEN "block" ELSE "reject",
                                    !.kind = kind, !.row = row]
    <2> HIDE DEF ok, need
    <2>2. threads'[t] = s
      BY <1>3, <2>1 DEF Become, ok, need
    <2>3. /\ s.step \in {"block", "reject"} /\ s.oid = NoOrder /\ s.picked = {}
          /\ s.step = "block" => s.row.status = "open"
          /\ s.step = "reject" => s.row.status = "rejected"
      BY DEF Idle
    <2>4. UNCHANGED index
      BY <1>4 DEF PlaceOrder
    <2> HIDE DEF s
    <2> QED
      BY <1>1, <1>4, <2>2, <2>3, <2>4, MovesBlank DEF OrderSteps
  <1>5. ASSUME ClosePosition(t), t \in ApiThreads
        PROVE  Moves(t)
    <2>1. PICK b \in Books, kind \in Kinds \ {"marketable"} :
            Become(t, [Idle EXCEPT
              !.step = "block",
              !.kind = kind,
              !.row  = [status |-> "open", book |-> b,
                        qty |-> -positions[b].qty, margin |-> 0]])
      BY <1>5 DEF ClosePosition
    <2> DEFINE s == [Idle EXCEPT !.step = "block", !.kind = kind,
                       !.row = [status |-> "open", book |-> b,
                                qty |-> -positions[b].qty, margin |-> 0]]
    <2>2. threads'[t] = s
      BY <1>3, <2>1 DEF Become
    <2>3. s.step = "block" /\ s.oid = NoOrder /\ s.picked = {} /\ s.row.status = "open"
      BY DEF Idle
    <2>4. UNCHANGED index
      BY <1>5 DEF ClosePosition
    <2> HIDE DEF s
    <2> QED
      BY <1>1, <1>5, <2>2, <2>3, <2>4, MovesBlank DEF OrderSteps
  <1>6. ASSUME GetFunds(t)
        PROVE  Moves(t)
    <2> DEFINE s == [threads[t] EXCEPT !.step = "reset"]
    <2>1. threads[t] \in ThreadState
      BY DEF TypeInv, TypeOK
    <2>2. threads'[t] = s
      BY <1>3, <1>6 DEF GetFunds, Goto
    <2>3. s.step = "reset" /\ s.oid = threads[t].oid /\ s.picked = threads[t].picked
      BY <2>1 DEF ThreadState
    <2>4. UNCHANGED index
      BY <1>6 DEF GetFunds
    <2> HIDE DEF s
    <2>5. Drafts(t)' /\ Works(t)' /\ ~Runs(t)'
      BY <1>1, <2>2, <2>3 DEF Drafts, Works, Sound, Runs, RunSteps, OrderSteps
    <2>6. Picks(t)'
      <3>1. \A p \in threads[t].picked : p[1] \in OrderIds
        BY DEF TypeInv, TypeOK, ThreadState
      <3> QED
        BY <1>2, <2>2, <2>3, <3>1 DEF Sound, Picks, Lasting
    <2> QED
      BY <1>1, <1>2, <2>4, <2>5, <2>6 DEF Moves, Sound, IndexMove, Open
  <1>7. ASSUME NEW request \in {"cancel", "modify", "check"}, NEW o \in OrderIds, Open(o),
               Become(t, [Idle EXCEPT !.step = request, !.oid = o, !.row = orders[o]]),
               UNCHANGED index, request = "check" => t \notin ApiThreads
        PROVE  Moves(t)
    <2> DEFINE s == [Idle EXCEPT !.step = request, !.oid = o, !.row = orders[o]]
    <2>1. threads'[t] = s
      BY <1>3, <1>7 DEF Become
    <2>2. s.step = request /\ s.oid = o /\ s.picked = {} /\ s.row = orders[o]
      BY DEF Idle
    <2> HIDE DEF s
    <2>3. Drafts(t)' /\ Picks(t)' /\ (Runs(t)' => t \notin ApiThreads)
      BY <1>7, <2>1, <2>2 DEF Drafts, Picks, Runs, RunSteps
    <2>4. Works(t)'
      BY <1>1, <1>7, <2>1, <2>2 DEF Works, OrderSteps, Placed, Open
    <2> QED
      BY <1>1, <1>2, <1>7, <2>3, <2>4 DEF Moves, Sound, IndexMove, Open
  <1>8. ASSUME NEW request \in {"cancel", "modify"}, LoadForRequest(t, request)
        PROVE  Moves(t)
    <2>1. PICK o \in OrderIds :
            Open(o) /\ Become(t, [Idle EXCEPT !.step = request, !.oid = o, !.row = orders[o]])
      BY <1>8 DEF LoadForRequest
    <2>2. UNCHANGED index
      BY <1>8 DEF LoadForRequest
    <2> QED
      BY <1>7, <2>1, <2>2
  <1>9. ASSUME Tick(t), t \in WsThreads
        PROVE  Moves(t)
    <2>1. PICK o \in index :
            \/ /\ Open(o)
               /\ Become(t, [Idle EXCEPT !.step = "check", !.oid = o, !.row = orders[o]])
               /\ UNCHANGED index
            \/ /\ ~Open(o)
               /\ index' = index \ {o}
               /\ UNCHANGED threads
      BY <1>9 DEF Tick
    <2>2. o \in OrderIds /\ t \notin ApiThreads
      BY <1>9, AccountAssumption DEF TypeInv, TypeOK
    <2>3. CASE ~Open(o) /\ index' = index \ {o} /\ UNCHANGED threads
      <3>1. Sound(t)' /\ ~Runs(t)'
        BY <1>1, <1>2, <2>3, SoundLasts DEF Runs
      <3> QED
        BY <1>1, <1>2, <2>3, <3>1 DEF Moves, IndexMove, Open
    <2> QED
      BY <1>7, <2>1, <2>2, <2>3
  <1>10. ASSUME PollPass(t)
         PROVE  Moves(t)
    <2> DEFINE picked == {<<o, orders[o]>> : o \in {p \in OrderIds : Open(p)}}
               s == [Idle EXCEPT !.step = "pass", !.picked = picked]
    <2>1. threads'[t] = s /\ UNCHANGED index
      BY <1>3, <1>10 DEF PollPass, Become
    <2>2. s.step = "pass" /\ s.oid = NoOrder /\ s.picked = picked
      BY DEF Idle
    <2>3. \A p \in picked : p[1] \in OrderIds /\ Open(p[1]) /\ p[2].status = "open"
      BY DEF Open
    <2> HIDE DEF s, picked
    <2> QED
      BY <1>1, <2>1, <2>2, <2>3, MovesBlank DEF OrderSteps
  <1> QED
    BY <1>4, <1>5, <1>6, <1>8, <1>9, <1>10 DEF Request

\* Placing, cancelling, modifying and resetting.
LEMMA MovesManagers ==
    ASSUME StatusInv, NEW t \in Threads,
           \/ BlockMarginStep(t) \/ InsertOrder(t) \/ InsertRejected(t)
           \/ CancelOrder(t) \/ ModifyOrder(t) \/ ResetFunds(t) \/ WipePositions(t)
    PROVE  Moves(t)
  <1> DEFINE th == threads[t]
             o  == th.oid
  <1>1. /\ TypeInv /\ th \in ThreadState /\ orders \in [OrderIds -> OrderRow]
        /\ Drafts(t) /\ Works(t) /\ Picks(t)
    BY DEF StatusInv, Sound, TypeInv, TypeOK
  <1>2. \A s : threads' = [threads EXCEPT ![t] = s] => threads'[t] = s
    BY <1>1 DEF TypeInv, TypeOK
  <1>4. Idle.step = "idle" /\ Idle.oid = NoOrder /\ Idle.picked = {}
    BY DEF Idle
  <1>5. ASSUME Become(t, Idle)
        PROVE  threads'[t] = Idle /\ Sound(t)' /\ ~Runs(t)'
    <2>1. threads'[t] = Idle
      BY <1>2, <1>5 DEF Become
    <2> QED
      BY <1>4, <2>1
         DEF Sound, Drafts, Works, Picks, Runs, RunSteps, OrderSteps
  <1>6. ASSUME NEW step, Goto(t, step), th.step \notin OrderSteps, step \notin OrderSteps,
               step \in {"block", "insert", "reject"} => t \in ApiThreads,
               step \in {"block", "insert"} => th.row.status = "open",
               step # "reject",
               Lasting
        PROVE  Sound(t)' /\ ~Runs(t)'
    <2>1. /\ threads'[t].step = step /\ threads'[t].oid = th.oid
          /\ threads'[t].row = th.row /\ threads'[t].picked = th.picked
      BY <1>1, <1>6 DEF Goto, ThreadState, TypeInv, TypeOK
    <2>2. Drafts(t)' /\ Works(t)' /\ ~Runs(t)'
      BY <1>1, <1>6, <2>1 DEF Drafts, Works, Runs, RunSteps, OrderSteps
    <2>3. Picks(t)'
      <3>1. \A p \in th.picked : p[1] \in OrderIds
        BY <1>1 DEF ThreadState
      <3> QED
        BY <1>1, <1>6, <2>1, <3>1 DEF Picks, Lasting
    <2> QED
      BY <2>2, <2>3 DEF Sound
  <1>7. ASSUME UNCHANGED <<orders, trades>>
        PROVE  OrdersMove /\ Lasting
    BY <1>7, MoveLasts DEF OrdersMove, StatusesSame
  <1>8. ASSUME UNCHANGED <<orders, trades, index>>, Sound(t)', ~Runs(t), ~Runs(t)'
        PROVE  Moves(t)
    BY <1>7, <1>8 DEF Moves, IndexMove, Open
  <1>9. CASE BlockMarginStep(t)
    <2>1. th.step = "block" /\ ~Runs(t) /\ UNCHANGED <<orders, trades, index>>
      BY <1>9 DEF BlockMarginStep, At, Runs, RunSteps
    <2>2. Goto(t, "insert") \/ Become(t, Idle)
      BY <1>9 DEF BlockMarginStep
    <2>3. Sound(t)' /\ ~Runs(t)'
      BY <1>1, <1>5, <1>6, <1>7, <2>1, <2>2 DEF Drafts, OrderSteps
    <2> QED
      BY <1>8, <2>1, <2>3
  <1>10. CASE InsertOrder(t)
    <2>1. th.step = "insert" /\ t \in ApiThreads /\ th.row.status = "open"
          /\ ~Runs(t) /\ UNCHANGED <<trades, index>>
      BY <1>1, <1>10 DEF InsertOrder, At, Drafts, Runs, RunSteps
    <2>2. PICK p \in OrderIds :
            /\ orders[p].status = "none"
            /\ orders' = [orders EXCEPT ![p] = th.row]
            /\ threads' = [threads EXCEPT
                 ![t].oid  = p,
                 ![t].step = IF th.kind = "resting" THEN "finish" ELSE "load"]
      BY <1>10 DEF InsertOrder
    <2> DEFINE step == IF th.kind = "resting" THEN "finish" ELSE "load"
    <2>3. step \in {"finish", "load"}
      OBVIOUS
    <2> HIDE DEF step
    <2>4. threads'[t] = [th EXCEPT !.oid = p, !.step = step]
      BY <1>1, <2>2 DEF TypeInv, TypeOK, step
    <2>5. threads'[t].step = step /\ threads'[t].oid = p /\ threads'[t].picked = th.picked
      BY <1>1, <2>4 DEF ThreadState
    <2>6. PutsOrder(p) /\ Open(p)'
      BY <1>1, <2>1, <2>2 DEF PutsOrder, Placed, Open
    <2>7. OrdersMove /\ Lasting
      BY <2>6, MoveLasts DEF OrdersMove
    <2>8. Runs(t)' /\ Drafts(t)' /\ Works(t)'
      BY <2>3, <2>5, <2>6 DEF Runs, RunSteps, Drafts, Works, OrderSteps, Placed, Open
    <2>9. Picks(t)'
      <3>1. \A q \in th.picked : q[1] \in OrderIds
        BY <1>1 DEF ThreadState
      <3> QED
        BY <1>1, <2>5, <2>7, <3>1 DEF Picks, Lasting
    <2>10. IndexMove(t)
      BY <2>1, <2>5, <2>6, <2>8 DEF IndexMove, PutsOrder, Open
    <2> QED
      BY <2>7, <2>8, <2>9, <2>10 DEF Moves, Sound
  <1>11. CASE InsertRejected(t)
    <2>1. th.row.status = "rejected" /\ ~Runs(t) /\ UNCHANGED <<trades, index>>
      BY <1>1, <1>11 DEF InsertRejected, At, Drafts, Runs, RunSteps
    <2>2. PICK p \in OrderIds :
            /\ orders[p].status = "none"
            /\ orders' = [orders EXCEPT ![p] = th.row]
      BY <1>11 DEF InsertRejected
    <2>3. PutsOrder(p) /\ ~Open(p)'
      BY <1>1, <2>1, <2>2 DEF PutsOrder, Placed, Open
    <2>4. Sound(t)' /\ ~Runs(t)'
      BY <1>5, <1>11 DEF InsertRejected
    <2> QED
      BY <2>1, <2>3, <2>4 DEF Moves, OrdersMove, IndexMove, PutsOrder, Open
  <1>12. CASE CancelOrder(t)
    <2>1. th.step = "cancel" /\ o \in OrderIds /\ ~Runs(t) /\ UNCHANGED <<trades, index>>
          /\ orders' = [orders EXCEPT ![o].status = "cancelled"]
      BY <1>1, <1>12
         DEF CancelOrder, At, Runs, RunSteps, TypeInv, WorksOnOrder, OrderSteps
    <2>2. Sound(t)' /\ ~Runs(t)'
      BY <1>5, <1>12 DEF CancelOrder
    <2>3. orders'[o].status = "cancelled" /\ \A p \in OrderIds \ {o} : orders'[p] = orders[p]
      BY <1>1, <2>1 DEF OrderRow
    <2>4. Placed(o)
      BY <1>1, <2>1 DEF Works, OrderSteps
    <2> QED
      BY <2>1, <2>2, <2>3, <2>4 DEF Moves, OrdersMove, EndsOrder, IndexMove, Open
  <1>13. CASE ModifyOrder(t)
    <2>1. o \in OrderIds /\ ~Runs(t) /\ UNCHANGED <<trades, index>>
      BY <1>1, <1>13
         DEF ModifyOrder, At, Runs, RunSteps, TypeInv, WorksOnOrder, OrderSteps
    <2>2. \A p \in OrderIds : orders'[p].status = orders[p].status
      BY <1>1, <1>13 DEF ModifyOrder, OrderRow
    <2>3. Sound(t)' /\ ~Runs(t)'
      BY <1>5, <1>13 DEF ModifyOrder
    <2> QED
      BY <2>1, <2>2, <2>3 DEF Moves, OrdersMove, StatusesSame, IndexMove, Open
  <1>14. CASE ResetFunds(t)
    <2>1. th.step = "reset" /\ ~Runs(t) /\ UNCHANGED <<orders, trades, index>>
          /\ Goto(t, "wipe")
      BY <1>14 DEF ResetFunds, At, Runs, RunSteps
    <2>2. Sound(t)' /\ ~Runs(t)'
      BY <1>6, <1>7, <2>1 DEF OrderSteps
    <2> QED
      BY <1>8, <2>1, <2>2
  <1>15. CASE WipePositions(t)
    <2>1. ~Runs(t) /\ UNCHANGED <<orders, trades, index>> /\ Become(t, Idle)
      BY <1>15 DEF WipePositions, At, Runs, RunSteps
    <2> QED
      BY <1>5, <1>8, <2>1
  <1> QED
    BY <1>9, <1>10, <1>11, <1>12, <1>13, <1>14, <1>15

\* The engines select an order, load it and look at its trade.
LEMMA MovesSelect ==
    ASSUME StatusInv, NEW t \in Threads,
           PollOrder(t) \/ LoadOrder(t) \/ CheckTrade(t)
    PROVE  Moves(t)
  <1> DEFINE th == threads[t]
             o  == th.oid
  <1>1. /\ TypeInv /\ th \in ThreadState /\ orders \in [OrderIds -> OrderRow]
        /\ Sound(t) /\ Drafts(t) /\ Works(t) /\ Picks(t)
    BY DEF StatusInv, Sound, TypeInv, TypeOK
  <1>2. \A p \in th.picked : p[1] \in OrderIds /\ p[2] \in OrderRow
    BY <1>1 DEF ThreadState
  <1>3. ASSUME UNCHANGED <<orders, trades>>
        PROVE  OrdersMove /\ Lasting /\ \A p \in OrderIds : Open(p)' => Open(p)
    BY <1>3, MoveLasts DEF OrdersMove, StatusesSame, Open
  <1>4. CASE PollOrder(t)
    <2>1. th.step = "pass" /\ ~Runs(t) /\ UNCHANGED <<orders, trades, index>>
      BY <1>4 DEF PollOrder, At, tables, Runs, RunSteps
    <2>2. PICK p \in th.picked :
            threads' = [threads EXCEPT
              ![t].step   = IF p[2] = NoRow THEN "load" ELSE "check",
              ![t].oid    = p[1],
              ![t].row    = p[2],
              ![t].picked = @ \ {p}]
      BY <1>4 DEF PollOrder
    <2> DEFINE step == IF p[2] = NoRow THEN "load" ELSE "check"
    <2>3. step \in {"load", "check"}
      OBVIOUS
    <2> HIDE DEF step
    <2>4. /\ threads'[t].step = step /\ threads'[t].oid = p[1]
          /\ threads'[t].row = p[2] /\ threads'[t].picked = th.picked \ {p}
      BY <1>1, <2>2 DEF TypeInv, TypeOK, ThreadState, step
    <2>5. Placed(p[1]) /\ p[1] \in OrderIds /\ p[2].status \in {"none", "open"}
      BY <1>1, <1>2 DEF Picks
    <2>6. Drafts(t)' /\ Works(t)'
      BY <2>1, <2>3, <2>4, <2>5 DEF Drafts, Works, Placed, OrderSteps
    <2>7. Picks(t)'
      BY <1>1, <1>2, <2>1, <2>4 DEF Picks, Placed
    <2> QED
      BY <1>3, <2>1, <2>6, <2>7 DEF Moves, Sound, IndexMove
  <1>5. CASE LoadOrder(t)
    <2> DEFINE step == IF t \in ApiThreads /\ th.kind = "marketable"
                       THEN "execute" ELSE "check"
    <2>1. th.step = "load" /\ Runs(t) /\ UNCHANGED <<orders, trades, index>>
      BY <1>5 DEF LoadOrder, At, tables, Runs, RunSteps
    <2>2. step \in {"execute", "check"} /\ o \in OrderIds
      BY <1>1, <2>1 DEF TypeInv, WorksOnOrder, OrderSteps
    <2> HIDE DEF step
    <2>3. threads' = [threads EXCEPT ![t].row = orders[o], ![t].step = step]
      BY <1>5 DEF LoadOrder, step
    <2>4. /\ threads'[t].step = step /\ threads'[t].oid = o
          /\ threads'[t].row = orders[o] /\ threads'[t].picked = th.picked
      BY <1>1, <2>3 DEF TypeInv, TypeOK, ThreadState
    <2>5. threads'[t].row.status = "complete" => ~Open(o)
      BY <2>4 DEF Open
    <2> QED
      BY <1>1, <1>3, <2>1, <2>2, <2>4, <2>5, MovesOn DEF RunSteps
  <1>6. CASE CheckTrade(t)
    <2>1. th.step = "check" /\ Runs(t) /\ o \in OrderIds /\ UNCHANGED <<trades, index>>
      BY <1>1, <1>6 DEF CheckTrade, At, Runs, RunSteps, TypeInv, WorksOnOrder, OrderSteps
    <2>2. CASE /\ trades[o] > 0
               /\ orders' = [orders EXCEPT ![o].status = "complete"]
               /\ threads' = [threads EXCEPT ![t].step = "finish",
                                             ![t].picked = Expire(@)]
      <3>1. orders'[o].status = "complete" /\ \A p \in OrderIds \ {o} : orders'[p] = orders[p]
        BY <1>1, <2>1, <2>2 DEF OrderRow
      <3>2. EndsOrder(o)
        BY <1>1, <2>1, <2>2, <3>1 DEF EndsOrder, Works, OrderSteps
      <3>3. OrdersMove /\ \A p \in OrderIds : Open(p)' => Open(p)
        BY <2>1, <3>1, <3>2 DEF OrdersMove, Open
      <3>4. /\ threads'[t].step = "finish" /\ threads'[t].oid = o
            /\ threads'[t].picked = Expire(th.picked)
        BY <1>1, <2>2 DEF TypeInv, TypeOK, ThreadState
      <3> QED
        BY <1>1, <2>1, <3>3, <3>4, MovesOn DEF RunSteps
    <2>3. ASSUME NEW step \in {"finish", "execute"}, Goto(t, step), UNCHANGED orders
          PROVE  Moves(t)
      <3>1. /\ threads'[t].step = step /\ threads'[t].oid = o
            /\ threads'[t].row = th.row /\ threads'[t].picked = th.picked
        BY <1>1, <2>3 DEF Goto, TypeInv, TypeOK, ThreadState
      <3>2. th.row.status = "complete" => ~Open(o)
        BY <1>1, <2>1 DEF Works
      <3> QED
        BY <1>1, <1>3, <2>1, <2>3, <3>1, <3>2, MovesOn DEF RunSteps
    <2> QED
      BY <1>6, <2>2, <2>3 DEF CheckTrade
  <1> QED
    BY <1>4, <1>5, <1>6

\* The run of an order from its trade on, with what may fail in it.
LEMMA MovesRun ==
    ASSUME StatusInv, NEW t \in Threads,
           \/ ExecuteOrder(t) \/ ReadPosition(t) \/ ReleaseMarginStep(t)
           \/ ApplyPosition(t) \/ LosePosition(t) \/ SumPositions(t)
           \/ ReadFunds(t) \/ Reconcile(t) \/ CommitFails(t) \/ ReleaseFails(t)
    PROVE  Moves(t)
  <1> DEFINE th == threads[t]
             o  == th.oid
  <1>1. /\ TypeInv /\ th \in ThreadState /\ orders \in [OrderIds -> OrderRow]
        /\ Sound(t) /\ Works(t)
    BY DEF StatusInv, Sound, TypeInv, TypeOK
  <1>2. Runs(t) /\ o \in OrderIds /\ Placed(o) /\ index' = index
    <2>1. Runs(t)
      BY DEF ExecuteOrder, ReadPosition, ReleaseMarginStep, ApplyPosition, LosePosition,
             SumPositions, ReadFunds, Reconcile, CommitFails, ReleaseFails, At, Runs, RunSteps
    <2>2. index' = index
      BY DEF ExecuteOrder, ReadPosition, ReleaseMarginStep, ApplyPosition, LosePosition,
             SumPositions, ReadFunds, Reconcile, CommitFails, ReleaseFails, tables
    <2> QED
      BY <1>1, <2>1, <2>2 DEF Works, TypeInv, WorksOnOrder, Runs, RunSteps, OrderSteps
  <1>3. ASSUME OrdersMove, \A p \in OrderIds : Open(p)' => Open(p),
               threads'[t].step \in RunSteps \ {"check", "execute"},
               threads'[t].oid = o,
               \/ threads'[t].picked = th.picked
               \/ threads'[t].picked = Expire(th.picked)
        PROVE  Moves(t)
    BY <1>1, <1>2, <1>3, MovesOn
  <1>4. ASSUME UNCHANGED <<orders, trades>>
        PROVE  OrdersMove /\ \A p \in OrderIds : Open(p)' => Open(p)
    BY <1>4 DEF OrdersMove, StatusesSame, Open
  <1>5. ASSUME orders' = [orders EXCEPT ![o].status = "rejected"], UNCHANGED trades
        PROVE  OrdersMove /\ \A p \in OrderIds : Open(p)' => Open(p)
    <2>1. orders'[o].status = "rejected" /\ \A p \in OrderIds \ {o} : orders'[p] = orders[p]
      BY <1>1, <1>2, <1>5 DEF OrderRow
    <2> QED
      BY <1>2, <1>5, <2>1 DEF OrdersMove, EndsOrder, Open
  <1>6. ASSUME NEW step \in RunSteps \ {"check", "execute"}, Goto(t, step), OrdersMove,
               \A p \in OrderIds : Open(p)' => Open(p)
        PROVE  Moves(t)
    <2>1. /\ threads'[t].step = step /\ threads'[t].oid = o
          /\ threads'[t].picked = th.picked
      BY <1>1, <1>6 DEF Goto, TypeInv, TypeOK, ThreadState
    <2> QED
      BY <1>3, <1>6, <2>1
  <1>7. CASE ExecuteOrder(t)
    <2>1. /\ th.step = "execute"
          /\ trades' = [trades EXCEPT ![o] = @ + 1]
          /\ orders' = IF th.row.status = "complete" THEN orders
                       ELSE [orders EXCEPT ![o].status = "complete"]
          /\ threads' = [threads EXCEPT ![t].step = "position", ![t].picked = Expire(@)]
      BY <1>7 DEF ExecuteOrder, At
    <2>2. TradesOrder(o) /\ \A p \in OrderIds : Open(p)' => Open(p)
      <3>1. CASE th.row.status = "complete"
        BY <1>1, <1>2, <2>1, <3>1 DEF TradesOrder, Works, Open
      <3>2. CASE th.row.status # "complete"
        <4>1. orders'[o].status = "complete" /\ \A p \in OrderIds \ {o} : orders'[p] = orders[p]
          BY <1>1, <1>2, <2>1, <3>2 DEF OrderRow
        <4> QED
          BY <1>2, <2>1, <4>1 DEF TradesOrder, Open
      <3> QED
        BY <3>1, <3>2
    <2>3. /\ threads'[t].step = "position" /\ threads'[t].oid = o
          /\ threads'[t].picked = Expire(th.picked)
      BY <1>1, <2>1 DEF TypeInv, TypeOK, ThreadState
    <2>4. OrdersMove
      BY <1>2, <2>2 DEF OrdersMove
    <2> QED
      BY <1>3, <2>2, <2>3, <2>4 DEF RunSteps
  <1>8. CASE ReadPosition(t)
    <2> DEFINE row  == orders[o]
               held == positions[row.book]
               step == IF MarginReleased(held, row.qty) > 0 THEN "release" ELSE "apply"
    <2>1. PICK pnl \in Pnls :
            threads' = [threads EXCEPT
              ![t].row  = row,
              ![t].held = held,
              ![t].pnl  = IF Realizes(held, row.qty) THEN pnl ELSE 0,
              ![t].step = step]
      BY <1>8 DEF ReadPosition
    <2>2. step \in {"release", "apply"} /\ UNCHANGED <<orders, trades>>
      BY <1>8 DEF ReadPosition, tables
    <2> HIDE DEF row, held, step
    <2>3. threads'[t].step = step /\ threads'[t].oid = o /\ threads'[t].picked = th.picked
      BY <1>1, <2>1 DEF TypeInv, TypeOK, ThreadState
    <2> QED
      BY <1>3, <1>4, <2>2, <2>3 DEF RunSteps
  <1>9. CASE ReleaseMarginStep(t) \/ ApplyPosition(t) \/ Reconcile(t) \/ ReleaseFails(t)
    <2>1. UNCHANGED <<orders, trades>>
      BY <1>9 DEF ReleaseMarginStep, ApplyPosition, Reconcile, ReleaseFails, tables
    <2>2. Goto(t, "apply") \/ Goto(t, "sum") \/ Goto(t, "finish")
      BY <1>9 DEF ReleaseMarginStep, ApplyPosition, Reconcile, ReleaseFails
    <2> QED
      BY <1>4, <1>6, <2>1, <2>2 DEF RunSteps
  <1>10. CASE LosePosition(t)
    <2>1. orders' = [orders EXCEPT ![o].status = "rejected"] /\ UNCHANGED trades
          /\ Goto(t, "finish")
      BY <1>10 DEF LosePosition
    <2> QED
      BY <1>5, <1>6, <2>1 DEF RunSteps
  <1>11. CASE SumPositions(t)
    <2> DEFINE total == TotalMargin(positions)
    <2>1. threads' = [threads EXCEPT ![t].total = total, ![t].step = "read"]
          /\ UNCHANGED <<orders, trades>>
      BY <1>11 DEF SumPositions, tables
    <2> HIDE DEF total
    <2>2. threads'[t].step = "read" /\ threads'[t].oid = o /\ threads'[t].picked = th.picked
      BY <1>1, <2>1 DEF TypeInv, TypeOK, ThreadState
    <2> QED
      BY <1>3, <1>4, <2>1, <2>2 DEF RunSteps
  <1>12. CASE ReadFunds(t)
    <2> DEFINE step == IF funds.used = th.total THEN "finish" ELSE "reconcile"
    <2>1. step \in {"finish", "reconcile"} /\ UNCHANGED <<orders, trades>>
      BY <1>12 DEF ReadFunds, tables
    <2>2. threads' = [threads EXCEPT ![t].seen = funds, ![t].step = step]
      BY <1>12 DEF ReadFunds
    <2> HIDE DEF step
    <2>3. threads'[t].step = step /\ threads'[t].oid = o /\ threads'[t].picked = th.picked
      BY <1>1, <2>2 DEF TypeInv, TypeOK, ThreadState
    <2> QED
      BY <1>3, <1>4, <2>1, <2>3 DEF RunSteps
  <1>13. CASE CommitFails(t)
    <2>1. /\ orders' = [orders EXCEPT ![o].status = "rejected"] /\ UNCHANGED trades
          /\ threads' = [threads EXCEPT ![t].step = "finish", ![t].picked = Expire(@)]
      BY <1>13 DEF CommitFails
    <2>2. /\ threads'[t].step = "finish" /\ threads'[t].oid = o
          /\ threads'[t].picked = Expire(th.picked)
      BY <1>1, <2>1 DEF TypeInv, TypeOK, ThreadState
    <2> QED
      BY <1>3, <1>5, <2>1, <2>2 DEF RunSteps
  <1> QED
    BY <1>7, <1>8, <1>9, <1>10, <1>11, <1>12, <1>13

\* At the end of its run a request hands an open order to the index.
LEMMA MovesFinish ==
    ASSUME StatusInv, NEW t \in Threads, Finish(t)
    PROVE  Moves(t)
  <1> DEFINE th == threads[t]
             o  == th.oid
  <1>1. /\ TypeInv /\ th \in ThreadState /\ Sound(t)
        /\ o \in OrderIds /\ UNCHANGED <<orders, trades>>
    BY DEF StatusInv, TypeInv, TypeOK, Finish, At, tables, WorksOnOrder, OrderSteps
  <1>2. OrdersMove /\ Lasting /\ \A p \in OrderIds : Open(p)' <=> Open(p)
    BY <1>1, MoveLasts DEF OrdersMove, StatusesSame, Open
  <1>3. PICK s \in ThreadState :
          /\ threads'[t] = s /\ s.step \in {"idle", "pass"} /\ s.oid = NoOrder
          /\ s.picked \subseteq th.picked
    <2>1. CASE Become(t, Idle)
      <3>1. threads'[t] = Idle
        BY <1>1, <2>1 DEF Become, TypeInv, TypeOK
      <3>2. Idle.step = "idle" /\ Idle.oid = NoOrder /\ Idle.picked = {} /\ Idle \in ThreadState
        BY RowTypes DEF Idle
      <3> QED
        BY <3>1, <3>2
    <2>2. CASE Become(t, [Idle EXCEPT !.step = "pass", !.picked = th.picked])
      <3> DEFINE s == [Idle EXCEPT !.step = "pass", !.picked = th.picked]
      <3>1. threads'[t] = s
        BY <1>1, <2>2 DEF Become, TypeInv, TypeOK
      <3>2. s.step = "pass" /\ s.oid = NoOrder /\ s.picked = th.picked
        BY DEF Idle
      <3>3. s \in ThreadState
        BY <1>1, RowTypes DEF ThreadState, Steps
      <3> QED
        BY <3>1, <3>2, <3>3
    <2> QED
      BY <2>1, <2>2 DEF Finish
  <1>4. ~Runs(t)' /\ Drafts(t)' /\ Works(t)'
    BY <1>3 DEF Runs, RunSteps, Drafts, Works, OrderSteps
  <1>5. Picks(t)'
    <2>1. \A p \in th.picked : p[1] \in OrderIds
      BY <1>1 DEF ThreadState
    <2> QED
      BY <1>1, <1>2, <1>3, <2>1 DEF Sound, Picks, Lasting
  <1>6. IndexMove(t)
    <2>1. \A p \in index : p \in index' \/ (p = o /\ ~Open(o))
      BY DEF Finish
    <2>2. t \in ApiThreads /\ WsThreads # {} => o \in index' \/ ~Open(o)
      BY AccountAssumption DEF Finish
    <2>3. index \subseteq OrderIds
      BY <1>1 DEF TypeInv, TypeOK
    <2>4. \A p \in OrderIds : Open(p)' => Open(p)
      BY <1>2
    <2>5. \A p \in index : p \in index' \/ ~Open(p)'
      BY <1>2, <2>1, <2>3
    <2>6. \A p \in OrderIds : t \in ApiThreads /\ WsThreads # {} /\ p = o =>
             p \in index' \/ ~Open(p)'
      BY <1>2, <2>2
    <2> QED
      BY <2>4, <2>5, <2>6 DEF IndexMove
  <1> QED
    BY <1>2, <1>4, <1>5, <1>6 DEF Moves, Sound

\* Every step of the program but a crash is one of a thread that moves so.
LEMMA ThreadMoves ==
    ASSUME StatusInv, Next, ~Crash
    PROVE  \E t \in Threads : Frame(t) /\ Moves(t)
  <1>1. TypeInv /\ \A t \in Threads : Sound(t)
    BY DEF StatusInv
  <1>2. CASE \E t \in ApiThreads : Request(t)
    BY <1>1, <1>2, MovesStart, StartMoves DEF Threads, Starts
  <1>3. CASE \E t \in WsThreads : Tick(t)
    BY <1>1, <1>3, MovesStart, StartMoves DEF Threads, Starts
  <1>4. CASE \E t \in PollThreads : PollPass(t)
    BY <1>1, <1>4, MovesStart, StartMoves DEF Threads, Starts
  <1>5. ASSUME NEW t \in Threads, Continue(t) \/ CommitFails(t) \/ ReleaseFails(t)
        PROVE  Frame(t) /\ Moves(t)
    <2>1. Frame(t)
      BY <1>1, <1>5, ProceedMoves DEF Proceeds
    <2> QED
      BY <1>5, <2>1, MovesManagers, MovesSelect, MovesRun, MovesFinish DEF Continue
  <1> QED
    BY <1>2, <1>3, <1>4, <1>5 DEF Next

LEMMA StatusInvInit == Init => StatusInv
  <1> SUFFICES ASSUME Init PROVE StatusInv
    OBVIOUS
  <1>1. TypeInv
    BY TypeInvInit
  <1>2. \A t \in Threads : /\ threads[t].step = "idle" /\ threads[t].oid = NoOrder
                           /\ threads[t].picked = {}
    BY DEF Init, Idle
  <1>3. \A t \in Threads : Sound(t)
    BY <1>2 DEF Sound, Drafts, Works, Picks, OrderSteps
  <1>4. TradeMeansNotOpen /\ PlacedWhenTraded
    BY DEF Init, TradeMeansNotOpen, PlacedWhenTraded, Open, NoRow
  <1> QED
    BY <1>1, <1>3, <1>4 DEF StatusInv

LEMMA StatusInvNext == StatusInv /\ [Next]_vars => StatusInv'
  <1> SUFFICES ASSUME StatusInv, [Next]_vars PROVE StatusInv'
    OBVIOUS
  <1>1. TypeInv /\ TypeInv'
    BY TypeInvNext DEF StatusInv
  <1>2. CASE UNCHANGED vars
    <2>1. UNCHANGED <<orders, trades, threads>>
      BY <1>2 DEF vars, tables
    <2>2. OrdersMove /\ Lasting
      BY <2>1, MoveLasts DEF OrdersMove, StatusesSame
    <2> QED
      BY <1>1, <2>1, <2>2, SoundLasts, MoveAgrees DEF StatusInv
  <1>3. CASE Crash
    <2>1. OrdersMove
      BY <1>3 DEF Crash, tables, OrdersMove, StatusesSame
    <2>2. \A t \in Threads : /\ threads'[t].step = "idle" /\ threads'[t].oid = NoOrder
                             /\ threads'[t].picked = {}
      BY <1>3 DEF Crash, Idle
    <2>3. \A t \in Threads : Sound(t)'
      BY <2>2 DEF Sound, Drafts, Works, Picks, OrderSteps
    <2> QED
      BY <1>1, <2>1, <2>3, MoveAgrees DEF StatusInv
  <1>4. CASE Next /\ ~Crash
    <2>1. PICK t \in Threads : Frame(t) /\ Moves(t)
      BY <1>4, ThreadMoves
    <2>2. OrdersMove /\ Lasting /\ Sound(t)'
      BY <2>1, MoveLasts DEF Moves
    <2>3. \A u \in Threads \ {t} : Sound(u)'
      BY <1>1, <2>1, <2>2, SoundLasts DEF StatusInv, Frame
    <2> QED
      BY <1>1, <2>2, <2>3, MoveAgrees DEF StatusInv
  <1> QED
    BY <1>2, <1>3, <1>4

\* Whatever overlaps, and with crashes and failed commits anywhere: an order
\* that waits for its price has no trade and a complete one has, because
\* _execute_order writes the trade and the status in one commit and no code
\* opens an order again.
THEOREM StatusAgreesWithTrade == Spec => []TradeMeansNotOpen
  <1>1. Init => StatusInv
    BY StatusInvInit
  <1>2. StatusInv /\ [Next]_vars => StatusInv'
    BY StatusInvNext
  <1>3. StatusInv => TradeMeansNotOpen
    BY DEF StatusInv
  <1> QED
    BY <1>1, <1>2, <1>3, PTL DEF Spec

\* An open order stays in the index, or with the request that runs it.
LEMMA IndexedNext ==
    ASSUME WsThreads # {}, StatusInv, OpenOrdersIndexed, [Next]_vars
    PROVE  OpenOrdersIndexed'
  <1>1. CASE UNCHANGED vars
    BY <1>1 DEF vars, tables, OpenOrdersIndexed, Open
  <1>2. CASE Crash
    BY <1>2 DEF Crash, tables, OpenOrdersIndexed, Open
  <1>3. CASE Next /\ ~Crash
    <2>1. PICK t \in Threads : Frame(t) /\ Moves(t)
      BY <1>3, ThreadMoves
    <2> SUFFICES ASSUME NEW o \in OrderIds, Open(o)'
                 PROVE  \/ o \in index'
                        \/ \E u \in ApiThreads : Runs(u)' /\ threads'[u].oid = o
      BY DEF OpenOrdersIndexed, Runs, RunSteps
    <2>2. CASE ~Open(o)
      BY <2>1, <2>2 DEF Moves, IndexMove
    <2>3. CASE o \in index
      BY <2>1, <2>3 DEF Moves, IndexMove
    <2>4. CASE Open(o) /\ o \notin index
      <3>1. PICK u \in ApiThreads :
              threads[u].oid = o /\ threads[u].step \notin {"idle", "cancel", "modify"}
        BY <2>4 DEF OpenOrdersIndexed
      <3>2. u \in Threads /\ Runs(u)
        BY <3>1, AccountAssumption
           DEF Threads, StatusInv, Sound, Works, Runs, RunSteps, OrderSteps
      <3>3. CASE u = t
        <4>1. \/ Runs(t)' /\ threads'[t].oid = o
              \/ o \in index'
          BY <2>1, <3>1, <3>2, <3>3 DEF Moves, IndexMove
        <4> QED
          BY <3>3, <4>1
      <3>4. CASE u # t
        BY <2>1, <3>1, <3>2, <3>4 DEF Frame, Runs
      <3> QED
        BY <3>3, <3>4
    <2> QED
      BY <2>2, <2>3, <2>4
  <1> QED
    BY <1>1, <1>2, <1>3

\* Where the WebSocket engine runs, no open order is forgotten: place_order
\* puts it into the index when it has ended its own run, a tick and a request
\* drop only orders that are not open, and a restart rebuilds the index.
THEOREM NoOrderForgotten == WsThreads # {} => (Spec => []OpenOrdersIndexed)
  <1> SUFFICES ASSUME WsThreads # {} PROVE Spec => []OpenOrdersIndexed
    OBVIOUS
  <1>1. Init => StatusInv /\ OpenOrdersIndexed
    BY StatusInvInit DEF Init, OpenOrdersIndexed, Open, NoRow
  <1>2. StatusInv /\ OpenOrdersIndexed /\ [Next]_vars => (StatusInv /\ OpenOrdersIndexed)'
    BY StatusInvNext, IndexedNext
  <1> QED
    BY <1>1, <1>2, PTL DEF Spec

-----------------------------------------------------------------------------
(* Operations that do not overlap: the order book *)

(***************************************************************************)
(* What a busy thread knows is true: nobody changes the rows it has copied *)
(* before it is done.  The order it is to run, cancel or modify is open,   *)
(* its copies are the rows, and the orders a pass has yet to run are open  *)
(* and others than the one it runs.                                        *)
(***************************************************************************)
Current(t) ==
    LET th == threads[t]
        pos == positions[th.row.book]
    IN  /\ th.step \in {"load", "check", "execute", "cancel", "modify"} => Open(th.oid)
        /\ th.step \in {"check", "execute", "cancel", "modify", "release", "apply"}
             => th.row = orders[th.oid]
        /\ th.step = "release" => th.held = pos
        /\ th.step = "apply" => th.held.live = pos.live /\ th.held.qty = pos.qty
        /\ th.step \in {"block", "insert", "reject"} => th.row.qty # 0

Chosen(t) ==
    LET th == threads[t]
    IN  /\ th.step \in {"idle", "reset", "wipe"} => th.picked = {}
        /\ \A p \in th.picked :
             /\ Open(p[1]) /\ p[1] # th.oid
             /\ p[2] = NoRow \/ p[2] = orders[p[1]]
             /\ \A q \in th.picked : p[1] = q[1] => p = q

Lone(t) == Current(t) /\ Chosen(t)

OrdersSized == \A o \in OrderIds : Placed(o) => orders[o].qty # 0

LoneInv ==
    /\ StatusInv /\ OneAtATime /\ OrdersSized /\ CancelledNotTraded
    /\ \A t \in Threads : Lone(t)

(***************************************************************************)
(* What a step of the lone busy thread does to orders and positions: it is *)
(* a step of the order book, or it leaves the book alone.                  *)
(***************************************************************************)
NetOf(t, b) == positions[b].qty + InFlight(t, b)

NetKept(t) == UNCHANGED traded /\ \A b \in Books : NetOf(t, b)' = NetOf(t, b)

Keeps(t) == UNCHANGED <<orders, trades>> /\ NetKept(t)

Accepts(t, o) ==
    /\ ~Placed(o)
    /\ orders' = [orders EXCEPT ![o] = threads[t].row]
    /\ threads[t].row.status \in {"open", "rejected"}
    /\ threads[t].row.qty # 0
    /\ UNCHANGED trades /\ NetKept(t)

Fills(t, o) ==
    /\ Open(o)
    /\ orders' = [orders EXCEPT ![o].status = "complete"]
    /\ trades' = [trades EXCEPT ![o] = @ + 1]
    /\ traded' = [traded EXCEPT ![orders[o].book] = @ + orders[o].qty]
    /\ \A b \in Books :
          NetOf(t, b)' = NetOf(t, b) + (IF b = orders[o].book THEN orders[o].qty ELSE 0)

Cancels(t, o) ==
    /\ Open(o)
    /\ orders' = [orders EXCEPT ![o].status = "cancelled"]
    /\ UNCHANGED trades /\ NetKept(t)

Modifies(t, o) ==
    /\ Open(o)
    /\ \E q \in Quantities : /\ (q > 0) = (orders[o].qty > 0)
                             /\ orders' = [orders EXCEPT ![o].qty = q]
    /\ UNCHANGED trades /\ NetKept(t)

Resets(t) ==
    /\ UNCHANGED <<orders, trades>>
    /\ \A b \in Books : traded'[b] = 0 /\ NetOf(t, b)' = 0

BookMove(t) ==
    \/ Keeps(t) \/ Resets(t)
    \/ \E o \in OrderIds : Accepts(t, o) \/ Fills(t, o) \/ Cancels(t, o) \/ Modifies(t, o)

\* The steps between the commit of a trade and that of its position.
Flies(t) == threads[t].step \in {"position", "release", "apply"}

\* The orders a pass has yet to run stay chosen while it runs another.
LEMMA ChosenLasts ==
    ASSUME TypeInv, NEW t \in Threads, Chosen(t), threads'[t].step \notin {"idle", "reset", "wipe"},
           threads'[t].oid = threads[t].oid,
           \/ threads'[t].picked = threads[t].picked
           \/ threads'[t].picked = Expire(threads[t].picked),
           \A o \in OrderIds : Open(o) /\ o # threads[t].oid => orders'[o] = orders[o]
    PROVE  Chosen(t)'
  <1> DEFINE th == threads[t]
  <1>1. \A p \in th.picked : p[1] \in OrderIds
    BY DEF TypeInv, TypeOK, ThreadState
  <1>2. \A p \in th.picked : Open(p[1])' /\ p[1] # th.oid /\ orders'[p[1]] = orders[p[1]]
    BY <1>1 DEF Chosen, Open
  <1>3. CASE threads'[t].picked = th.picked
    BY <1>2, <1>3 DEF Chosen
  <1>4. CASE threads'[t].picked = Expire(th.picked)
    <2>1. \A p \in threads'[t].picked : \E q \in th.picked : p = <<q[1], NoRow>>
      BY <1>4 DEF Expire
    <2> QED
      BY <1>2, <2>1 DEF Chosen
  <1> QED
    BY <1>3, <1>4

\* A thread that has no orders to choose from and no order to work on.
LEMMA LoneBlank ==
    ASSUME NEW t \in Threads, NEW s, threads'[t] = s, s.picked = {},
           s.step \in {"idle", "block", "reject", "reset", "wipe"},
           s.step \in {"block", "reject"} => s.row.qty # 0
    PROVE  Lone(t)' /\ ~Flies(t)'
  BY DEF Lone, Current, Chosen, Flies

\* A thread that is not between a trade and its position holds no fill.
LEMMA NothingFlies ==
    ASSUME NEW t \in Threads
    PROVE  /\ ~Flies(t) => \A b \in Books : InFlight(t, b) = 0
           /\ ~Flies(t)' => \A b \in Books : InFlight(t, b)' = 0
  BY DEF InFlight, Flies

\* The book stays as it is when positions do and no fill is under way.
LEMMA NetStays ==
    ASSUME NEW t \in Threads, ~Flies(t), ~Flies(t)', UNCHANGED <<positions, traded>>
    PROVE  NetKept(t)
  BY NothingFlies DEF NetKept, NetOf

\* Starting something changes no table.
LEMMA LoneStarts ==
    ASSUME TypeInv, NEW t \in Threads, Starts(t), Lone(t)
    PROVE  Lone(t)' /\ Keeps(t)
  <1>1. threads[t].step = "idle" /\ ~Flies(t) /\ UNCHANGED tables
    <2>1. MayStart(t)
      BY StartMoves
    <2> QED
      BY <2>1 DEF MayStart, At, Flies, Starts, Request, PlaceOrder, ClosePosition,
                  LoadForRequest, GetFunds, Tick, PollPass
  <1>2. \A s : threads' = [threads EXCEPT ![t] = s] => threads'[t] = s
    BY DEF TypeInv, TypeOK
  <1>3. positions \in [Books -> PositionRow] /\ Quantities \subseteq Int \ {0}
    BY AccountAssumption DEF TypeInv, TypeOK
  <1>4. ASSUME PlaceOrder(t)
        PROVE  Lone(t)' /\ ~Flies(t)'
    <2>1. PICK b \in Books, q \in Quantities, rate \in Rates, kind \in Kinds :
            LET held == positions[b].qty
                need == MarginToBlock(held, q, rate)
                ok   == Deliverable(b, q, held)
            IN  Become(t, [Idle EXCEPT
                  !.step = IF ok THEN "block" ELSE "reject",
                  !.kind = kind,
                  !.row  = [status |-> IF ok THEN "open" ELSE "rejected",
                            book   |-> b,
                            qty    |-> q,
                            margin |-> IF ok THEN need ELSE 0]])
      BY <1>4 DEF PlaceOrder
    <2> DEFINE ok   == Deliverable(b, q, positions[b].qty)
               need == MarginToBlock(positions[b].qty, q, rate)
               row  == [status |-> IF ok THEN "open" ELSE "rejected",
                        book |-> b, qty |-> q, margin |-> IF ok THEN need ELSE 0]
               s    == [Idle EXCEPT !.step = IF ok THEN "block" ELSE "reject",
                                    !.kind = kind, !.row = row]
    <2> HIDE DEF ok, need
    <2>2. threads'[t] = s
      BY <1>2, <2>1 DEF Become, ok, need
    <2>3. s.step \in {"block", "reject"} /\ s.picked = {} /\ s.row.qty = q
      BY DEF Idle
    <2> HIDE DEF s
    <2> QED
      BY <1>3, <2>2, <2>3, LoneBlank
  <1>5. ASSUME ClosePosition(t)
        PROVE  Lone(t)' /\ ~Flies(t)'
    <2>1. PICK b \in Books, kind \in Kinds \ {"marketable"} :
            /\ positions[b].qty # 0
            /\ Become(t, [Idle EXCEPT
                 !.step = "block",
                 !.kind = kind,
                 !.row  = [status |-> "open", book |-> b,
                           qty |-> -positions[b].qty, margin |-> 0]])
      BY <1>5 DEF ClosePosition
    <2> DEFINE s == [Idle EXCEPT !.step = "block", !.kind = kind,
                       !.row = [status |-> "open", book |-> b,
                                qty |-> -positions[b].qty, margin |-> 0]]
    <2>2. threads'[t] = s
      BY <1>2, <2>1 DEF Become
    <2>3. s.step = "block" /\ s.picked = {} /\ s.row.qty = -positions[b].qty
      BY DEF Idle
    <2>4. -positions[b].qty # 0
      BY <1>3, <2>1 DEF PositionRow
    <2> HIDE DEF s
    <2> QED
      BY <2>2, <2>3, <2>4, LoneBlank
  <1>6. ASSUME GetFunds(t)
        PROVE  Lone(t)' /\ ~Flies(t)'
    <2>1. threads'[t].step = "reset" /\ threads'[t].picked = threads[t].picked
      BY <1>6 DEF GetFunds, Goto, TypeInv, TypeOK, ThreadState
    <2>2. threads'[t].picked = {}
      BY <1>1, <2>1 DEF Lone, Chosen
    <2> QED
      BY <2>1, <2>2, LoneBlank
  <1>7. ASSUME NEW request \in {"cancel", "modify", "check"}, NEW o \in OrderIds, Open(o),
               Become(t, [Idle EXCEPT !.step = request, !.oid = o, !.row = orders[o]])
        PROVE  Lone(t)' /\ ~Flies(t)'
    <2> DEFINE s == [Idle EXCEPT !.step = request, !.oid = o, !.row = orders[o]]
    <2>1. threads'[t] = s
      BY <1>2, <1>7 DEF Become
    <2>2. s.step = request /\ s.oid = o /\ s.picked = {} /\ s.row = orders[o]
      BY DEF Idle
    <2> HIDE DEF s
    <2> QED
      BY <1>1, <1>7, <2>1, <2>2 DEF Lone, Current, Chosen, Flies, Open, tables
  <1>8. ASSUME NEW request \in {"cancel", "modify"}, LoadForRequest(t, request)
        PROVE  Lone(t)' /\ ~Flies(t)'
    <2>1. PICK o \in OrderIds :
            Open(o) /\ Become(t, [Idle EXCEPT !.step = request, !.oid = o, !.row = orders[o]])
      BY <1>8 DEF LoadForRequest
    <2> QED
      BY <1>7, <2>1
  <1>9. ASSUME Tick(t)
        PROVE  Lone(t)' /\ ~Flies(t)'
    <2>1. PICK o \in index :
            \/ /\ Open(o)
               /\ Become(t, [Idle EXCEPT !.step = "check", !.oid = o, !.row = orders[o]])
            \/ UNCHANGED threads
      BY <1>9 DEF Tick
    <2>2. o \in OrderIds
      BY DEF TypeInv, TypeOK
    <2>3. CASE UNCHANGED threads
      BY <1>1, <2>3 DEF Lone, Current, Chosen, Flies
    <2> QED
      BY <1>7, <2>1, <2>2, <2>3
  <1>10. ASSUME PollPass(t)
         PROVE  Lone(t)' /\ ~Flies(t)'
    <2> DEFINE picked == {<<o, orders[o]>> : o \in {p \in OrderIds : Open(p)}}
               s == [Idle EXCEPT !.step = "pass", !.picked = picked]
    <2>1. threads'[t] = s
      BY <1>2, <1>10 DEF PollPass, Become
    <2>2. s.step = "pass" /\ s.oid = NoOrder /\ s.picked = picked
      BY DEF Idle
    <2>3. \A p \in picked : /\ Open(p[1]) /\ p[1] # NoOrder /\ p[2] = orders[p[1]]
                            /\ \A q \in picked : p[1] = q[1] => p = q
      BY AccountAssumption
    <2> HIDE DEF s, picked
    <2> QED
      BY <1>1, <2>1, <2>2, <2>3 DEF Lone, Current, Chosen, Flies, Open, tables
  <1>11. Lone(t)' /\ ~Flies(t)'
    BY <1>4, <1>5, <1>6, <1>8, <1>9, <1>10 DEF Starts, Request
  <1> QED
    BY <1>1, <1>11, NetStays DEF Keeps, tables

\* Placing, cancelling, modifying and resetting.
LEMMA LoneManagers ==
    ASSUME StatusInv, NEW t \in Threads, Lone(t),
           \/ BlockMarginStep(t) \/ InsertOrder(t) \/ InsertRejected(t)
           \/ CancelOrder(t) \/ ModifyOrder(t) \/ ResetFunds(t) \/ WipePositions(t)
    PROVE  Lone(t)' /\ BookMove(t)
  <1> DEFINE th == threads[t]
             o  == th.oid
  <1>1. /\ TypeInv /\ th \in ThreadState /\ orders \in [OrderIds -> OrderRow]
        /\ Current(t) /\ Chosen(t) /\ Drafts(t)
        /\ \A p \in th.picked : p[1] \in OrderIds
    BY DEF StatusInv, Sound, Lone, TypeInv, TypeOK, ThreadState
  <1>2. ~Flies(t)
    BY DEF Flies, BlockMarginStep, InsertOrder, InsertRejected, CancelOrder, ModifyOrder,
           ResetFunds, WipePositions, At
  <1>3. ASSUME Become(t, Idle)
        PROVE  Lone(t)' /\ ~Flies(t)'
    <2>1. threads'[t] = Idle
      BY <1>1, <1>3 DEF Become, TypeInv, TypeOK
    <2>2. Idle.step = "idle" /\ Idle.picked = {}
      BY DEF Idle
    <2> QED
      BY <2>1, <2>2, LoneBlank
  <1>4. CASE BlockMarginStep(t)
    <2>1. th.step = "block" /\ UNCHANGED <<orders, trades, traded, positions>>
      BY <1>4 DEF BlockMarginStep, At
    <2>2. CASE Goto(t, "insert")
      <3>1. /\ threads'[t].step = "insert" /\ threads'[t].oid = o
            /\ threads'[t].row = th.row /\ threads'[t].picked = th.picked
        BY <1>1, <2>2 DEF Goto, TypeInv, TypeOK, ThreadState
      <3>2. Chosen(t)'
        BY <1>1, <2>1, <3>1, ChosenLasts
      <3>3. Current(t)' /\ ~Flies(t)'
        BY <1>1, <2>1, <3>1 DEF Current, Flies
      <3> QED
        BY <1>2, <2>1, <3>2, <3>3, NetStays DEF Lone, BookMove, Keeps
    <2>3. CASE Become(t, Idle)
      BY <1>2, <1>3, <2>1, <2>3, NetStays DEF BookMove, Keeps
    <2> QED
      BY <1>4, <2>2, <2>3 DEF BlockMarginStep
  <1>5. ASSUME NEW p \in OrderIds, orders[p].status = "none",
               orders' = [orders EXCEPT ![p] = th.row], UNCHANGED <<trades, traded, positions>>,
               th.step \in {"insert", "reject"}, ~Flies(t)'
        PROVE  /\ BookMove(t) /\ orders'[p] = th.row
               /\ \A q \in OrderIds : Open(q) => orders'[q] = orders[q]
    <2>1. th.row.status \in {"open", "rejected"} /\ th.row.qty # 0
      BY <1>1, <1>5 DEF Drafts, Current
    <2>2. Accepts(t, p)
      BY <1>2, <1>5, <2>1, NetStays DEF Accepts, Placed
    <2> QED
      BY <1>1, <1>5, <2>2 DEF BookMove, Open
  <1>6. CASE InsertOrder(t)
    <2>1. th.step = "insert" /\ th.row.status = "open" /\ UNCHANGED <<trades, traded, positions>>
      BY <1>1, <1>6 DEF InsertOrder, At, Drafts
    <2>2. PICK p \in OrderIds :
            /\ orders[p].status = "none"
            /\ orders' = [orders EXCEPT ![p] = th.row]
            /\ threads' = [threads EXCEPT
                 ![t].oid  = p,
                 ![t].step = IF th.kind = "resting" THEN "finish" ELSE "load"]
      BY <1>6 DEF InsertOrder
    <2> DEFINE step == IF th.kind = "resting" THEN "finish" ELSE "load"
    <2>3. step \in {"finish", "load"}
      OBVIOUS
    <2> HIDE DEF step
    <2>4. threads'[t].step = step /\ threads'[t].oid = p /\ threads'[t].picked = th.picked
      BY <1>1, <2>2 DEF TypeInv, TypeOK, ThreadState, step
    <2>5. ~Flies(t)'
      BY <2>3, <2>4 DEF Flies
    <2>6. /\ BookMove(t) /\ orders'[p] = th.row
          /\ \A q \in OrderIds : Open(q) => orders'[q] = orders[q]
      BY <1>5, <2>1, <2>2, <2>5
    <2>7. Current(t)'
      BY <2>1, <2>3, <2>4, <2>6 DEF Current, Open
    <2>8. Chosen(t)'
      <3>1. \A q \in th.picked : Open(q[1]) /\ q[1] # p
        BY <1>1, <2>2 DEF Chosen, Open
      <3> QED
        BY <1>1, <2>3, <2>4, <2>6, <3>1 DEF Chosen, Open
    <2> QED
      BY <2>6, <2>7, <2>8 DEF Lone
  <1>7. CASE InsertRejected(t)
    <2>1. PICK p \in OrderIds : orders[p].status = "none" /\ orders' = [orders EXCEPT ![p] = th.row]
      BY <1>7 DEF InsertRejected
    <2>2. th.step = "reject" /\ Become(t, Idle) /\ UNCHANGED <<trades, traded, positions>>
      BY <1>7 DEF InsertRejected, At
    <2> QED
      BY <1>3, <1>5, <2>1, <2>2
  <1>8. CASE CancelOrder(t)
    <2>1. /\ th.step = "cancel" /\ o \in OrderIds
          /\ orders' = [orders EXCEPT ![o].status = "cancelled"]
          /\ Become(t, Idle) /\ UNCHANGED <<trades, traded, positions>>
      BY <1>1, <1>8 DEF CancelOrder, At, TypeInv, WorksOnOrder, OrderSteps
    <2>2. Cancels(t, o)
      BY <1>1, <1>2, <1>3, <2>1, NetStays DEF Cancels, Current
    <2> QED
      BY <1>3, <2>1, <2>2 DEF BookMove
  <1>9. CASE ModifyOrder(t)
    <2>1. /\ th.step = "modify" /\ o \in OrderIds
          /\ Become(t, Idle) /\ UNCHANGED <<trades, traded, positions>>
      BY <1>1, <1>9 DEF ModifyOrder, At, TypeInv, WorksOnOrder, OrderSteps
    <2>2. PICK q \in Quantities : /\ (q > 0) = (th.row.qty > 0)
                                  /\ orders' = [orders EXCEPT ![o].qty = q]
      BY <1>9 DEF ModifyOrder
    <2>3. th.row = orders[o] /\ Open(o)
      BY <1>1, <2>1 DEF Current
    <2>4. Modifies(t, o)
      BY <1>2, <1>3, <2>1, <2>2, <2>3, NetStays DEF Modifies
    <2> QED
      BY <1>3, <2>1, <2>4 DEF BookMove
  <1>10. CASE ResetFunds(t)
    <2>1. th.step = "reset" /\ Goto(t, "wipe") /\ UNCHANGED <<orders, trades, traded, positions>>
      BY <1>10 DEF ResetFunds, At
    <2>2. threads'[t].step = "wipe" /\ threads'[t].picked = {}
      BY <1>1, <2>1 DEF Goto, TypeInv, TypeOK, ThreadState, Chosen
    <2>3. Lone(t)' /\ ~Flies(t)'
      BY <2>2, LoneBlank
    <2> QED
      BY <1>2, <2>1, <2>3, NetStays DEF BookMove, Keeps
  <1>11. CASE WipePositions(t)
    <2>1. /\ Become(t, Idle) /\ UNCHANGED <<orders, trades>>
          /\ positions' = [b \in Books |-> NoPosition] /\ traded' = [b \in Books |-> 0]
      BY <1>11 DEF WipePositions
    <2>2. Lone(t)' /\ ~Flies(t)'
      BY <1>3, <2>1
    <2>3. \A b \in Books : NetOf(t, b)' = 0
      BY <2>1, <2>2, NothingFlies DEF NetOf, NoPosition
    <2> QED
      BY <2>1, <2>2, <2>3 DEF BookMove, Resets
  <1> QED
    BY <1>4, <1>6, <1>7, <1>8, <1>9, <1>10, <1>11

\* An order is selected, loaded, looked up and traded.
LEMMA LoneEngine ==
    ASSUME StatusInv, NEW t \in Threads, Lone(t),
           PollOrder(t) \/ LoadOrder(t) \/ CheckTrade(t) \/ ExecuteOrder(t)
    PROVE  Lone(t)' /\ BookMove(t)
  <1> DEFINE th == threads[t]
             o  == th.oid
  <1>1. /\ TypeInv /\ th \in ThreadState /\ orders \in [OrderIds -> OrderRow]
        /\ Current(t) /\ Chosen(t)
        /\ \A p \in th.picked : p[1] \in OrderIds
    BY DEF StatusInv, Lone, TypeInv, TypeOK, ThreadState
  <1>2. ~Flies(t) /\ UNCHANGED positions
    BY DEF Flies, PollOrder, LoadOrder, CheckTrade, ExecuteOrder, At, tables
  <1>3. CASE PollOrder(t)
    <2>1. th.step = "pass" /\ UNCHANGED <<orders, trades, traded>>
      BY <1>3 DEF PollOrder, At, tables
    <2>2. PICK p \in th.picked :
            threads' = [threads EXCEPT
              ![t].step   = IF p[2] = NoRow THEN "load" ELSE "check",
              ![t].oid    = p[1],
              ![t].row    = p[2],
              ![t].picked = @ \ {p}]
      BY <1>3 DEF PollOrder
    <2> DEFINE step == IF p[2] = NoRow THEN "load" ELSE "check"
    <2>3. /\ step \in {"load", "check"}
          /\ step = "check" => p[2] = orders[p[1]]
      BY <1>1 DEF Chosen
    <2> HIDE DEF step
    <2>4. /\ threads'[t].step = step /\ threads'[t].oid = p[1]
          /\ threads'[t].row = p[2] /\ threads'[t].picked = th.picked \ {p}
      BY <1>1, <2>2 DEF TypeInv, TypeOK, ThreadState, step
    <2>5. Open(p[1]) /\ p[1] \in OrderIds
      BY <1>1 DEF Chosen
    <2>6. Current(t)' /\ ~Flies(t)'
      BY <2>1, <2>3, <2>4, <2>5 DEF Current, Open, Flies
    <2>7. Chosen(t)'
      BY <1>1, <2>1, <2>3, <2>4 DEF Chosen, Open
    <2> QED
      BY <1>2, <2>1, <2>6, <2>7, NetStays DEF Lone, BookMove, Keeps
  <1>4. CASE LoadOrder(t)
    <2> DEFINE step == IF t \in ApiThreads /\ th.kind = "marketable"
                       THEN "execute" ELSE "check"
    <2>1. th.step = "load" /\ UNCHANGED <<orders, trades, traded>>
      BY <1>4 DEF LoadOrder, At, tables
    <2>2. step \in {"execute", "check"}
      OBVIOUS
    <2> HIDE DEF step
    <2>3. threads' = [threads EXCEPT ![t].row = orders[o], ![t].step = step]
      BY <1>4 DEF LoadOrder, step
    <2>4. /\ threads'[t].step = step /\ threads'[t].oid = o
          /\ threads'[t].row = orders[o] /\ threads'[t].picked = th.picked
      BY <1>1, <2>3 DEF TypeInv, TypeOK, ThreadState
    <2>5. Current(t)' /\ ~Flies(t)'
      BY <1>1, <2>1, <2>2, <2>4 DEF Current, Open, Flies
    <2>6. Chosen(t)'
      BY <1>1, <2>1, <2>2, <2>4, ChosenLasts
    <2> QED
      BY <1>2, <2>1, <2>5, <2>6, NetStays DEF Lone, BookMove, Keeps
  <1>5. CASE CheckTrade(t)
    <2>1. th.step = "check" /\ o \in OrderIds /\ trades[o] = 0 /\ Open(o)
      BY <1>1, <1>5
         DEF CheckTrade, At, TypeInv, WorksOnOrder, OrderSteps, Current, StatusInv,
             TradeMeansNotOpen
    <2>2. (Goto(t, "execute") \/ Goto(t, "finish")) /\ UNCHANGED <<orders, trades, traded>>
      BY <1>5, <2>1 DEF CheckTrade
    <2>3. /\ threads'[t].step \in {"execute", "finish"} /\ threads'[t].oid = o
          /\ threads'[t].row = th.row /\ threads'[t].picked = th.picked
      BY <1>1, <2>2 DEF Goto, TypeInv, TypeOK, ThreadState
    <2>4. Current(t)' /\ ~Flies(t)'
      BY <1>1, <2>1, <2>2, <2>3 DEF Current, Open, Flies
    <2>5. Chosen(t)'
      BY <1>1, <2>2, <2>3, ChosenLasts
    <2> QED
      BY <1>2, <2>2, <2>4, <2>5, NetStays DEF Lone, BookMove, Keeps
  <1>6. CASE ExecuteOrder(t)
    <2>1. th.step = "execute" /\ o \in OrderIds
      BY <1>1, <1>6 DEF ExecuteOrder, At, TypeInv, WorksOnOrder, OrderSteps
    <2>2. th.row = orders[o] /\ Open(o)
      BY <1>1, <2>1 DEF Current
    <2>3. /\ trades' = [trades EXCEPT ![o] = @ + 1]
          /\ traded' = [traded EXCEPT ![orders[o].book] = @ + orders[o].qty]
          /\ orders' = [orders EXCEPT ![o].status = "complete"]
          /\ threads' = [threads EXCEPT ![t].step = "position", ![t].picked = Expire(@)]
      BY <1>6, <2>2 DEF ExecuteOrder, Open
    <2>4. /\ threads'[t].step = "position" /\ threads'[t].oid = o
          /\ threads'[t].picked = Expire(th.picked)
      BY <1>1, <2>3 DEF TypeInv, TypeOK, ThreadState
    <2>5. /\ orders'[o].book = orders[o].book /\ orders'[o].qty = orders[o].qty
          /\ \A p \in OrderIds : p # o => orders'[p] = orders[p]
      BY <1>1, <2>1, <2>3 DEF OrderRow
    <2>6. ASSUME NEW b \in Books
          PROVE  NetOf(t, b)' = NetOf(t, b) + (IF b = orders[o].book THEN orders[o].qty ELSE 0)
      <3>1. InFlight(t, b)' = IF b = orders[o].book THEN orders[o].qty ELSE 0
        BY <2>4, <2>5 DEF InFlight
      <3>2. InFlight(t, b) = 0
        BY <1>2, NothingFlies
      <3>3. positions[b].qty \in Int
        BY <1>1 DEF TypeInv, TypeOK, PositionRow
      <3> QED
        BY <1>2, <3>1, <3>2, <3>3 DEF NetOf
    <2>7. Fills(t, o)
      BY <2>2, <2>3, <2>6 DEF Fills
    <2>8. Chosen(t)'
      BY <1>1, <2>4, <2>5, ChosenLasts
    <2>9. Current(t)'
      BY <2>4 DEF Current
    <2> QED
      BY <2>1, <2>7, <2>8, <2>9 DEF Lone, BookMove
  <1> QED
    BY <1>3, <1>4, <1>5, <1>6

\* The fill is netted into its position; a release that fails is ignored.
LEMMA LonePosition ==
    ASSUME StatusInv, NEW t \in Threads, Lone(t),
           \/ ReadPosition(t) \/ ReleaseMarginStep(t) \/ ApplyPosition(t)
           \/ LosePosition(t) \/ ReleaseFails(t)
    PROVE  Lone(t)' /\ Keeps(t)
  <1> DEFINE th == threads[t]
             o  == th.oid
             b  == th.row.book
  <1>1. /\ TypeInv /\ th \in ThreadState /\ orders \in [OrderIds -> OrderRow]
        /\ positions \in [Books -> PositionRow] /\ th.row \in OrderRow /\ b \in Books
        /\ Current(t) /\ Chosen(t)
    BY DEF StatusInv, Lone, TypeInv, TypeOK, ThreadState, OrderRow
  <1>2. ~LosePosition(t)
    BY <1>1 DEF LosePosition, At, Current
  <1>3. UNCHANGED <<orders, trades, traded>>
    BY <1>2 DEF ReadPosition, ReleaseMarginStep, ApplyPosition, ReleaseFails, tables
  <1>4. ASSUME NEW s \in {"apply", "sum"}, Goto(t, s)
        PROVE  /\ threads'[t].step = s /\ threads'[t].oid = o /\ threads'[t].row = th.row
               /\ threads'[t].held = th.held /\ threads'[t].picked = th.picked
               /\ Chosen(t)'
    <2>1. /\ threads'[t].step = s /\ threads'[t].oid = o /\ threads'[t].row = th.row
          /\ threads'[t].held = th.held /\ threads'[t].picked = th.picked
      BY <1>1, <1>4 DEF Goto, TypeInv, TypeOK, ThreadState
    <2> QED
      BY <1>1, <1>3, <2>1, ChosenLasts
  <1>5. CASE ReadPosition(t)
    <2> DEFINE row  == orders[o]
               held == positions[row.book]
               step == IF MarginReleased(held, row.qty) > 0 THEN "release" ELSE "apply"
    <2>1. PICK pnl \in Pnls :
            threads' = [threads EXCEPT
              ![t].row  = row,
              ![t].held = held,
              ![t].pnl  = IF Realizes(held, row.qty) THEN pnl ELSE 0,
              ![t].step = step]
      BY <1>5 DEF ReadPosition
    <2>2. step \in {"release", "apply"} /\ th.step = "position" /\ UNCHANGED positions
      BY <1>5 DEF ReadPosition, At, tables
    <2> HIDE DEF step
    <2>3. /\ threads'[t].step = step /\ threads'[t].oid = o /\ threads'[t].row = row
          /\ threads'[t].held = held /\ threads'[t].picked = th.picked
      <3> HIDE DEF row, held
      <3> QED
        BY <1>1, <2>1 DEF TypeInv, TypeOK, ThreadState
    <2>4. Current(t)'
      BY <1>3, <2>2, <2>3 DEF Current
    <2>5. Chosen(t)'
      BY <1>1, <1>3, <2>2, <2>3, ChosenLasts
    <2>6. \A c \in Books : NetOf(t, c)' = NetOf(t, c)
      BY <1>3, <2>2, <2>3 DEF NetOf, InFlight
    <2> QED
      BY <1>3, <2>4, <2>5, <2>6 DEF Lone, Keeps, NetKept
  <1>6. CASE ReleaseMarginStep(t) \/ ReleaseFails(t)
    <2>1. th.step = "release" /\ Goto(t, "apply")
      BY <1>6 DEF ReleaseMarginStep, ReleaseFails, At
    <2>2. \/ UNCHANGED positions
          \/ \E r : positions' = [positions EXCEPT ![b].realized = r]
      BY <1>6 DEF ReleaseMarginStep, ReleaseFails, tables
    <2>3. \A c \in Books : positions'[c].qty = positions[c].qty /\ positions'[c].live = positions[c].live
      <3>1. ASSUME NEW r, positions' = [positions EXCEPT ![b].realized = r], NEW c \in Books
            PROVE  positions'[c].qty = positions[c].qty /\ positions'[c].live = positions[c].live
        <4>1. positions'[c] = IF c = b THEN [positions[c] EXCEPT !.realized = r] ELSE positions[c]
          BY <1>1, <3>1, Zenon
        <4>2. positions[c] \in PositionRow
          BY <1>1
        <4> QED
          BY <4>1, <4>2 DEF PositionRow
      <3> QED
        BY <2>2, <3>1
    <2>4. Current(t)'
      BY <1>1, <1>3, <1>4, <2>1, <2>3 DEF Current
    <2>5. \A c \in Books : NetOf(t, c)' = NetOf(t, c)
      BY <1>4, <2>1, <2>3 DEF NetOf, InFlight
    <2> QED
      BY <1>3, <1>4, <2>1, <2>4, <2>5 DEF Lone, Keeps, NetKept
  <1>7. CASE ApplyPosition(t)
    <2> DEFINE m == MarginCommitted(positions[b].margin, th.held, th.row.qty, th.row.margin)
               r == RealizedAfter(positions[b].realized, th.held, th.row.qty, th.pnl)
    <2>1. /\ th.step = "apply" /\ Goto(t, "sum")
          /\ positions' = [positions EXCEPT ![b] =
               [live |-> TRUE, qty |-> th.held.qty + th.row.qty, margin |-> m, realized |-> r]]
      BY <1>7 DEF ApplyPosition, At
    <2> HIDE DEF m, r
    <2>2. th.held.qty = positions[b].qty
      BY <1>1, <2>1 DEF Current
    <2>3. Current(t)' /\ ~Flies(t)'
      BY <1>4, <2>1 DEF Current, Flies
    <2>4. ASSUME NEW c \in Books
          PROVE  NetOf(t, c)' = NetOf(t, c)
      <3>1. InFlight(t, c)' = 0
        BY <2>3, NothingFlies
      <3>2. InFlight(t, c) = IF c = b THEN th.row.qty ELSE 0
        BY <2>1 DEF InFlight
      <3>3. positions'[c].qty = IF c = b THEN positions[b].qty + th.row.qty ELSE positions[c].qty
        BY <1>1, <2>1, <2>2
      <3>4. positions[c].qty \in Int /\ th.row.qty \in Int
        BY <1>1 DEF PositionRow, OrderRow
      <3> QED
        BY <3>1, <3>2, <3>3, <3>4 DEF NetOf
    <2> QED
      BY <1>3, <1>4, <2>1, <2>3, <2>4 DEF Lone, Keeps, NetKept
  <1> QED
    BY <1>2, <1>5, <1>6, <1>7

\* The end of a run: margin is compared and reconciled, the caller goes on.
LEMMA LoneFinish ==
    ASSUME StatusInv, NEW t \in Threads, Lone(t),
           SumPositions(t) \/ ReadFunds(t) \/ Reconcile(t) \/ Finish(t)
    PROVE  Lone(t)' /\ Keeps(t)
  <1> DEFINE th == threads[t]
             o  == th.oid
  <1>1. /\ TypeInv /\ th \in ThreadState /\ Chosen(t)
    BY DEF StatusInv, Lone, TypeInv, TypeOK
  <1>2. ~Flies(t) /\ UNCHANGED <<orders, trades, traded, positions>>
    BY DEF Flies, SumPositions, ReadFunds, Reconcile, Finish, At, tables
  <1>3. ASSUME threads'[t].step \in {"read", "finish", "reconcile"},
               threads'[t].oid = o, threads'[t].picked = th.picked
        PROVE  Lone(t)' /\ Keeps(t)
    <2>1. Chosen(t)'
      BY <1>1, <1>2, <1>3, ChosenLasts
    <2>2. Current(t)' /\ ~Flies(t)'
      BY <1>3 DEF Current, Flies
    <2> QED
      BY <1>2, <2>1, <2>2, NetStays DEF Lone, Keeps
  <1>4. CASE SumPositions(t)
    <2> DEFINE total == TotalMargin(positions)
    <2>1. threads' = [threads EXCEPT ![t].total = total, ![t].step = "read"]
      BY <1>4 DEF SumPositions
    <2> HIDE DEF total
    <2>2. threads'[t].step = "read" /\ threads'[t].oid = o /\ threads'[t].picked = th.picked
      BY <1>1, <2>1 DEF TypeInv, TypeOK, ThreadState
    <2> QED
      BY <1>3, <2>2
  <1>5. CASE ReadFunds(t)
    <2> DEFINE step == IF funds.used = th.total THEN "finish" ELSE "reconcile"
    <2>1. step \in {"finish", "reconcile"}
      OBVIOUS
    <2>2. threads' = [threads EXCEPT ![t].seen = funds, ![t].step = step]
      BY <1>5 DEF ReadFunds
    <2> HIDE DEF step
    <2>3. threads'[t].step = step /\ threads'[t].oid = o /\ threads'[t].picked = th.picked
      BY <1>1, <2>2 DEF TypeInv, TypeOK, ThreadState
    <2> QED
      BY <1>3, <2>1, <2>3
  <1>6. CASE Reconcile(t)
    <2>1. threads'[t].step = "finish" /\ threads'[t].oid = o /\ threads'[t].picked = th.picked
      BY <1>1, <1>6 DEF Reconcile, Goto, TypeInv, TypeOK, ThreadState
    <2> QED
      BY <1>3, <2>1
  <1>7. CASE Finish(t)
    <2>1. CASE Become(t, Idle)
      <3>1. threads'[t] = Idle
        BY <1>1, <2>1 DEF Become, TypeInv, TypeOK
      <3>2. Idle.step = "idle" /\ Idle.picked = {}
        BY DEF Idle
      <3>3. Lone(t)' /\ ~Flies(t)'
        BY <3>1, <3>2, LoneBlank
      <3> QED
        BY <1>2, <3>3, NetStays DEF Keeps
    <2>2. CASE Become(t, [Idle EXCEPT !.step = "pass", !.picked = th.picked])
      <3> DEFINE s == [Idle EXCEPT !.step = "pass", !.picked = th.picked]
      <3>1. threads'[t] = s
        BY <1>1, <2>2 DEF Become, TypeInv, TypeOK
      <3>2. s.step = "pass" /\ s.oid = NoOrder /\ s.picked = th.picked
        BY DEF Idle
      <3> HIDE DEF s
      <3>3. Current(t)' /\ ~Flies(t)'
        BY <3>1, <3>2 DEF Current, Flies
      <3>4. \A p \in th.picked : p[1] # NoOrder
        BY <1>1, AccountAssumption DEF ThreadState
      <3>5. Chosen(t)'
        BY <1>1, <1>2, <3>1, <3>2, <3>4 DEF Chosen, Open
      <3> QED
        BY <1>2, <3>3, <3>5, NetStays DEF Lone, Keeps
    <2> QED
      BY <1>7, <2>1, <2>2 DEF Finish
  <1> QED
    BY <1>4, <1>5, <1>6, <1>7

\* A commit that fails takes an order and its fill out of the book.
LEMMA LoneFails ==
    ASSUME StatusInv, NEW t \in Threads, Lone(t), CommitFails(t)
    PROVE  /\ Lone(t)' /\ UNCHANGED trades
           /\ \E o \in OrderIds : Placed(o) /\ orders' = [orders EXCEPT ![o].status = "rejected"]
  <1> DEFINE th == threads[t]
             o  == th.oid
  <1>1. /\ TypeInv /\ th \in ThreadState /\ orders \in [OrderIds -> OrderRow]
        /\ Chosen(t) /\ Works(t)
    BY DEF StatusInv, Sound, Lone, TypeInv, TypeOK
  <1>2. /\ th.step \in {"execute", "apply"} /\ UNCHANGED trades
        /\ orders' = [orders EXCEPT ![o].status = "rejected"]
        /\ threads' = [threads EXCEPT ![t].step = "finish", ![t].picked = Expire(@)]
    BY DEF CommitFails, At
  <1>3. /\ threads'[t].step = "finish" /\ threads'[t].oid = o
        /\ threads'[t].picked = Expire(th.picked)
    BY <1>1, <1>2 DEF TypeInv, TypeOK, ThreadState
  <1>4. o \in OrderIds /\ Placed(o)
    BY <1>1, <1>2 DEF TypeInv, WorksOnOrder, Works, OrderSteps
  <1>5. \A p \in OrderIds : p # o => orders'[p] = orders[p]
    BY <1>1, <1>2, <1>4
  <1>6. Chosen(t)'
    BY <1>1, <1>3, <1>5, ChosenLasts
  <1>7. Current(t)'
    BY <1>3 DEF Current
  <1> QED
    BY <1>2, <1>4, <1>6, <1>7 DEF Lone

\* What a step leaves alone stays as it is: nobody else is busy.
LEMMA LoneLasts ==
    ASSUME NEW u \in Threads, Lone(u), threads[u].step = "idle", threads'[u] = threads[u]
    PROVE  Lone(u)'
  BY DEF Lone, Current, Chosen

LEMMA LoneInvInit == Init => LoneInv
  <1> SUFFICES ASSUME Init PROVE LoneInv
    OBVIOUS
  <1>1. StatusInv
    BY StatusInvInit
  <1>2. \A t \in Threads : threads[t].step = "idle" /\ threads[t].picked = {}
    BY DEF Init, Idle
  <1>3. OneAtATime /\ \A t \in Threads : Lone(t)
    BY <1>2 DEF OneAtATime, Lone, Current, Chosen
  <1>4. OrdersSized /\ CancelledNotTraded
    BY DEF Init, OrdersSized, CancelledNotTraded, Placed, NoRow
  <1> QED
    BY <1>1, <1>3, <1>4 DEF LoneInv

\* Every step is a crash, a commit that fails, or a step of the lone thread.
LEMMA LoneMoves ==
    ASSUME Serial, LoneInv, Next, ~Crash
    PROVE  \E t \in Threads :
              /\ \A u \in Threads \ {t} : threads[u].step = "idle" /\ threads'[u] = threads[u]
              /\ Lone(t)'
              /\ BookMove(t) \/ CommitFails(t)
  <1> USE DEF LoneInv
  <1>1. TypeInv
    BY DEF StatusInv
  <1>2. ASSUME NEW t \in Threads, Starts(t)
        PROVE  /\ \A u \in Threads \ {t} : threads[u].step = "idle" /\ threads'[u] = threads[u]
               /\ Lone(t)' /\ BookMove(t)
    <2>1. MayStart(t) /\ Frame(t)
      BY <1>1, <1>2, StartMoves
    <2>2. Lone(t)' /\ Keeps(t)
      BY <1>1, <1>2, LoneStarts
    <2> QED
      BY <2>1, <2>2 DEF MayStart, At, Frame, BookMove
  <1>3. ASSUME NEW t \in Threads, Proceeds(t)
        PROVE  /\ \A u \in Threads \ {t} : threads[u].step = "idle" /\ threads'[u] = threads[u]
               /\ Lone(t)' /\ (BookMove(t) \/ CommitFails(t))
    <2>1. threads[t].step # "idle" /\ Frame(t)
      BY <1>1, <1>3, ProceedMoves
    <2>2. \A u \in Threads \ {t} : threads[u].step = "idle"
      BY <2>1 DEF OneAtATime
    <2>3. Lone(t)' /\ (BookMove(t) \/ CommitFails(t))
      BY <1>3, LoneManagers, LoneEngine, LonePosition, LoneFinish, LoneFails
         DEF Proceeds, Continue, BookMove
    <2> QED
      BY <2>1, <2>2, <2>3 DEF Frame
  <1> QED
    BY <1>2, <1>3 DEF Next, Starts, Proceeds, Threads

\* A step of the order book keeps the orders sized and trades no cancelled one.
LEMMA BookMoveKeeps ==
    ASSUME TypeInv, TradeMeansNotOpen, OrdersSized, CancelledNotTraded,
           NEW t \in Threads, BookMove(t)
    PROVE  OrdersSized' /\ CancelledNotTraded'
  <1>1. /\ orders \in [OrderIds -> OrderRow] /\ trades \in [OrderIds -> Nat]
        /\ Quantities \subseteq Int \ {0}
    BY AccountAssumption DEF TypeInv, TypeOK
  <1>2. CASE UNCHANGED <<orders, trades>>
    BY <1>2 DEF OrdersSized, CancelledNotTraded, Placed
  <1>3. ASSUME NEW o \in OrderIds, Accepts(t, o)
        PROVE  OrdersSized' /\ CancelledNotTraded'
    <2>1. orders'[o] = threads[t].row /\ \A p \in OrderIds \ {o} : orders'[p] = orders[p]
      BY <1>1, <1>3 DEF Accepts
    <2> QED
      BY <1>3, <2>1 DEF Accepts, OrdersSized, CancelledNotTraded, Placed
  <1>4. ASSUME NEW o \in OrderIds, Open(o), UNCHANGED trades \/ trades' = [trades EXCEPT ![o] = @ + 1],
               NEW s \in Statuses, orders' = [orders EXCEPT ![o].status = s],
               s = "cancelled" => UNCHANGED trades
        PROVE  OrdersSized' /\ CancelledNotTraded'
    <2>1. /\ orders'[o].qty = orders[o].qty /\ orders'[o].status = s
          /\ \A p \in OrderIds \ {o} : orders'[p] = orders[p] /\ trades'[p] = trades[p]
      BY <1>1, <1>4 DEF OrderRow
    <2> QED
      BY <1>4, <2>1 DEF OrdersSized, CancelledNotTraded, TradeMeansNotOpen, Placed, Open
  <1>5. ASSUME NEW o \in OrderIds, Modifies(t, o)
        PROVE  OrdersSized' /\ CancelledNotTraded'
    <2>1. PICK q \in Quantities : orders' = [orders EXCEPT ![o].qty = q]
      BY <1>5 DEF Modifies
    <2>2. /\ orders'[o].qty = q /\ orders'[o].status = orders[o].status
          /\ \A p \in OrderIds \ {o} : orders'[p] = orders[p]
      BY <1>1, <2>1 DEF OrderRow
    <2> QED
      BY <1>1, <1>5, <2>2 DEF Modifies, OrdersSized, CancelledNotTraded, Placed, Open
  <1>6. ASSUME NEW o \in OrderIds, Fills(t, o) \/ Cancels(t, o)
        PROVE  OrdersSized' /\ CancelledNotTraded'
    BY <1>4, <1>6 DEF Fills, Cancels, Statuses
  <1> QED
    BY <1>2, <1>3, <1>5, <1>6 DEF BookMove, Keeps, Resets

LEMMA LoneInvNext ==
    ASSUME Serial, LoneInv, [Next]_vars
    PROVE  LoneInv'
  <1> USE DEF LoneInv
  <1>1. StatusInv' /\ OneAtATime'
    BY StatusInvNext, OneAtATimeNext DEF StatusInv
  <1>2. CASE UNCHANGED vars
    BY <1>1, <1>2 DEF vars, tables, OrdersSized, CancelledNotTraded, Placed, Open,
                      Lone, Current, Chosen
  <1>3. CASE Crash
    <2>1. \A t \in Threads : threads'[t].step = "idle" /\ threads'[t].picked = {}
      BY <1>3 DEF Crash, Idle
    <2>2. \A t \in Threads : Lone(t)'
      BY <2>1 DEF Lone, Current, Chosen
    <2> QED
      BY <1>1, <1>3, <2>2 DEF Crash, tables, OrdersSized, CancelledNotTraded, Placed
  <1>4. CASE Next /\ ~Crash
    <2>1. PICK t \in Threads :
             /\ \A u \in Threads \ {t} : threads[u].step = "idle" /\ threads'[u] = threads[u]
             /\ Lone(t)'
             /\ BookMove(t) \/ CommitFails(t)
      BY <1>4, LoneMoves
    <2>2. \A u \in Threads : Lone(u)'
      BY <2>1, LoneLasts
    <2>3. OrdersSized' /\ CancelledNotTraded'
      <3>1. CASE BookMove(t)
        BY <3>1, BookMoveKeeps DEF StatusInv
      <3>2. CASE CommitFails(t)
        <4>1. PICK o \in OrderIds : /\ Placed(o) /\ UNCHANGED trades
                                    /\ orders' = [orders EXCEPT ![o].status = "rejected"]
          BY <3>2, LoneFails
        <4>2. orders \in [OrderIds -> OrderRow]
          BY DEF StatusInv, TypeInv, TypeOK
        <4>3. /\ orders'[o].status = "rejected" /\ orders'[o].qty = orders[o].qty
              /\ \A p \in OrderIds \ {o} : orders'[p] = orders[p]
          BY <4>1, <4>2 DEF OrderRow
        <4> QED
          BY <4>1, <4>3 DEF OrdersSized, CancelledNotTraded, Placed
      <3> QED
        BY <2>1, <3>1, <3>2
    <2> QED
      BY <1>1, <2>2, <2>3
  <1> QED
    BY <1>2, <1>3, <1>4

\* Where operations do not overlap, an order the user has cancelled is never
\* traded, whatever crashes and fails: cancel_order and the engines each see
\* the order as the other has left it.
THEOREM SerialCancelHolds == Serial => (Spec => []CancelledNotTraded)
  <1> SUFFICES ASSUME Serial PROVE Spec => []CancelledNotTraded
    OBVIOUS
  <1>1. Init => LoneInv
    BY LoneInvInit
  <1>2. LoneInv /\ [Next]_vars => LoneInv'
    BY LoneInvNext
  <1>3. LoneInv => CancelledNotTraded
    BY DEF LoneInv
  <1> QED
    BY <1>1, <1>2, <1>3, PTL DEF Spec


-----------------------------------------------------------------------------
(* Positions and orders implement the order book *)

\* The quantity in flight of a book is added up over the threads.
LEMMA NetIsSum ==
    ASSUME NEW b \in Books
    PROVE  /\ Net(b) = positions[b].qty + SumOf([u \in Threads |-> InFlight(u, b)])
           /\ Net(b)' = positions'[b].qty + SumOf([u \in Threads |-> InFlight(u, b)'])
  <1>1. IsFiniteSet(Threads)
    BY AccountAssumption
  <1>2. \A s \in SUBSET Threads : s # {} => First(s) \in Threads
    BY FirstIn
  <1>3. MapThenSumSet(LAMBDA t : InFlight(t, b), Threads)
          = SumOf([u \in Threads |-> InFlight(u, b)])
    BY <1>2, ZenonT(60) DEF MapThenSumSet, MapThenFoldSet, SumOf, Sums, Step, First
  <1>4. MapThenSumSet(LAMBDA t : InFlight(t, b), Threads)'
          = SumOf([u \in Threads |-> InFlight(u, b)'])
    BY <1>2, ZenonT(60) DEF MapThenSumSet, MapThenFoldSet, SumOf, Sums, Step, First
  <1> QED
    BY <1>3, <1>4 DEF Net

\* A fill in flight is a quantity.
LEMMA InFlightType ==
    ASSUME TypeInv, NEW t \in Threads, NEW b \in Books
    PROVE  InFlight(t, b) \in Int
  <1> DEFINE th == threads[t]
  <1>1. th \in ThreadState /\ orders \in [OrderIds -> OrderRow]
    BY DEF TypeInv, TypeOK
  <1>2. th.step = "position" => orders[th.oid] \in OrderRow
    BY <1>1 DEF TypeInv, WorksOnOrder, OrderSteps
  <1> QED
    BY <1>1, <1>2 DEF InFlight, ThreadState, OrderRow

\* An idle thread has no fill in flight.
LEMMA IdleHoldsNothing ==
    ASSUME NEW t \in Threads, NEW b \in Books
    PROVE  /\ threads[t].step = "idle" => InFlight(t, b) = 0
           /\ threads'[t].step = "idle" => InFlight(t, b)' = 0
  BY DEF InFlight

\* When all threads but one are idle, what is in flight is that one's.
LEMMA NetLone ==
    ASSUME TypeInv, TypeInv', NEW t \in Threads, NEW b \in Books
    PROVE  /\ (\A u \in Threads \ {t} : threads[u].step = "idle") => Net(b) = NetOf(t, b)
           /\ (\A u \in Threads \ {t} : threads'[u].step = "idle") => Net(b)' = NetOf(t, b)'
  <1> DEFINE f == [u \in Threads |-> InFlight(u, b)]
             g == [u \in Threads |-> InFlight(u, b)']
  <1>1. IsFiniteSet(Threads)
    BY AccountAssumption
  <1>2. f \in [Threads -> Int] /\ f[t] = InFlight(t, b)
    BY InFlightType
  <1>3. g \in [Threads -> Int] /\ g[t] = InFlight(t, b)'
    <2>1. ASSUME NEW u \in Threads
          PROVE  InFlight(u, b)' \in Int
      <3> DEFINE th == threads'[u]
      <3>1. th \in ThreadState /\ orders' \in [OrderIds -> OrderRow]
        BY DEF TypeInv, TypeOK
      <3>2. th.step = "position" => orders'[th.oid] \in OrderRow
        BY <3>1 DEF TypeInv, WorksOnOrder, OrderSteps
      <3> QED
        BY <3>1, <3>2 DEF InFlight, ThreadState, OrderRow
    <2> QED
      BY <2>1
  <1>4. ASSUME \A u \in Threads \ {t} : threads[u].step = "idle"
        PROVE  Net(b) = NetOf(t, b)
    <2>1. \A u \in Threads \ {t} : f[u] = 0
      BY <1>4, IdleHoldsNothing
    <2>2. SumOf(f) = f[t]
      <3> HIDE DEF f
      <3> QED
        BY <1>1, <1>2, <2>1, SumSingle
    <2> QED
      BY <1>2, <2>2, NetIsSum DEF NetOf
  <1>5. ASSUME \A u \in Threads \ {t} : threads'[u].step = "idle"
        PROVE  Net(b)' = NetOf(t, b)'
    <2>1. \A u \in Threads \ {t} : g[u] = 0
      BY <1>5, IdleHoldsNothing
    <2>2. SumOf(g) = g[t]
      <3> HIDE DEF g
      <3> QED
        BY <1>1, <1>3, <2>1, SumSingle
    <2> QED
      BY <1>3, <2>2, NetIsSum DEF NetOf
  <1> QED
    BY <1>4, <1>5

\* When nothing is under way nothing is in flight.
LEMMA NetWhenQuiet ==
    ASSUME TypeInv, Quiescent, NEW b \in Books
    PROVE  Net(b) = positions[b].qty
  <1> DEFINE f == [u \in Threads |-> InFlight(u, b)]
  <1>1. IsFiniteSet(Threads)
    BY AccountAssumption
  <1>2. f \in [Threads -> Int] /\ \A u \in Threads : f[u] = 0
    BY InFlightType, IdleHoldsNothing DEF Quiescent, At
  <1>3. SumOf(f) = 0
    <2> HIDE DEF f
    <2> QED
      BY <1>1, <1>2, SumZero
  <1>4. positions[b].qty \in Int
    BY DEF TypeInv, TypeOK, PositionRow
  <1>5. Net(b) = positions[b].qty + SumOf(f)
    BY NetIsSum
  <1> HIDE DEF f
  <1> QED
    BY <1>3, <1>4, <1>5

(***************************************************************************)
(* What is held in a book and what is in flight of it is what was traded.  *)
(* The position alone is not: between the commit of a trade and that of    *)
(* its position it lags behind.                                            *)
(***************************************************************************)
NetInv == LoneInv /\ \A b \in Books : Net(b) = traded[b]

LEMMA NetInvInit == Init => NetInv
  <1> SUFFICES ASSUME Init PROVE NetInv
    OBVIOUS
  <1>1. LoneInv /\ TypeInv
    BY LoneInvInit, TypeInvInit
  <1>2. Quiescent
    BY DEF Init, Quiescent, At, Idle
  <1>3. \A b \in Books : positions[b].qty = 0 /\ traded[b] = 0
    BY DEF Init, NoPosition
  <1> QED
    BY <1>1, <1>2, <1>3, NetWhenQuiet DEF NetInv

\* Without faults every step is one of the order book.
LEMMA BookSteps ==
    ASSUME Serial, MaxFaults = 0, LoneInv, LoneInv', Next
    PROVE  \E t \in Threads :
              /\ BookMove(t)
              /\ \A b \in Books : Net(b) = NetOf(t, b) /\ Net(b)' = NetOf(t, b)'
  <1>1. TypeInv /\ TypeInv'
    BY DEF LoneInv, StatusInv
  <1>2. ~Crash /\ \A t \in Threads : ~CommitFails(t)
    BY <1>1 DEF Crash, CommitFails, TypeInv, TypeOK
  <1>3. PICK t \in Threads :
           /\ \A u \in Threads \ {t} : threads[u].step = "idle" /\ threads'[u] = threads[u]
           /\ BookMove(t)
    BY <1>2, LoneMoves
  <1> QED
    BY <1>1, <1>3, NetLone

LEMMA NetInvNext ==
    ASSUME Serial, MaxFaults = 0, NetInv, [Next]_vars
    PROVE  NetInv'
  <1>1. LoneInv /\ LoneInv'
    BY LoneInvNext DEF NetInv
  <1>2. TypeInv /\ TypeInv'
    BY <1>1 DEF LoneInv, StatusInv
  <1>3. CASE UNCHANGED vars
    <2>1. ASSUME NEW b \in Books
          PROVE  Net(b)' = Net(b)
      <3>1. \A u \in Threads : InFlight(u, b)' = InFlight(u, b)
        BY <1>3 DEF InFlight, vars, tables
      <3> QED
        BY <1>3, <3>1, NetIsSum DEF vars, tables
    <2> QED
      BY <1>1, <1>3, <2>1 DEF NetInv, vars, tables
  <1>4. CASE Next
    <2>1. PICK t \in Threads :
              /\ BookMove(t)
              /\ \A b \in Books : Net(b) = NetOf(t, b) /\ Net(b)' = NetOf(t, b)'
      BY <1>1, <1>4, BookSteps
    <2>2. \A b \in Books : NetOf(t, b) = traded[b] /\ traded[b] \in Int
      BY <1>2, <2>1 DEF NetInv, TypeInv, TypeOK
    <2>3. \A b \in Books : NetOf(t, b)' = traded'[b]
      <3>1. CASE NetKept(t)
        BY <2>2, <3>1 DEF NetKept
      <3>2. CASE Resets(t)
        BY <3>2 DEF Resets
      <3>3. ASSUME NEW o \in OrderIds, Fills(t, o), NEW b \in Books
            PROVE  NetOf(t, b)' = traded'[b]
        <4>1. traded \in [Books -> Int] /\ orders[o].book \in Books /\ orders[o].qty \in Int
          BY <1>2 DEF TypeInv, TypeOK, OrderRow
        <4>2. traded'[b] = traded[b] + (IF b = orders[o].book THEN orders[o].qty ELSE 0)
          BY <3>3, <4>1 DEF Fills
        <4> QED
          BY <2>2, <3>3, <4>2 DEF Fills
      <3> QED
        BY <2>1, <3>1, <3>2, <3>3 DEF BookMove, Keeps, Accepts, Cancels, Modifies
    <2> QED
      BY <1>1, <2>1, <2>3 DEF NetInv
  <1> QED
    BY <1>3, <1>4

\* Where operations neither overlap nor fail, every position is the net of
\* the user's trades whenever nothing is under way: _update_position opens,
\* adds, reduces, closes and reverses without losing or repeating a fill.
THEOREM SerialPositions ==
    Serial /\ MaxFaults = 0 => (Spec => []PositionIsNetOfTrades)
  <1> SUFFICES ASSUME Serial, MaxFaults = 0 PROVE Spec => []PositionIsNetOfTrades
    OBVIOUS
  <1>1. Init => NetInv
    BY NetInvInit
  <1>2. NetInv /\ [Next]_vars => NetInv'
    BY NetInvNext
  <1>3. NetInv => PositionIsNetOfTrades
    BY NetWhenQuiet DEF NetInv, LoneInv, StatusInv, PositionIsNetOfTrades
  <1> QED
    BY <1>1, <1>2, <1>3, PTL DEF Spec

\* The initial tables are an empty order book.
LEMMA BookInit == Init => OrderBook!Init
  <1> SUFFICES ASSUME Init PROVE OrderBook!Init
    OBVIOUS
  <1>1. \A b \in Books : Net(b) = 0
    BY NetInvInit DEF NetInv, Init
  <1>2. \A o \in OrderIds : orders[o] = NoRow
    BY DEF Init
  <1>3. [o \in OrderIds |-> orders[o].status] = [o \in OrderIds |-> "none"]
    <2>1. \A o \in OrderIds : orders[o].status = "none"
      <3>1. NoRow.status = "none"
        BY DEF NoRow
      <3> QED
        BY <1>2, <3>1
    <2> QED
      BY <2>1
  <1>4. [o \in OrderIds |-> [book |-> orders[o].book, qty |-> orders[o].qty]]
          = [o \in OrderIds |-> OrderBook!Blank]
    <2>1. [book |-> NoRow.book, qty |-> NoRow.qty] = OrderBook!Blank
      BY DEF NoRow, OrderBook!Blank
    <2> QED
      BY <1>2, <2>1
  <1> QED
    BY <1>1, <1>3, <1>4 DEF OrderBook!Init

\* Every step of the lone thread is a step of the order book, or stutters.
LEMMA BookNext ==
    ASSUME Serial, MaxFaults = 0, NetInv, NetInv', [Next]_vars
    PROVE  [OrderBook!Next]_(OrderBook!bookVars)
  <1> DEFINE st   == [o \in OrderIds |-> orders[o].status]
             ord  == [o \in OrderIds |-> [book |-> orders[o].book, qty |-> orders[o].qty]]
             nets == [b \in Books |-> Net(b)]
  <1>1. /\ LoneInv /\ LoneInv' /\ TypeInv /\ OrdersSized
        /\ orders \in [OrderIds -> OrderRow] /\ orders' \in [OrderIds -> OrderRow]
    BY DEF NetInv, LoneInv, StatusInv, TypeInv, TypeOK
  <1>2. \A b \in Books : Net(b) \in Int
    BY DEF NetInv, LoneInv, StatusInv, TypeInv, TypeOK
  <1>3. CASE UNCHANGED vars
    <2>1. ASSUME NEW b \in Books
          PROVE  Net(b)' = Net(b)
      BY <1>3 DEF NetInv, vars, tables
    <2> QED
      BY <1>3, <2>1 DEF OrderBook!bookVars, vars, tables
  <1>4. CASE Next
    <2>1. PICK t \in Threads :
              /\ BookMove(t)
              /\ \A b \in Books : Net(b) = NetOf(t, b) /\ Net(b)' = NetOf(t, b)'
      BY <1>1, <1>4, BookSteps
    <2>2. NetKept(t) => nets' = nets
      BY <2>1 DEF NetKept
    <2>3. CASE Keeps(t)
      BY <2>2, <2>3 DEF Keeps, OrderBook!bookVars
    <2>4. CASE Resets(t)
      <3>1. OrderBook!Reset
        BY <2>1, <2>4 DEF Resets, OrderBook!Reset
      <3> QED
        BY <3>1 DEF OrderBook!Next
    <2>5. ASSUME NEW o \in OrderIds, Accepts(t, o)
          PROVE  OrderBook!Accept(o)
      <3>1. /\ orders'[o] = threads[t].row
            /\ \A p \in OrderIds \ {o} : orders'[p] = orders[p]
        BY <1>1, <2>5 DEF Accepts
      <3>2. st[o] = "none" /\ nets' = nets
        BY <2>2, <2>5 DEF Accepts, Placed
      <3>3. st' = [st EXCEPT ![o] = orders'[o].status] /\ orders'[o].status \in {"open", "rejected"}
        <4>1. [st EXCEPT ![o] = orders'[o].status]
                = [p \in OrderIds |-> IF p = o THEN orders'[o].status ELSE orders[p].status]
          OBVIOUS
        <4> QED
          BY <2>5, <3>1, <4>1 DEF Accepts
      <3>4. /\ ord' = [ord EXCEPT ![o] = ord'[o]]
            /\ ord'[o] \in [book : Books, qty : Int \ {0}]
        BY <1>1, <2>5, <3>1 DEF Accepts, OrderRow
      <3> QED
        BY <3>2, <3>3, <3>4 DEF OrderBook!Accept, OrderBook!Becomes
    <2>6. ASSUME NEW o \in OrderIds, Open(o), NEW s \in Statuses,
                 orders' = [orders EXCEPT ![o].status = s]
          PROVE  st[o] = "open" /\ st' = [st EXCEPT ![o] = s] /\ ord' = ord
      <3>1. /\ orders'[o] = [orders[o] EXCEPT !.status = s]
            /\ \A p \in OrderIds \ {o} : orders'[p] = orders[p]
        BY <1>1, <2>6
      <3>2. /\ orders'[o].status = s /\ orders'[o].book = orders[o].book
            /\ orders'[o].qty = orders[o].qty
        BY <1>1, <3>1 DEF OrderRow
      <3>3. [st EXCEPT ![o] = s] = [p \in OrderIds |-> IF p = o THEN s ELSE orders[p].status]
        OBVIOUS
      <3>4. \A p \in OrderIds : ord'[p] = ord[p]
        BY <3>1, <3>2
      <3> QED
        BY <2>6, <3>1, <3>2, <3>3, <3>4 DEF Open
    <2>7. ASSUME NEW o \in OrderIds, Fills(t, o)
          PROVE  OrderBook!Fill(o)
      <3>1. st[o] = "open" /\ st' = [st EXCEPT ![o] = "complete"] /\ ord' = ord
        BY <2>6, <2>7 DEF Fills, Statuses
      <3>2. ord[o].book = orders[o].book /\ ord[o].qty = orders[o].qty /\ orders[o].book \in Books
        BY <1>1 DEF OrderRow
      <3>3. nets' = [nets EXCEPT ![ord[o].book] = @ + ord[o].qty]
        <4>1. \A b \in Books :
                Net(b)' = Net(b) + (IF b = orders[o].book THEN orders[o].qty ELSE 0)
          BY <2>1, <2>7 DEF Fills
        <4> QED
          BY <1>2, <3>2, <4>1
      <3> QED
        BY <3>1, <3>3 DEF OrderBook!Fill
    <2>8. ASSUME NEW o \in OrderIds, Cancels(t, o)
          PROVE  OrderBook!Cancel(o)
      <3>1. st[o] = "open" /\ st' = [st EXCEPT ![o] = "cancelled"] /\ ord' = ord
        BY <2>6, <2>8 DEF Cancels, Statuses
      <3> QED
        BY <2>2, <2>8, <3>1 DEF OrderBook!Cancel, Cancels
    <2>9. ASSUME NEW o \in OrderIds, Modifies(t, o)
          PROVE  OrderBook!Modify(o)
      <3>1. PICK q \in Quantities : /\ (q > 0) = (orders[o].qty > 0)
                                    /\ orders' = [orders EXCEPT ![o].qty = q]
        BY <2>9 DEF Modifies
      <3>2. q \in Int \ {0}
        BY AccountAssumption
      <3>3. /\ orders'[o].status = orders[o].status /\ orders'[o].book = orders[o].book
            /\ orders'[o].qty = q /\ \A p \in OrderIds \ {o} : orders'[p] = orders[p]
        BY <1>1, <3>1 DEF OrderRow
      <3>4. st' = st /\ st[o] = "open" /\ nets' = nets
        BY <2>2, <2>9, <3>3 DEF Modifies, Open
      <3>5. /\ ord' = [ord EXCEPT ![o] = ord'[o]]
            /\ ord'[o] \in [book : {ord[o].book}, qty : Int \ {0}]
            /\ (ord'[o].qty > 0) = (ord[o].qty > 0)
        BY <3>1, <3>2, <3>3
      <3> QED
        BY <3>4, <3>5 DEF OrderBook!Modify, OrderBook!Becomes
    <2> QED
      BY <2>1, <2>3, <2>4, <2>5, <2>7, <2>8, <2>9 DEF BookMove, OrderBook!Next
  <1> QED
    BY <1>3, <1>4

\* Where operations neither overlap nor fail, the account implements the order
\* book: an order is accepted once and filled or cancelled at most once, and
\* every fill reaches its position once.
THEOREM AccountImplementsOrderBook ==
    Serial /\ MaxFaults = 0 => (Spec => ImplementsOrderBook)
  <1> SUFFICES ASSUME Serial, MaxFaults = 0 PROVE Spec => ImplementsOrderBook
    OBVIOUS
  <1>1. Init => NetInv /\ OrderBook!Init
    BY NetInvInit, BookInit
  <1>2. NetInv /\ [Next]_vars => NetInv'
    BY NetInvNext
  <1>3. NetInv /\ NetInv' /\ [Next]_vars => [OrderBook!Next]_(OrderBook!bookVars)
    BY BookNext
  <1> QED
    BY <1>1, <1>2, <1>3, PTL DEF Spec, ImplementsOrderBook, OrderBook!Spec


-----------------------------------------------------------------------------
(* Margin and profit of MARKET orders and closes, one after the other *)

\* The margin of an open position is part of the total.
LEMMA MarginInTotal ==
    ASSUME NEW pos \in [Books -> PositionRow], NEW b \in Books, pos[b].qty # 0
    PROVE  pos[b].margin <= TotalMargin(pos)
  <1> DEFINE live == {c \in Books : pos[c].qty # 0}
             units == {MarginUnits(pos, c) : c \in live}
  <1>1. \A c \in live : IsFiniteSet(MarginUnits(pos, c))
                        /\ Cardinality(MarginUnits(pos, c)) = pos[c].margin
    <2> SUFFICES ASSUME NEW c \in live
                 PROVE  IsFiniteSet(MarginUnits(pos, c))
                        /\ Cardinality(MarginUnits(pos, c)) = pos[c].margin
      OBVIOUS
    <2>1. pos[c].margin \in Nat
      BY DEF PositionRow
    <2>2. IsFiniteSet(1 .. pos[c].margin) /\ Cardinality(1 .. pos[c].margin) = pos[c].margin
      <3> DEFINE m == pos[c].margin
      <3> HIDE DEF m
      <3>1. m \in Nat
        BY <2>1 DEF m
      <3>2. Cardinality(1 .. m) = IF 1 > m THEN 0 ELSE m - 1 + 1
        BY <3>1, FS_Interval
      <3>3. (IF 1 > m THEN 0 ELSE m - 1 + 1) = m
        BY <3>1
      <3>4. IsFiniteSet(1 .. m) /\ Cardinality(1 .. m) = m
        BY <3>1, <3>2, <3>3, FS_Interval
      <3> QED
        BY <3>4 DEF m
    <2>3. IsFiniteSet({c}) /\ Cardinality({c}) = 1
      BY FS_Singleton
    <2>4. /\ IsFiniteSet({c} \X (1 .. pos[c].margin))
          /\ Cardinality({c} \X (1 .. pos[c].margin))
               = Cardinality({c}) * Cardinality(1 .. pos[c].margin)
      BY <2>2, <2>3, FS_Product
    <2> QED
      BY <2>1, <2>2, <2>3, <2>4 DEF MarginUnits
  <1>2. IsFiniteSet(UNION units)
    <2>1. IsFiniteSet(live)
      BY AccountAssumption, FS_Subset
    <2> DEFINE unitsOf == [c \in live |-> MarginUnits(pos, c)]
    <2>2. unitsOf \in Surjection(live, units)
      BY DEF Surjection
    <2>3. IsFiniteSet(units)
      BY <2>1, <2>2, FS_Surjection
    <2> QED
      BY <1>1, <2>3, FS_UNION
  <1>3. b \in live /\ MarginUnits(pos, b) \in SUBSET (UNION units)
    OBVIOUS
  <1>4. Cardinality(MarginUnits(pos, b)) <= Cardinality(UNION units)
    BY <1>2, <1>3, FS_Subset
  <1> QED
    BY <1>1, <1>3, <1>4 DEF TotalMargin

(***************************************************************************)
(* The margin of a unit is at least the number of units of any order, in   *)
(* the smallest money unit: no share of a margin is rounded to nothing.    *)
(***************************************************************************)
NothingRoundedAway == \A q \in Quantities, rate \in Rates : Size(q) <= rate

\* The margin of an order suffices for what it would leave of a position.
Covers(r, held) ==
    LET more == Size(r.qty) - Size(held)
    IN  /\ ~Opposite(held, r.qty) => r.margin >= Size(r.qty)
        /\ Opposite(held, r.qty) /\ more > 0 => r.margin >= more * Size(r.qty)

Covered(pos) == pos.qty # 0 => pos.margin >= Size(pos.qty)

\* A product that is at least a multiple of n has that quotient.
LEMMA QuotientBounds ==
    ASSUME NEW m \in Nat, NEW n \in Nat, n > 0, NEW k \in Int
    PROVE  /\ m >= k * n => m \div n >= k
           /\ m <= k * n => m \div n <= k
  OBVIOUS

LEMMA ProductGrows ==
    ASSUME NEW a \in Nat, NEW b \in Nat, NEW c \in Nat, a <= b
    PROVE  a * c <= b * c
  OBVIOUS

\* Every fill releases some of the margin of a covered position.
LEMMA SomethingReleased ==
    ASSUME NEW pos \in PositionRow, NEW q \in Int, q # 0, Covered(pos), Realizes(pos, q)
    PROVE  MarginReleased(pos, q) > 0
  <1> DEFINE p == Size(pos.qty)
             k == Smaller(p, Size(q))
  <1>1. pos.qty \in Int /\ pos.margin \in Nat /\ pos.qty # 0
    BY DEF PositionRow, Realizes, Closes, Reduces, Opposite
  <1>2. p \in Nat /\ p > 0 /\ Size(q) \in Nat /\ Size(q) > 0
    BY <1>1, SizeType
  <1>3. k \in Nat /\ k > 0
    BY <1>2 DEF Smaller
  <1>4. pos.margin >= p
    BY <1>1 DEF Covered
  <1> HIDE DEF p, k
  <1>5. pos.margin * k >= k * p
    BY <1>1, <1>2, <1>3, <1>4, ProductGrows
  <1>6. pos.margin * k \in Nat
    BY <1>1, <1>3
  <1>7. (pos.margin * k) \div p >= k
    BY <1>2, <1>3, <1>5, <1>6, QuotientBounds
  <1>8. MarginReleased(pos, q) = (pos.margin * k) \div p
    BY DEF MarginReleased, p, k
  <1>9. (pos.margin * k) \div p \in Int
    BY <1>2, <1>6
  <1> QED
    BY <1>3, <1>7, <1>8, <1>9

\* A fill that covers what it leaves of a covered position leaves it covered.
LEMMA StaysCovered ==
    ASSUME NEW pos \in PositionRow, NEW r \in OrderRow, r.qty # 0, Covered(pos),
           Covers(r, pos.qty), pos.qty + r.qty # 0
    PROVE  MarginAfter(pos, r.qty, r.margin) >= Size(pos.qty + r.qty)
  <1> DEFINE p == Size(pos.qty)
             q == Size(r.qty)
             m == r.margin
  <1>1. /\ pos.qty \in Int /\ pos.margin \in Nat /\ r.qty \in Int /\ m \in Nat
        /\ p \in Nat /\ q \in Nat /\ q > 0
    BY SizeType DEF PositionRow, OrderRow
  <1>2. CASE Opens(pos, r.qty)
    BY <1>1, <1>2 DEF Opens, MarginAfter, Covers, Opposite
  <1>3. CASE Adds(pos, r.qty)
    BY <1>1, <1>3 DEF Adds, Opens, MarginAfter, Covers, Covered, Opposite, Size
  <1>4. CASE Reverses(pos, r.qty)
    <2>1. q > p /\ Size(pos.qty + r.qty) = q - p /\ m >= (q - p) * q
      BY <1>1, <1>4 DEF Reverses, Reduces, Opposite, Covers, Size
    <2>2. MarginAfter(pos, r.qty, m) = (m * (q - p)) \div q
      BY <1>1, <1>4 DEF Reverses, Reduces, Opposite, MarginAfter, Opens, Adds
    <2> DEFINE k == q - p
    <2>3. k \in Nat /\ k > 0
      BY <1>1, <2>1
    <2> HIDE DEF k, p, q, m
    <2>4. m >= k * q
      BY <2>1 DEF k
    <2>5. m * k >= k * q
      BY <1>1, <2>3, <2>4
    <2>6. (m * k) \div q >= k
      BY <1>1, <2>3, <2>5, QuotientBounds
    <2> QED
      BY <2>1, <2>2, <2>6 DEF k, m, q, p
  <1>5. CASE ~Opens(pos, r.qty) /\ ~Adds(pos, r.qty) /\ ~Reverses(pos, r.qty)
    <2>1. Opposite(pos.qty, r.qty) /\ Realizes(pos, r.qty) /\ q <= p /\ p > 0
      BY <1>1, <1>5 DEF Opens, Adds, Reverses, Reduces, Opposite, Realizes, Size
    <2>2. /\ Size(pos.qty + r.qty) = p - q /\ pos.margin >= p
          /\ MarginAfter(pos, r.qty, m) = pos.margin - (pos.margin * q) \div p
      BY <1>1, <1>5, <2>1
         DEF Opposite, Size, Covered, MarginAfter, MarginReleased, Smaller
    <2> DEFINE M == pos.margin
    <2> HIDE DEF p, q, m, M
    <2>3. M \in Nat /\ p \in Nat /\ q \in Nat /\ M >= p /\ q <= p /\ p > 0
      BY <1>1, <2>1, <2>2 DEF M
    <2>4. M * q <= (M - (p - q)) * p
      <3> DEFINE d == p - q
      <3>1. d \in Nat /\ q = p - d
        BY <2>3
      <3>2. p * d <= M * d
        BY <2>3, <3>1, ProductGrows
      <3> HIDE DEF d
      <3>3. M * (p - d) = M * p - M * d /\ (M - d) * p = M * p - p * d
        BY <2>3, <3>1
      <3>4. M * q <= (M - d) * p
        BY <2>3, <3>1, <3>2, <3>3
      <3> QED
        BY <3>4 DEF d
    <2>5. (M * q) \div p <= M - (p - q)
      BY <2>3, <2>4, QuotientBounds
    <2>6. (M * q) \div p \in Int
      BY <2>3
    <2>7. M - (M * q) \div p >= p - q
      BY <2>3, <2>5, <2>6
    <2> QED
      BY <2>2, <2>7 DEF M, p, q, m
  <1> QED
    BY <1>2, <1>3, <1>4, <1>5

\* The margin place_order fixes covers what the order may leave.
LEMMA PlacedCovers ==
    ASSUME NothingRoundedAway, NEW q \in Quantities, NEW rate \in Rates, NEW held \in Int,
           NEW r, r.qty = q, r.margin = MarginToBlock(held, q, rate)
    PROVE  Covers(r, held)
  <1>1. q \in Int /\ q # 0 /\ rate \in Nat
    BY AccountAssumption
  <1>2. Size(q) \in Nat /\ Size(q) > 0 /\ Size(held) \in Nat /\ Size(q) <= rate
    BY <1>1, SizeType DEF NothingRoundedAway
  <1>3. CASE ~Opposite(held, q)
    <2>1. r.margin = Size(q) * rate
      BY <1>3 DEF MarginToBlock, MarginRequired
    <2>2. Size(q) * rate >= Size(q)
      <3> DEFINE s == Size(q)
      <3> HIDE DEF s
      <3>1. s \in Nat /\ s > 0 /\ s <= rate
        BY <1>2 DEF s
      <3>2. s * rate >= s
        BY <1>1, <3>1
      <3> QED
        BY <3>2 DEF s
    <2> QED
      BY <1>3, <2>1, <2>2 DEF Covers
  <1>4. CASE Opposite(held, q)
    <2> DEFINE s == Size(q)
               more == s - Size(held)
    <2>1. ASSUME more > 0
          PROVE  r.margin >= more * s
      <3>1. more \in Nat /\ Size(more) = more
        BY <1>2, <2>1 DEF Size
      <3>2. r.margin = more * rate
        BY <1>2, <1>4, <2>1, <3>1 DEF MarginToBlock, MarginRequired
      <3> HIDE DEF more, s
      <3>3. s \in Nat /\ s <= rate
        BY <1>2 DEF s
      <3>4. s * more <= rate * more
        BY <1>1, <3>1, <3>3, ProductGrows
      <3> QED
        BY <1>1, <3>1, <3>2, <3>3, <3>4
    <2> QED
      BY <1>4, <2>1 DEF Covers
  <1> QED
    BY <1>3, <1>4

\* The instances these results are about: MARKET orders and closes in sequence.
MarketOnly ==
    /\ Serial /\ MaxFaults = 0
    /\ Kinds \subseteq {"market"} /\ Requests \subseteq {"close"}

Profits(pos) == SumOf([b \in Books |-> pos[b].realized])

\* Nothing is under way: margin and profit agree, and no order is open.
Calm ==
    /\ funds.used = TotalMargin(positions)
    /\ \A o \in OrderIds : ~Open(o)
    /\ NothingRoundedAway => funds.realized = Profits(positions)
                             /\ \A b \in Books : Covered(positions[b])

(***************************************************************************)
(* What holds while the request thread t places or closes.  Until the fill *)
(* is netted the margin used is at least that of the positions, so that a  *)
(* release leaves something; then it is what reconciliation sets it to.    *)
(***************************************************************************)
Course(t) ==
    LET th == threads[t]
    IN  /\ t \in ApiThreads
        /\ th.step \in {"block", "insert", "reject", "load", "check", "execute", "position",
                        "release", "apply", "sum", "read", "reconcile", "finish"}
        /\ th.step \in {"block", "insert"} => th.kind = "market"
        /\ \A o \in OrderIds :
              Open(o) => th.oid = o /\ th.step \in {"load", "check", "execute"}

Money(t) ==
    LET th == threads[t]
        total == TotalMargin(positions)
    IN  /\ th.step \in {"block", "reject", "finish"} => funds.used = total
        /\ th.step \in {"insert", "load", "check", "execute", "position", "release"}
             => funds.used >= total
        /\ th.step \in {"read", "reconcile"} => th.total = total
        /\ funds.used >= 0

\* The row of the order that is run, before and after it is in the table.
OfOrder(t) ==
    IF threads[t].step \in {"block", "insert"} THEN threads[t].row
    ELSE orders[threads[t].oid]

\* On a full close the profit is on the funds row before it is on the position.
Owed(t) ==
    LET th == threads[t]
    IN  IF /\ th.step = "apply"
           /\ MarginReleased(th.held, th.row.qty) > 0 /\ Closes(th.held, th.row.qty)
        THEN th.pnl ELSE 0

Profit(t) ==
    LET th == threads[t]
        r  == OfOrder(t)
    IN  /\ \A b \in Books : Covered(positions[b])
        /\ th.step \in {"block", "insert", "load", "check", "execute", "position",
                        "release", "apply"} => Covers(r, positions[r.book].qty)
        /\ th.step = "apply" => /\ th.held.margin = positions[th.row.book].margin
                                /\ MarginReleased(th.held, th.row.qty) = 0 => th.pnl = 0
        /\ th.step = "release" => MarginReleased(th.held, th.row.qty) > 0
        /\ funds.realized = Profits(positions) + Owed(t)

Busy(t) == Course(t) /\ Money(t) /\ (NothingRoundedAway => Profit(t))

Accounted(t) == (threads[t].step = "idle" => Calm) /\ (threads[t].step # "idle" => Busy(t))

\* Profits and margins are numbers.
LEMMA SumsAreNumbers ==
    ASSUME NEW pos \in [Books -> PositionRow]
    PROVE  TotalMargin(pos) \in Nat /\ Profits(pos) \in Int
  <1> DEFINE f == [b \in Books |-> pos[b].realized]
  <1>1. f \in [Books -> Int]
    BY DEF PositionRow
  <1>2. SumOf(f) \in Int
    <2> HIDE DEF f
    <2> QED
      BY <1>1, AccountAssumption, SumType
  <1> QED
    BY <1>2, TotalMarginType DEF Profits

\* A change of one position changes the profits by as much.
LEMMA ProfitsMove ==
    ASSUME NEW pos \in [Books -> PositionRow], NEW new \in [Books -> PositionRow],
           NEW b \in Books, \A c \in Books \ {b} : new[c] = pos[c]
    PROVE  Profits(new) = Profits(pos) + new[b].realized - pos[b].realized
  <1> DEFINE f == [c \in Books |-> pos[c].realized]
             g == [c \in Books |-> new[c].realized]
  <1>1. f \in [Books -> Int] /\ g \in [Books -> Int]
    BY DEF PositionRow
  <1>2. f[b] = pos[b].realized /\ g[b] = new[b].realized
    OBVIOUS
  <1>3. \A c \in Books \ {b} : g[c] = f[c]
    OBVIOUS
  <1>4. SumOf(g) = SumOf(f) + g[b] - f[b]
    <2> HIDE DEF f, g
    <2> QED
      BY <1>1, <1>3, AccountAssumption, SumUpdate
  <1> QED
    BY <1>2, <1>4 DEF Profits

\* A request is the only thing that starts, and it finds everything calm.
LEMMA MarketStarts ==
    ASSUME MarketOnly, LoneInv, NEW t \in Threads, Accounted(t),
           \/ t \in ApiThreads /\ Request(t)
           \/ t \in WsThreads /\ Tick(t)
           \/ t \in PollThreads /\ PollPass(t)
    PROVE  Accounted(t)'
  <1>1. TypeInv /\ positions \in [Books -> PositionRow] /\ funds \in FundsRow
    BY DEF LoneInv, StatusInv, TypeInv, TypeOK
  <1>2. threads[t].step = "idle" /\ UNCHANGED <<funds, orders, positions>>
    <2>1. MayStart(t)
      BY <1>1, StartMoves DEF Starts
    <2> QED
      BY <2>1 DEF MayStart, At, Request, PlaceOrder, ClosePosition, LoadForRequest, GetFunds,
                  Tick, PollPass, tables
  <1>3. Calm
    BY <1>2 DEF Accounted
  <1>4. \A s : threads' = [threads EXCEPT ![t] = s] => threads'[t] = s
    BY <1>1 DEF TypeInv, TypeOK
  <1>5. ASSUME NEW s, threads'[t] = s, s.step \in {"block", "reject"}, t \in ApiThreads,
               s.step = "block" => s.kind = "market",
               NothingRoundedAway /\ s.step = "block" => Covers(s.row, positions[s.row.book].qty)
        PROVE  Accounted(t)'
    <2>1. Course(t)'
      BY <1>2, <1>3, <1>5 DEF Course, Calm, Open
    <2>2. Money(t)'
      BY <1>1, <1>2, <1>3, <1>5, SumsAreNumbers DEF Money, Calm
    <2>3. ASSUME NothingRoundedAway
          PROVE  Profit(t)'
      <3>1. Owed(t)' = 0
        BY <1>5 DEF Owed
      <3>2. funds.realized = Profits(positions) /\ Profits(positions) \in Int
        BY <1>1, <1>3, <2>3, SumsAreNumbers DEF Calm
      <3> QED
        BY <1>2, <1>3, <1>5, <2>3, <3>1, <3>2 DEF Profit, Calm, OfOrder
    <2> QED
      BY <1>5, <2>1, <2>2, <2>3 DEF Accounted, Busy, NothingRoundedAway
  <1>6. ASSUME PlaceOrder(t), t \in ApiThreads
        PROVE  Accounted(t)'
    <2>1. PICK b \in Books, q \in Quantities, rate \in Rates, kind \in Kinds :
            LET held == positions[b].qty
                need == MarginToBlock(held, q, rate)
                ok   == Deliverable(b, q, held)
            IN  Become(t, [Idle EXCEPT
                  !.step = IF ok THEN "block" ELSE "reject",
                  !.kind = kind,
                  !.row  = [status |-> IF ok THEN "open" ELSE "rejected",
                            book   |-> b,
                            qty    |-> q,
                            margin |-> IF ok THEN need ELSE 0]])
      BY <1>6 DEF PlaceOrder
    <2> DEFINE ok   == Deliverable(b, q, positions[b].qty)
               need == MarginToBlock(positions[b].qty, q, rate)
               row  == [status |-> IF ok THEN "open" ELSE "rejected",
                        book |-> b, qty |-> q, margin |-> IF ok THEN need ELSE 0]
               s    == [Idle EXCEPT !.step = IF ok THEN "block" ELSE "reject",
                                    !.kind = kind, !.row = row]
    <2> HIDE DEF ok, need
    <2>2. threads'[t] = s
      BY <1>4, <2>1 DEF Become, ok, need
    <2>3. /\ s.step \in {"block", "reject"} /\ s.kind = kind /\ s.row.qty = q /\ s.row.book = b
          /\ s.step = "block" => s.row.margin = need
      BY DEF Idle
    <2> HIDE DEF s
    <2>4. kind = "market" /\ positions[b].qty \in Int
      BY <1>1 DEF MarketOnly, PositionRow
    <2>5. NothingRoundedAway /\ s.step = "block" => Covers(s.row, positions[s.row.book].qty)
      BY <2>3, <2>4, PlacedCovers DEF need
    <2> QED
      BY <1>5, <1>6, <2>2, <2>3, <2>4, <2>5
  <1>7. ASSUME ClosePosition(t), t \in ApiThreads
        PROVE  Accounted(t)'
    <2>1. PICK b \in Books, kind \in Kinds \ {"marketable"} :
            /\ positions[b].qty # 0
            /\ Become(t, [Idle EXCEPT
                 !.step = "block",
                 !.kind = kind,
                 !.row  = [status |-> "open", book |-> b,
                           qty |-> -positions[b].qty, margin |-> 0]])
      BY <1>7 DEF ClosePosition
    <2> DEFINE s == [Idle EXCEPT !.step = "block", !.kind = kind,
                       !.row = [status |-> "open", book |-> b,
                                qty |-> -positions[b].qty, margin |-> 0]]
    <2>2. threads'[t] = s
      BY <1>4, <2>1 DEF Become
    <2>3. s.step = "block" /\ s.kind = kind /\ s.row.qty = -positions[b].qty /\ s.row.book = b
      BY DEF Idle
    <2> HIDE DEF s
    <2>4. kind = "market" /\ positions[b].qty \in Int
      BY <1>1 DEF MarketOnly, PositionRow
    <2>5. Covers(s.row, positions[s.row.book].qty)
      BY <2>1, <2>3, <2>4 DEF Covers, Opposite, Size
    <2> QED
      BY <1>5, <1>7, <2>2, <2>3, <2>4, <2>5
  <1>8. ~GetFunds(t) /\ ~LoadForRequest(t, "cancel") /\ ~LoadForRequest(t, "modify")
    BY DEF MarketOnly, GetFunds, LoadForRequest
  <1>9. ~PollPass(t)
    BY <1>3 DEF PollPass, Calm
  <1>10. ASSUME Tick(t)
         PROVE  Accounted(t)'
    <2>1. UNCHANGED threads
      <3>1. index \subseteq OrderIds
        BY <1>1 DEF TypeInv, TypeOK
      <3> QED
        BY <1>3, <1>10, <3>1 DEF Tick, Calm
    <2> QED
      BY <1>2, <1>3, <2>1 DEF Accounted, Calm, Open
  <1> QED
    BY <1>6, <1>7, <1>8, <1>9, <1>10 DEF Request

\* A thread that is done leaves the account calm.
LEMMA MarketDone ==
    ASSUME positions \in [Books -> PositionRow],
           NEW t \in Threads, Busy(t), threads[t].step \in {"block", "reject", "finish"},
           threads'[t] = Idle, UNCHANGED <<funds, positions>>,
           \A o \in OrderIds : Open(o)' => Open(o)
    PROVE  Accounted(t)'
  <1>1. threads'[t].step = "idle"
    BY DEF Idle
  <1>2. Owed(t) = 0
    BY DEF Owed
  <1>3. funds.used = TotalMargin(positions) /\ \A o \in OrderIds : ~Open(o)
    BY DEF Busy, Course, Money
  <1>4. ASSUME NothingRoundedAway
        PROVE  /\ funds.realized = Profits(positions)
               /\ \A b \in Books : Covered(positions[b])
    BY <1>2, <1>4, SumsAreNumbers DEF Busy, Profit
  <1>5. Calm'
    BY <1>3, <1>4 DEF Calm, Open, NothingRoundedAway
  <1> QED
    BY <1>1, <1>5 DEF Accounted

\* An order goes on to its trade while margin and positions stay as they are.
LEMMA MarketOn ==
    ASSUME NEW t \in Threads, Busy(t),
           threads[t].step \in {"insert", "load", "check", "execute"},
           threads'[t].step \in {"load", "check", "execute", "position"},
           UNCHANGED <<funds, positions>>,
           OfOrder(t)'.margin = OfOrder(t).margin, OfOrder(t)'.qty = OfOrder(t).qty,
           OfOrder(t)'.book = OfOrder(t).book,
           \A o \in OrderIds : Open(o)' =>
              threads'[t].oid = o /\ threads'[t].step \in {"load", "check", "execute"}
    PROVE  Accounted(t)'
  <1>1. Course(t)'
    BY DEF Busy, Course
  <1>2. Money(t)'
    BY DEF Busy, Money
  <1>3. Owed(t) = 0 /\ Owed(t)' = 0
    BY DEF Owed
  <1>4. ASSUME NothingRoundedAway
        PROVE  Profit(t)'
    <2>1. Covers(OfOrder(t), positions[OfOrder(t).book].qty)
      BY <1>4 DEF Busy, Profit
    <2>2. Covers(OfOrder(t)', positions'[OfOrder(t)'.book].qty)
      BY <2>1 DEF Covers
    <2> QED
      BY <1>3, <1>4, <2>2 DEF Busy, Profit
  <1> QED
    BY <1>1, <1>2, <1>4 DEF Accounted, Busy, NothingRoundedAway

\* Margin is blocked and the order is put into the table.
LEMMA MarketPlaced ==
    ASSUME MarketOnly, LoneInv, NEW t \in Threads, Busy(t),
           BlockMarginStep(t) \/ InsertOrder(t) \/ InsertRejected(t)
    PROVE  Accounted(t)'
  <1> DEFINE th == threads[t]
  <1>1. /\ TypeInv /\ th \in ThreadState /\ th.row \in OrderRow /\ funds \in FundsRow
        /\ orders \in [OrderIds -> OrderRow] /\ positions \in [Books -> PositionRow]
        /\ Drafts(t)
    BY DEF LoneInv, StatusInv, Sound, TypeInv, TypeOK, ThreadState
  <1>2. ASSUME Become(t, Idle)
        PROVE  threads'[t] = Idle
    BY <1>1, <1>2 DEF Become, TypeInv, TypeOK
  <1>3. CASE BlockMarginStep(t)
    <2> DEFINE due == IF BlocksMargin(th.row) THEN th.row.margin ELSE 0
    <2>1. th.step = "block" /\ UNCHANGED <<orders, positions>>
      BY <1>3 DEF BlockMarginStep, At
    <2>2. CASE Become(t, Idle) /\ UNCHANGED funds
      BY <1>1, <1>2, <2>1, <2>2, MarketDone DEF Open
    <2>3. CASE funds' = BlockMargin(funds, due) /\ Goto(t, "insert")
      <3>1. /\ threads'[t].step = "insert" /\ threads'[t].row = th.row
            /\ threads'[t].kind = th.kind
        BY <1>1, <2>3 DEF Goto, TypeInv, TypeOK, ThreadState
      <3>2. due \in Nat
        BY <1>1 DEF OrderRow
      <3> HIDE DEF due
      <3>3. funds'.used = funds.used + due /\ funds'.realized = funds.realized
        BY <1>1, <2>3 DEF BlockMargin, FundsRow
      <3>4. funds.used \in Int /\ TotalMargin(positions) \in Nat
        BY <1>1, SumsAreNumbers DEF FundsRow
      <3>5. Course(t)'
        BY <2>1, <3>1 DEF Busy, Course, Open
      <3>6. Money(t)'
        BY <2>1, <3>1, <3>2, <3>3, <3>4 DEF Busy, Money
      <3>7. NothingRoundedAway => Profit(t)'
        BY <2>1, <3>1, <3>3 DEF Busy, Profit, OfOrder, Owed
      <3> QED
        BY <3>1, <3>5, <3>6, <3>7 DEF Accounted, Busy, NothingRoundedAway
    <2> QED
      BY <1>3, <2>2, <2>3 DEF BlockMarginStep
  <1>4. CASE InsertOrder(t)
    <2>1. /\ th.step = "insert" /\ th.kind = "market" /\ th.row.status = "open"
          /\ UNCHANGED <<funds, positions>>
      BY <1>1, <1>4 DEF InsertOrder, At, Busy, Course, Drafts
    <2>2. PICK p \in OrderIds :
            /\ orders[p].status = "none"
            /\ orders' = [orders EXCEPT ![p] = th.row]
            /\ threads' = [threads EXCEPT
                 ![t].oid  = p,
                 ![t].step = IF th.kind = "resting" THEN "finish" ELSE "load"]
      BY <1>4 DEF InsertOrder
    <2>3. threads'[t].step = "load" /\ threads'[t].oid = p
      BY <1>1, <2>1, <2>2 DEF TypeInv, TypeOK, ThreadState
    <2>4. orders'[p] = th.row /\ \A o \in OrderIds \ {p} : orders'[o] = orders[o]
      BY <1>1, <2>2
    <2>5. \A o \in OrderIds : Open(o)' => o = p
      BY <2>1, <2>4 DEF Busy, Course, Open
    <2>6. OfOrder(t)' = OfOrder(t)
      BY <2>1, <2>3, <2>4 DEF OfOrder
    <2> QED
      BY <2>1, <2>3, <2>5, <2>6, MarketOn
  <1>5. CASE InsertRejected(t)
    <2>1. /\ th.step = "reject" /\ th.row.status = "rejected" /\ UNCHANGED <<funds, positions>>
          /\ threads'[t] = Idle
      BY <1>1, <1>2, <1>5 DEF InsertRejected, At, Drafts
    <2>2. PICK p \in OrderIds : orders' = [orders EXCEPT ![p] = th.row]
      BY <1>5 DEF InsertRejected
    <2>3. \A o \in OrderIds : Open(o)' => Open(o)
      BY <1>1, <2>1, <2>2 DEF Open
    <2> QED
      BY <1>1, <2>1, <2>3, MarketDone
  <1> QED
    BY <1>3, <1>4, <1>5

\* The order is loaded, looked up and traded.
LEMMA MarketTraded ==
    ASSUME MarketOnly, LoneInv, NEW t \in Threads, Busy(t),
           LoadOrder(t) \/ CheckTrade(t) \/ ExecuteOrder(t)
    PROVE  Accounted(t)'
  <1> DEFINE th == threads[t]
             o  == th.oid
  <1>1. /\ TypeInv /\ th \in ThreadState /\ orders \in [OrderIds -> OrderRow]
        /\ Current(t) /\ t \in ApiThreads
    BY DEF LoneInv, StatusInv, Lone, Busy, Course, TypeInv, TypeOK
  <1>2. /\ th.step \in {"load", "check", "execute"} /\ o \in OrderIds
        /\ UNCHANGED <<funds, positions>>
    BY <1>1 DEF LoadOrder, CheckTrade, ExecuteOrder, At, tables, TypeInv, WorksOnOrder, OrderSteps
  <1>3. \A p \in OrderIds : Open(p) => p = o
    BY DEF Busy, Course
  <1>4. CASE LoadOrder(t)
    <2> DEFINE step == IF t \in ApiThreads /\ th.kind = "marketable"
                       THEN "execute" ELSE "check"
    <2>1. step \in {"execute", "check"} /\ UNCHANGED orders
      BY <1>4 DEF LoadOrder, tables
    <2> HIDE DEF step
    <2>2. threads' = [threads EXCEPT ![t].row = orders[o], ![t].step = step]
      BY <1>4 DEF LoadOrder, step
    <2>3. threads'[t].step = step /\ threads'[t].oid = o
      BY <1>1, <2>2 DEF TypeInv, TypeOK, ThreadState
    <2>4. OfOrder(t)' = OfOrder(t)
      BY <1>2, <2>1, <2>3 DEF OfOrder
    <2> QED
      BY <1>2, <1>3, <2>1, <2>3, <2>4, MarketOn DEF Open
  <1>5. CASE CheckTrade(t)
    <2>1. th.step = "check" /\ trades[o] = 0
      BY <1>1, <1>2, <1>5 DEF CheckTrade, At, Current, LoneInv, StatusInv, TradeMeansNotOpen
    <2>2. Goto(t, "execute") /\ UNCHANGED orders
      BY <1>1, <1>5, <2>1 DEF CheckTrade
    <2>3. threads'[t].step = "execute" /\ threads'[t].oid = o
      BY <1>1, <2>2 DEF Goto, TypeInv, TypeOK, ThreadState
    <2>4. OfOrder(t)' = OfOrder(t)
      BY <1>2, <2>2, <2>3 DEF OfOrder
    <2> QED
      BY <1>2, <1>3, <2>2, <2>3, <2>4, MarketOn DEF Open
  <1>6. CASE ExecuteOrder(t)
    <2>1. th.step = "execute" /\ th.row = orders[o] /\ Open(o)
      BY <1>1, <1>6 DEF ExecuteOrder, At, Current
    <2>2. /\ orders' = [orders EXCEPT ![o].status = "complete"]
          /\ threads' = [threads EXCEPT ![t].step = "position", ![t].picked = Expire(@)]
      BY <1>6, <2>1 DEF ExecuteOrder, Open
    <2>3. threads'[t].step = "position" /\ threads'[t].oid = o
      BY <1>1, <2>2 DEF TypeInv, TypeOK, ThreadState
    <2>4. /\ orders'[o].status = "complete" /\ orders'[o].book = orders[o].book
          /\ orders'[o].qty = orders[o].qty /\ orders'[o].margin = orders[o].margin
          /\ \A p \in OrderIds \ {o} : orders'[p] = orders[p]
      BY <1>1, <1>2, <2>2 DEF OrderRow
    <2>5. /\ OfOrder(t)'.margin = OfOrder(t).margin /\ OfOrder(t)'.qty = OfOrder(t).qty
          /\ OfOrder(t)'.book = OfOrder(t).book
      BY <1>2, <2>3, <2>4 DEF OfOrder
    <2>6. \A p \in OrderIds : ~Open(p)'
      BY <1>3, <2>4 DEF Open
    <2> QED
      BY <1>2, <2>3, <2>5, <2>6, MarketOn
  <1> QED
    BY <1>4, <1>5, <1>6

\* The order a thread runs has a row with a quantity.
LEMMA RunsSized ==
    ASSUME LoneInv, NEW t \in Threads, threads[t].step \in {"position", "release", "apply"}
    PROVE  LET r == orders[threads[t].oid]
           IN  threads[t].oid \in OrderIds /\ r \in OrderRow /\ r.qty # 0
  <1>1. /\ TypeInv /\ orders \in [OrderIds -> OrderRow] /\ OrdersSized
    BY DEF LoneInv, StatusInv, TypeInv, TypeOK
  <1>2. threads[t].oid \in OrderIds /\ Placed(threads[t].oid)
    BY DEF LoneInv, StatusInv, TypeInv, WorksOnOrder, Sound, Works, OrderSteps
  <1> QED
    BY <1>1, <1>2 DEF OrdersSized

\* The position is read: a profit is booked when there is margin to release.
LEMMA MarketRead ==
    ASSUME LoneInv, NEW t \in Threads, Busy(t), ReadPosition(t)
    PROVE  Accounted(t)'
  <1> DEFINE th   == threads[t]
             o    == th.oid
             r    == orders[o]
             held == positions[r.book]
             step == IF MarginReleased(held, r.qty) > 0 THEN "release" ELSE "apply"
  <1>1. /\ th.step = "position" /\ UNCHANGED <<funds, orders, positions>>
        /\ TypeInv /\ th \in ThreadState /\ positions \in [Books -> PositionRow]
        /\ funds \in FundsRow
    BY DEF ReadPosition, At, tables, LoneInv, StatusInv, TypeInv, TypeOK
  <1>2. r \in OrderRow /\ r.qty # 0 /\ r.qty \in Int /\ held \in PositionRow
    BY <1>1, RunsSized DEF OrderRow
  <1>3. PICK pnl \in Pnls :
          threads' = [threads EXCEPT
            ![t].row  = r,
            ![t].held = held,
            ![t].pnl  = IF Realizes(held, r.qty) THEN pnl ELSE 0,
            ![t].step = step]
    BY DEF ReadPosition
  <1> DEFINE pn == IF Realizes(held, r.qty) THEN pnl ELSE 0
  <1>4. /\ step \in {"release", "apply"}
        /\ ~Realizes(held, r.qty) => pn = 0
        /\ step = "release" <=> MarginReleased(held, r.qty) > 0
    OBVIOUS
  <1> HIDE DEF step, pn
  <1>5. /\ threads'[t].step = step /\ threads'[t].oid = o /\ threads'[t].row = r
        /\ threads'[t].held = held /\ threads'[t].pnl = pn
    <2> HIDE DEF r, held
    <2> QED
      BY <1>1, <1>3 DEF TypeInv, TypeOK, ThreadState, pn
  <1>6. Course(t)'
    BY <1>1, <1>4, <1>5 DEF Busy, Course, Open
  <1>7. Money(t)'
    BY <1>1, <1>4, <1>5 DEF Busy, Money
  <1>8. ASSUME NothingRoundedAway
        PROVE  Profit(t)'
    <2>1. /\ \A b \in Books : Covered(positions[b])
          /\ Covers(r, held.qty) /\ funds.realized = Profits(positions) + Owed(t)
      BY <1>1, <1>8 DEF Busy, Profit, OfOrder
    <2>2. OfOrder(t)' = r
      BY <1>1, <1>4, <1>5 DEF OfOrder
    <2>3. MarginReleased(held, r.qty) = 0 => pn = 0
      <3>1. Covered(held)
        BY <1>2, <2>1 DEF OrderRow
      <3>2. Realizes(held, r.qty) => MarginReleased(held, r.qty) > 0
        BY <1>2, <3>1, SomethingReleased
      <3> QED
        BY <1>4, <3>2
    <2>4. Owed(t) = 0 /\ Owed(t)' = 0
      BY <1>1, <1>4, <1>5 DEF Owed
    <2> HIDE DEF r, held
    <2>5. positions'[r.book] = held
      BY <1>1 DEF held, r
    <2> QED
      BY <1>1, <1>4, <1>5, <2>1, <2>2, <2>3, <2>4, <2>5 DEF Profit
  <1> QED
    BY <1>4, <1>5, <1>6, <1>7, <1>8 DEF Accounted, Busy, NothingRoundedAway

\* Margin is released; on a reduction the position has its profit by now.
LEMMA MarketReleased ==
    ASSUME LoneInv, NEW t \in Threads, Busy(t), ReleaseMarginStep(t)
    PROVE  Accounted(t)'
  <1> DEFINE th   == threads[t]
             o    == th.oid
             r    == th.row
             b    == r.book
             held == th.held
             released == MarginReleased(held, r.qty)
  <1>1. /\ th.step = "release" /\ UNCHANGED orders
        /\ TypeInv /\ th \in ThreadState /\ positions \in [Books -> PositionRow]
        /\ funds \in FundsRow /\ Current(t)
    BY DEF ReleaseMarginStep, At, LoneInv, Lone, StatusInv, TypeInv, TypeOK
  <1>2. /\ r = orders[o] /\ r \in OrderRow /\ r.qty # 0 /\ r.qty \in Int /\ b \in Books
        /\ held = positions[b] /\ held \in PositionRow /\ th.pnl \in Int
    BY <1>1, RunsSized DEF OrderRow, Current, ThreadState
  <1>3. /\ threads'[t].step = "apply" /\ threads'[t].oid = o /\ threads'[t].row = r
        /\ threads'[t].held = held /\ threads'[t].pnl = th.pnl
    BY <1>1 DEF ReleaseMarginStep, Goto, TypeInv, TypeOK, ThreadState
  <1>4. /\ funds' = ReleaseMargin(funds, released, th.pnl)
        /\ positions' = IF Reduces(held, r.qty)
                        THEN [positions EXCEPT ![b].realized = held.realized + th.pnl]
                        ELSE positions
    BY DEF ReleaseMarginStep
  <1>5. released \in 0 .. held.margin /\ held.margin \in Nat /\ held.realized \in Int
    BY <1>2, MarginReleasedBound DEF PositionRow
  <1>6. Course(t)'
    BY <1>1, <1>3 DEF Busy, Course, Open
  <1>7. Money(t)'
    <2>1. funds.used >= TotalMargin(positions) /\ funds.used >= 0
      BY <1>1 DEF Busy, Money
    <2>2. funds.used \in Int /\ TotalMargin(positions) \in Nat
      BY <1>1, SumsAreNumbers DEF FundsRow
    <2>3. funds'.used = funds.used - released
      BY <1>4 DEF ReleaseMargin
    <2>4. CASE held.qty = 0
      <3>1. released = 0
        BY <2>4 DEF MarginReleased, Realizes, Closes, Reduces, Opposite
      <3> QED
        BY <1>3, <2>1, <2>2, <2>3, <3>1 DEF Money
    <2>5. CASE held.qty # 0
      <3>1. held.margin <= TotalMargin(positions)
        BY <1>1, <1>2, <2>5, MarginInTotal
      <3> HIDE DEF released, held
      <3>2. funds'.used >= 0
        BY <1>5, <2>1, <2>2, <2>3, <3>1
      <3> QED
        BY <1>3, <3>2 DEF Money
    <2> QED
      BY <2>4, <2>5
  <1>8. ASSUME NothingRoundedAway
        PROVE  Profit(t)'
    <2>1. /\ \A c \in Books : Covered(positions[c])
          /\ Covers(r, held.qty) /\ funds.realized = Profits(positions) + Owed(t)
          /\ released > 0
      BY <1>1, <1>2, <1>8 DEF Busy, Profit, OfOrder
    <2>2. Owed(t) = 0 /\ funds'.realized = funds.realized + th.pnl
      BY <1>1, <1>4 DEF Owed, ReleaseMargin
    <2>3. /\ \A c \in Books : positions'[c].qty = positions[c].qty
                               /\ positions'[c].margin = positions[c].margin
          /\ Reduces(held, r.qty) => positions'[b].realized = held.realized + th.pnl
          /\ \A c \in Books \ {b} : positions'[c] = positions[c]
      <3>1. CASE Reduces(held, r.qty)
        <4> DEFINE new == held.realized + th.pnl
        <4> HIDE DEF new
        <4>1. positions' = [positions EXCEPT ![b].realized = new]
          BY <1>4, <3>1 DEF new
        <4>2. \A c \in Books : positions[c] \in PositionRow
          BY <1>1
        <4>3. positions'[b] = [positions[b] EXCEPT !.realized = new]
              /\ \A c \in Books \ {b} : positions'[c] = positions[c]
          BY <1>1, <1>2, <4>1
        <4>4. /\ positions'[b].realized = new /\ positions'[b].qty = positions[b].qty
              /\ positions'[b].margin = positions[b].margin
          BY <1>2, <4>2, <4>3 DEF PositionRow
        <4> QED
          BY <4>3, <4>4 DEF new
      <3>2. CASE ~Reduces(held, r.qty)
        BY <1>4, <3>2
      <3> QED
        BY <3>1, <3>2
    <2>4. Profits(positions') + Owed(t)' = Profits(positions) + th.pnl
      <3>1. Profits(positions) \in Int /\ positions' \in [Books -> PositionRow]
        <4>1. TypeInv'
          BY <1>1, TypeInvNext DEF Next, Continue
        <4> QED
          BY <1>1, <4>1, SumsAreNumbers DEF TypeInv, TypeOK
      <3>2. CASE Reduces(held, r.qty)
        <4>1. Owed(t)' = 0
          BY <1>2, <1>3, <3>2 DEF Owed, Reduces, Closes
        <4>2. Profits(positions') = Profits(positions) + positions'[b].realized - positions[b].realized
          BY <1>1, <1>2, <2>3, <3>1, ProfitsMove
        <4>3. positions'[b].realized = held.realized + th.pnl /\ positions[b].realized = held.realized
          BY <1>2, <2>3, <3>2
        <4>4. Profits(positions') = Profits(positions) + (held.realized + th.pnl) - held.realized
          BY <4>2, <4>3
        <4>5. held.realized \in Int /\ th.pnl \in Int
          BY <1>2, <1>5
        <4> HIDE DEF held, th
        <4> QED
          BY <3>1, <4>1, <4>4, <4>5
      <3>3. CASE ~Reduces(held, r.qty)
        <4>1. Closes(held, r.qty)
          BY <2>1, <3>3 DEF MarginReleased, Realizes
        <4>2. Owed(t)' = th.pnl
          BY <1>3, <2>1, <4>1 DEF Owed
        <4> QED
          BY <1>4, <3>3, <4>2
      <3> QED
        BY <3>2, <3>3
    <2>5. OfOrder(t)' = r
      BY <1>1, <1>2, <1>3 DEF OfOrder
    <2>6. \A c \in Books : Covered(positions'[c])
      BY <2>1, <2>3 DEF Covered
    <2>7. /\ positions'[b].qty = held.qty /\ positions'[b].margin = held.margin
          /\ funds'.realized = Profits(positions') + Owed(t)'
      <3>1. Profits(positions) \in Int
        BY <1>1, SumsAreNumbers
      <3>2. held.qty = positions[b].qty /\ held.margin = positions[b].margin
        BY <1>2
      <3>3. funds.realized = Profits(positions)
        BY <2>1, <2>2, <3>1
      <3> QED
        BY <1>2, <2>2, <2>3, <2>4, <3>2, <3>3
    <2> HIDE DEF released, held
    <2>8. released # 0 /\ released = MarginReleased(held, r.qty)
      BY <2>1 DEF released
    <2> QED
      BY <1>3, <2>1, <2>5, <2>6, <2>7, <2>8 DEF Profit
  <1> QED
    BY <1>3, <1>6, <1>7, <1>8 DEF Accounted, Busy, NothingRoundedAway

\* The netted position is committed: covered, with the profit of the fill.
LEMMA MarketApplied ==
    ASSUME LoneInv, NEW t \in Threads, Busy(t), ApplyPosition(t)
    PROVE  Accounted(t)'
  <1> DEFINE th   == threads[t]
             r    == th.row
             b    == r.book
             held == th.held
             released == MarginReleased(held, r.qty)
             margin   == MarginCommitted(positions[b].margin, held, r.qty, r.margin)
             realized == RealizedAfter(positions[b].realized, held, r.qty, th.pnl)
  <1>1. /\ th.step = "apply" /\ UNCHANGED <<funds, orders>>
        /\ TypeInv /\ th \in ThreadState /\ positions \in [Books -> PositionRow]
        /\ funds \in FundsRow /\ Current(t)
    BY DEF ApplyPosition, At, LoneInv, Lone, StatusInv, TypeInv, TypeOK
  <1>2. /\ r = orders[th.oid] /\ r \in OrderRow /\ r.qty # 0 /\ r.qty \in Int /\ b \in Books
        /\ held.qty = positions[b].qty /\ held \in PositionRow /\ th.pnl \in Int
        /\ positions[b] \in PositionRow
    BY <1>1, RunsSized DEF OrderRow, Current, ThreadState
  <1>3. threads'[t].step = "sum"
    BY <1>1 DEF ApplyPosition, Goto, TypeInv, TypeOK, ThreadState
  <1>4. positions' = [positions EXCEPT ![b] =
          [live |-> TRUE, qty |-> held.qty + r.qty, margin |-> margin, realized |-> realized]]
    BY DEF ApplyPosition
  <1>5. Course(t)'
    BY <1>1, <1>3 DEF Busy, Course, Open
  <1>6. Money(t)'
    BY <1>1, <1>3 DEF Busy, Money
  <1>7. ASSUME NothingRoundedAway
        PROVE  Profit(t)'
    <2>1. /\ \A c \in Books : Covered(positions[c])
          /\ Covers(r, held.qty) /\ funds.realized = Profits(positions) + Owed(t)
          /\ held.margin = positions[b].margin /\ (released = 0 => th.pnl = 0)
      BY <1>1, <1>2, <1>7 DEF Busy, Profit, OfOrder
    <2>2. released \in Nat
      <3>1. released \in 0 .. held.margin /\ held.margin \in Nat
        BY <1>2, MarginReleasedBound DEF PositionRow
      <3> HIDE DEF released, held
      <3> QED
        BY <3>1
    <2>3. margin = MarginAfter(held, r.qty, r.margin)
      BY <2>1 DEF MarginCommitted
    <2>4. realized = positions[b].realized + Owed(t) /\ Owed(t) \in Int
      <3>1. positions[b].realized \in Int
        BY <1>2 DEF PositionRow
      <3>2. realized = positions[b].realized
                         + (IF released > 0 /\ Closes(held, r.qty) THEN th.pnl ELSE 0)
        <4>1. realized = IF released > 0
                           THEN IF Closes(held, r.qty) THEN positions[b].realized + th.pnl
                                ELSE positions[b].realized
                           ELSE IF th.pnl = 0 THEN positions[b].realized
                                ELSE held.realized + th.pnl
          BY DEF RealizedAfter
        <4>2. released = 0 => th.pnl = 0
          BY <2>1
        <4> DEFINE now == positions[b].realized
                   pnl == th.pnl
        <4>3. now \in Int /\ pnl \in Int
          BY <1>2, <3>1
        <4> HIDE DEF realized, released, held, now, pnl
        <4>4. CASE released > 0
          BY <4>1, <4>3, <4>4 DEF now, pnl
        <4>5. CASE released = 0
          <5>1. realized = now
            BY <4>1, <4>2, <4>5 DEF now
          <5> QED
            BY <4>3, <4>5, <5>1 DEF now
        <4> QED
          BY <2>2, <4>4, <4>5
      <3>3. Owed(t) = IF released > 0 /\ Closes(held, r.qty) THEN th.pnl ELSE 0
        BY <1>1 DEF Owed
      <3> QED
        BY <1>2, <3>2, <3>3
    <2> HIDE DEF margin, realized, released
    <2>5. /\ positions'[b].qty = held.qty + r.qty /\ positions'[b].margin = margin
          /\ positions'[b].realized = realized
          /\ \A c \in Books \ {b} : positions'[c] = positions[c]
      BY <1>1, <1>2, <1>4
    <2>6. \A c \in Books : Covered(positions'[c])
      <3>1. ASSUME held.qty + r.qty # 0
            PROVE  margin >= Size(held.qty + r.qty)
        <4>1. Covered(held)
          BY <1>2, <2>1 DEF Covered
        <4> HIDE DEF held, r
        <4> QED
          BY <1>2, <2>1, <2>3, <3>1, <4>1, StaysCovered
      <3>2. Covered(positions'[b])
        BY <2>5, <3>1 DEF Covered
      <3> QED
        BY <2>1, <2>5, <3>2
    <2>7. funds'.realized = Profits(positions')
      <3>1. Profits(positions) \in Int /\ positions' \in [Books -> PositionRow]
        <4>1. TypeInv'
          BY <1>1, TypeInvNext DEF Next, Continue
        <4> QED
          BY <1>1, <4>1, SumsAreNumbers DEF TypeInv, TypeOK
      <3>2. Profits(positions') = Profits(positions) + realized - positions[b].realized
        <4>1. Profits(positions') = Profits(positions) + positions'[b].realized - positions[b].realized
          BY <1>1, <1>2, <2>5, <3>1, ProfitsMove
        <4> QED
          BY <2>5, <4>1
      <3>3. positions[b].realized \in Int
        BY <1>2 DEF PositionRow
      <3> QED
        BY <1>1, <2>1, <2>4, <3>1, <3>2, <3>3
    <2>8. Owed(t)' = 0
      BY <1>3 DEF Owed
    <2>9. Profits(positions') \in Int
      <3>1. TypeInv'
        BY <1>1, TypeInvNext DEF Next, Continue
      <3>2. positions' \in [Books -> PositionRow]
        BY <3>1 DEF TypeInv, TypeOK
      <3> QED
        BY <3>2, SumsAreNumbers
    <2> QED
      BY <1>3, <2>6, <2>7, <2>8, <2>9 DEF Profit
  <1> QED
    BY <1>3, <1>5, <1>6, <1>7 DEF Accounted, Busy, NothingRoundedAway

\* Reconciliation sets the margin used to the total, and the request returns.
LEMMA MarketClosed ==
    ASSUME LoneInv, NEW t \in Threads, Busy(t),
           SumPositions(t) \/ ReadFunds(t) \/ Reconcile(t) \/ Finish(t)
    PROVE  Accounted(t)'
  <1> DEFINE th == threads[t]
  <1>1. /\ TypeInv /\ th \in ThreadState /\ positions \in [Books -> PositionRow]
        /\ funds \in FundsRow /\ t \in ApiThreads
    BY DEF LoneInv, StatusInv, TypeInv, TypeOK, Busy, Course
  <1>2. /\ th.step \in {"sum", "read", "reconcile", "finish"}
        /\ UNCHANGED <<orders, positions>>
    BY DEF SumPositions, ReadFunds, Reconcile, Finish, At, tables
  <1>3. \A o \in OrderIds : ~Open(o)
    BY <1>2 DEF Busy, Course
  <1>4. TotalMargin(positions) \in Nat
    BY <1>1, SumsAreNumbers
  <1>5. ASSUME threads'[t].step \in {"read", "reconcile", "finish"}, Money(t)',
               funds'.realized = funds.realized
        PROVE  Accounted(t)'
    <2>1. Course(t)'
      BY <1>1, <1>2, <1>3, <1>5 DEF Course, Open
    <2>2. Owed(t) = 0 /\ Owed(t)' = 0
      BY <1>2, <1>5 DEF Owed
    <2>3. ASSUME NothingRoundedAway
          PROVE  Profit(t)'
      BY <1>2, <1>5, <2>2, <2>3 DEF Busy, Profit
    <2> QED
      BY <1>5, <2>1, <2>3 DEF Accounted, Busy, NothingRoundedAway
  <1>6. CASE SumPositions(t)
    <2> DEFINE total == TotalMargin(positions)
    <2>1. threads' = [threads EXCEPT ![t].total = total, ![t].step = "read"] /\ UNCHANGED funds
      BY <1>6 DEF SumPositions, tables
    <2> HIDE DEF total
    <2>2. threads'[t].step = "read" /\ threads'[t].total = total
      BY <1>1, <2>1 DEF TypeInv, TypeOK, ThreadState
    <2>3. Money(t)'
      BY <1>2, <2>1, <2>2 DEF Busy, Money, total
    <2> QED
      BY <1>5, <2>1, <2>2, <2>3
  <1>7. CASE ReadFunds(t)
    <2> DEFINE step == IF funds.used = th.total THEN "finish" ELSE "reconcile"
    <2>1. threads' = [threads EXCEPT ![t].seen = funds, ![t].step = step] /\ UNCHANGED funds
      BY <1>7 DEF ReadFunds, tables
    <2>2. /\ step \in {"finish", "reconcile"} /\ th.step = "read"
          /\ step = "finish" => funds.used = th.total
      BY <1>7 DEF ReadFunds, At
    <2> HIDE DEF step
    <2>3. threads'[t].step = step /\ threads'[t].total = th.total
      BY <1>1, <2>1 DEF TypeInv, TypeOK, ThreadState
    <2>4. Money(t)'
      BY <1>2, <2>1, <2>2, <2>3 DEF Busy, Money
    <2> QED
      BY <1>5, <2>1, <2>2, <2>3, <2>4
  <1>8. CASE Reconcile(t)
    <2>1. th.step = "reconcile" /\ funds' = ReconcileMargin(funds, th.seen, th.total)
      BY <1>8 DEF Reconcile, At
    <2>2. funds'.used = th.total /\ funds'.realized = funds.realized
      BY <1>1, <2>1 DEF ReconcileMargin, FundsRow
    <2>3. threads'[t].step = "finish" /\ threads'[t].total = th.total
      BY <1>1, <1>8 DEF Reconcile, Goto, TypeInv, TypeOK, ThreadState
    <2>4. th.total = TotalMargin(positions)
      BY <2>1 DEF Busy, Money
    <2>5. Money(t)'
      BY <1>2, <1>4, <2>2, <2>3, <2>4 DEF Money
    <2> QED
      BY <1>5, <2>2, <2>3, <2>5
  <1>9. CASE Finish(t)
    <2>1. th.step = "finish" /\ Become(t, Idle) /\ UNCHANGED funds
      BY <1>1, <1>9, AccountAssumption DEF Finish, At, tables
    <2>2. threads'[t] = Idle
      BY <1>1, <2>1 DEF Become, TypeInv, TypeOK
    <2> QED
      BY <1>1, <1>2, <2>1, <2>2, MarketDone DEF Open
  <1> QED
    BY <1>6, <1>7, <1>8, <1>9

\* A thread starts what threads of its kind start.
Begins(t) ==
    \/ t \in ApiThreads /\ Request(t)
    \/ t \in WsThreads /\ Tick(t)
    \/ t \in PollThreads /\ PollPass(t)

\* What a lone market thread may do: the other steps are not on its course.
LEMMA MarketSteps ==
    ASSUME MarketOnly, LoneInv, NEW t \in Threads, Accounted(t), Begins(t) \/ Proceeds(t)
    PROVE  Accounted(t)'
  <1>1. TypeInv /\ Current(t) /\ faults = 0
    BY DEF LoneInv, StatusInv, Lone, TypeInv, TypeOK, MarketOnly
  <1>2. CASE Begins(t)
    BY <1>2, MarketStarts DEF Begins
  <1>3. CASE Proceeds(t)
    <2>1. threads[t].step # "idle"
      BY <1>1, <1>3, ProceedMoves
    <2>2. Busy(t)
      BY <2>1 DEF Accounted
    <2>3. ~CommitFails(t) /\ ~ReleaseFails(t)
      BY <1>1 DEF CommitFails, ReleaseFails, MarketOnly
    <2>4. ~PollOrder(t) /\ ~CancelOrder(t) /\ ~ModifyOrder(t) /\ ~ResetFunds(t) /\ ~WipePositions(t)
      BY <2>2 DEF Busy, Course, PollOrder, CancelOrder, ModifyOrder, ResetFunds,
                  WipePositions, At
    <2>5. ~LosePosition(t)
      BY <1>1 DEF LosePosition, At, Current
    <2>6. CASE BlockMarginStep(t) \/ InsertOrder(t) \/ InsertRejected(t)
      BY <2>2, <2>6, MarketPlaced
    <2>7. CASE LoadOrder(t) \/ CheckTrade(t) \/ ExecuteOrder(t)
      BY <2>2, <2>7, MarketTraded
    <2>8. CASE ReadPosition(t) \/ ReleaseMarginStep(t) \/ ApplyPosition(t)
      BY <2>2, <2>8, MarketRead, MarketReleased, MarketApplied
    <2>9. CASE SumPositions(t) \/ ReadFunds(t) \/ Reconcile(t) \/ Finish(t)
      BY <2>2, <2>9, MarketClosed
    <2> QED
      BY <1>3, <2>3, <2>4, <2>5, <2>6, <2>7, <2>8, <2>9 DEF Proceeds, Continue
  <1> QED
    BY <1>2, <1>3

\* The account is calm when nobody is busy; a busy thread is on its course.
MarketInv ==
    /\ LoneInv
    /\ Quiescent => Calm
    /\ \A t \in Threads : threads[t].step # "idle" => Busy(t)

LEMMA MarketInvInit == ASSUME Init PROVE MarketInv
  <1>1. LoneInv
    BY LoneInvInit
  <1>2. positions = [b \in Books |-> NoPosition] /\ funds.used = 0 /\ funds.realized = 0
        /\ positions \in [Books -> PositionRow]
    BY RowTypes DEF Init, InitialFunds
  <1>3. TotalMargin(positions) = 0
    <2>1. {c \in Books : positions[c].qty # 0} = {}
      BY <1>2 DEF NoPosition
    <2>2. UNION {MarginUnits(positions, b) : b \in {c \in Books : positions[c].qty # 0}} = {}
      BY <2>1
    <2> QED
      BY <2>2, FS_EmptySet DEF TotalMargin
  <1>4. Profits(positions) = 0
    <2> DEFINE f == [b \in Books |-> positions[b].realized]
    <2>1. f \in [Books -> Int] /\ \A b \in Books : f[b] = 0
      BY <1>2 DEF NoPosition
    <2>2. SumOf(f) = 0
      <3> HIDE DEF f
      <3> QED
        BY <2>1, AccountAssumption, SumZero
    <2> QED
      BY <2>2 DEF Profits
  <1>5. \A b \in Books : Covered(positions[b])
    BY <1>2 DEF Covered, NoPosition
  <1>6. \A o \in OrderIds : ~Open(o)
    BY DEF Init, Open, NoRow
  <1>7. Calm
    BY <1>2, <1>3, <1>4, <1>5, <1>6 DEF Calm
  <1>8. \A t \in Threads : threads[t].step = "idle"
    BY DEF Init, Idle
  <1> QED
    BY <1>1, <1>7, <1>8 DEF MarketInv

LEMMA MarketInvNext ==
    ASSUME MarketOnly, MarketInv, [Next]_vars
    PROVE  MarketInv'
  <1>1. LoneInv /\ LoneInv' /\ TypeInv /\ OneAtATime
    BY LoneInvNext DEF MarketInv, MarketOnly, LoneInv, StatusInv
  <1>2. CASE UNCHANGED vars
    BY <1>1, <1>2
       DEF MarketInv, vars, tables, Quiescent, At, Calm, Busy, Course, Money, Profit, OfOrder,
           Owed, Open, NothingRoundedAway
  <1>3. ~Crash
    BY <1>1 DEF Crash, MarketOnly, TypeInv, TypeOK
  <1>4. ASSUME NEW t \in Threads, Begins(t) \/ Proceeds(t)
        PROVE  MarketInv'
    <2>1. /\ \A u \in Threads \ {t} : threads[u].step = "idle" /\ threads'[u] = threads[u]
          /\ threads[t].step = "idle" => Quiescent
      <3>1. CASE Begins(t)
        BY <1>1, <3>1, StartMoves
           DEF Begins, Starts, MayStart, At, Frame, Quiescent, MarketOnly
      <3>2. CASE Proceeds(t)
        BY <1>1, <3>2, ProceedMoves DEF OneAtATime, Frame
      <3> QED
        BY <1>4, <3>1, <3>2
    <2>2. Accounted(t)
      BY <2>1 DEF MarketInv, Accounted
    <2>3. Accounted(t)'
      BY <1>1, <1>4, <2>2, MarketSteps
    <2>4. (Quiescent => Calm)'
      BY <2>3 DEF Accounted, Quiescent, At
    <2>5. \A u \in Threads : (threads[u].step # "idle")' => Busy(u)'
      BY <2>1, <2>3 DEF Accounted
    <2> QED
      BY <1>1, <2>4, <2>5 DEF MarketInv
  <1>5. CASE Next
    BY <1>3, <1>4, <1>5 DEF Next, Begins, Proceeds, Threads
  <1> QED
    BY <1>2, <1>5

\* The profits of the books, as the property adds them up.
LEMMA ProfitsAdded ==
    MapThenSumSet(LAMBDA b : positions[b].realized, Books) = Profits(positions)
  <1>1. \A s \in SUBSET Books : s # {} => First(s) \in s
    BY FirstIn
  <1> QED
    BY <1>1 DEF Profits, MapThenSumSet, MapThenFoldSet, First, SumOf, Sums, Step

\* Orders placed and positions closed at the market, one after the other: when
\* a request has returned, the margin used is that of the open positions.
THEOREM MarketMargins == MarketOnly => (Spec => []MarginAccounted)
  <1> SUFFICES ASSUME MarketOnly PROVE Spec => []MarginAccounted
    OBVIOUS
  <1>1. Init => MarketInv
    BY MarketInvInit
  <1>2. MarketInv /\ [Next]_vars => MarketInv'
    BY MarketInvNext
  <1>3. MarketInv => MarginAccounted
    <2> SUFFICES ASSUME MarketInv, Quiescent
                 PROVE  funds.used = TotalMargin(positions)
                          + MapThenSumSet(LAMBDA o : orders[o].margin,
                                          {o \in OrderIds : Open(o)})
      BY DEF MarginAccounted
    <2>1. funds.used = TotalMargin(positions) /\ {o \in OrderIds : Open(o)} = {}
      BY DEF MarketInv, Calm
    <2>2. MapThenSumSet(LAMBDA o : orders[o].margin, {}) = 0
      BY DEF MapThenSumSet, MapThenFoldSet
    <2>3. TotalMargin(positions) \in Nat
      BY SumsAreNumbers DEF MarketInv, LoneInv, StatusInv, TypeInv, TypeOK
    <2> QED
      BY <2>1, <2>2, <2>3
  <1> QED
    BY <1>1, <1>2, <1>3, PTL DEF Spec

\* ... and no release on the way takes more than is blocked.
THEOREM MarketReleases == MarketOnly => (Spec => []UsedNotNegative)
  <1> SUFFICES ASSUME MarketOnly PROVE Spec => []UsedNotNegative
    OBVIOUS
  <1>1. Init => MarketInv
    BY MarketInvInit
  <1>2. MarketInv /\ [Next]_vars => MarketInv'
    BY MarketInvNext
  <1>3. MarketInv => UsedNotNegative
    <2> SUFFICES ASSUME MarketInv PROVE funds.used >= 0
      BY DEF UsedNotNegative
    <2>1. TotalMargin(positions) \in Nat
      BY SumsAreNumbers DEF MarketInv, LoneInv, StatusInv, TypeInv, TypeOK
    <2>2. CASE Quiescent
      BY <2>1, <2>2 DEF MarketInv, Calm
    <2>3. CASE ~Quiescent
      BY <2>3 DEF MarketInv, Quiescent, At, Busy, Money
    <2> QED
      BY <2>2, <2>3
  <1> QED
    BY <1>1, <1>2, <1>3, PTL DEF Spec

\* ... and the profit booked on the funds row is that of the positions, when
\* no share of a margin is rounded to nothing.
THEOREM MarketProfits == MarketOnly /\ NothingRoundedAway => (Spec => []RealizedIsSum)
  <1> SUFFICES ASSUME MarketOnly, NothingRoundedAway PROVE Spec => []RealizedIsSum
    OBVIOUS
  <1>1. Init => MarketInv
    BY MarketInvInit
  <1>2. MarketInv /\ [Next]_vars => MarketInv'
    BY MarketInvNext
  <1>3. MarketInv => RealizedIsSum
    BY ProfitsAdded DEF MarketInv, Calm, RealizedIsSum
  <1> QED
    BY <1>1, <1>2, <1>3, PTL DEF Spec
=============================================================================
