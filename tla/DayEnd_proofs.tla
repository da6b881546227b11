--------------------------- MODULE DayEnd_proofs ---------------------------
(***************************************************************************)
(* Theorems about DayEnd, for every number of books, orders, crashes and   *)
(* days.                                                                   *)
(***************************************************************************)
EXTENDS DayEnd, SetInduction

-----------------------------------------------------------------------------
(* The margin of an order and of a position *)

\* The size of an integer is a natural number.
LEMMA SizeType == ASSUME NEW q \in Int PROVE Size(q) \in Nat /\ (q # 0 => Size(q) > 0)
  BY DEF Size

\* A share of a margin is at most the margin.
LEMMA ShareBound ==
    ASSUME NEW m \in Nat, NEW part \in Nat, NEW whole \in Nat, whole > 0, part <= whole
    PROVE  (m * part) \div whole \in 0 .. m
  <1>1. m * part \in Nat /\ m * part <= m * whole
    OBVIOUS
  <1>2. (m * part) \div whole \in Int
    BY <1>1
  <1> QED
    BY <1>1, <1>2

\* A fill releases no more than the margin of the position.
LEMMA ReleasedBound ==
    ASSUME NEW pos \in PositionRow, NEW q \in Int
    PROVE  MarginReleased(pos, q) \in 0 .. pos.margin
  <1>1. pos.margin \in Nat /\ pos.qty \in Int
    BY DEF PositionRow
  <1>2. CASE ~Realizes(pos, q)
    BY <1>1, <1>2 DEF MarginReleased
  <1>3. CASE Realizes(pos, q)
    <2>1. pos.qty # 0
      BY <1>1, <1>3 DEF Realizes, Closes, Reduces, Opposite
    <2>2. Size(pos.qty) \in Nat /\ Size(pos.qty) > 0 /\ Size(q) \in Nat
      BY <1>1, <2>1, SizeType
    <2>3. Smaller(Size(pos.qty), Size(q)) \in Nat
          /\ Smaller(Size(pos.qty), Size(q)) <= Size(pos.qty)
      BY <2>2 DEF Smaller
    <2> QED
      BY <1>1, <1>3, <2>2, <2>3, ShareBound DEF MarginReleased
  <1> QED
    BY <1>2, <1>3

\* The margin of a position after a fill is an amount.
LEMMA AfterType ==
    ASSUME NEW pos \in PositionRow, NEW q \in Int, NEW m \in Nat
    PROVE  MarginAfter(pos, q, m) \in Nat
  <1>1. pos.margin \in Nat /\ pos.qty \in Int
    BY DEF PositionRow
  <1>2. pos.margin - MarginReleased(pos, q) \in Nat
    BY <1>1, ReleasedBound
  <1>3. ASSUME Reverses(pos, q)
        PROVE  (m * (Size(q) - Size(pos.qty))) \div Size(q) \in Nat
    <2>1. Size(q) \in Nat /\ Size(pos.qty) \in Nat /\ Size(q) > Size(pos.qty)
      BY <1>1, <1>3, SizeType DEF Reverses
    <2>2. Size(q) - Size(pos.qty) \in Nat /\ Size(q) > 0
      BY <2>1
    <2> QED
      BY <2>1, <2>2, ShareBound
  <1> QED
    BY <1>1, <1>2, <1>3 DEF MarginAfter

\* The margin of an order is an amount.
LEMMA OrderMarginType ==
    ASSUME NEW b, NEW held \in Int, NEW q \in Int
    PROVE  OrderMargin(b, held, q) \in Nat
  <1>1. Size(held) \in Nat /\ Size(q) \in Nat
    BY SizeType
  <1>2. ASSUME Size(q) > Size(held)
        PROVE  Size(Size(q) - Size(held)) = Size(q) - Size(held)
    BY <1>1, <1>2 DEF Size
  <1> QED
    BY <1>1, <1>2 DEF OrderMargin, MarginToBlock, MarginRequired

-----------------------------------------------------------------------------
(* Sums over the positions *)

Margins(table) == [b \in Books |-> table[b].margin]
Profits(table) == [b \in Books |-> table[b].realized]

LEMMA Finite == IsFiniteSet(Books) /\ IsFiniteSet(CncBooks)
  <1>1. IsFiniteSet(Books) /\ CncBooks \subseteq Books
    BY DayEndAssumption DEF Books
  <1> QED
    BY <1>1, FS_Subset

\* The folds of the model are sums of the columns.
LEMMA ColumnSums ==
    ASSUME NEW table
    PROVE  /\ TotalMargin(table) = SumOf(Margins(table))
           /\ FoldFunction(+, 0, [b \in Books |-> table[b].realized]) = SumOf(Profits(table))
           /\ FoldFunction(+, 0, holdings) = SumOf(holdings)
  BY FoldIsSum DEF TotalMargin, Margins, Profits

LEMMA ColumnTypes ==
    ASSUME NEW table \in [Books -> PositionRow]
    PROVE  /\ Margins(table) \in [Books -> Nat] /\ Margins(table) \in [Books -> Int]
           /\ Profits(table) \in [Books -> Int]
           /\ SumOf(Margins(table)) \in Nat /\ SumOf(Profits(table)) \in Int
           /\ \A b \in Books : table[b].margin <= SumOf(Margins(table))
  <1>1. /\ Margins(table) \in [Books -> Nat] /\ Margins(table) \in [Books -> Int]
        /\ Profits(table) \in [Books -> Int]
    BY DEF Margins, Profits, PositionRow
  <1>2. SumOf(Margins(table)) \in Nat /\ \A b \in Books : Margins(table)[b] <= SumOf(Margins(table))
    BY <1>1, Finite, SumNat
  <1>3. SumOf(Profits(table)) \in Int
    BY <1>1, Finite, SumType
  <1> QED
    BY <1>1, <1>2, <1>3 DEF Margins

\* When one row changes, the sums change as it does.
LEMMA ColumnUpdate ==
    ASSUME NEW table \in [Books -> PositionRow], NEW after \in [Books -> PositionRow],
           NEW b \in Books, \A c \in Books \ {b} : after[c] = table[c]
    PROVE  /\ SumOf(Margins(after)) = SumOf(Margins(table)) + after[b].margin - table[b].margin
           /\ SumOf(Profits(after)) = SumOf(Profits(table)) + after[b].realized - table[b].realized
  <1>1. /\ Margins(table) \in [Books -> Int] /\ Margins(after) \in [Books -> Int]
        /\ Profits(table) \in [Books -> Int] /\ Profits(after) \in [Books -> Int]
    BY ColumnTypes
  <1>2. /\ \A c \in Books \ {b} : Margins(after)[c] = Margins(table)[c]
        /\ \A c \in Books \ {b} : Profits(after)[c] = Profits(table)[c]
        /\ Margins(after)[b] = after[b].margin /\ Margins(table)[b] = table[b].margin
        /\ Profits(after)[b] = after[b].realized /\ Profits(table)[b] = table[b].realized
    BY DEF Margins, Profits
  <1>3. SumOf(Margins(after)) = SumOf(Margins(table)) + Margins(after)[b] - Margins(table)[b]
    BY <1>1, <1>2, Finite, SumUpdate
  <1>4. SumOf(Profits(after)) = SumOf(Profits(table)) + Profits(after)[b] - Profits(table)[b]
    BY <1>1, <1>2, Finite, SumUpdate
  <1> QED
    BY <1>2, <1>3, <1>4

-----------------------------------------------------------------------------
(* Type correctness *)

\* A job at work on a position works on one of the kind it is for.
WorkOK ==
    \A j \in Jobs :
        /\ jobs[j].task \in {"check", "fill"} => jobs[j].book \in MisBooks
        /\ jobs[j].task = "released" => jobs[j].book \in FoBooks

TypeInv == TypeOK /\ WorkOK

\* The rows the positions and the jobs start from have their types.
LEMMA RowTypes ==
    /\ NoPosition \in PositionRow /\ InitialFunds \in FundsRow
    /\ Idle \in JobRecord
    /\ Idle.task = "idle" /\ Idle.gone = {} /\ Idle.todo = {} /\ ~Idle.fresh
    /\ \A b \in Books : Idle.seen[b] = NoPosition
  <1>1. NoPosition \in PositionRow
    BY DEF NoPosition, PositionRow
  <1>2. InitialFunds \in FundsRow
    BY CapitalAssumption DEF InitialFunds, FundsRow
  <1> QED
    BY <1>1, <1>2 DEF Idle, JobRecord, Tasks

\* What a job becomes, when it is the only one to change.
Becomes(j, record) == jobs' = [jobs EXCEPT ![j] = record]

LEMMA BecomesType ==
    ASSUME TypeInv, NEW j \in Jobs, NEW record \in JobRecord, Becomes(j, record),
           record.task \in {"check", "fill"} => record.book \in MisBooks,
           record.task = "released" => record.book \in FoBooks
    PROVE  /\ jobs' \in [Jobs -> JobRecord] /\ WorkOK'
           /\ jobs'[j] = record /\ \A i \in Jobs \ {j} : jobs'[i] = jobs[i]
  <1>1. jobs \in [Jobs -> JobRecord]
    BY DEF TypeInv, TypeOK
  <1>2. /\ jobs' \in [Jobs -> JobRecord]
        /\ jobs'[j] = record /\ \A i \in Jobs \ {j} : jobs'[i] = jobs[i]
    BY <1>1 DEF Becomes
  <1> QED
    BY <1>2 DEF TypeInv, WorkOK

\* The row a job sees is a row.
LEMMA RowType ==
    ASSUME TypeInv, NEW j \in Jobs, NEW b \in Books
    PROVE  Row(j, b) \in PositionRow
  BY DEF TypeInv, TypeOK, JobRecord, Row

\* The steps of a job, by what becomes of its record.
LEMMA BeginIs ==
    ASSUME TypeInv, NEW j \in Jobs, NEW task \in {"close", "stale", "settle", "expire"},
           NEW todo \in SUBSET Books, Begin(j, task, todo)
    PROVE  /\ jobs' \in [Jobs -> JobRecord] /\ WorkOK'
           /\ \A i \in Jobs \ {j} : jobs'[i] = jobs[i]
           /\ jobs'[j].task = task /\ jobs'[j].todo = todo /\ jobs'[j].gone = {}
           /\ jobs'[j].fresh /\ \A b \in todo : jobs'[j].seen[b] = positions[b]
  <1> DEFINE seen == [b \in Books |-> IF b \in todo THEN positions[b] ELSE NoPosition]
             record == [Idle EXCEPT !.task = task, !.todo = todo, !.fresh = TRUE, !.seen = seen]
  <1>1. seen \in [Books -> PositionRow] /\ \A b \in todo : seen[b] = positions[b]
    BY RowTypes DEF TypeInv, TypeOK
  <1> HIDE DEF seen
  <1>2. /\ record \in JobRecord
        /\ record.task = task /\ record.todo = todo /\ record.gone = {} /\ record.fresh
        /\ record.seen = seen
    BY <1>1 DEF Idle, JobRecord, Tasks
  <1>3. Becomes(j, record)
    BY DEF Begin, Becomes, seen
  <1> HIDE DEF record
  <1> QED
    BY <1>1, <1>2, <1>3, BecomesType

LEMMA CommitIs ==
    ASSUME TypeInv, NEW j \in Jobs, NEW record \in JobRecord, Commit(j, record),
           record.task \notin {"check", "fill", "released"}
    PROVE  /\ jobs' \in [Jobs -> JobRecord] /\ WorkOK'
           /\ \A i \in Jobs \ {j} : jobs'[i] = jobs[i]
           /\ jobs'[j].task = record.task /\ jobs'[j].todo = record.todo
           /\ jobs'[j].gone = record.gone /\ ~jobs'[j].fresh
  <1> DEFINE r == [record EXCEPT !.seen = Idle.seen, !.fresh = FALSE]
  <1>1. /\ r \in JobRecord /\ r.task = record.task /\ r.todo = record.todo
        /\ r.gone = record.gone /\ ~r.fresh
    BY RowTypes DEF JobRecord
  <1>2. Becomes(j, r)
    BY DEF Commit, Becomes
  <1> HIDE DEF r
  <1> QED
    BY <1>1, <1>2, BecomesType

LEMMA FinishIs ==
    ASSUME TypeInv, NEW j \in Jobs, Finish(j)
    PROVE  /\ jobs' \in [Jobs -> JobRecord] /\ WorkOK'
           /\ \A i \in Jobs \ {j} : jobs'[i] = jobs[i]
           /\ jobs'[j] = Idle
  BY RowTypes, BecomesType DEF Finish, Becomes

LEMMA SkipIs ==
    ASSUME TypeInv, NEW j \in Jobs, NEW b \in Books, Skip(j, b)
    PROVE  /\ jobs' \in [Jobs -> JobRecord] /\ WorkOK'
           /\ \A i \in Jobs \ {j} : jobs'[i] = jobs[i]
           /\ jobs'[j].task = jobs[j].task
  <1> DEFINE r == [jobs[j] EXCEPT !.todo = @ \ {b}, !.seen[b] = NoPosition]
  <1>1. jobs[j] \in JobRecord /\ jobs \in [Jobs -> JobRecord]
    BY DEF TypeInv, TypeOK
  <1>2. r \in JobRecord /\ r.task = jobs[j].task /\ r.book = jobs[j].book
    BY <1>1, RowTypes DEF JobRecord
  <1>3. Becomes(j, r)
    BY <1>1 DEF Skip, Becomes, JobRecord
  <1> HIDE DEF r
  <1> QED
    BY <1>2, <1>3, BecomesType DEF TypeInv, WorkOK

\* What a fill does to the tables: the position is netted, the margin in use is
\* then that of all positions, and no money comes in or goes out.
LEMMA FillIs ==
    ASSUME TypeInv, NEW b \in Books, NEW q \in Int, NEW m \in Nat, Fill(b, q, m)
    PROVE  /\ positions' \in [Books -> PositionRow]
           /\ positions'[b].qty = positions[b].qty + q
           /\ positions'[b].margin = MarginAfter(positions[b], q, m)
           /\ positions'[b].realized = positions[b].realized
           /\ \A c \in Books \ {b} : positions'[c] = positions[c]
           /\ created' \in [Books -> Days] /\ opened' \in [Books -> Days]
           /\ funds' \in FundsRow /\ funds'.used = SumOf(Margins(positions'))
           /\ funds'.avail + funds'.used = funds.avail + funds.used
           /\ funds'.realized = funds.realized
           /\ traded' \in [CncBooks -> Int]
           /\ b \in CncBooks => traded'[b] = traded[b] + q
           /\ \A c \in CncBooks \ {b} : traded'[c] = traded[c]
  <1> DEFINE pos == positions[b]
             after == [live |-> TRUE, qty |-> pos.qty + q, margin |-> MarginAfter(pos, q, m),
                       realized |-> pos.realized]
             freed == MarginReleased(pos, q)
             total == SumOf(Margins(positions'))
  <1>1. /\ positions \in [Books -> PositionRow] /\ pos \in PositionRow /\ funds \in FundsRow
        /\ created \in [Books -> Days] /\ opened \in [Books -> Days] /\ traded \in [CncBooks -> Int]
    BY DEF TypeInv, TypeOK
  <1>2. after \in PositionRow
    BY <1>1, AfterType DEF PositionRow
  <1>3. positions' = [positions EXCEPT ![b] = after]
    BY DEF Fill
  <1>4. /\ positions' \in [Books -> PositionRow]
        /\ positions'[b].qty = pos.qty + q /\ positions'[b].margin = MarginAfter(pos, q, m)
        /\ positions'[b].realized = pos.realized
        /\ \A c \in Books \ {b} : positions'[c] = positions[c]
    BY <1>1, <1>2, <1>3
  <1>5. created' \in [Books -> Days] /\ opened' \in [Books -> Days]
    <2>1. PICK d \in Days : opened' = [opened EXCEPT ![b] = d]
      BY <1>1 DEF Fill, Days
    <2>2. PICK day \in Days : created' = [created EXCEPT ![b] = day]
      BY <1>1 DEF Fill, Days
    <2> QED
      BY <1>1, <2>1, <2>2
  <1>6. freed \in Int /\ total \in Int
    <2>1. freed \in 0 .. pos.margin /\ pos.margin \in Nat
      BY <1>1, ReleasedBound DEF PositionRow
    <2>2. total \in Nat
      BY <1>4, ColumnTypes
    <2> HIDE DEF freed, total
    <2> QED
      BY <2>1, <2>2
  <1>7. funds' = ReconcileMargin(ReleaseMargin(BlockMargin(funds, m), freed, 0),
                                 ReleaseMargin(BlockMargin(funds, m), freed, 0), total)
    BY ColumnSums DEF Fill, Reconciled
  <1> HIDE DEF freed, total
  <1>8. /\ funds' \in FundsRow /\ funds'.used = total /\ funds'.realized = funds.realized
        /\ funds'.avail + funds'.used = funds.avail + funds.used
    <2> DEFINE f == ReleaseMargin(BlockMargin(funds, m), freed, 0)
    <2>1. funds.avail \in Int /\ funds.used \in Int /\ funds.realized \in Int
      BY <1>1 DEF FundsRow
    <2>2. /\ f.avail = funds.avail - m + freed + 0 /\ f.used = funds.used + m - freed
          /\ f.realized = funds.realized + 0 /\ f \in FundsRow
      BY <1>1, <1>6, <2>1 DEF FundsRow, ReleaseMargin, BlockMargin
    <2>3. funds' = ReconcileMargin(f, f, total)
      BY <1>7
    <2> HIDE DEF f
    <2>4. f.avail \in Int /\ f.used \in Int /\ f.avail + (f.used - total) \in Int
      BY <1>6, <2>2 DEF FundsRow
    <2>5. /\ funds'.used = total /\ funds'.avail = f.avail + (f.used - total)
          /\ funds'.realized = f.realized /\ funds' \in FundsRow
      BY <1>6, <2>3, <2>4, <2>2 DEF FundsRow, ReconcileMargin
    <2> QED
      BY <1>6, <2>1, <2>2, <2>5
  <1>9. /\ traded' \in [CncBooks -> Int]
        /\ b \in CncBooks => traded'[b] = traded[b] + q
        /\ \A c \in CncBooks \ {b} : traded'[c] = traded[c]
    BY <1>1 DEF Fill
  <1> QED
    BY <1>4, <1>5, <1>8, <1>9 DEF total

\* The clock, users' requests and expiring contracts.
LEMMA UsersType ==
    ASSUME TypeInv
    PROVE  /\ \A b \in Books, q \in Quantities : Trade(b, q) => TypeInv'
           /\ \A b \in MisBooks : RestingFills(b) => TypeInv'
           /\ \A b \in MisBooks, q \in Quantities : PlaceResting(b, q) => TypeInv'
           /\ \A b \in FoBooks : ContractExpires(b) => TypeInv'
           /\ ClockTicks => TypeInv'
           /\ Crash => TypeInv'
  <1> USE DEF TypeInv
  <1>1. ASSUME NEW b \in Books, NEW q \in Quantities, Trade(b, q)
        PROVE  TypeInv'
    <2>1. positions[b].qty \in Int /\ q \in Int
      BY DayEndAssumption DEF TypeOK, PositionRow, Quantities
    <2>2. OrderMargin(b, positions[b].qty, q) \in Nat
      BY <2>1, OrderMarginType
    <2>3. /\ positions' \in [Books -> PositionRow] /\ created' \in [Books -> Days]
          /\ opened' \in [Books -> Days] /\ funds' \in FundsRow /\ traded' \in [CncBooks -> Int]
      BY <1>1, <2>1, <2>2, FillIs DEF Trade
    <2>4. orders' \in 0..MaxOrders /\ disturbed' \in BOOLEAN
      BY <1>1, DayEndAssumption DEF Trade, Orders, Disturbs, TypeOK
    <2> QED
      BY <1>1, <2>3, <2>4 DEF Trade, TypeOK, WorkOK
  <1>2. ASSUME NEW b \in MisBooks, RestingFills(b)
        PROVE  TypeInv'
    <2>1. positions[b].qty \in Int /\ resting[b] \in Int /\ b \in Books
      BY DEF TypeOK, PositionRow, Books
    <2>2. OrderMargin(b, positions[b].qty, resting[b]) \in Nat
      BY <2>1, OrderMarginType
    <2>3. /\ positions' \in [Books -> PositionRow] /\ created' \in [Books -> Days]
          /\ opened' \in [Books -> Days] /\ funds' \in FundsRow /\ traded' \in [CncBooks -> Int]
      BY <1>2, <2>1, <2>2, FillIs DEF RestingFills
    <2>4. disturbed' \in BOOLEAN /\ resting' \in [MisBooks -> Int]
      BY <1>2 DEF RestingFills, Disturbs, TypeOK
    <2> QED
      BY <1>2, <2>3, <2>4 DEF RestingFills, TypeOK, WorkOK
  <1>3. ASSUME NEW b \in MisBooks, NEW q \in Quantities, PlaceResting(b, q)
        PROVE  TypeInv'
    <2>1. resting' \in [MisBooks -> Int] /\ orders' \in 0..MaxOrders
      BY <1>3, DayEndAssumption DEF PlaceResting, Orders, Quantities, TypeOK
    <2> QED
      BY <1>3, <2>1 DEF PlaceResting, rows, TypeOK, WorkOK
  <1>4. ASSUME NEW b \in FoBooks, ContractExpires(b)
        PROVE  TypeInv'
    BY <1>4 DEF ContractExpires, rows, TypeOK, WorkOK
  <1>5. ASSUME ClockTicks
        PROVE  TypeInv'
    <2>1. /\ phase' \in {"night", "day", "evening"} /\ cronDue' \in BOOLEAN
          /\ created' \in [Books -> Days] /\ opened' \in [Books -> Days]
      BY <1>5 DEF ClockTicks, TimePasses, Older, Days, TypeOK
    <2> QED
      BY <1>5, <2>1 DEF ClockTicks, TypeOK, WorkOK
  <1>6. ASSUME Crash
        PROVE  TypeInv'
    <2>1. /\ jobs' \in [Jobs -> JobRecord] /\ WorkOK'
      BY <1>6, RowTypes DEF Crash, WorkOK
    <2>2. crashes' \in 0..MaxCrashes /\ disturbed' \in BOOLEAN
      BY <1>6, DayEndAssumption DEF Crash, Disturbs, TypeOK
    <2> QED
      BY <1>6, <2>1, <2>2 DEF Crash, rows, TypeOK
  <1> QED
    BY <1>1, <1>2, <1>3, <1>4, <1>5, <1>6

\* The jobs that square off.
LEMMA SquareOffType ==
    ASSUME TypeInv, NEW j \in Squarers, SquareOff(j)
    PROVE  TypeInv'
  <1> USE DEF TypeInv
  <1>1. j \in Jobs /\ jobs[j] \in JobRecord /\ MisBooks \subseteq Books
    BY DEF Jobs, TypeOK, Books
  <1>2. CASE SquareOffStarts(j)
    <2> DEFINE r == [Idle EXCEPT !.task = "cancel", !.todo = {b \in MisBooks : resting[b] # 0}]
    <2>1. r \in JobRecord /\ r.task = "cancel"
      BY <1>1, RowTypes DEF JobRecord, Tasks
    <2>2. Becomes(j, r)
      BY <1>2 DEF SquareOffStarts, Becomes
    <2> HIDE DEF r
    <2>3. jobs' \in [Jobs -> JobRecord] /\ WorkOK'
      BY <1>1, <2>1, <2>2, BecomesType
    <2> QED
      BY <1>2, <2>3 DEF SquareOffStarts, rows, TypeOK
  <1>3. CASE ListsPositions(j)
    <2>1. {b \in MisBooks : positions[b].qty # 0} \in SUBSET Books
      BY <1>1
    <2>2. jobs' \in [Jobs -> JobRecord] /\ WorkOK'
      BY <1>1, <1>3, <2>1, BeginIs DEF ListsPositions
    <2> QED
      BY <1>3, <2>2 DEF ListsPositions, rows, TypeOK
  <1>4. ASSUME NEW b \in MisBooks, CancelsOrder(j, b)
        PROVE  TypeInv'
    <2>1. jobs' \in [Jobs -> JobRecord] /\ WorkOK'
      BY <1>1, <1>4, SkipIs DEF CancelsOrder
    <2>2. resting' \in [MisBooks -> Int]
      BY <1>4 DEF CancelsOrder, TypeOK
    <2> QED
      BY <1>4, <2>1, <2>2 DEF CancelsOrder, rows, TypeOK
  <1>5. ASSUME NEW b \in MisBooks, ReadsPosition(j, b)
        PROVE  TypeInv'
    <2>1. jobs' \in [Jobs -> JobRecord] /\ WorkOK'
      <3>1. CASE Row(j, b).qty = 0
        BY <1>1, <1>5, <3>1, SkipIs DEF ReadsPosition
      <3>2. CASE Row(j, b).qty # 0
        <4> DEFINE row == Row(j, b)
                   r == [jobs[j] EXCEPT !.task = "check", !.book = b, !.todo = @ \ {b}, !.seen[b] = row]
        <4>1. row \in PositionRow
          BY <1>1, RowType
        <4>2. jobs' = [jobs EXCEPT ![j].task = "check", ![j].book = b, ![j].todo = @ \ {b},
                                   ![j].seen[b] = row]
          BY <1>5, <3>2 DEF ReadsPosition
        <4> HIDE DEF row
        <4>3. r \in JobRecord /\ r.task = "check" /\ r.book = b
          BY <1>1, <4>1 DEF JobRecord, Tasks
        <4>4. Becomes(j, r)
          BY <1>1, <4>2 DEF Becomes, JobRecord, TypeOK
        <4> HIDE DEF r
        <4> QED
          BY <1>1, <4>3, <4>4, BecomesType
      <3> QED
        BY <3>1, <3>2
    <2> QED
      BY <1>5, <2>1 DEF ReadsPosition, rows, TypeOK
  <1>6. CASE ChecksReducing(j)
    <2>1. PICK task \in {"fill", "close"} : jobs' = [jobs EXCEPT ![j].task = task]
      BY <1>6 DEF ChecksReducing
    <2> DEFINE r == [jobs[j] EXCEPT !.task = task]
    <2>2. r \in JobRecord /\ r.task = task /\ r.book = jobs[j].book
      BY <1>1, <2>1 DEF JobRecord, Tasks
    <2>3. Becomes(j, r) /\ jobs[j].book \in MisBooks
      BY <1>1, <1>6, <2>1 DEF ChecksReducing, Becomes, WorkOK, At
    <2> HIDE DEF r
    <2>4. jobs' \in [Jobs -> JobRecord] /\ WorkOK'
      BY <1>1, <2>1, <2>2, <2>3, BecomesType
    <2> QED
      BY <1>6, <2>4 DEF ChecksReducing, rows, TypeOK
  <1>7. CASE ClosesPosition(j)
    <2> DEFINE b == jobs[j].book
               q == -jobs[j].seen[b].qty
               r == [jobs[j] EXCEPT !.task = "close", !.book = Cron]
    <2>1. b \in Books /\ q \in Int
      BY <1>1, <1>7 DEF ClosesPosition, At, WorkOK, JobRecord, PositionRow
    <2>2. r \in JobRecord /\ r.task = "close"
      BY <1>1 DEF JobRecord, Tasks
    <2>3. Fill(b, q, 0) /\ Commit(j, r)
      BY <1>7 DEF ClosesPosition
    <2> HIDE DEF b, q, r
    <2>4. jobs' \in [Jobs -> JobRecord] /\ WorkOK'
      BY <1>1, <2>2, <2>3, CommitIs
    <2>5. /\ positions' \in [Books -> PositionRow] /\ created' \in [Books -> Days]
          /\ opened' \in [Books -> Days] /\ funds' \in FundsRow /\ traded' \in [CncBooks -> Int]
      BY <2>1, <2>3, FillIs
    <2>6. disturbed' \in BOOLEAN
      BY <1>7 DEF ClosesPosition, Disturbs, TypeOK
    <2> QED
      BY <1>7, <2>4, <2>5, <2>6 DEF ClosesPosition, TypeOK
  <1>8. CASE SquareOffEnds(j)
    <2>1. jobs' \in [Jobs -> JobRecord] /\ WorkOK'
      BY <1>1, <1>8, FinishIs DEF SquareOffEnds
    <2> QED
      BY <1>8, <2>1 DEF SquareOffEnds, rows, TypeOK
  <1> QED
    BY <1>2, <1>3, <1>4, <1>5, <1>6, <1>7, <1>8 DEF SquareOff

\* Deleting rows leaves tables of rows.
LEMMA DeleteIs ==
    ASSUME TypeInv, NEW B \in SUBSET Books, Delete(B)
    PROVE  /\ positions' \in [Books -> PositionRow]
           /\ created' \in [Books -> Days] /\ opened' \in [Books -> Days]
           /\ \A b \in B : positions'[b] = NoPosition
           /\ \A b \in Books \ B : positions'[b] = positions[b]
  BY RowTypes DEF TypeInv, TypeOK, Delete, Days

\* The records of a settlement that has done with a position.
LEMMA SettledRecord ==
    ASSUME TypeInv, NEW j \in Jobs, NEW b \in Books
    PROVE  /\ [jobs[j] EXCEPT !.todo = @ \ {b}] \in JobRecord
           /\ [jobs[j] EXCEPT !.todo = @ \ {b}].task = jobs[j].task
           /\ [jobs[j] EXCEPT !.todo = @ \ {b}].todo = jobs[j].todo \ {b}
           /\ [jobs[j] EXCEPT !.todo = @ \ {b}].gone = jobs[j].gone
           /\ [jobs[j] EXCEPT !.todo = @ \ {b}, !.gone = {b}] \in JobRecord
           /\ [jobs[j] EXCEPT !.todo = @ \ {b}, !.gone = {b}].task = jobs[j].task
           /\ [jobs[j] EXCEPT !.todo = @ \ {b}, !.gone = {b}].todo = jobs[j].todo \ {b}
           /\ [jobs[j] EXCEPT !.todo = @ \ {b}, !.gone = {b}].gone = {b}
           /\ [jobs[j] EXCEPT !.task = "expire", !.book = Cron] \in JobRecord
           /\ [jobs[j] EXCEPT !.task = "expire", !.book = Cron].task = "expire"
           /\ [jobs[j] EXCEPT !.task = "expire", !.book = Cron].todo = jobs[j].todo
           /\ [jobs[j] EXCEPT !.task = "expire", !.book = Cron].gone = jobs[j].gone
  <1>1. jobs[j] \in JobRecord
    BY DEF TypeInv, TypeOK
  <1>2. [jobs[j] EXCEPT !.todo = @ \ {b}] \in JobRecord
    BY <1>1 DEF JobRecord
  <1>3. [jobs[j] EXCEPT !.todo = @ \ {b}, !.gone = {b}] \in JobRecord
    BY <1>1 DEF JobRecord
  <1>4. [jobs[j] EXCEPT !.task = "expire", !.book = Cron] \in JobRecord
    BY <1>1 DEF JobRecord, Tasks
  <1> QED
    BY <1>1, <1>2, <1>3, <1>4 DEF JobRecord

\* A closed row is a row.
LEMMA ClosedType == ASSUME NEW profit \in Int PROVE Closed(profit) \in PositionRow
  BY DEF Closed, PositionRow

LEMMA StaleIs ==
    ASSUME TypeInv, NEW j \in Jobs, NEW b \in MisBooks, SettlesStale(j, b)
    PROVE  /\ jobs' \in [Jobs -> JobRecord] /\ WorkOK'
           /\ \A i \in Jobs \ {j} : jobs'[i] = jobs[i]
           /\ jobs'[j].task = "stale" /\ jobs'[j].todo = jobs[j].todo \ {b}
           /\ jobs'[j].gone = jobs[j].gone /\ ~jobs'[j].fresh
           /\ positions' \in [Books -> PositionRow] /\ opened' \in [Books -> Days]
           /\ positions'[b].qty = 0 /\ positions'[b].margin = 0
           /\ positions'[b].realized = positions[b].realized
           /\ \A c \in Books \ {b} : positions'[c] = positions[c]
           /\ funds' \in FundsRow /\ funds'.realized = funds.realized
           /\ funds'.avail = funds.avail + Row(j, b).margin
           /\ funds'.used = IF funds.used >= Row(j, b).margin
                            THEN funds.used - Row(j, b).margin ELSE 0
  <1>1. b \in Books /\ jobs[j].task = "stale"
    BY DEF Books, SettlesStale, At
  <1>2. /\ jobs' \in [Jobs -> JobRecord] /\ WorkOK'
        /\ \A i \in Jobs \ {j} : jobs'[i] = jobs[i]
        /\ jobs'[j].task = "stale" /\ jobs'[j].todo = jobs[j].todo \ {b}
        /\ jobs'[j].gone = jobs[j].gone /\ ~jobs'[j].fresh
    <2> DEFINE r == [jobs[j] EXCEPT !.todo = @ \ {b}]
    <2>1. Commit(j, r)
      BY DEF SettlesStale
    <2>2. /\ r \in JobRecord /\ r.task = "stale" /\ r.todo = jobs[j].todo \ {b}
          /\ r.gone = jobs[j].gone
      BY <1>1, SettledRecord
    <2> HIDE DEF r
    <2>3. r.task \notin {"check", "fill", "released"}
      BY <2>2
    <2> QED
      BY <2>1, <2>2, <2>3, CommitIs
  <1>3. positions \in [Books -> PositionRow] /\ positions[b] \in PositionRow
    BY <1>1 DEF TypeInv, TypeOK
  <1> DEFINE after == Closed(positions[b].realized)
  <1>4. positions' = [positions EXCEPT ![b] = after]
    BY DEF SettlesStale
  <1>5. /\ after \in PositionRow /\ after.qty = 0 /\ after.margin = 0
        /\ after.realized = positions[b].realized
    BY <1>3, ClosedType DEF PositionRow, Closed
  <1> HIDE DEF after
  <1>6. /\ positions' \in [Books -> PositionRow]
        /\ positions'[b].qty = 0 /\ positions'[b].margin = 0
        /\ positions'[b].realized = positions[b].realized
        /\ \A c \in Books \ {b} : positions'[c] = positions[c]
    BY <1>1, <1>3, <1>4, <1>5
  <1>7. opened' \in [Books -> Days]
    BY <1>1 DEF SettlesStale, Forget, Days, TypeInv, TypeOK
  <1>8. /\ funds' \in FundsRow /\ funds'.realized = funds.realized
        /\ funds'.avail = funds.avail + Row(j, b).margin
        /\ funds'.used = IF funds.used >= Row(j, b).margin
                         THEN funds.used - Row(j, b).margin ELSE 0
    <2> DEFINE freed == Row(j, b).margin
    <2>1. freed \in Int
      BY <1>1, RowType DEF PositionRow
    <2>2. funds' = [funds EXCEPT !.avail = @ + freed, !.used = IF @ >= freed THEN @ - freed ELSE 0]
      BY DEF SettlesStale
    <2> HIDE DEF freed
    <2>3. funds \in FundsRow
      BY DEF TypeInv, TypeOK
    <2> DEFINE left == IF funds.used >= freed THEN funds.used - freed ELSE 0
    <2>4. left \in Int /\ funds.avail + freed \in Int
      BY <2>1, <2>3 DEF FundsRow
    <2>5. funds' = [funds EXCEPT !.avail = funds.avail + freed, !.used = left]
      BY <2>2, <2>3 DEF FundsRow
    <2> HIDE DEF left
    <2>6. /\ funds' \in FundsRow /\ funds'.realized = funds.realized
          /\ funds'.avail = funds.avail + freed /\ funds'.used = left
      BY <2>3, <2>4, <2>5 DEF FundsRow
    <2> QED
      BY <2>6 DEF freed, left
  <1> QED
    BY <1>2, <1>6, <1>7, <1>8

LEMMA SettlesIs ==
    ASSUME TypeInv, NEW j \in Jobs, NEW b \in CncBooks, Settles(j, b)
    PROVE  /\ jobs' \in [Jobs -> JobRecord] /\ WorkOK'
           /\ \A i \in Jobs \ {j} : jobs'[i] = jobs[i]
           /\ jobs'[j].task = "settle" /\ jobs'[j].todo = jobs[j].todo \ {b}
           /\ jobs'[j].gone = {b} /\ ~jobs'[j].fresh
           /\ positions' \in [Books -> PositionRow]
           /\ created' \in [Books -> Days] /\ opened' \in [Books -> Days]
           /\ \A c \in jobs[j].gone : positions'[c] = NoPosition
           /\ \A c \in Books \ jobs[j].gone : positions'[c] = positions[c]
           /\ holdings' \in [CncBooks -> Int] /\ holdings'[b] = holdings[b] + Row(j, b).qty
           /\ \A c \in CncBooks \ {b} : holdings'[c] = holdings[c]
           /\ funds' \in FundsRow /\ funds'.realized = funds.realized
           /\ funds' = SettledFunds(funds, Row(j, b).qty, holdings[b])
  <1>1. b \in Books /\ jobs[j].task = "settle" /\ jobs[j] \in JobRecord
    BY DEF Books, Settles, At, TypeInv, TypeOK
  <1>2. /\ jobs' \in [Jobs -> JobRecord] /\ WorkOK'
        /\ \A i \in Jobs \ {j} : jobs'[i] = jobs[i]
        /\ jobs'[j].task = "settle" /\ jobs'[j].todo = jobs[j].todo \ {b}
        /\ jobs'[j].gone = {b} /\ ~jobs'[j].fresh
    <2> DEFINE r == [jobs[j] EXCEPT !.todo = @ \ {b}, !.gone = {b}]
    <2>1. Commit(j, r)
      BY DEF Settles
    <2>2. /\ r \in JobRecord /\ r.task = "settle" /\ r.todo = jobs[j].todo \ {b}
          /\ r.gone = {b}
      BY <1>1, SettledRecord
    <2> HIDE DEF r
    <2>3. r.task \notin {"check", "fill", "released"}
      BY <2>2
    <2> QED
      BY <2>1, <2>2, <2>3, CommitIs
  <1>3. jobs[j].gone \in SUBSET Books /\ Delete(jobs[j].gone)
    BY <1>1 DEF Settles, JobRecord
  <1>4. /\ positions' \in [Books -> PositionRow]
        /\ created' \in [Books -> Days] /\ opened' \in [Books -> Days]
        /\ \A c \in jobs[j].gone : positions'[c] = NoPosition
        /\ \A c \in Books \ jobs[j].gone : positions'[c] = positions[c]
    BY <1>3, DeleteIs
  <1> DEFINE q == Row(j, b).qty
  <1>5. q \in Int /\ funds \in FundsRow /\ holdings \in [CncBooks -> Int]
    BY <1>1, RowType DEF PositionRow, TypeInv, TypeOK
  <1>6. holdings' = [holdings EXCEPT ![b] = @ + q] /\ funds' = SettledFunds(funds, q, holdings[b])
    BY DEF Settles
  <1> HIDE DEF q
  <1>7. /\ holdings' \in [CncBooks -> Int] /\ holdings'[b] = holdings[b] + q
        /\ \A c \in CncBooks \ {b} : holdings'[c] = holdings[c]
    BY <1>5, <1>6
  <1>8. funds' \in FundsRow /\ funds'.realized = funds.realized
    BY <1>5, <1>6, SizeType DEF SettledFunds, FundsRow
  <1> QED
    BY <1>2, <1>4, <1>6, <1>7, <1>8 DEF q

\* A contract that expires: its margin and profit are booked, then it is closed.
LEMMA ReleasesIs ==
    ASSUME TypeInv, NEW j \in Jobs, NEW b \in FoBooks, ReleasesExpired(j, b)
    PROVE  /\ jobs' \in [Jobs -> JobRecord] /\ WorkOK'
           /\ \A i \in Jobs \ {j} : jobs'[i] = jobs[i]
           /\ jobs'[j].task = "released" /\ jobs'[j].todo = jobs[j].todo \ {b}
           /\ jobs'[j].book = b /\ jobs'[j].seen[b] = Row(j, b)
           /\ jobs'[j].gone = jobs[j].gone /\ jobs'[j].fresh = jobs[j].fresh
           /\ funds' \in FundsRow
           /\ funds'.avail = funds.avail + Row(j, b).margin - Row(j, b).qty
           /\ funds'.used = funds.used - Row(j, b).margin
           /\ funds'.realized = funds.realized - Row(j, b).qty
  <1> DEFINE row == Row(j, b)
             seen == [Idle.seen EXCEPT ![b] = row]
             r == [jobs[j] EXCEPT !.task = "released", !.book = b, !.todo = @ \ {b}, !.seen = seen]
  <1>1. b \in Books /\ jobs[j] \in JobRecord /\ jobs \in [Jobs -> JobRecord] /\ funds \in FundsRow
    BY DEF Books, TypeInv, TypeOK
  <1>2. row \in PositionRow
    BY <1>1, RowType
  <1>3. /\ jobs' = [jobs EXCEPT ![j] = r]
        /\ funds' = ReleaseMargin(funds, row.margin, ExpiryPnl(row))
    BY DEF ReleasesExpired
  <1> HIDE DEF row
  <1>4. seen \in [Books -> PositionRow] /\ seen[b] = row
    BY <1>1, <1>2, RowTypes DEF JobRecord
  <1> HIDE DEF seen
  <1>5. /\ r \in JobRecord /\ r.task = "released" /\ r.book = b /\ r.seen = seen
        /\ r.todo = jobs[j].todo \ {b} /\ r.gone = jobs[j].gone /\ r.fresh = jobs[j].fresh
    BY <1>1, <1>4 DEF JobRecord, Tasks
  <1> HIDE DEF r
  <1>6. /\ jobs' \in [Jobs -> JobRecord] /\ WorkOK'
        /\ jobs'[j] = r /\ \A i \in Jobs \ {j} : jobs'[i] = jobs[i]
    BY <1>3, <1>5, BecomesType DEF Becomes
  <1>7. /\ funds' \in FundsRow
        /\ funds'.avail = funds.avail + row.margin - row.qty
        /\ funds'.used = funds.used - row.margin
        /\ funds'.realized = funds.realized - row.qty
    <2>1. /\ row.margin \in Int /\ row.qty \in Int
          /\ funds.avail \in Int /\ funds.used \in Int /\ funds.realized \in Int
      BY <1>1, <1>2 DEF PositionRow, FundsRow
    <2> QED
      BY <1>1, <1>3, <2>1 DEF ReleaseMargin, ExpiryPnl, FundsRow
  <1> QED
    BY <1>4, <1>5, <1>6, <1>7 DEF row

LEMMA ClosesIs ==
    ASSUME TypeInv, NEW j \in Jobs, ClosesExpired(j)
    PROVE  /\ jobs' \in [Jobs -> JobRecord] /\ WorkOK'
           /\ \A i \in Jobs \ {j} : jobs'[i] = jobs[i]
           /\ jobs'[j].task = "expire" /\ jobs'[j].todo = jobs[j].todo
           /\ jobs'[j].gone = jobs[j].gone /\ ~jobs'[j].fresh
           /\ positions' \in [Books -> PositionRow] /\ opened' \in [Books -> Days]
           /\ positions'[jobs[j].book]
                = Closed(jobs[j].seen[jobs[j].book].realized - jobs[j].seen[jobs[j].book].qty)
           /\ \A c \in Books \ {jobs[j].book} : positions'[c] = positions[c]
  <1> DEFINE b == jobs[j].book
             row == jobs[j].seen[b]
             profit == row.realized + ExpiryPnl(row)
  <1>1. b \in FoBooks /\ b \in Books /\ jobs[j] \in JobRecord /\ positions \in [Books -> PositionRow]
    BY DEF ClosesExpired, At, Books, TypeInv, TypeOK, WorkOK
  <1>2. row \in PositionRow
    BY <1>1 DEF JobRecord
  <1>3. profit \in Int /\ profit = row.realized - row.qty
    BY <1>2 DEF PositionRow, ExpiryPnl
  <1>4. /\ jobs' \in [Jobs -> JobRecord] /\ WorkOK'
        /\ \A i \in Jobs \ {j} : jobs'[i] = jobs[i]
        /\ jobs'[j].task = "expire" /\ jobs'[j].todo = jobs[j].todo
        /\ jobs'[j].gone = jobs[j].gone /\ ~jobs'[j].fresh
    <2> DEFINE r == [jobs[j] EXCEPT !.task = "expire", !.book = Cron]
    <2>1. Commit(j, r)
      BY DEF ClosesExpired
    <2>2. r \in JobRecord /\ r.task = "expire" /\ r.todo = jobs[j].todo /\ r.gone = jobs[j].gone
      BY <1>1, SettledRecord
    <2> HIDE DEF r
    <2>3. r.task \notin {"check", "fill", "released"}
      BY <2>2
    <2> QED
      BY <2>1, <2>2, <2>3, CommitIs
  <1>5. positions' = [positions EXCEPT ![b] = Closed(profit)] /\ opened' = Forget(opened, b)
    BY DEF ClosesExpired
  <1> HIDE DEF profit, row
  <1>6. Closed(profit) \in PositionRow
    BY <1>3, ClosedType
  <1>7. /\ positions' \in [Books -> PositionRow] /\ positions'[b] = Closed(profit)
        /\ \A c \in Books \ {b} : positions'[c] = positions[c]
    BY <1>1, <1>5, <1>6
  <1>8. opened' \in [Books -> Days]
    BY <1>1, <1>5 DEF Forget, Days, TypeInv, TypeOK
  <1> QED
    BY <1>3, <1>4, <1>7, <1>8 DEF row

LEMMA FailsIs ==
    ASSUME TypeInv, NEW j \in Jobs, NEW b \in CncBooks, SettleFails(j, b)
    PROVE  /\ jobs' \in [Jobs -> JobRecord] /\ WorkOK'
           /\ \A i \in Jobs \ {j} : jobs'[i] = jobs[i]
           /\ jobs'[j].task = "settle" /\ jobs'[j].todo = jobs[j].todo \ {b}
           /\ jobs'[j].gone = {b} /\ ~jobs'[j].fresh
  <1>1. b \in Books /\ jobs[j].task = "settle"
    BY DEF Books, SettleFails, At
  <1> DEFINE r == [jobs[j] EXCEPT !.todo = @ \ {b}, !.gone = {b}]
  <1>2. Commit(j, r)
    BY DEF SettleFails
  <1>3. /\ r \in JobRecord /\ r.task = "settle" /\ r.todo = jobs[j].todo \ {b} /\ r.gone = {b}
    BY <1>1, SettledRecord
  <1> HIDE DEF r
  <1>4. r.task \notin {"check", "fill", "released"}
    BY <1>3
  <1> QED
    BY <1>2, <1>3, <1>4, CommitIs

LEMMA NothingIs ==
    ASSUME TypeInv, NEW j \in Jobs, NEW b \in CncBooks, SettlesNothing(j, b)
    PROVE  /\ jobs' \in [Jobs -> JobRecord] /\ WorkOK'
           /\ \A i \in Jobs \ {j} : jobs'[i] = jobs[i]
           /\ jobs'[j].task = "settle" /\ jobs'[j].todo = jobs[j].todo \ {b}
           /\ jobs'[j].gone = jobs[j].gone \cup {b}
           /\ jobs'[j].fresh = jobs[j].fresh /\ jobs'[j].seen = jobs[j].seen
  <1>1. b \in Books /\ jobs[j].task = "settle" /\ jobs[j] \in JobRecord /\ jobs \in [Jobs -> JobRecord]
    BY DEF Books, SettlesNothing, At, TypeInv, TypeOK
  <1> DEFINE r == [jobs[j] EXCEPT !.todo = @ \ {b}, !.gone = @ \cup {b}]
  <1>2. Becomes(j, r)
    BY <1>1 DEF SettlesNothing, Becomes, JobRecord
  <1>3. /\ r \in JobRecord /\ r.task = "settle" /\ r.todo = jobs[j].todo \ {b}
        /\ r.gone = jobs[j].gone \cup {b} /\ r.fresh = jobs[j].fresh /\ r.seen = jobs[j].seen
    BY <1>1 DEF JobRecord
  <1> HIDE DEF r
  <1> QED
    BY <1>2, <1>3, BecomesType

\* The jobs that settle.
LEMMA SettlementType ==
    ASSUME TypeInv, NEW j \in Settlers, Settlement(j)
    PROVE  TypeInv'
  <1> USE DEF TypeInv
  <1>1. j \in Jobs /\ jobs[j] \in JobRecord
    BY DEF Jobs, TypeOK
  <1>2. CASE StaleListed(j)
    <2>1. {b \in MisBooks : positions[b].qty # 0 /\ created[b] = "earlier"} \in SUBSET Books
      BY DEF Books
    <2>2. jobs' \in [Jobs -> JobRecord] /\ WorkOK'
      BY <1>1, <1>2, <2>1, BeginIs DEF StaleListed
    <2> QED
      BY <1>2, <2>2 DEF StaleListed, rows, TypeOK
  <1>3. CASE ExpiredListed(j)
    <2>1. {b \in expired : positions[b].qty # 0} \in SUBSET Books
      BY DEF Books, TypeOK
    <2>2. jobs' \in [Jobs -> JobRecord] /\ WorkOK'
      BY <1>1, <1>3, <2>1, BeginIs DEF ExpiredListed
    <2> QED
      BY <1>3, <2>2 DEF ExpiredListed, rows, TypeOK
  <1>4. CASE SettlementStarts(j)
    <2>1. SettlementDue \in SUBSET Books
      BY DEF SettlementDue, Books
    <2>2. jobs' \in [Jobs -> JobRecord] /\ WorkOK'
      BY <1>1, <1>4, <2>1, BeginIs DEF SettlementStarts
    <2> QED
      BY <1>4, <2>2 DEF SettlementStarts, rows, TypeOK
  <1>5. CASE SettlementEnds(j)
    <2>1. jobs' \in [Jobs -> JobRecord] /\ WorkOK'
      BY <1>1, <1>5, FinishIs DEF SettlementEnds
    <2>2. jobs[j].gone \in SUBSET Books /\ Delete(jobs[j].gone)
      BY <1>1, <1>5 DEF SettlementEnds, JobRecord
    <2>3. /\ positions' \in [Books -> PositionRow]
          /\ created' \in [Books -> Days] /\ opened' \in [Books -> Days]
      BY <2>2, DeleteIs
    <2> QED
      BY <1>5, <2>1, <2>3 DEF SettlementEnds, TypeOK
  <1>6. CASE ViewEnds(j)
    <2>1. jobs' \in [Jobs -> JobRecord] /\ WorkOK'
      BY <1>1, <1>6, FinishIs DEF ViewEnds
    <2> QED
      BY <1>6, <2>1 DEF ViewEnds, rows, TypeOK
  <1>7. ASSUME NEW b \in MisBooks, SettlesStale(j, b)
        PROVE  TypeInv'
    <2>1. /\ jobs' \in [Jobs -> JobRecord] /\ WorkOK'
          /\ positions' \in [Books -> PositionRow] /\ opened' \in [Books -> Days]
          /\ funds' \in FundsRow
      BY <1>1, <1>7, StaleIs
    <2> QED
      BY <1>7, <2>1 DEF SettlesStale, TypeOK
  <1>8. ASSUME NEW b \in CncBooks, SettlesNothing(j, b)
        PROVE  TypeInv'
    <2>1. jobs' \in [Jobs -> JobRecord] /\ WorkOK'
      BY <1>1, <1>8, NothingIs
    <2> QED
      BY <1>8, <2>1 DEF SettlesNothing, rows, TypeOK
  <1>9. ASSUME NEW b \in CncBooks, Settles(j, b)
        PROVE  TypeInv'
    <2>1. /\ jobs' \in [Jobs -> JobRecord] /\ WorkOK'
          /\ positions' \in [Books -> PositionRow]
          /\ created' \in [Books -> Days] /\ opened' \in [Books -> Days]
          /\ holdings' \in [CncBooks -> Int] /\ funds' \in FundsRow
      BY <1>1, <1>9, SettlesIs
    <2> QED
      BY <1>9, <2>1 DEF Settles, TypeOK
  <1>10. ASSUME NEW b \in CncBooks, SettleFails(j, b)
         PROVE  TypeInv'
    <2>1. jobs' \in [Jobs -> JobRecord] /\ WorkOK'
      BY <1>1, <1>10, FailsIs
    <2>2. disturbed' \in BOOLEAN
      BY <1>10 DEF SettleFails, Disturbs, TypeOK
    <2> QED
      BY <1>10, <2>1, <2>2 DEF SettleFails, rows, TypeOK
  <1>11. ASSUME NEW b \in FoBooks, ReleasesExpired(j, b)
         PROVE  TypeInv'
    <2>1. jobs' \in [Jobs -> JobRecord] /\ WorkOK' /\ funds' \in FundsRow
      BY <1>1, <1>11, ReleasesIs
    <2> QED
      BY <1>11, <2>1 DEF ReleasesExpired, rows, TypeOK
  <1>12. CASE ClosesExpired(j)
    <2>1. /\ jobs' \in [Jobs -> JobRecord] /\ WorkOK'
          /\ positions' \in [Books -> PositionRow] /\ opened' \in [Books -> Days]
      BY <1>1, <1>12, ClosesIs
    <2> QED
      BY <1>12, <2>1 DEF ClosesExpired, TypeOK
  <1> QED
    BY <1>2, <1>3, <1>4, <1>5, <1>6, <1>7, <1>8, <1>9, <1>10, <1>11, <1>12 DEF Settlement

LEMMA TypeInvInit == Init => TypeInv
  <1> SUFFICES ASSUME Init PROVE TypeInv
    OBVIOUS
  <1>1. positions \in [Books -> PositionRow] /\ funds \in FundsRow /\ jobs \in [Jobs -> JobRecord]
    BY RowTypes DEF Init
  <1>2. WorkOK
    BY RowTypes DEF Init, WorkOK
  <1>3. /\ created \in [Books -> Days] /\ opened \in [Books -> Days]
        /\ resting \in [MisBooks -> Int] /\ holdings \in [CncBooks -> Int] /\ traded \in [CncBooks -> Int]
    BY DEF Init, Days
  <1>4. orders \in 0..MaxOrders /\ crashes \in 0..MaxCrashes
    BY DayEndAssumption DEF Init
  <1>5. /\ phase \in {"night", "day", "evening"} /\ cronDue \in BOOLEAN /\ expired \subseteq FoBooks
        /\ disturbed \in BOOLEAN
    BY DEF Init
  <1> QED
    BY <1>1, <1>2, <1>3, <1>4, <1>5 DEF TypeInv, TypeOK

LEMMA TypeInvNext == TypeInv /\ [Next]_vars => TypeInv'
  <1> SUFFICES ASSUME TypeInv, [Next]_vars PROVE TypeInv'
    OBVIOUS
  <1>1. CASE UNCHANGED vars
    BY <1>1 DEF vars, rows, TypeInv, TypeOK, WorkOK
  <1>2. CASE Next
    BY <1>2, UsersType, SquareOffType, SettlementType DEF Next
  <1> QED
    BY <1>1, <1>2

\* Positions, funds and jobs keep their types, and a job works on a position of
\* the kind it is for, whatever the circumstances of the evening and the night.
THEOREM TypeCorrect == Spec => []TypeOK
  <1>1. TypeInv => TypeOK
    BY DEF TypeInv
  <1> QED
    BY <1>1, TypeInvInit, TypeInvNext, PTL DEF Spec

-----------------------------------------------------------------------------
(* A settlement under way is alone, and its list is that of the positions  *)

\* The hypothesis of what follows: the commits of a settlement may fail, but one
\* that fails takes no pending deletion back, and nothing else happens during a
\* settlement that the code does not keep apart from it.
FailuresOnly == Circumstances \subseteq {"fails"}

Free(work) == \A j \in Settlers : work[j].task = "idle"

\* One settlement at a time, and no square-off meanwhile.
AloneOK ==
    /\ \A i, j \in Settlers : ~At(i, "idle") /\ ~At(j, "idle") => i = j
    /\ ~Free(jobs) => \A j \in Squarers : At(j, "idle")

\* The record of a settlement: the rows it still has from its list are those of
\* the table, and what it is about to delete is no longer on the list.
Sound(record, table) ==
    /\ record.task \in {"idle", "stale", "settle", "expire", "released"}
    /\ record.task = "idle" => record = Idle
    /\ record.gone \subseteq CncBooks \ record.todo
    /\ record.gone # {} => record.task = "settle"
    /\ record.task # "released" /\ record.fresh =>
          \A b \in record.todo : record.seen[b] = table[b]
    /\ record.task = "released" => record.seen[record.book] = table[record.book]

ListOK == \A j \in Settlers : Sound(jobs[j], positions)

LoneInv == TypeInv /\ AloneOK /\ ListOK

\* The positions as they are once the steps of a settlement that have begun are
\* over: the rows marked are deleted, the contract released is closed.
Ahead(table, work) ==
    [b \in Books |->
        IF \E j \in Settlers : b \in work[j].gone THEN NoPosition
        ELSE IF \E j \in Settlers : work[j].task = "released" /\ work[j].book = b
             THEN Closed(table[b].realized - table[b].qty)
        ELSE table[b]]

\* Only the settlement under way counts.
LEMMA AheadIs ==
    ASSUME NEW table, NEW work, NEW j \in Settlers,
           \A i \in Settlers \ {j} : work[i] = Idle
    PROVE  \A b \in Books :
              Ahead(table, work)[b] =
                 IF b \in work[j].gone THEN NoPosition
                 ELSE IF work[j].task = "released" /\ work[j].book = b
                      THEN Closed(table[b].realized - table[b].qty)
                 ELSE table[b]
  <1>1. \A i \in Settlers \ {j} : work[i].gone = {} /\ work[i].task # "released"
    BY RowTypes
  <1> QED
    BY <1>1 DEF Ahead

\* Without one, the positions are what they are.
LEMMA AheadQuiet ==
    ASSUME NEW table, NEW work, \A i \in Settlers : work[i] = Idle
    PROVE  \A b \in Books : Ahead(table, work)[b] = table[b]
  <1>1. Midnight \in Settlers
    BY DEF Settlers
  <1> QED
    BY <1>1, AheadIs, RowTypes

LEMMA SettlingIs == Settling <=> ~Free(jobs)
  BY DEF Settling, Free, At

\* What a settlement that is under way leaves of the others.
LEMMA LoneSettler ==
    ASSUME LoneInv, NEW j \in Settlers, ~At(j, "idle")
    PROVE  /\ \A i \in Settlers \ {j} : jobs[i] = Idle
           /\ \A i \in Squarers : At(i, "idle")
  BY DEF LoneInv, AloneOK, ListOK, Sound, At, Free

\* The steps of users, of the clock and of the jobs that square off.
OtherStep ==
    \/ \E b \in Books, q \in Quantities : Trade(b, q)
    \/ \E b \in MisBooks : RestingFills(b) \/ \E q \in Quantities : PlaceResting(b, q)
    \/ \E j \in Squarers : SquareOff(j)
    \/ \E b \in FoBooks : ContractExpires(b)
    \/ ClockTicks \/ Crash

\* A fill, and in a delivery position one that a user has asked for.
FillStep ==
    \E b \in Books, q \in Int, m \in Nat :
        /\ Fill(b, q, m)
        /\ b \in CncBooks => Allowed(b, q) /\ m = OrderMargin(b, positions[b].qty, q)

\* What they do to the tables: nothing, or a fill when no settlement is under way.
LEMMA OtherIs ==
    ASSUME LoneInv, FailuresOnly, OtherStep
    PROVE  /\ disturbed' = disturbed /\ holdings' = holdings
           /\ \A j \in Settlers : jobs'[j] = jobs[j]
           /\ ~Free(jobs) => \A j \in Squarers : jobs'[j].task = "idle"
           /\ \/ positions' = positions /\ funds' = funds /\ traded' = traded
              \/ Free(jobs) /\ FillStep
  <1> DEFINE Nothing == positions' = positions /\ funds' = funds /\ traded' = traded
             Goal == /\ disturbed' = disturbed /\ holdings' = holdings
                     /\ \A j \in Settlers : jobs'[j] = jobs[j]
                     /\ ~Free(jobs) => \A j \in Squarers : jobs'[j].task = "idle"
                     /\ Nothing \/ (Free(jobs) /\ FillStep)
  <1>1. TypeInv /\ disturbed \in BOOLEAN /\ jobs \in [Jobs -> JobRecord]
    BY DEF LoneInv, TypeInv, TypeOK
  <1>2. \A c \in {"overlap", "crash", "undoes", "together", "trades"} : c \notin Circumstances
    BY DEF FailuresOnly
  <1>3. /\ ~Free(jobs) => \A j \in Squarers : jobs[j].task = "idle"
        /\ Free(jobs) => \A j \in Settlers : jobs[j] = Idle
    BY DEF LoneInv, AloneOK, ListOK, Sound, Free, At
  <1>4. ASSUME NEW b \in Books, NEW q \in Quantities, Trade(b, q)
        PROVE  Goal
    <2>1. /\ Free(jobs) /\ disturbed' = disturbed
      BY <1>1, <1>2, <1>4, SettlingIs DEF Trade, Disturbs
    <2>2. q \in Int /\ positions[b].qty \in Int
      BY <1>1, DayEndAssumption DEF Quantities, TypeInv, TypeOK, PositionRow
    <2>3. OrderMargin(b, positions[b].qty, q) \in Nat
      BY <2>2, OrderMarginType
    <2>4. Fill(b, q, OrderMargin(b, positions[b].qty, q)) /\ Allowed(b, q)
      BY <1>4 DEF Trade
    <2>5. FillStep
      BY <2>2, <2>3, <2>4 DEF FillStep
    <2> QED
      BY <1>4, <2>1, <2>5 DEF Trade
  <1>5. ASSUME NEW b \in MisBooks, RestingFills(b)
        PROVE  Goal
    <2>1. /\ Free(jobs) /\ disturbed' = disturbed
      BY <1>1, <1>2, <1>5, SettlingIs DEF RestingFills, Disturbs
    <2>2. /\ resting[b] \in Int /\ positions[b].qty \in Int
          /\ b \in Books /\ b \notin CncBooks
      BY <1>1, DayEndAssumption DEF TypeInv, TypeOK, PositionRow, Books
    <2>3. OrderMargin(b, positions[b].qty, resting[b]) \in Nat
      BY <2>2, OrderMarginType
    <2>4. FillStep
      BY <1>5, <2>2, <2>3 DEF FillStep, RestingFills
    <2> QED
      BY <1>5, <2>1, <2>4 DEF RestingFills
  <1>6. ASSUME NEW b \in MisBooks, NEW q \in Quantities, PlaceResting(b, q)
        PROVE  Goal
    BY <1>3, <1>6 DEF PlaceResting, rows
  <1>7. ASSUME NEW j \in Squarers, SquareOff(j)
        PROVE  Goal
    <2>1. j \in Jobs /\ j \notin Settlers /\ Settlers \subseteq Jobs
      BY DayEndAssumption DEF Jobs
    <2>2. Free(jobs)
      <3>1. CASE SquareOffStarts(j)
        BY <1>2, <3>1, SettlingIs DEF SquareOffStarts
      <3>2. CASE ~SquareOffStarts(j)
        <4>1. ~At(j, "idle")
          BY <1>7, <3>2 DEF SquareOff, ListsPositions, CancelsOrder, ReadsPosition,
             ChecksReducing, ClosesPosition, SquareOffEnds, At
        <4> QED
          BY <1>3, <4>1 DEF At
      <3> QED
        BY <3>1, <3>2
    <2>3. \A i \in Settlers : jobs'[i] = jobs[i]
      <3>1. CASE SquareOffStarts(j)
        BY <1>1, <2>1, <3>1 DEF SquareOffStarts
      <3>2. CASE ListsPositions(j)
        BY <1>1, <2>1, <3>2 DEF ListsPositions, Begin
      <3>3. ASSUME NEW b \in MisBooks, CancelsOrder(j, b)
            PROVE  \A i \in Settlers : jobs'[i] = jobs[i]
        BY <1>1, <2>1, <3>3, SkipIs DEF CancelsOrder, Books
      <3>4. ASSUME NEW b \in MisBooks, ReadsPosition(j, b)
            PROVE  \A i \in Settlers : jobs'[i] = jobs[i]
        <4>1. CASE Row(j, b).qty = 0
          BY <1>1, <2>1, <3>4, <4>1, SkipIs DEF ReadsPosition, Books
        <4>2. CASE Row(j, b).qty # 0
          BY <1>1, <2>1, <3>4, <4>2 DEF ReadsPosition
        <4> QED
          BY <4>1, <4>2
      <3>5. CASE ChecksReducing(j)
        BY <1>1, <2>1, <3>5 DEF ChecksReducing
      <3>6. CASE ClosesPosition(j)
        BY <1>1, <2>1, <3>6 DEF ClosesPosition, Commit
      <3>7. CASE SquareOffEnds(j)
        BY <1>1, <2>1, <3>7 DEF SquareOffEnds, Finish
      <3> QED
        BY <1>7, <3>1, <3>2, <3>3, <3>4, <3>5, <3>6, <3>7 DEF SquareOff
    <2>4. /\ disturbed' = disturbed /\ holdings' = holdings
          /\ Nothing \/ FillStep
      <3>1. CASE ClosesPosition(j)
        <4>1. /\ disturbed' = disturbed /\ holdings' = holdings
          BY <1>1, <2>2, <3>1, SettlingIs DEF ClosesPosition, Disturbs
        <4> DEFINE b == jobs[j].book
                   q == -jobs[j].seen[b].qty
        <4>2. b \in Books /\ b \notin CncBooks /\ q \in Int
          BY <1>1, <2>1, <3>1, DayEndAssumption
             DEF ClosesPosition, At, TypeInv, WorkOK, JobRecord, PositionRow, Books
        <4>3. Fill(b, q, 0)
          BY <3>1 DEF ClosesPosition
        <4> HIDE DEF b, q
        <4>4. FillStep
          BY <4>2, <4>3 DEF FillStep
        <4> QED
          BY <4>1, <4>4
      <3>2. CASE ~ClosesPosition(j)
        BY <1>7, <3>2 DEF SquareOff, SquareOffStarts, ListsPositions, CancelsOrder, ReadsPosition,
           ChecksReducing, SquareOffEnds, rows
      <3> QED
        BY <3>1, <3>2
    <2> QED
      BY <2>2, <2>3, <2>4
  <1>8. ASSUME NEW b \in FoBooks, ContractExpires(b)
        PROVE  Goal
    BY <1>3, <1>8 DEF ContractExpires, rows
  <1>9. CASE ClockTicks
    BY <1>3, <1>9 DEF ClockTicks
  <1>10. CASE Crash
    <2>1. Free(jobs) /\ disturbed' = disturbed
      BY <1>1, <1>2, <1>10, SettlingIs DEF Crash, Disturbs
    <2>2. \A j \in Settlers : jobs'[j] = jobs[j]
      BY <1>3, <1>10, <2>1 DEF Crash, Jobs
    <2> QED
      BY <1>10, <2>1, <2>2 DEF Crash, rows
  <1> QED
    BY <1>4, <1>5, <1>6, <1>7, <1>8, <1>9, <1>10 DEF OtherStep

LEMMA OtherLone ==
    ASSUME LoneInv, FailuresOnly, OtherStep
    PROVE  LoneInv'
  <1>1. TypeInv'
    BY UsersType, SquareOffType DEF OtherStep, LoneInv
  <1>2. /\ \A j \in Settlers : jobs'[j] = jobs[j]
        /\ ~Free(jobs) => \A j \in Squarers : jobs'[j].task = "idle"
        /\ positions' = positions \/ Free(jobs)
    BY OtherIs
  <1>3. AloneOK'
    BY <1>2 DEF LoneInv, AloneOK, Free, At
  <1>4. ASSUME NEW j \in Settlers
        PROVE  Sound(jobs'[j], positions')
    <2>1. Sound(jobs[j], positions) /\ jobs'[j] = jobs[j]
      BY <1>2 DEF LoneInv, ListOK
    <2>2. CASE positions' = positions
      BY <2>1, <2>2
    <2>3. CASE Free(jobs)
      <3>1. jobs[j].task = "idle" /\ jobs[j].todo = {}
        BY <2>1, <2>3, RowTypes DEF Free, Sound
      <3> QED
        BY <2>1, <3>1 DEF Sound
    <2> QED
      BY <1>2, <2>2, <2>3
  <1> QED
    BY <1>1, <1>3, <1>4 DEF LoneInv, ListOK

-----------------------------------------------------------------------------
(* The steps of a settlement, seen from its end                            *)

\* What a settlement leaves in place: the others do nothing.
LEMMA LoneMoves ==
    ASSUME LoneInv, TypeInv', NEW j \in Settlers, \A i \in Jobs \ {j} : jobs'[i] = jobs[i],
           ~At(j, "idle") \/ (Free(jobs) /\ \A i \in Squarers : At(i, "idle")),
           Sound(jobs'[j], positions')
    PROVE  /\ LoneInv'
           /\ \A i \in Settlers \ {j} : jobs[i] = Idle /\ jobs'[i] = Idle
  <1>1. /\ \A i \in Settlers \ {j} : jobs[i] = Idle
        /\ \A i \in Squarers : At(i, "idle")
    BY LoneSettler DEF LoneInv, ListOK, Sound, Free
  <1>2. /\ \A i \in Settlers \ {j} : jobs'[i] = Idle
        /\ \A i \in Squarers : At(i, "idle")'
    BY <1>1, DayEndAssumption DEF Jobs, At
  <1>3. AloneOK'
    BY <1>2, RowTypes DEF AloneOK, At
  <1>4. \A i \in Settlers \ {j} : Sound(jobs'[i], positions')
    BY <1>2, RowTypes DEF Sound
  <1> QED
    BY <1>1, <1>2, <1>3, <1>4 DEF LoneInv, ListOK

AheadNow == Ahead(positions, jobs)

\* Before and after a step, when the others do nothing.
LEMMA AheadNowIs ==
    ASSUME NEW j \in Settlers, \A i \in Settlers \ {j} : jobs[i] = Idle /\ jobs'[i] = Idle
    PROVE  /\ \A c \in Books :
                 AheadNow[c] = IF c \in jobs[j].gone THEN NoPosition
                               ELSE IF jobs[j].task = "released" /\ jobs[j].book = c
                                    THEN Closed(positions[c].realized - positions[c].qty)
                               ELSE positions[c]
           /\ \A c \in Books :
                 AheadNow'[c] = IF c \in jobs'[j].gone THEN NoPosition
                                ELSE IF jobs'[j].task = "released" /\ jobs'[j].book = c
                                     THEN Closed(positions'[c].realized - positions'[c].qty)
                                ELSE positions'[c]
  <1>1. \A i \in Settlers \ {j} : jobs[i].gone = {} /\ jobs[i].task # "released"
    BY RowTypes
  <1>2. \A i \in Settlers \ {j} : jobs'[i].gone = {} /\ jobs'[i].task # "released"
    BY RowTypes
  <1>3. \A c \in Books :
           /\ (\E i \in Settlers : c \in jobs[i].gone) <=> c \in jobs[j].gone
           /\ (\E i \in Settlers : jobs[i].task = "released" /\ jobs[i].book = c)
                <=> jobs[j].task = "released" /\ jobs[j].book = c
    BY <1>1
  <1>4. \A c \in Books :
           /\ (\E i \in Settlers : c \in jobs'[i].gone) <=> c \in jobs'[j].gone
           /\ (\E i \in Settlers : jobs'[i].task = "released" /\ jobs'[i].book = c)
                <=> jobs'[j].task = "released" /\ jobs'[j].book = c
    BY <1>2
  <1>5. \A c \in Books :
           AheadNow[c] = IF c \in jobs[j].gone THEN NoPosition
                         ELSE IF jobs[j].task = "released" /\ jobs[j].book = c
                              THEN Closed(positions[c].realized - positions[c].qty)
                         ELSE positions[c]
    BY <1>3 DEF AheadNow, Ahead
  <1>6. \A c \in Books :
           AheadNow'[c] = IF c \in jobs'[j].gone THEN NoPosition
                          ELSE IF jobs'[j].task = "released" /\ jobs'[j].book = c
                               THEN Closed(positions'[c].realized - positions'[c].qty)
                          ELSE positions'[c]
    BY <1>4 DEF AheadNow, Ahead
  <1> QED
    BY <1>5, <1>6

Keeps == \A c \in Books : AheadNow'[c] = AheadNow[c]

\* The step brings the end of one position.
Turns(b, row) ==
    /\ AheadNow[b] = positions[b] /\ AheadNow'[b] = row
    /\ \A c \in Books \ {b} : AheadNow'[c] = AheadNow[c]

\* Rows of delivery positions are as they were or gone, and rows of others than
\* derivatives book no profit.
RowsStay ==
    /\ \A c \in CncBooks : positions'[c] \in {positions[c], NoPosition}
    /\ \A c \in MisBooks : positions'[c].realized = positions[c].realized

\* The steps that only read a list or leave it.
ListSteps(j) ==
    \/ StaleListed(j) \/ ExpiredListed(j) \/ SettlementStarts(j) \/ ViewEnds(j)

LEMMA ListStepsIs ==
    ASSUME LoneInv, FailuresOnly, NEW j \in Settlers, ListSteps(j)
    PROVE  /\ LoneInv' /\ Keeps /\ positions' = positions
           /\ holdings' = holdings /\ funds' = funds /\ disturbed' = disturbed /\ traded' = traded
  <1>1. TypeInv /\ TypeInv' /\ j \in Jobs /\ Sound(jobs[j], positions)
    BY SettlementType DEF LoneInv, ListSteps, Settlement, Jobs, ListOK
  <1>2. /\ positions' = positions
        /\ holdings' = holdings /\ funds' = funds /\ disturbed' = disturbed /\ traded' = traded
    BY DEF ListSteps, StaleListed, ExpiredListed, SettlementStarts, ViewEnds, rows
  <1>3. \A c \in {"overlap", "crash", "undoes", "together", "trades"} : c \notin Circumstances
    BY DEF FailuresOnly
  <1>4. /\ jobs[j].gone = {} /\ jobs[j].task # "released"
        /\ ~At(j, "idle") \/ (Free(jobs) /\ \A i \in Squarers : At(i, "idle"))
    <2>1. CASE SettlementMayStart(j)
      BY <1>1, <1>3, <2>1, SettlingIs, RowTypes DEF SettlementMayStart, SquaringOff, Sound, At
    <2>2. CASE ~SettlementMayStart(j)
      <3>1. jobs[j].task \in {"stale", "expire"}
        BY <2>2 DEF ListSteps, StaleListed, ExpiredListed, SettlementStarts, ViewEnds, At
      <3> QED
        BY <1>1, <3>1 DEF Sound, At
    <2> QED
      BY <2>1, <2>2
  <1>5. /\ \A i \in Jobs \ {j} : jobs'[i] = jobs[i]
        /\ jobs'[j].gone = {} /\ jobs'[j].task # "released"
        /\ Sound(jobs'[j], positions')
    <2>1. CASE ViewEnds(j)
      BY <1>1, <2>1, FinishIs, RowTypes DEF ViewEnds, Sound
    <2>2. ASSUME NEW task \in {"stale", "settle", "expire"}, NEW todo \in SUBSET Books,
                 Begin(j, task, todo)
          PROVE  /\ \A i \in Jobs \ {j} : jobs'[i] = jobs[i]
                 /\ jobs'[j].gone = {} /\ jobs'[j].task # "released"
                 /\ Sound(jobs'[j], positions')
      BY <1>1, <1>2, <2>2, BeginIs DEF Sound
    <2>3. CASE StaleListed(j)
      <3>1. {b \in MisBooks : positions[b].qty # 0 /\ created[b] = "earlier"} \in SUBSET Books
        BY DEF Books
      <3> QED
        BY <2>2, <2>3, <3>1 DEF StaleListed
    <2>4. CASE ExpiredListed(j)
      <3>1. {b \in expired : positions[b].qty # 0} \in SUBSET Books
        BY <1>1 DEF Books, TypeInv, TypeOK
      <3> QED
        BY <2>2, <2>4, <3>1 DEF ExpiredListed
    <2>5. CASE SettlementStarts(j)
      <3>1. SettlementDue \in SUBSET Books
        BY DEF SettlementDue, Books
      <3> QED
        BY <2>2, <2>5, <3>1 DEF SettlementStarts
    <2> QED
      BY <2>1, <2>3, <2>4, <2>5 DEF ListSteps
  <1>6. LoneInv' /\ \A i \in Settlers \ {j} : jobs[i] = Idle /\ jobs'[i] = Idle
    BY <1>1, <1>4, <1>5, LoneMoves
  <1>7. Keeps
    <2>1. \A b \in Books : AheadNow[b] = positions[b]
      BY <1>4, <1>6, AheadNowIs
    <2>2. \A b \in Books : AheadNow'[b] = positions'[b]
      BY <1>5, <1>6, AheadNowIs
    <2> QED
      BY <1>2, <2>1, <2>2 DEF Keeps
  <1> QED
    BY <1>2, <1>6, <1>7

\* The last deletions.
LEMMA EndsIs ==
    ASSUME LoneInv, NEW j \in Settlers, SettlementEnds(j)
    PROVE  /\ LoneInv' /\ Keeps /\ RowsStay
           /\ holdings' = holdings /\ funds' = funds /\ disturbed' = disturbed /\ traded' = traded
  <1>1. /\ TypeInv /\ TypeInv' /\ j \in Jobs /\ Sound(jobs[j], positions)
        /\ ~At(j, "idle") /\ jobs[j].task = "settle" /\ jobs[j].gone \in SUBSET Books
        /\ jobs[j].gone \subseteq CncBooks
    BY SettlementType DEF LoneInv, Settlement, Jobs, ListOK, SettlementEnds, At, Sound,
       TypeInv, TypeOK, JobRecord
  <1>2. /\ \A c \in jobs[j].gone : positions'[c] = NoPosition
        /\ \A c \in Books \ jobs[j].gone : positions'[c] = positions[c]
    BY <1>1, DeleteIs DEF SettlementEnds
  <1>3. /\ jobs'[j] = Idle /\ \A i \in Jobs \ {j} : jobs'[i] = jobs[i]
    BY <1>1, FinishIs DEF SettlementEnds
  <1>4. Sound(jobs'[j], positions')
    BY <1>3, RowTypes DEF Sound
  <1>5. LoneInv' /\ \A i \in Settlers \ {j} : jobs[i] = Idle /\ jobs'[i] = Idle
    BY <1>1, <1>3, <1>4, LoneMoves
  <1>6. \A b \in Books : AheadNow[b] = IF b \in jobs[j].gone THEN NoPosition ELSE positions[b]
    BY <1>1, <1>5, AheadNowIs
  <1>7. \A b \in Books : AheadNow'[b] = positions'[b]
    BY <1>3, <1>5, AheadNowIs, RowTypes
  <1>8. Keeps /\ RowsStay
    BY <1>1, <1>2, <1>6, <1>7, DayEndAssumption DEF Keeps, RowsStay, Books
  <1> QED
    BY <1>5, <1>8 DEF SettlementEnds

LEMMA NothingMoves ==
    ASSUME LoneInv, NEW j \in Settlers, NEW b \in CncBooks, SettlesNothing(j, b)
    PROVE  /\ LoneInv' /\ Turns(b, NoPosition) /\ positions[b].qty = 0 /\ positions' = positions
           /\ holdings' = holdings /\ funds' = funds /\ disturbed' = disturbed /\ traded' = traded
  <1>1. /\ TypeInv /\ TypeInv' /\ j \in Jobs /\ Sound(jobs[j], positions) /\ b \in Books
        /\ ~At(j, "idle") /\ jobs[j].task = "settle" /\ b \in jobs[j].todo
        /\ b \notin jobs[j].gone /\ Row(j, b) = positions[b]
    BY SettlementType DEF LoneInv, Settlement, Jobs, ListOK, SettlesNothing, At, Sound, Books, Row
  <1>2. /\ positions' = positions /\ Row(j, b).qty = 0
        /\ holdings' = holdings /\ funds' = funds /\ disturbed' = disturbed /\ traded' = traded
    BY DEF SettlesNothing, rows
  <1>3. /\ \A i \in Jobs \ {j} : jobs'[i] = jobs[i]
        /\ jobs'[j].task = "settle" /\ jobs'[j].todo = jobs[j].todo \ {b}
        /\ jobs'[j].gone = jobs[j].gone \cup {b}
        /\ jobs'[j].fresh = jobs[j].fresh /\ jobs'[j].seen = jobs[j].seen
    BY <1>1, NothingIs
  <1>4. Sound(jobs'[j], positions')
    BY <1>1, <1>2, <1>3 DEF Sound
  <1>5. LoneInv' /\ \A i \in Settlers \ {j} : jobs[i] = Idle /\ jobs'[i] = Idle
    BY <1>1, <1>3, <1>4, LoneMoves
  <1>6. \A c \in Books : AheadNow[c] = IF c \in jobs[j].gone THEN NoPosition ELSE positions[c]
    BY <1>1, <1>5, AheadNowIs
  <1>7. \A c \in Books : AheadNow'[c] = IF c \in jobs'[j].gone THEN NoPosition ELSE positions'[c]
    BY <1>3, <1>5, AheadNowIs
  <1>8. Turns(b, NoPosition)
    BY <1>1, <1>2, <1>3, <1>6, <1>7 DEF Turns
  <1> QED
    BY <1>1, <1>2, <1>5, <1>8

LEMMA SettlesMoves ==
    ASSUME LoneInv, NEW j \in Settlers, NEW b \in CncBooks, Settles(j, b)
    PROVE  /\ LoneInv' /\ Turns(b, NoPosition) /\ RowsStay /\ positions[b].qty # 0
           /\ holdings'[b] = holdings[b] + positions[b].qty
           /\ \A c \in CncBooks \ {b} : holdings'[c] = holdings[c]
           /\ funds' = SettledFunds(funds, positions[b].qty, holdings[b])
           /\ funds'.realized = funds.realized
           /\ disturbed' = disturbed /\ traded' = traded
  <1>1. /\ TypeInv /\ TypeInv' /\ j \in Jobs /\ Sound(jobs[j], positions) /\ b \in Books
        /\ ~At(j, "idle") /\ jobs[j].task = "settle" /\ b \in jobs[j].todo
        /\ jobs[j].gone \subseteq CncBooks
        /\ b \notin jobs[j].gone /\ Row(j, b) = positions[b]
    BY SettlementType DEF LoneInv, Settlement, Jobs, ListOK, Settles, At, Sound, Books, Row
  <1>2. positions[b].qty # 0 /\ disturbed' = disturbed /\ traded' = traded
    BY <1>1 DEF Settles
  <1>3. /\ \A i \in Jobs \ {j} : jobs'[i] = jobs[i]
        /\ jobs'[j].task = "settle" /\ jobs'[j].todo = jobs[j].todo \ {b}
        /\ jobs'[j].gone = {b} /\ ~jobs'[j].fresh
        /\ \A c \in jobs[j].gone : positions'[c] = NoPosition
        /\ \A c \in Books \ jobs[j].gone : positions'[c] = positions[c]
        /\ holdings'[b] = holdings[b] + positions[b].qty
        /\ \A c \in CncBooks \ {b} : holdings'[c] = holdings[c]
        /\ funds' = SettledFunds(funds, positions[b].qty, holdings[b])
        /\ funds'.realized = funds.realized
    BY <1>1, SettlesIs
  <1>4. Sound(jobs'[j], positions')
    BY <1>1, <1>3 DEF Sound
  <1>5. LoneInv' /\ \A i \in Settlers \ {j} : jobs[i] = Idle /\ jobs'[i] = Idle
    BY <1>1, <1>3, <1>4, LoneMoves
  <1>6. \A c \in Books : AheadNow[c] = IF c \in jobs[j].gone THEN NoPosition ELSE positions[c]
    BY <1>1, <1>5, AheadNowIs
  <1>7. \A c \in Books : AheadNow'[c] = IF c = b THEN NoPosition ELSE positions'[c]
    <2>1. \A c \in Books : AheadNow'[c] = IF c \in jobs'[j].gone THEN NoPosition ELSE positions'[c]
      BY <1>3, <1>5, AheadNowIs
    <2> QED
      BY <1>3, <2>1
  <1>8. Turns(b, NoPosition)
    BY <1>1, <1>3, <1>6, <1>7 DEF Turns
  <1>9. RowsStay
    BY <1>1, <1>3, DayEndAssumption DEF RowsStay, Books
  <1> QED
    BY <1>2, <1>3, <1>5, <1>8, <1>9

LEMMA FailsMoves ==
    ASSUME LoneInv, FailuresOnly, NEW j \in Settlers, NEW b \in CncBooks, SettleFails(j, b)
    PROVE  /\ LoneInv' /\ Turns(b, NoPosition) /\ positions' = positions
           /\ holdings' = holdings /\ funds' = funds /\ disturbed' = TRUE /\ traded' = traded
  <1>1. /\ TypeInv /\ TypeInv' /\ j \in Jobs /\ Sound(jobs[j], positions) /\ b \in Books
        /\ ~At(j, "idle") /\ jobs[j].task = "settle" /\ b \in jobs[j].todo
        /\ b \notin jobs[j].gone
    BY SettlementType DEF LoneInv, Settlement, Jobs, ListOK, SettleFails, At, Sound, Books
  <1>2. /\ positions' = positions /\ jobs[j].gone = {} /\ disturbed' = TRUE
        /\ holdings' = holdings /\ funds' = funds /\ traded' = traded
    <2>1. Disturbs(TRUE, IF jobs[j].gone = {} THEN "fails" ELSE "undoes")
      BY DEF SettleFails
    <2>2. "undoes" \notin Circumstances
      BY DEF FailuresOnly
    <2>3. jobs[j].gone = {} /\ disturbed' = TRUE
      BY <2>1, <2>2 DEF Disturbs
    <2> QED
      BY <2>3 DEF SettleFails, rows
  <1>3. /\ \A i \in Jobs \ {j} : jobs'[i] = jobs[i]
        /\ jobs'[j].task = "settle" /\ jobs'[j].todo = jobs[j].todo \ {b}
        /\ jobs'[j].gone = {b} /\ ~jobs'[j].fresh
    BY <1>1, FailsIs
  <1>4. Sound(jobs'[j], positions')
    BY <1>1, <1>3 DEF Sound
  <1>5. LoneInv' /\ \A i \in Settlers \ {j} : jobs[i] = Idle /\ jobs'[i] = Idle
    BY <1>1, <1>3, <1>4, LoneMoves
  <1>6. \A c \in Books : AheadNow[c] = positions[c]
    BY <1>1, <1>2, <1>5, AheadNowIs
  <1>7. \A c \in Books : AheadNow'[c] = IF c \in jobs'[j].gone THEN NoPosition ELSE positions'[c]
    BY <1>3, <1>5, AheadNowIs
  <1>8. Turns(b, NoPosition)
    BY <1>1, <1>2, <1>3, <1>6, <1>7 DEF Turns
  <1> QED
    BY <1>2, <1>5, <1>8

LEMMA StaleMoves ==
    ASSUME LoneInv, NEW j \in Settlers, NEW b \in MisBooks, SettlesStale(j, b)
    PROVE  /\ LoneInv' /\ Turns(b, positions'[b]) /\ RowsStay
           /\ positions'[b].margin = 0 /\ positions'[b].realized = positions[b].realized
           /\ holdings' = holdings /\ disturbed' = disturbed /\ traded' = traded
           /\ funds'.realized = funds.realized
           /\ funds'.avail = funds.avail + positions[b].margin
           /\ funds'.used = IF funds.used >= positions[b].margin
                            THEN funds.used - positions[b].margin ELSE 0
  <1>1. /\ TypeInv /\ TypeInv' /\ j \in Jobs /\ Sound(jobs[j], positions) /\ b \in Books
        /\ ~At(j, "idle") /\ jobs[j].task = "stale" /\ b \in jobs[j].todo
        /\ jobs[j].gone = {} /\ Row(j, b) = positions[b]
    BY SettlementType DEF LoneInv, Settlement, Jobs, ListOK, SettlesStale, At, Sound, Books, Row
  <1>2. /\ \A i \in Jobs \ {j} : jobs'[i] = jobs[i]
        /\ jobs'[j].task = "stale" /\ jobs'[j].todo = jobs[j].todo \ {b}
        /\ jobs'[j].gone = {} /\ ~jobs'[j].fresh
        /\ positions'[b].margin = 0 /\ positions'[b].realized = positions[b].realized
        /\ \A c \in Books \ {b} : positions'[c] = positions[c]
        /\ funds'.realized = funds.realized
        /\ funds'.avail = funds.avail + positions[b].margin
        /\ funds'.used = IF funds.used >= positions[b].margin
                         THEN funds.used - positions[b].margin ELSE 0
    BY <1>1, StaleIs
  <1>3. Sound(jobs'[j], positions')
    BY <1>1, <1>2 DEF Sound
  <1>4. LoneInv' /\ \A i \in Settlers \ {j} : jobs[i] = Idle /\ jobs'[i] = Idle
    BY <1>1, <1>2, <1>3, LoneMoves
  <1>5. \A c \in Books : AheadNow[c] = positions[c]
    BY <1>1, <1>4, AheadNowIs
  <1>6. \A c \in Books : AheadNow'[c] = positions'[c]
    BY <1>2, <1>4, AheadNowIs
  <1>7. Turns(b, positions'[b]) /\ RowsStay
    BY <1>1, <1>2, <1>5, <1>6, DayEndAssumption DEF Turns, RowsStay, Books
  <1> QED
    BY <1>2, <1>4, <1>7 DEF SettlesStale

LEMMA ReleasesMoves ==
    ASSUME LoneInv, NEW j \in Settlers, NEW b \in FoBooks, ReleasesExpired(j, b)
    PROVE  /\ LoneInv' /\ Turns(b, Closed(positions[b].realized - positions[b].qty))
           /\ positions' = positions
           /\ holdings' = holdings /\ disturbed' = disturbed /\ traded' = traded
           /\ funds'.avail = funds.avail + positions[b].margin - positions[b].qty
           /\ funds'.used = funds.used - positions[b].margin
           /\ funds'.realized = funds.realized - positions[b].qty
  <1>1. /\ TypeInv /\ TypeInv' /\ j \in Jobs /\ Sound(jobs[j], positions) /\ b \in Books
        /\ ~At(j, "idle") /\ jobs[j].task = "expire" /\ b \in jobs[j].todo
        /\ jobs[j].gone = {} /\ Row(j, b) = positions[b]
    BY SettlementType DEF LoneInv, Settlement, Jobs, ListOK, ReleasesExpired, At, Sound, Books, Row
  <1>2. /\ positions' = positions
        /\ holdings' = holdings /\ disturbed' = disturbed /\ traded' = traded
    BY DEF ReleasesExpired, rows
  <1>3. /\ \A i \in Jobs \ {j} : jobs'[i] = jobs[i]
        /\ jobs'[j].task = "released" /\ jobs'[j].todo = jobs[j].todo \ {b}
        /\ jobs'[j].book = b /\ jobs'[j].seen[b] = positions[b]
        /\ jobs'[j].gone = {}
        /\ funds'.avail = funds.avail + positions[b].margin - positions[b].qty
        /\ funds'.used = funds.used - positions[b].margin
        /\ funds'.realized = funds.realized - positions[b].qty
    BY <1>1, ReleasesIs
  <1>4. Sound(jobs'[j], positions')
    BY <1>1, <1>2, <1>3 DEF Sound
  <1>5. LoneInv' /\ \A i \in Settlers \ {j} : jobs[i] = Idle /\ jobs'[i] = Idle
    BY <1>1, <1>3, <1>4, LoneMoves
  <1>6. \A c \in Books : AheadNow[c] = positions[c]
    BY <1>1, <1>5, AheadNowIs
  <1>7. \A c \in Books :
           AheadNow'[c] = IF c = b THEN Closed(positions[b].realized - positions[b].qty)
                          ELSE positions[c]
    <2>1. \A c \in Books :
             AheadNow'[c] = IF jobs'[j].book = c
                            THEN Closed(positions'[c].realized - positions'[c].qty)
                            ELSE positions'[c]
      BY <1>3, <1>5, AheadNowIs
    <2> QED
      BY <1>2, <1>3, <2>1
  <1>8. Turns(b, Closed(positions[b].realized - positions[b].qty))
    BY <1>1, <1>6, <1>7 DEF Turns
  <1> QED
    BY <1>2, <1>3, <1>5, <1>8

LEMMA ClosesMoves ==
    ASSUME LoneInv, NEW j \in Settlers, ClosesExpired(j)
    PROVE  /\ LoneInv' /\ Keeps /\ RowsStay
           /\ holdings' = holdings /\ funds' = funds /\ disturbed' = disturbed /\ traded' = traded
  <1> DEFINE b == jobs[j].book
  <1>1. /\ TypeInv /\ TypeInv' /\ j \in Jobs /\ Sound(jobs[j], positions)
        /\ ~At(j, "idle") /\ jobs[j].task = "released"
        /\ jobs[j].gone = {} /\ jobs[j].seen[b] = positions[b] /\ b \in FoBooks /\ b \in Books
    BY SettlementType DEF LoneInv, Settlement, Jobs, ListOK, ClosesExpired, At, Sound, Books,
       TypeInv, WorkOK
  <1>2. /\ holdings' = holdings /\ funds' = funds /\ disturbed' = disturbed /\ traded' = traded
    BY DEF ClosesExpired
  <1>3. /\ \A i \in Jobs \ {j} : jobs'[i] = jobs[i]
        /\ jobs'[j].task = "expire" /\ jobs'[j].todo = jobs[j].todo
        /\ jobs'[j].gone = {} /\ ~jobs'[j].fresh
        /\ positions'[b] = Closed(positions[b].realized - positions[b].qty)
        /\ \A c \in Books \ {b} : positions'[c] = positions[c]
    BY <1>1, ClosesIs
  <1>4. Sound(jobs'[j], positions')
    BY <1>1, <1>3 DEF Sound
  <1>5. LoneInv' /\ \A i \in Settlers \ {j} : jobs[i] = Idle /\ jobs'[i] = Idle
    BY <1>1, <1>3, <1>4, LoneMoves
  <1>6. \A c \in Books :
           AheadNow[c] = IF b = c THEN Closed(positions[c].realized - positions[c].qty)
                         ELSE positions[c]
    BY <1>1, <1>5, AheadNowIs
  <1>7. \A c \in Books : AheadNow'[c] = positions'[c]
    BY <1>3, <1>5, AheadNowIs
  <1>8. Keeps /\ RowsStay
    BY <1>1, <1>3, <1>6, <1>7, DayEndAssumption DEF Keeps, RowsStay, Books
  <1> QED
    BY <1>2, <1>5, <1>8

-----------------------------------------------------------------------------
(* Shares                                                                  *)

\* What a user has bought is in the positions, as they will be, or held.
SharesOK ==
    ~disturbed => \A b \in CncBooks : AheadNow[b].qty + holdings[b] = traded[b]

\* The positions ahead are rows, and those of now when no settlement is under way.
LEMMA AheadNowType ==
    ASSUME TypeInv
    PROVE  AheadNow \in [Books -> PositionRow]
  <1>1. ASSUME NEW b \in Books
        PROVE  Closed(positions[b].realized - positions[b].qty) \in PositionRow
    <2>1. positions[b].realized - positions[b].qty \in Int
      BY DEF TypeInv, TypeOK, PositionRow
    <2> QED
      BY <2>1, ClosedType
  <1> QED
    BY <1>1, RowTypes DEF AheadNow, Ahead, TypeInv, TypeOK

LEMMA AheadNowTypeNext ==
    ASSUME TypeInv'
    PROVE  AheadNow' \in [Books -> PositionRow]
  <1>1. ASSUME NEW b \in Books
        PROVE  Closed(positions'[b].realized - positions'[b].qty) \in PositionRow
    <2>1. positions'[b].realized - positions'[b].qty \in Int
      BY DEF TypeInv, TypeOK, PositionRow
    <2> QED
      BY <2>1, ClosedType
  <1> QED
    BY <1>1, RowTypes DEF AheadNow, Ahead, TypeInv, TypeOK

LEMMA AheadNowQuiet ==
    ASSUME LoneInv, Free(jobs), \A j \in Settlers : jobs'[j] = jobs[j]
    PROVE  \A b \in Books : AheadNow[b] = positions[b] /\ AheadNow'[b] = positions'[b]
  <1>1. Midnight \in Settlers /\ \A j \in Settlers : jobs[j] = Idle /\ jobs'[j] = Idle
    BY DEF Settlers, LoneInv, ListOK, Sound, Free
  <1> QED
    BY <1>1, AheadNowIs, RowTypes

LEMMA AheadNowSame ==
    ASSUME TypeInv, TypeInv', positions' = positions, \A j \in Settlers : jobs'[j] = jobs[j]
    PROVE  Keeps
  BY DEF Keeps, AheadNow, Ahead

LEMMA OtherShares ==
    ASSUME LoneInv, FailuresOnly, SharesOK, OtherStep
    PROVE  SharesOK'
  <1>1. /\ LoneInv' /\ TypeInv /\ TypeInv' /\ disturbed' = disturbed /\ holdings' = holdings
        /\ \A j \in Settlers : jobs'[j] = jobs[j]
    BY OtherIs, OtherLone DEF LoneInv
  <1>2. CASE positions' = positions /\ funds' = funds /\ traded' = traded
    <2>1. Keeps
      BY <1>1, <1>2, AheadNowSame
    <2> QED
      BY <1>1, <1>2, <2>1 DEF SharesOK, Keeps, Books
  <1>3. CASE Free(jobs) /\ FillStep
    <2>1. PICK b \in Books, q \in Int, m \in Nat : Fill(b, q, m)
      BY <1>3 DEF FillStep
    <2>2. \A c \in Books : AheadNow[c] = positions[c] /\ AheadNow'[c] = positions'[c]
      BY <1>1, <1>3, AheadNowQuiet
    <2>3. /\ positions'[b].qty = positions[b].qty + q
          /\ \A c \in Books \ {b} : positions'[c] = positions[c]
          /\ b \in CncBooks => traded'[b] = traded[b] + q
          /\ \A c \in CncBooks \ {b} : traded'[c] = traded[c]
      BY <1>1, <2>1, FillIs
    <2>4. ASSUME ~disturbed, NEW c \in CncBooks
          PROVE  positions'[c].qty + holdings[c] = traded'[c]
      <3>1. /\ c \in Books /\ positions[c].qty \in Int /\ holdings[c] \in Int /\ traded[c] \in Int
            /\ positions[c].qty + holdings[c] = traded[c]
        BY <1>1, <2>2, <2>4 DEF Books, SharesOK, TypeInv, TypeOK, PositionRow
      <3> QED
        BY <2>1, <2>3, <3>1
    <2> QED
      BY <1>1, <2>2, <2>4 DEF SharesOK, Books
  <1> QED
    BY <1>2, <1>3, OtherIs

\* The steps of a settlement, each by what the lemmas above say of it.
LEMMA SettlementShares ==
    ASSUME LoneInv, FailuresOnly, SharesOK, NEW j \in Settlers, Settlement(j)
    PROVE  LoneInv' /\ SharesOK'
  <1>1. TypeInv /\ CncBooks \subseteq Books
    BY DEF LoneInv, Books
  <1>2. ASSUME LoneInv', Keeps, holdings' = holdings, disturbed' = disturbed, traded' = traded
        PROVE  LoneInv' /\ SharesOK'
    BY <1>1, <1>2 DEF SharesOK, Keeps
  <1>3. ASSUME NEW b \in Books, NEW row, row.qty = positions[b].qty, LoneInv', Turns(b, row),
               holdings' = holdings, disturbed' = disturbed, traded' = traded
        PROVE  LoneInv' /\ SharesOK'
    BY <1>1, <1>3 DEF SharesOK, Turns
  <1>4. ASSUME NEW b \in Books \ CncBooks, NEW row, LoneInv', Turns(b, row),
               holdings' = holdings, disturbed' = disturbed, traded' = traded
        PROVE  LoneInv' /\ SharesOK'
    BY <1>1, <1>4 DEF SharesOK, Turns
  <1>5. CASE ListSteps(j)
    BY <1>2, <1>5, ListStepsIs
  <1>6. CASE SettlementEnds(j)
    BY <1>2, <1>6, EndsIs
  <1>7. CASE ClosesExpired(j)
    BY <1>2, <1>7, ClosesMoves
  <1>8. ASSUME NEW b \in MisBooks, SettlesStale(j, b)
        PROVE  LoneInv' /\ SharesOK'
    <2>1. b \in Books \ CncBooks
      BY DayEndAssumption DEF Books
    <2> QED
      BY <1>4, <1>8, <2>1, StaleMoves
  <1>9. ASSUME NEW b \in FoBooks, ReleasesExpired(j, b)
        PROVE  LoneInv' /\ SharesOK'
    <2>1. b \in Books \ CncBooks
      BY DayEndAssumption DEF Books
    <2> DEFINE row == Closed(positions[b].realized - positions[b].qty)
    <2>2. /\ LoneInv' /\ Turns(b, row)
          /\ holdings' = holdings /\ disturbed' = disturbed /\ traded' = traded
      BY <1>9, ReleasesMoves
    <2> HIDE DEF row
    <2> QED
      BY <1>4, <2>1, <2>2
  <1>10. ASSUME NEW b \in CncBooks, SettlesNothing(j, b)
         PROVE  LoneInv' /\ SharesOK'
    <2>1. NoPosition.qty = 0 /\ b \in Books
      BY <1>1 DEF NoPosition
    <2> QED
      BY <1>3, <1>10, <2>1, NothingMoves
  <1>11. ASSUME NEW b \in CncBooks, Settles(j, b)
         PROVE  LoneInv' /\ SharesOK'
    <2>1. /\ LoneInv' /\ Turns(b, NoPosition)
          /\ holdings'[b] = holdings[b] + positions[b].qty
          /\ \A c \in CncBooks \ {b} : holdings'[c] = holdings[c]
          /\ disturbed' = disturbed /\ traded' = traded
      BY <1>11, SettlesMoves
    <2>2. positions[b].qty \in Int /\ holdings[b] \in Int /\ NoPosition.qty = 0
      BY <1>1 DEF TypeInv, TypeOK, PositionRow, NoPosition
    <2> QED
      BY <1>1, <2>1, <2>2 DEF SharesOK, Turns
  <1>12. ASSUME NEW b \in CncBooks, SettleFails(j, b)
         PROVE  LoneInv' /\ SharesOK'
    BY <1>12, FailsMoves DEF SharesOK
  <1> QED
    BY <1>5, <1>6, <1>7, <1>8, <1>9, <1>10, <1>11, <1>12 DEF Settlement, ListSteps

LEMMA NextIs ==
    ASSUME Next
    PROVE  OtherStep \/ \E j \in Settlers : Settlement(j)
  BY DEF Next, OtherStep

LEMMA LoneInit ==
    ASSUME Init
    PROVE  LoneInv /\ \A b \in Books : AheadNow[b] = NoPosition
  <1>1. TypeInv
    BY TypeInvInit
  <1>2. \A j \in Jobs : jobs[j] = Idle
    BY DEF Init
  <1>3. AloneOK
    BY <1>2, RowTypes DEF AloneOK, At, Free, Jobs
  <1>4. ListOK
    BY <1>2, RowTypes DEF ListOK, Sound, Jobs
  <1>5. \A b \in Books : AheadNow[b] = positions[b]
    BY <1>2, AheadQuiet DEF AheadNow, Jobs
  <1> QED
    BY <1>1, <1>3, <1>4, <1>5 DEF LoneInv, Init

SharesInv == LoneInv /\ SharesOK

LEMMA SharesInit == ASSUME Init PROVE SharesInv
  <1>1. /\ LoneInv /\ \A b \in CncBooks : AheadNow[b] = NoPosition
    BY LoneInit DEF Books
  <1> QED
    BY <1>1 DEF SharesInv, SharesOK, Init, NoPosition

LEMMA SharesNext ==
    ASSUME SharesInv, FailuresOnly, [Next]_vars
    PROVE  SharesInv'
  <1>1. CASE UNCHANGED vars
    BY <1>1 DEF vars, rows, SharesInv, SharesOK, AheadNow, LoneInv, TypeInv, TypeOK, WorkOK,
       AloneOK, ListOK, At
  <1>2. CASE OtherStep
    BY <1>2, OtherLone, OtherShares DEF SharesInv
  <1>3. CASE \E j \in Settlers : Settlement(j)
    BY <1>3, SettlementShares DEF SharesInv
  <1> QED
    BY <1>1, <1>2, <1>3, NextIs

LEMMA SharesInvKept ==
    ASSUME SharesInv
    PROVE  SharesKept
  <1>1. ASSUME ~disturbed, ~Settling, NEW b \in CncBooks
        PROVE  positions[b].qty + holdings[b] = traded[b]
    <2>1. Free(jobs) /\ b \in Books
      BY <1>1, SettlingIs DEF Books
    <2>2. AheadNow[b] = positions[b]
      BY <2>1, AheadQuiet DEF SharesInv, LoneInv, ListOK, Sound, Free, AheadNow
    <2> QED
      BY <1>1, <2>2 DEF SharesInv, SharesOK
  <1> QED
    BY <1>1 DEF SharesKept

\* Delivery: unless a settlement has failed, what a user bought is either in the
\* positions or in the holdings, whatever interleaving of users, the clock,
\* square-offs, crashes and settlements led there, for every number of positions.
THEOREM SharesDelivered == FailuresOnly => (Spec => []SharesKept)
  <1> SUFFICES ASSUME FailuresOnly PROVE Spec => []SharesKept
    OBVIOUS
  <1>1. Init => SharesInv
    BY SharesInit
  <1>2. SharesInv /\ [Next]_vars => SharesInv'
    BY SharesNext
  <1>3. SharesInv => SharesKept
    BY SharesInvKept
  <1> QED
    BY <1>1, <1>2, <1>3, PTL DEF Spec

-----------------------------------------------------------------------------
(* Money                                                                   *)

\* The hypothesis about users: none buys more than it is short of in a delivery
\* position, which would leave the position less margin than its cost.
NoneTurned == \A b \in CncBooks : ~(positions[b].qty < 0 /\ positions'[b].qty > 0)

Positive(q) == IF q > 0 THEN q ELSE 0

\* The rows: profit is booked by derivatives only, a delivery position has its
\* cost for a margin, and what is sold short of it is held.
RowsOK ==
    /\ \A b \in Books \ FoBooks : positions[b].realized = 0
    /\ \A b \in CncBooks : positions[b].margin = Positive(positions[b].qty)
    /\ \A b \in CncBooks : AheadNow[b].qty < 0 => holdings[b] > 0

\* The margin in use covers that of the positions as they will be, and is it
\* unless a settlement has failed; the profit booked is theirs.
MoneyOK ==
    /\ SumOf(Margins(AheadNow)) <= funds.used
    /\ ~disturbed => funds.used = SumOf(Margins(AheadNow))
    /\ funds.realized = SumOf(Profits(AheadNow))

Balanced == funds.avail + funds.used + SumOf(holdings) = Capital + funds.realized

MoneyInv == LoneInv /\ RowsOK /\ MoneyOK /\ Balanced

\* A share of a cost is exact, a share of nothing is nothing.
LEMMA ExactShare ==
    ASSUME NEW m \in Nat, NEW p \in Nat, m > 0
    PROVE  (m * p) \div m = p /\ (0 * p) \div m = 0
  <1>1. m * p = p * m
    OBVIOUS
  <1>2. (m * p) \div m = p
    BY <1>1
  <1>3. 0 * p = 0
    OBVIOUS
  <1> QED
    BY <1>2, <1>3

\* A fill leaves a delivery position its cost for a margin.
LEMMA DeliveryMargin ==
    ASSUME NEW b \in CncBooks, NEW pos \in PositionRow, NEW q \in Int,
           pos.margin = Positive(pos.qty), ~(pos.qty < 0 /\ pos.qty + q > 0)
    PROVE  MarginAfter(pos, q, OrderMargin(b, pos.qty, q)) = Positive(pos.qty + q)
  <1> DEFINE held == pos.qty
             m == OrderMargin(b, held, q)
  <1>1. held \in Int
    BY DEF PositionRow
  <1>2. CASE q >= 0 /\ held >= 0
    <2>1. m = q
      BY <1>1, <1>2 DEF OrderMargin, MarginToBlock, Opposite, MarginRequired, Size
    <2> QED
      BY <1>1, <1>2, <2>1 DEF MarginAfter, Opens, Adds, Opposite, Positive
  <1>3. CASE q >= 0 /\ held < 0
    <2>1. m = 0
      BY <1>1, <1>3 DEF OrderMargin, MarginToBlock, Opposite, MarginRequired, Size
    <2>2. ~Reverses(pos, q) /\ ~Opens(pos, q) /\ pos.margin = 0
      BY <1>1, <1>3 DEF Reverses, Reduces, Opens, Size, Positive
    <2>3. MarginReleased(pos, q) = 0
      <3>1. MarginReleased(pos, q) \in 0 .. pos.margin
        BY ReleasedBound
      <3> QED
        BY <2>2, <3>1
    <2> QED
      BY <1>1, <1>3, <2>1, <2>2, <2>3 DEF MarginAfter, Positive
  <1>4. CASE q < 0
    <2>1. m = 0
      BY <1>4 DEF OrderMargin
    <2>2. CASE held <= 0
      BY <1>1, <1>4, <2>1, <2>2 DEF MarginAfter, Opens, Adds, Opposite, Positive
    <2>3. CASE held > 0 /\ held + q >= 0
      <3>1. ~Reverses(pos, q) /\ ~Opens(pos, q) /\ ~Adds(pos, q) /\ Realizes(pos, q)
        BY <1>1, <1>4, <2>3 DEF Reverses, Reduces, Opens, Adds, Realizes, Closes, Opposite, Size
      <3>2. Size(held) = held /\ Smaller(Size(held), Size(q)) = -q /\ pos.margin = held
        BY <1>1, <1>4, <2>3 DEF Size, Smaller, Positive
      <3>3. (held * (-q)) \div held = -q
        BY <1>1, <1>4, <2>3, ExactShare
      <3>4. MarginReleased(pos, q) = -q
        BY <3>1, <3>2, <3>3 DEF MarginReleased
      <3> QED
        BY <1>1, <2>3, <3>1, <3>2, <3>4 DEF MarginAfter, Positive
    <2>4. CASE held > 0 /\ held + q < 0
      <3>1. Reverses(pos, q) /\ ~Opens(pos, q) /\ ~Adds(pos, q)
        BY <1>1, <1>4, <2>4 DEF Reverses, Reduces, Opens, Adds, Opposite, Size
      <3>2. Size(q) \in Nat /\ Size(q) > 0 /\ Size(q) - Size(held) \in Nat
        BY <1>1, <1>4, <2>4 DEF Size
      <3>3. (m * (Size(q) - Size(held))) \div Size(q) = 0
        BY <2>1, <3>2, ExactShare
      <3>4. MarginAfter(pos, q, m) = 0
        BY <3>1, <3>3 DEF MarginAfter
      <3> QED
        BY <1>1, <2>4, <3>4 DEF Positive
    <2> QED
      BY <1>1, <2>2, <2>3, <2>4
  <1> QED
    BY <1>1, <1>2, <1>3, <1>4

\* The sums over the positions ahead change as the one that a step brings to its end.
LEMMA TurnSums ==
    ASSUME TypeInv, TypeInv', NEW b \in Books, NEW row, Turns(b, row)
    PROVE  /\ row \in PositionRow
           /\ SumOf(Margins(AheadNow')) = SumOf(Margins(AheadNow)) + row.margin - positions[b].margin
           /\ SumOf(Profits(AheadNow')) = SumOf(Profits(AheadNow)) + row.realized - positions[b].realized
           /\ positions[b].margin <= SumOf(Margins(AheadNow))
  <1>1. AheadNow \in [Books -> PositionRow] /\ AheadNow' \in [Books -> PositionRow]
    BY AheadNowType, AheadNowTypeNext
  <1>2. AheadNow[b] = positions[b] /\ AheadNow'[b] = row
        /\ \A c \in Books \ {b} : AheadNow'[c] = AheadNow[c]
    BY DEF Turns
  <1>3. /\ SumOf(Margins(AheadNow')) = SumOf(Margins(AheadNow)) + AheadNow'[b].margin - AheadNow[b].margin
        /\ SumOf(Profits(AheadNow')) = SumOf(Profits(AheadNow)) + AheadNow'[b].realized - AheadNow[b].realized
    BY <1>1, <1>2, ColumnUpdate
  <1>4. AheadNow[b].margin <= SumOf(Margins(AheadNow))
    BY <1>1, ColumnTypes
  <1> QED
    BY <1>1, <1>2, <1>3, <1>4

LEMMA KeepsSums ==
    ASSUME TypeInv, TypeInv', Keeps
    PROVE  AheadNow' = AheadNow
  BY AheadNowType, AheadNowTypeNext DEF Keeps

LEMMA SumTypes ==
    ASSUME TypeInv
    PROVE  /\ SumOf(Margins(AheadNow)) \in Nat /\ SumOf(Profits(AheadNow)) \in Int
           /\ SumOf(holdings) \in Int
           /\ funds.avail \in Int /\ funds.used \in Int /\ funds.realized \in Int
           /\ \A b \in Books : /\ positions[b].qty \in Int /\ positions[b].margin \in Nat
                               /\ positions[b].realized \in Int
           /\ \A b \in CncBooks : holdings[b] \in Int
           /\ Capital \in Nat /\ disturbed \in BOOLEAN
  <1>1. AheadNow \in [Books -> PositionRow]
    BY AheadNowType
  <1>2. SumOf(holdings) \in Int
    BY Finite, SumType DEF TypeInv, TypeOK
  <1> QED
    BY <1>1, <1>2, ColumnTypes, CapitalAssumption DEF TypeInv, TypeOK, FundsRow, PositionRow

\* A fill.
LEMMA FillMoney ==
    ASSUME MoneyInv, FailuresOnly, NoneTurned, LoneInv', Free(jobs), FillStep,
           disturbed' = disturbed, holdings' = holdings,
           \A j \in Settlers : jobs'[j] = jobs[j]
    PROVE  MoneyInv'
  <1>1. PICK b \in Books, q \in Int, m \in Nat :
           /\ Fill(b, q, m)
           /\ b \in CncBooks => Allowed(b, q) /\ m = OrderMargin(b, positions[b].qty, q)
    BY DEF FillStep
  <1>2. /\ TypeInv /\ TypeInv' /\ RowsOK /\ MoneyOK /\ Balanced /\ LoneInv
    BY DEF MoneyInv, LoneInv
  <1>3. \A c \in Books : AheadNow[c] = positions[c] /\ AheadNow'[c] = positions'[c]
    BY <1>2, AheadNowQuiet
  <1>4. AheadNow = positions /\ AheadNow' = positions'
    BY <1>2, <1>3, AheadNowType, AheadNowTypeNext DEF TypeInv, TypeOK
  <1>5. /\ positions \in [Books -> PositionRow] /\ positions' \in [Books -> PositionRow]
        /\ positions'[b].qty = positions[b].qty + q
        /\ positions'[b].margin = MarginAfter(positions[b], q, m)
        /\ positions'[b].realized = positions[b].realized
        /\ \A c \in Books \ {b} : positions'[c] = positions[c]
        /\ funds'.used = SumOf(Margins(positions'))
        /\ funds'.avail + funds'.used = funds.avail + funds.used
        /\ funds'.realized = funds.realized
    BY <1>1, <1>2, FillIs DEF TypeInv, TypeOK
  <1>6. MoneyOK'
    <2>1. SumOf(Profits(positions')) = SumOf(Profits(positions)) + positions'[b].realized - positions[b].realized
      BY <1>5, ColumnUpdate
    <2>2. SumOf(Profits(positions)) \in Int /\ positions[b].realized \in Int
          /\ SumOf(Margins(positions')) \in Nat
      BY <1>5, ColumnTypes DEF PositionRow
    <2>3. SumOf(Profits(positions')) = SumOf(Profits(positions))
      BY <1>5, <2>1, <2>2
    <2> QED
      BY <1>2, <1>4, <1>5, <2>2, <2>3 DEF MoneyOK
  <1>7. Balanced'
    BY <1>2, <1>5 DEF Balanced
  <1>8. RowsOK'
    <2>1. \A c \in Books \ FoBooks : positions'[c].realized = 0
      BY <1>2, <1>5 DEF RowsOK
    <2>2. ASSUME NEW c \in CncBooks
          PROVE  positions'[c].margin = Positive(positions'[c].qty)
      <3>1. c \in Books /\ positions[c].margin = Positive(positions[c].qty)
        BY <1>2 DEF RowsOK, Books
      <3>2. CASE c # b
        BY <1>5, <3>1, <3>2
      <3>3. CASE c = b
        <4>1. ~(positions[b].qty < 0 /\ positions[b].qty + q > 0) /\ positions[b] \in PositionRow
          BY <1>5, <3>3 DEF NoneTurned
        <4>2. m = OrderMargin(b, positions[b].qty, q)
          BY <1>1, <3>3
        <4> QED
          BY <1>5, <3>1, <3>3, <4>1, <4>2, DeliveryMargin
      <3> QED
        BY <3>2, <3>3
    <2>3. ASSUME NEW c \in CncBooks, positions'[c].qty < 0
          PROVE  holdings[c] > 0
      <3>1. /\ c \in Books
            /\ positions[c].qty < 0 => holdings[c] > 0
            /\ positions[c].qty \in Int /\ holdings[c] \in Int
        BY <1>2, <1>4, SumTypes DEF RowsOK, Books
      <3>2. CASE c # b
        BY <1>5, <2>3, <3>1, <3>2
      <3>3. CASE c = b
        <4>1. positions[b].qty + q < 0
          BY <1>5, <2>3, <3>3
        <4>2. q < 0 => (IF positions[b].qty > 0 THEN positions[b].qty ELSE 0) + holdings[b] >= -q
          BY <1>1, <3>3 DEF Allowed
        <4> QED
          BY <3>1, <3>3, <4>1, <4>2
      <3> QED
        BY <3>2, <3>3
    <2> QED
      BY <1>4, <2>1, <2>2, <2>3 DEF RowsOK
  <1> QED
    BY <1>6, <1>7, <1>8 DEF MoneyInv

LEMMA OtherMoney ==
    ASSUME MoneyInv, FailuresOnly, NoneTurned, OtherStep
    PROVE  MoneyInv'
  <1>1. LoneInv /\ TypeInv /\ LoneInv' /\ TypeInv'
    BY OtherLone DEF MoneyInv, LoneInv
  <1>2. /\ disturbed' = disturbed /\ holdings' = holdings
        /\ \A j \in Settlers : jobs'[j] = jobs[j]
    BY <1>1, OtherIs
  <1>3. CASE positions' = positions /\ funds' = funds /\ traded' = traded
    <2>1. AheadNow' = AheadNow
      BY <1>1, <1>2, <1>3, AheadNowSame, KeepsSums
    <2> QED
      BY <1>1, <1>2, <1>3, <2>1 DEF MoneyInv, RowsOK, MoneyOK, Balanced
  <1>4. CASE Free(jobs) /\ FillStep
    BY <1>1, <1>2, <1>4, FillMoney
  <1> QED
    BY <1>1, <1>3, <1>4, OtherIs

\* The rows of the table, as a settlement leaves them.
LEMMA RowsStayOK ==
    ASSUME TypeInv, RowsOK, RowsStay \/ positions' = positions
    PROVE  /\ \A b \in Books \ FoBooks : positions'[b].realized = 0
           /\ \A b \in CncBooks : positions'[b].margin = Positive(positions'[b].qty)
  <1>1. NoPosition.realized = 0 /\ NoPosition.margin = Positive(NoPosition.qty)
    BY DEF NoPosition, Positive
  <1> QED
    BY <1>1 DEF RowsOK, RowsStay, Books

\* A step that brings nothing to an end.
LEMMA KeepsMoney ==
    ASSUME MoneyInv, LoneInv', Keeps, RowsStay \/ positions' = positions,
           holdings' = holdings, funds' = funds, disturbed' = disturbed
    PROVE  MoneyInv'
  <1>1. /\ TypeInv /\ TypeInv' /\ RowsOK
    BY DEF MoneyInv, LoneInv
  <1>2. AheadNow' = AheadNow
    BY <1>1, KeepsSums
  <1>3. RowsOK'
    BY <1>1, <1>2, RowsStayOK DEF RowsOK
  <1> QED
    BY <1>2, <1>3 DEF MoneyInv, MoneyOK, Balanced

\* A step that brings the end of position b: by how much margin it gives back and
\* what it pays and books.
LEMMA TurnMoney ==
    ASSUME MoneyInv, LoneInv', NEW b \in Books, NEW row, Turns(b, row),
           RowsStay \/ positions' = positions,
           b \in CncBooks => row.qty = 0,
           \A c \in CncBooks : c # b => holdings'[c] = holdings[c],
           funds'.used - (row.margin - positions[b].margin) >= funds.used,
           ~disturbed' => ~disturbed /\ funds'.used = funds.used + row.margin - positions[b].margin,
           funds'.realized = funds.realized + row.realized - positions[b].realized,
           funds'.avail + funds'.used + SumOf(holdings') - funds'.realized
              = funds.avail + funds.used + SumOf(holdings) - funds.realized,
           b \notin CncBooks => holdings' = holdings
    PROVE  MoneyInv'
  <1>1. /\ TypeInv /\ TypeInv' /\ RowsOK /\ MoneyOK /\ Balanced
    BY DEF MoneyInv, LoneInv
  <1>2. /\ row \in PositionRow
        /\ SumOf(Margins(AheadNow')) = SumOf(Margins(AheadNow)) + row.margin - positions[b].margin
        /\ SumOf(Profits(AheadNow')) = SumOf(Profits(AheadNow)) + row.realized - positions[b].realized
    BY <1>1, TurnSums
  <1>3. /\ SumOf(Margins(AheadNow)) \in Int /\ SumOf(Profits(AheadNow)) \in Int
        /\ funds.used \in Int /\ funds.avail \in Int /\ funds.realized \in Int
        /\ SumOf(holdings) \in Int /\ Capital \in Int
        /\ positions[b].margin \in Int /\ positions[b].realized \in Int
    BY <1>1, SumTypes
  <1>4. funds'.used \in Int /\ funds'.avail \in Int /\ funds'.realized \in Int
        /\ SumOf(holdings') \in Int
    BY <1>1, Finite, SumType DEF TypeInv, TypeOK, FundsRow
  <1>5. row.margin \in Int /\ row.realized \in Int
    BY <1>2 DEF PositionRow
  <1>6. MoneyOK'
    BY <1>1, <1>2, <1>3, <1>4, <1>5 DEF MoneyOK
  <1>7. Balanced'
    <2>1. funds.avail + funds.used + SumOf(holdings) = Capital + funds.realized
      BY <1>1 DEF Balanced
    <2>2. funds'.avail + funds'.used + SumOf(holdings') = Capital + funds'.realized
      BY <1>3, <1>4, <2>1
    <2> QED
      BY <2>2 DEF Balanced
  <1>8. ASSUME NEW c \in CncBooks, AheadNow'[c].qty < 0
        PROVE  holdings'[c] > 0
    <2>1. c \in Books /\ c # b
      BY <1>8 DEF Turns, Books
    <2>2. AheadNow'[c] = AheadNow[c] /\ holdings'[c] = holdings[c]
      BY <2>1 DEF Turns
    <2> QED
      BY <1>1, <1>8, <2>2 DEF RowsOK
  <1>9. RowsOK'
    BY <1>1, <1>8, RowsStayOK DEF RowsOK
  <1> QED
    BY <1>6, <1>7, <1>9 DEF MoneyInv

\* Each step of a settlement.
LEMMA SettlesMoney ==
    ASSUME MoneyInv, NEW j \in Settlers, NEW b \in CncBooks, Settles(j, b)
    PROVE  MoneyInv'
  <1> DEFINE q == positions[b].qty
  <1>1. /\ LoneInv /\ TypeInv /\ RowsOK /\ b \in Books /\ b \notin FoBooks
    BY DayEndAssumption DEF MoneyInv, LoneInv, Books
  <1>2. /\ LoneInv' /\ Turns(b, NoPosition) /\ RowsStay /\ q # 0
        /\ holdings'[b] = holdings[b] + q
        /\ \A c \in CncBooks \ {b} : holdings'[c] = holdings[c]
        /\ funds' = SettledFunds(funds, q, holdings[b])
        /\ funds'.realized = funds.realized
        /\ disturbed' = disturbed
    BY <1>1, SettlesMoves
  <1>3. /\ q \in Int /\ holdings[b] \in Int
        /\ funds.used \in Int /\ funds.avail \in Int /\ funds.realized \in Int
        /\ SumOf(holdings) \in Int
    BY <1>1, SumTypes
  <1>4. /\ positions[b].margin = Positive(q) /\ positions[b].realized = 0
        /\ q < 0 => holdings[b] > 0
    BY <1>1, <1>2 DEF RowsOK, Turns
  <1>5. /\ NoPosition.margin = 0 /\ NoPosition.realized = 0 /\ NoPosition.qty = 0
    BY DEF NoPosition
  <1>6. SumOf(holdings') = SumOf(holdings) + q
    <2>1. holdings \in [CncBooks -> Int] /\ holdings' \in [CncBooks -> Int]
      BY <1>1, <1>2 DEF LoneInv, TypeInv, TypeOK
    <2>2. SumOf(holdings') = SumOf(holdings) + holdings'[b] - holdings[b]
      BY <1>2, <2>1, Finite, SumUpdate
    <2> QED
      BY <1>2, <1>3, <2>2
  <1>7. /\ funds'.used = funds.used - Positive(q)
        /\ funds'.avail + funds'.used + q = funds.avail + funds.used
    <2>1. funds \in FundsRow
      BY <1>1 DEF TypeInv, TypeOK
    <2>2. CASE q < 0
      <3>1. funds' = [funds EXCEPT !.avail = @ - q]
        BY <1>2, <1>3, <1>4, <2>2 DEF SettledFunds
      <3> QED
        BY <1>3, <2>1, <2>2, <3>1 DEF Positive, FundsRow
    <2>3. CASE q > 0
      <3>1. funds' = [funds EXCEPT !.used = @ - Size(q)] /\ Size(q) = q
        BY <1>2, <1>3, <2>3 DEF SettledFunds, Size
      <3> QED
        BY <1>3, <2>1, <2>3, <3>1 DEF Positive, FundsRow
    <2> QED
      BY <1>2, <1>3, <2>2, <2>3
  <1>8. funds'.avail \in Int /\ funds'.used \in Int /\ Positive(q) \in Int
    BY <1>2, <1>3 DEF LoneInv, TypeInv, TypeOK, FundsRow, Positive
  <1> HIDE DEF q
  <1>9. /\ funds'.used - (NoPosition.margin - positions[b].margin) >= funds.used
        /\ funds'.used = funds.used + NoPosition.margin - positions[b].margin
        /\ funds'.realized = funds.realized + NoPosition.realized - positions[b].realized
    BY <1>2, <1>3, <1>4, <1>5, <1>7, <1>8
  <1>10. funds'.avail + funds'.used + SumOf(holdings') - funds'.realized
            = funds.avail + funds.used + SumOf(holdings) - funds.realized
    BY <1>2, <1>3, <1>6, <1>7, <1>8
  <1> QED
    BY <1>1, <1>2, <1>5, <1>9, <1>10, TurnMoney

LEMMA NothingMoney ==
    ASSUME MoneyInv, NEW j \in Settlers, NEW b \in CncBooks, SettlesNothing(j, b)
    PROVE  MoneyInv'
  <1>1. /\ LoneInv /\ TypeInv /\ RowsOK /\ b \in Books /\ b \notin FoBooks
    BY DayEndAssumption DEF MoneyInv, LoneInv, Books
  <1>2. /\ LoneInv' /\ Turns(b, NoPosition) /\ positions[b].qty = 0 /\ positions' = positions
        /\ holdings' = holdings /\ funds' = funds /\ disturbed' = disturbed
    BY <1>1, NothingMoves
  <1>3. positions[b].margin = 0 /\ positions[b].realized = 0
    BY <1>1, <1>2 DEF RowsOK, Positive
  <1>4. NoPosition.margin = 0 /\ NoPosition.realized = 0 /\ NoPosition.qty = 0
    BY DEF NoPosition
  <1>5. /\ funds.used \in Int /\ funds.avail \in Int /\ funds.realized \in Int
    BY <1>1, SumTypes
  <1>6. /\ funds'.used - (NoPosition.margin - positions[b].margin) >= funds.used
        /\ funds'.used = funds.used + NoPosition.margin - positions[b].margin
        /\ funds'.realized = funds.realized + NoPosition.realized - positions[b].realized
    BY <1>2, <1>3, <1>4, <1>5
  <1> QED
    BY <1>1, <1>2, <1>4, <1>6, TurnMoney

LEMMA FailsMoney ==
    ASSUME MoneyInv, FailuresOnly, NEW j \in Settlers, NEW b \in CncBooks, SettleFails(j, b)
    PROVE  MoneyInv'
  <1>1. /\ LoneInv /\ TypeInv /\ RowsOK /\ b \in Books /\ b \notin FoBooks
    BY DayEndAssumption DEF MoneyInv, LoneInv, Books
  <1>2. /\ LoneInv' /\ Turns(b, NoPosition) /\ positions' = positions
        /\ holdings' = holdings /\ funds' = funds /\ disturbed' = TRUE
    BY <1>1, FailsMoves
  <1>3. positions[b].realized = 0
    BY <1>1 DEF RowsOK
  <1>4. NoPosition.margin = 0 /\ NoPosition.realized = 0 /\ NoPosition.qty = 0
    BY DEF NoPosition
  <1>5. /\ funds.used \in Int /\ funds.avail \in Int /\ funds.realized \in Int
        /\ positions[b].margin \in Nat
    BY <1>1, SumTypes
  <1>6. /\ funds'.used - (NoPosition.margin - positions[b].margin) >= funds.used
        /\ funds'.realized = funds.realized + NoPosition.realized - positions[b].realized
    BY <1>2, <1>3, <1>4, <1>5
  <1> QED
    BY <1>1, <1>2, <1>4, <1>6, TurnMoney

LEMMA StaleMoney ==
    ASSUME MoneyInv, NEW j \in Settlers, NEW b \in MisBooks, SettlesStale(j, b)
    PROVE  MoneyInv'
  <1>1. /\ LoneInv /\ TypeInv /\ MoneyOK /\ b \in Books /\ b \notin CncBooks
    BY DayEndAssumption DEF MoneyInv, LoneInv, Books
  <1>2. /\ LoneInv' /\ Turns(b, positions'[b]) /\ RowsStay
        /\ positions'[b].margin = 0 /\ positions'[b].realized = positions[b].realized
        /\ holdings' = holdings /\ disturbed' = disturbed
        /\ funds'.realized = funds.realized
        /\ funds'.avail = funds.avail + positions[b].margin
        /\ funds'.used = IF funds.used >= positions[b].margin
                         THEN funds.used - positions[b].margin ELSE 0
    BY <1>1, StaleMoves
  <1>3. /\ funds.used \in Int /\ funds.avail \in Int /\ funds.realized \in Int
        /\ SumOf(holdings) \in Int /\ positions[b].realized \in Int
        /\ positions[b].margin \in Nat /\ SumOf(Margins(AheadNow)) \in Nat
    BY <1>1, SumTypes
  <1>4. positions[b].margin <= SumOf(Margins(AheadNow))
    BY <1>1, <1>2, TurnSums DEF LoneInv
  <1>5. funds'.used = funds.used - positions[b].margin
    BY <1>1, <1>2, <1>3, <1>4 DEF MoneyOK
  <1>6. /\ funds'.used - (positions'[b].margin - positions[b].margin) >= funds.used
        /\ funds'.used = funds.used + positions'[b].margin - positions[b].margin
        /\ funds'.realized = funds.realized + positions'[b].realized - positions[b].realized
        /\ funds'.avail + funds'.used + SumOf(holdings') - funds'.realized
             = funds.avail + funds.used + SumOf(holdings) - funds.realized
    BY <1>2, <1>3, <1>5
  <1> QED
    BY <1>1, <1>2, <1>6, TurnMoney

LEMMA ReleasesMoney ==
    ASSUME MoneyInv, NEW j \in Settlers, NEW b \in FoBooks, ReleasesExpired(j, b)
    PROVE  MoneyInv'
  <1> DEFINE row == Closed(positions[b].realized - positions[b].qty)
  <1>1. /\ LoneInv /\ TypeInv /\ b \in Books /\ b \notin CncBooks
    BY DayEndAssumption DEF MoneyInv, LoneInv, Books
  <1>2. /\ LoneInv' /\ Turns(b, row) /\ positions' = positions
        /\ holdings' = holdings /\ disturbed' = disturbed
        /\ funds'.avail = funds.avail + positions[b].margin - positions[b].qty
        /\ funds'.used = funds.used - positions[b].margin
        /\ funds'.realized = funds.realized - positions[b].qty
    BY <1>1, ReleasesMoves
  <1>3. row.margin = 0 /\ row.realized = positions[b].realized - positions[b].qty
    BY DEF Closed
  <1> HIDE DEF row
  <1>4. /\ funds.used \in Int /\ funds.avail \in Int /\ funds.realized \in Int
        /\ SumOf(holdings) \in Int /\ positions[b].realized \in Int
        /\ positions[b].margin \in Nat /\ positions[b].qty \in Int
    BY <1>1, SumTypes
  <1>5. /\ funds'.used - (row.margin - positions[b].margin) >= funds.used
        /\ funds'.used = funds.used + row.margin - positions[b].margin
        /\ funds'.realized = funds.realized + row.realized - positions[b].realized
        /\ funds'.avail + funds'.used + SumOf(holdings') - funds'.realized
             = funds.avail + funds.used + SumOf(holdings) - funds.realized
    BY <1>2, <1>3, <1>4
  <1> QED
    BY <1>1, <1>2, <1>5, TurnMoney

LEMMA MoneyInit == ASSUME Init PROVE MoneyInv
  <1>1. /\ LoneInv /\ TypeInv /\ \A b \in Books : AheadNow[b] = NoPosition
    BY LoneInit DEF LoneInv
  <1>2. NoPosition.margin = 0 /\ NoPosition.realized = 0 /\ NoPosition.qty = 0
    BY DEF NoPosition
  <1>3. AheadNow \in [Books -> PositionRow]
    BY <1>1, AheadNowType
  <1>4. SumOf(Margins(AheadNow)) = 0 /\ SumOf(Profits(AheadNow)) = 0
    <2>1. /\ Margins(AheadNow) \in [Books -> Int] /\ Profits(AheadNow) \in [Books -> Int]
          /\ \A b \in Books : Margins(AheadNow)[b] = 0 /\ Profits(AheadNow)[b] = 0
      BY <1>1, <1>2, <1>3, ColumnTypes DEF Margins, Profits
    <2> QED
      BY <2>1, Finite, SumZero
  <1>5. SumOf(holdings) = 0
    BY Finite, SumZero DEF Init
  <1>6. /\ funds.avail = Capital /\ funds.used = 0 /\ funds.realized = 0 /\ Capital \in Nat
    BY CapitalAssumption DEF Init, InitialFunds
  <1>7. MoneyOK /\ Balanced
    BY <1>4, <1>5, <1>6 DEF MoneyOK, Balanced
  <1>8. RowsOK
    BY <1>1, <1>2 DEF RowsOK, Init, Positive, Books
  <1> QED
    BY <1>1, <1>7, <1>8 DEF MoneyInv

LEMMA MoneyNext ==
    ASSUME MoneyInv, FailuresOnly, [Next]_vars, [NoneTurned]_vars
    PROVE  MoneyInv'
  <1>1. CASE UNCHANGED vars
    <2>1. /\ UNCHANGED <<positions, created, opened>>
          /\ UNCHANGED <<phase, cronDue, resting, holdings, traded, expired, funds, jobs, orders,
                         crashes, disturbed>>
      BY <1>1 DEF vars, rows
    <2>2. AheadNow' = AheadNow /\ LoneInv'
      BY <2>1 DEF AheadNow, MoneyInv, LoneInv, TypeInv, TypeOK, WorkOK, AloneOK, ListOK, At
    <2> QED
      BY <2>1, <2>2 DEF MoneyInv, RowsOK, MoneyOK, Balanced
  <1>2. CASE NoneTurned /\ OtherStep
    BY <1>2, OtherMoney
  <1>3. ASSUME NEW j \in Settlers, Settlement(j)
        PROVE  MoneyInv'
    <2>1. LoneInv
      BY DEF MoneyInv
    <2>2. CASE ListSteps(j)
      BY <2>1, <2>2, ListStepsIs, KeepsMoney
    <2>3. CASE SettlementEnds(j)
      BY <2>1, <2>3, EndsIs, KeepsMoney
    <2>4. CASE ClosesExpired(j)
      BY <2>1, <2>4, ClosesMoves, KeepsMoney
    <2> QED
      BY <1>3, <2>2, <2>3, <2>4, StaleMoney, NothingMoney, SettlesMoney, FailsMoney, ReleasesMoney
         DEF Settlement, ListSteps
  <1> QED
    BY <1>1, <1>2, <1>3, NextIs

LEMMA MoneyWealth ==
    ASSUME MoneyInv
    PROVE  Wealth
  BY ColumnSums DEF MoneyInv, Balanced, Wealth

LEMMA MoneySettled ==
    ASSUME MoneyInv
    PROVE  SettledOnce
  <1> SUFFICES ASSUME ~disturbed, ~Settling
               PROVE  /\ funds.used = TotalMargin(positions)
                      /\ funds.realized = FoldFunction(+, 0, [b \in Books |-> positions[b].realized])
    BY DEF SettledOnce
  <1>1. \A b \in Books : AheadNow[b] = positions[b]
    BY SettlingIs, AheadQuiet DEF MoneyInv, LoneInv, ListOK, Sound, Free, AheadNow
  <1>2. AheadNow = positions
    BY <1>1, AheadNowType DEF MoneyInv, LoneInv, TypeInv, TypeOK
  <1> QED
    BY <1>2, ColumnSums DEF MoneyInv, MoneyOK

\* Money: cash, margin and the cost of the shares held add up to the capital and
\* the booked profit at every commit of the evening and the night, also when the
\* commit of a settlement fails, as long as no purchase turns a delivery position
\* from short to long.
THEOREM WealthKept == FailuresOnly => (Spec /\ [][NoneTurned]_vars => []Wealth)
  <1> SUFFICES ASSUME FailuresOnly PROVE Spec /\ [][NoneTurned]_vars => []Wealth
    OBVIOUS
  <1>1. Init => MoneyInv
    BY MoneyInit
  <1>2. MoneyInv /\ [Next]_vars /\ [NoneTurned]_vars => MoneyInv'
    BY MoneyNext
  <1>3. MoneyInv => Wealth
    BY MoneyWealth
  <1> QED
    BY <1>1, <1>2, <1>3, PTL DEF Spec

\* Margin and profit are settled once: between settlements the margin in use is
\* that of the positions, and the profit booked is theirs, unless a settlement has
\* failed.
THEOREM SettledOnlyOnce == FailuresOnly => (Spec /\ [][NoneTurned]_vars => []SettledOnce)
  <1> SUFFICES ASSUME FailuresOnly PROVE Spec /\ [][NoneTurned]_vars => []SettledOnce
    OBVIOUS
  <1>1. Init => MoneyInv
    BY MoneyInit
  <1>2. MoneyInv /\ [Next]_vars /\ [NoneTurned]_vars => MoneyInv'
    BY MoneyNext
  <1>3. MoneyInv => SettledOnce
    BY MoneySettled
  <1> QED
    BY <1>1, <1>2, <1>3, PTL DEF Spec
=============================================================================
