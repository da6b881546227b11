----------------------- MODULE ConnectionPool_proofs -----------------------
(***************************************************************************)
(* The operations of ConnectionPool keep its bookkeeping right, for any    *)
(* symbols, modes and limits: a symbol is on one connection of the pool,   *)
(* and the count of a connection is the number of symbols it carries.      *)
(***************************************************************************)
EXTENDS ConnectionPool, SetInduction, SequenceTheorems

PoolOK(p) == p \in Pool /\ CountsRight(p) /\ OneConnection(p)

\* The connection a new symbol gets is one of the pool's, with room for it.
LEMMA FirstFreeType ==
    ASSUME NEW p \in Pool, \E i \in 1..Len(p.adapters) : Free(p, i)
    PROVE  FirstFree(p) \in 1..Len(p.adapters) /\ Free(p, FirstFree(p))
  <1> DEFINE S == {i \in 1..Len(p.adapters) : Free(p, i)}
  <1>1. Len(p.adapters) \in Nat
    BY DEF Pool
  <1>2. S \in SUBSET Nat /\ S # {}
    BY <1>1
  <1>3. \E i \in S : \A j \in S : i <= j
    BY <1>2, Least
  <1> QED
    BY <1>3 DEF FirstFree

\* The symbols of a connection are finite in number.
LEMMA CarriedFinite ==
    ASSUME NEW p, NEW i
    PROVE  Carried(p, i) \in SUBSET Symbols /\ IsFiniteSet(Carried(p, i))
  <1>1. Carried(p, i) \in SUBSET Symbols
    BY DEF Carried
  <1> QED
    BY <1>1, FS_Subset, PoolAssumption

\* What of a pool its bookkeeping depends on.
LEMMA SameBooks ==
    ASSUME NEW p, PoolOK(p), NEW q \in Pool, q.at = p.at, q.counts = p.counts,
           Len(q.adapters) = Len(p.adapters)
    PROVE  PoolOK(q)
  <1>1. \A i : Carried(q, i) = Carried(p, i)
    BY DEF Carried
  <1> QED
    BY <1>1 DEF PoolOK, CountsRight, OneConnection

\* A new pool is in order.
LEMMA EmptyPoolOK == PoolOK(EmptyPool)
  <1>1. EmptyPool \in Pool
    BY EmptySeq DEF EmptyPool, Pool
  <1>2. Len(EmptyPool.adapters) = 0 /\ Len(EmptyPool.counts) = 0
    BY DEF EmptyPool
  <1>3. \A k \in Keys : EmptyPool.at[k] = 0
    BY DEF EmptyPool
  <1> QED
    BY <1>1, <1>2, <1>3 DEF PoolOK, CountsRight, OneConnection, Keys

\* A pool with one more connection, which carries nothing, is in order.
LEMMA OpenedOK ==
    ASSUME NEW p, PoolOK(p), NEW token \in BOOLEAN
    PROVE  /\ PoolOK(Opened(p, token))
           /\ Opened(p, token).at = p.at
           /\ Len(Opened(p, token).adapters) = Len(p.adapters) + 1
           /\ Opened(p, token).counts[Len(p.adapters) + 1] = 0
  <1> DEFINE q == Opened(p, token)
             new == Len(p.adapters) + 1
  <1>1. p \in Pool /\ CountsRight(p) /\ OneConnection(p)
    BY DEF PoolOK
  <1>2. /\ p.adapters \in Seq(Adapter) /\ p.counts \in Seq(Int)
        /\ Len(p.adapters) \in Nat /\ Len(p.counts) = Len(p.adapters)
    BY <1>1 DEF Pool, CountsRight
  <1>3. [live |-> token, streams |-> {}] \in Adapter
    BY DEF Adapter
  <1>4. /\ q.adapters = Append(p.adapters, [live |-> token, streams |-> {}])
        /\ q.counts = Append(p.counts, 0)
        /\ q.at = p.at /\ q.initialized = p.initialized /\ q.connected = p.connected
    BY <1>1 DEF Opened, Pool
  <1>5. q \in Pool
    <2>1. q.adapters \in Seq(Adapter) /\ q.counts \in Seq(Int)
      BY <1>2, <1>3, <1>4, AppendProperties
    <2> QED
      BY <1>1, <2>1 DEF Opened, Pool
  <1> HIDE DEF q
  <1>6. /\ Len(q.adapters) = new /\ Len(q.counts) = new /\ q.counts[new] = 0
        /\ \A i \in 1..Len(p.counts) : q.counts[i] = p.counts[i]
    BY <1>2, <1>3, <1>4
  <1>7. \A i : Carried(q, i) = Carried(p, i)
    BY <1>4 DEF Carried
  <1>8. Carried(p, new) = {}
    <2>1. ASSUME NEW s \in Symbols, NEW m \in Modes
          PROVE  p.at[<<s, m>>] # new
      <3>1. <<s, m>> \in Keys
        BY DEF Keys
      <3>2. p.at[<<s, m>>] \in Nat /\ p.at[<<s, m>>] <= Len(p.adapters)
        BY <1>1, <3>1 DEF OneConnection, Pool
      <3> QED
        BY <1>2, <3>2
    <2> QED
      BY <2>1 DEF Carried
  <1>9. CountsRight(q)
    <2>1. Cardinality({}) = 0 /\ MaxSymbols \in Nat
      BY FS_EmptySet, PoolAssumption
    <2>2. ASSUME NEW i \in 1..Len(q.counts)
          PROVE  q.counts[i] = Cardinality(Carried(q, i)) /\ q.counts[i] <= MaxSymbols
      <3>1. CASE i = new
        <4>1. Carried(q, i) = {} /\ q.counts[i] = 0
          BY <1>6, <1>7, <1>8, <3>1
        <4>2. 0 <= MaxSymbols
          BY <2>1
        <4> QED
          BY <2>1, <4>1, <4>2
      <3>2. CASE i # new
        <4>1. i \in 1..Len(p.counts)
          BY <1>2, <1>6, <3>2
        <4> QED
          BY <1>1, <1>6, <1>7, <4>1 DEF CountsRight
      <3> QED
        BY <3>1, <3>2
    <2> QED
      BY <1>6, <2>2 DEF CountsRight
  <1>10. OneConnection(q)
    <2>1. \A k \in Keys : p.at[k] \in Nat
      BY <1>1 DEF Pool
    <2> QED
      BY <1>1, <1>2, <1>4, <1>6, <2>1 DEF OneConnection
  <1> QED
    BY <1>4, <1>5, <1>6, <1>9, <1>10 DEF PoolOK, q

\* A key may be put on connection i, with n symbols more: it is a symbol of that
\* connection already (n = 0), or one of none and there is room (n = 1).
MayPlace(p, i, k, n) ==
    /\ p.at[k] = 0
    /\ \/ n = 0 /\ \E m \in Modes : p.at[<<k[1], m>>] = i
       \/ n = 1 /\ ModesOf(p, k[1]) = {} /\ p.counts[i] < MaxSymbols

\* What is done to the books of a pool: key k is written at i, and the count of
\* connection c changes by n.
Written(p, q, k, i, c, n) ==
    /\ q.at = [p.at EXCEPT ![k] = i]
    /\ Len(q.adapters) = Len(p.adapters) /\ Len(q.counts) = Len(p.counts)
    /\ \A j \in 1..Len(p.counts) :
          q.counts[j] = IF j = c THEN p.counts[c] + n ELSE p.counts[j]

\* A key put where it may be leaves the pool in order.
LEMMA PlacedOK ==
    ASSUME NEW p, PoolOK(p), NEW i \in 1..Len(p.adapters), NEW k \in Keys, NEW n,
           MayPlace(p, i, k, n), NEW q \in Pool, Written(p, q, k, i, i, n)
    PROVE  PoolOK(q)
  <1> n \in {0, 1} /\ p.at[k] = 0
    BY DEF MayPlace
  <1> n = 0 => \E m \in Modes : p.at[<<k[1], m>>] = i
    BY DEF MayPlace
  <1> n = 1 => ModesOf(p, k[1]) = {} /\ p.counts[i] < MaxSymbols
    BY DEF MayPlace
  <1> /\ q.at = [p.at EXCEPT ![k] = i]
      /\ Len(q.adapters) = Len(p.adapters) /\ Len(q.counts) = Len(p.counts)
      /\ \A j \in 1..Len(p.counts) :
            q.counts[j] = IF j = i THEN p.counts[i] + n ELSE p.counts[j]
    BY DEF Written
  <1>1. p \in Pool /\ CountsRight(p) /\ OneConnection(p)
    BY DEF PoolOK
  <1>2. /\ p.at \in [Keys -> Nat] /\ Len(p.adapters) \in Nat
        /\ Len(p.counts) = Len(p.adapters) /\ p.counts[i] \in Int
    BY <1>1 DEF Pool, CountsRight
  <1>3. k = <<k[1], k[2]>> /\ k[1] \in Symbols /\ k[2] \in Modes
    BY DEF Keys
  <1>4. \A s \in Symbols, m \in Modes : <<s, m>> \in Keys
    BY DEF Keys
  <1>5. \A s \in Symbols, m \in Modes :
            q.at[<<s, m>>] = IF <<s, m>> = k THEN i ELSE p.at[<<s, m>>]
    BY <1>2, <1>4
  <1>6. \A m \in Modes : p.at[<<k[1], m>>] \in {0, i}
    <2>1. CASE n = 0
      <3>1. PICK mm \in Modes : p.at[<<k[1], mm>>] = i
        BY <2>1
      <3>2. i # 0
        BY <1>2
      <3> QED
        BY <1>1, <1>3, <3>1, <3>2 DEF OneConnection
    <2>2. CASE n = 1
      BY <2>2 DEF ModesOf
    <2> QED
      BY <2>1, <2>2
  <1>7. OneConnection(q)
    <2>1. \A kk \in Keys : q.at[kk] <= Len(q.adapters)
      BY <1>1, <1>2 DEF OneConnection
    <2>2. ASSUME NEW s \in Symbols, NEW m \in Modes, NEW mm \in Modes,
                 q.at[<<s, m>>] # 0, q.at[<<s, mm>>] # 0
          PROVE  q.at[<<s, m>>] = q.at[<<s, mm>>]
      <3>1. CASE s = k[1]
        BY <1>5, <1>6, <2>2, <3>1
      <3>2. CASE s # k[1]
        <4>1. <<s, m>> # k /\ <<s, mm>> # k
          BY <1>3, <3>2
        <4> QED
          BY <1>1, <1>5, <2>2, <4>1 DEF OneConnection
      <3> QED
        BY <3>1, <3>2
    <2> QED
      BY <2>1, <2>2 DEF OneConnection
  <1>8. \A j \in 1..Len(p.counts) : j # i => Carried(q, j) = Carried(p, j)
    <2> SUFFICES ASSUME NEW j \in 1..Len(p.counts), j # i
                 PROVE  Carried(q, j) = Carried(p, j)
      OBVIOUS
    <2>1. j # 0
      BY <1>2
    <2>2. \A s \in Symbols, m \in Modes : q.at[<<s, m>>] = j <=> p.at[<<s, m>>] = j
      BY <1>5, <2>1
    <2> QED
      BY <2>2 DEF Carried
  <1>9. Carried(q, i) = Carried(p, i) \cup {k[1]}
    <2>1. q.at[<<k[1], k[2]>>] = i
      BY <1>3, <1>5
    <2>2. \A s \in Symbols, m \in Modes : s # k[1] => q.at[<<s, m>>] = p.at[<<s, m>>]
      <3> SUFFICES ASSUME NEW s \in Symbols, NEW m \in Modes, s # k[1]
                   PROVE  q.at[<<s, m>>] = p.at[<<s, m>>]
        OBVIOUS
      <3>1. <<s, m>> # k
        BY <1>3
      <3> QED
        BY <1>5, <3>1
    <2>3. k[1] \in Carried(q, i)
      BY <1>3, <2>1 DEF Carried
    <2>4. \A s \in Symbols : s # k[1] => (s \in Carried(q, i) <=> s \in Carried(p, i))
      BY <2>2 DEF Carried
    <2>5. Carried(q, i) \in SUBSET Symbols /\ Carried(p, i) \in SUBSET Symbols
      BY CarriedFinite
    <2> QED
      BY <1>3, <2>3, <2>4, <2>5
  <1>10. n = 0 => k[1] \in Carried(p, i)
    BY <1>3 DEF Carried
  <1>11. n = 1 => k[1] \notin Carried(p, i)
    <2>1. ASSUME n = 1, NEW m \in Modes
          PROVE  p.at[<<k[1], m>>] # i
      BY <1>2, <2>1 DEF ModesOf
    <2> QED
      BY <2>1 DEF Carried
  <1>12. CountsRight(q)
    <2>1. /\ IsFiniteSet(Carried(p, i)) /\ Cardinality(Carried(p, i)) \in Nat
          /\ MaxSymbols \in Nat
      BY CarriedFinite, FS_CardinalityType, PoolAssumption
    <2>2. Cardinality(Carried(q, i)) = Cardinality(Carried(p, i)) + n
      <3>1. Cardinality(Carried(p, i) \cup {k[1]})
              = IF k[1] \in Carried(p, i) THEN Cardinality(Carried(p, i))
                ELSE Cardinality(Carried(p, i)) + 1
        BY <2>1, FS_AddElement
      <3> QED
        BY <1>9, <1>10, <1>11, <2>1, <3>1
    <2>3. i \in 1..Len(p.counts)
      BY <1>2
    <2>4. p.counts[i] = Cardinality(Carried(p, i)) /\ p.counts[i] <= MaxSymbols
      BY <1>1, <2>3 DEF CountsRight
    <2>5. q.counts[i] = Cardinality(Carried(q, i)) /\ q.counts[i] <= MaxSymbols
      BY <1>2, <2>1, <2>2, <2>3, <2>4
    <2>6. ASSUME NEW j \in 1..Len(q.counts)
          PROVE  q.counts[j] = Cardinality(Carried(q, j)) /\ q.counts[j] <= MaxSymbols
      BY <1>1, <1>8, <2>5, <2>6 DEF CountsRight
    <2> QED
      BY <1>2, <2>6 DEF CountsRight
  <1> QED
    BY <1>7, <1>12 DEF PoolOK

\* The broker is asked for a key, on a connection where it may be put.
LEMMA AskedOK ==
    ASSUME NEW p, PoolOK(p), NEW i \in 1..Len(p.adapters), NEW k \in Keys, NEW n,
           MayPlace(p, i, k, n), NEW ok \in BOOLEAN
    PROVE  PoolOK(Asked(p, i, k, n, ok).pool)
  <1> DEFINE q == [p EXCEPT !.adapters[i].streams = @ \cup {k},
                            !.at[k] = i, !.counts[i] = @ + n]
  <1>1. p \in Pool /\ CountsRight(p) /\ OneConnection(p) /\ n \in {0, 1}
    BY DEF PoolOK, MayPlace
  <1>2. /\ p.adapters \in Seq(Adapter) /\ p.counts \in Seq(Int) /\ p.at \in [Keys -> Nat]
        /\ Len(p.adapters) \in Nat /\ Len(p.counts) = Len(p.adapters)
        /\ p.adapters[i] \in Adapter /\ p.counts[i] \in Int
    BY <1>1 DEF Pool, CountsRight
  <1> DEFINE a == [p.adapters[i] EXCEPT !.streams = @ \cup {k}]
  <1>3. a \in Adapter
    BY <1>2 DEF Adapter
  <1>4. /\ q.adapters = [p.adapters EXCEPT ![i] = a]
        /\ q.counts = [p.counts EXCEPT ![i] = p.counts[i] + n]
        /\ q.at = [p.at EXCEPT ![k] = i]
    <2>1. q.adapters = [p.adapters EXCEPT ![i] = a]
      BY <1>1 DEF Pool
    <2>2. q.counts = [p.counts EXCEPT ![i] = p.counts[i] + n]
      BY <1>1 DEF Pool
    <2>3. q.at = [p.at EXCEPT ![k] = i]
      BY <1>1 DEF Pool
    <2> QED
      BY <2>1, <2>2, <2>3
  <1>5. q.adapters \in Seq(Adapter) /\ Len(q.adapters) = Len(p.adapters)
    BY <1>2, <1>3, <1>4, ExceptSeq
  <1>6. /\ q.counts \in Seq(Int) /\ Len(q.counts) = Len(p.counts)
        /\ \A j \in 1..Len(p.counts) :
              q.counts[j] = IF j = i THEN p.counts[i] + n ELSE p.counts[j]
    BY <1>1, <1>2, <1>4, ExceptSeq
  <1>7. q.at \in [Keys -> Nat]
    BY <1>2, <1>4
  <1>8. q \in Pool
    BY <1>1, <1>5, <1>6, <1>7 DEF Pool
  <1> HIDE DEF q, a
  <1>9. Written(p, q, k, i, i, n)
    BY <1>4, <1>5, <1>6 DEF Written
  <1>10. PoolOK(q)
    BY <1>8, <1>9, PlacedOK
  <1> QED
    BY <1>10 DEF Asked, Result, q

\* A set of modes that is not empty has a highest one.
LEMMA HighestType ==
    ASSUME NEW M \in SUBSET Modes, M # {}
    PROVE  Highest(M) \in M /\ \A n \in M : n <= Highest(M)
  <1> DEFINE Above(m) == {n \in M : n > m}
             T == {Above(m) : m \in M}
  <1>1. Modes \subseteq Nat /\ IsFiniteSet(Modes)
    BY PoolAssumption
  <1>2. \A m \in M : Above(m) \in FiniteSubsetsOf(Modes)
    <2> SUFFICES ASSUME NEW m \in M
                 PROVE  Above(m) \in FiniteSubsetsOf(Modes)
      OBVIOUS
    <2>1. Above(m) \in SUBSET Modes
      OBVIOUS
    <2>2. IsFiniteSet(Above(m))
      BY <1>1, <2>1, FS_Subset
    <2> QED
      BY <2>1, <2>2 DEF FiniteSubsetsOf
  <1>3. T \subseteq FiniteSubsetsOf(Modes) /\ T # {}
    BY <1>2
  <1>4. PICK x \in T : \A y \in T : ~(<<y, x>> \in StrictSubsetOrdering(Modes))
    BY <1>3, FS_StrictSubsetOrderingWellFounded, WFMin
  <1>5. PICK i \in M : x = Above(i)
    BY <1>4
  <1>6. ASSUME NEW j \in M, j > i
        PROVE  FALSE
    <2>1. j \in Above(i) /\ j \notin Above(j)
      BY <1>1, <1>6
    <2>2. Above(j) \subseteq Above(i)
      <3> SUFFICES ASSUME NEW n \in M, n > j
                   PROVE  n > i
        OBVIOUS
      <3>1. n \in Nat /\ j \in Nat /\ i \in Nat
        BY <1>1
      <3> QED
        BY <1>6, <3>1
    <2>3. Above(j) \in SUBSET Modes /\ Above(i) \in SUBSET Modes /\ Above(j) \in T
      OBVIOUS
    <2> HIDE DEF Above
    <2>4. <<Above(j), Above(i)>> \in StrictSubsetOrdering(Modes)
      BY <2>1, <2>2, <2>3 DEF StrictSubsetOrdering
    <2> QED
      BY <1>4, <1>5, <2>3, <2>4
  <1>7. \A n \in M : n <= i
    BY <1>1, <1>6
  <1> QED
    BY <1>7 DEF Highest

\* What one call on connection i may answer to a subscription.
LEMMA SubscribeNewOK ==
    ASSUME NEW p, PoolOK(p), NEW k \in Keys, NEW ok \in BOOLEAN, NEW token \in BOOLEAN,
           p.at[k] = 0, ModesOf(p, k[1]) = {}
    PROVE  PoolOK(SubscribeNew(p, k, ok, token).pool)
  <1>1. p \in Pool /\ Len(p.adapters) \in Nat
    BY DEF PoolOK, Pool
  <1>2. CASE \E i \in 1..Len(p.adapters) : Free(p, i)
    <2>1. FirstFree(p) \in 1..Len(p.adapters) /\ Free(p, FirstFree(p))
      BY <1>1, <1>2, FirstFreeType
    <2>2. MayPlace(p, FirstFree(p), k, 1)
      BY <2>1 DEF MayPlace, Free
    <2>3. PoolOK(Asked(p, FirstFree(p), k, 1, ok).pool)
      BY <2>1, <2>2, AskedOK
    <2> QED
      BY <1>2, <2>3 DEF SubscribeNew
  <1>3. CASE ~(\E i \in 1..Len(p.adapters) : Free(p, i))
    <2> DEFINE q == Opened(p, token)
               new == Len(p.adapters) + 1
    <2>1. PoolOK(q) /\ q.at = p.at /\ Len(q.adapters) = new /\ q.counts[new] = 0
      BY OpenedOK
    <2> HIDE DEF q
    <2>2. new \in 1..Len(q.adapters)
      BY <1>1, <2>1
    <2>3. MayPlace(q, new, k, 1)
      <3>1. ModesOf(q, k[1]) = ModesOf(p, k[1])
        BY <2>1 DEF ModesOf
      <3>2. 0 < MaxSymbols
        BY PoolAssumption
      <3> QED
        BY <2>1, <3>1, <3>2 DEF MayPlace
    <2>4. PoolOK(Asked(q, new, k, 1, ok).pool)
      BY <2>1, <2>2, <2>3, AskedOK
    <2> QED
      BY <1>3, <2>4 DEF SubscribeNew, Result, q
  <1> QED
    BY <1>2, <1>3

\* Another mode of a symbol goes where the symbol is.
LEMMA SubscribeMoreOK ==
    ASSUME NEW p, PoolOK(p), NEW k \in Keys, NEW ok \in BOOLEAN,
           p.at[k] = 0, ModesOf(p, k[1]) # {}
    PROVE  PoolOK(SubscribeMore(p, k, ok).pool)
  <1> DEFINE hi == Highest(ModesOf(p, k[1]))
             i == p.at[<<k[1], hi>>]
  <1>1. hi \in Modes /\ i # 0
    <2>1. ModesOf(p, k[1]) \in SUBSET Modes
      BY DEF ModesOf
    <2>2. hi \in ModesOf(p, k[1])
      BY <2>1, HighestType
    <2> HIDE DEF hi
    <2> QED
      BY <2>2 DEF ModesOf
  <1> HIDE DEF hi
  <1>2. p \in Pool /\ OneConnection(p) /\ CountsRight(p)
    BY DEF PoolOK
  <1>3. <<k[1], hi>> \in Keys
    BY <1>1 DEF Keys
  <1>4. i \in 1..Len(p.adapters)
    <2>1. i \in Nat /\ i <= Len(p.adapters) /\ Len(p.adapters) \in Nat
      BY <1>2, <1>3 DEF Pool, OneConnection
    <2> QED
      BY <1>1, <2>1
  <1>5. MayPlace(p, i, k, 0)
    BY <1>1 DEF MayPlace
  <1>6. PoolOK(Asked(p, i, k, 0, ok).pool)
    BY <1>4, <1>5, AskedOK
  <1> DEFINE q == [p EXCEPT !.at[k] = i]
  <1>7. q \in Pool /\ Written(p, q, k, i, i, 0)
    <2>1. q.at = [p.at EXCEPT ![k] = i] /\ q.adapters = p.adapters /\ q.counts = p.counts
      BY <1>2 DEF Pool
    <2>2. q.at \in [Keys -> Nat]
      BY <1>2, <1>4, <2>1 DEF Pool
    <2>3. q \in Pool
      BY <1>2, <2>1, <2>2 DEF Pool
    <2>4. \A j \in 1..Len(p.counts) : p.counts[j] \in Int
      BY <1>2 DEF Pool
    <2> HIDE DEF q
    <2>5. \A j \in 1..Len(p.counts) :
             q.counts[j] = IF j = i THEN p.counts[i] + 0 ELSE p.counts[j]
      BY <2>1, <2>4
    <2> QED
      BY <2>1, <2>3, <2>5 DEF Written
  <1>8. PoolOK(q)
    BY <1>4, <1>5, <1>7, PlacedOK
  <1> QED
    BY <1>6, <1>8 DEF SubscribeMore, Result, hi

\* subscribe keeps the pool in order, whatever the broker answers.
LEMMA SubscribeOK ==
    ASSUME NEW p, PoolOK(p), NEW k \in Keys, NEW ok \in BOOLEAN, NEW token \in BOOLEAN
    PROVE  PoolOK(Subscribe(p, k, ok, token).pool)
  BY SubscribeNewOK, SubscribeMoreOK DEF Subscribe, Result

\* A key may be taken off, and n symbols with it: it is the last mode of its
\* symbol (n = 1), or it is not (n = 0).
MayTake(p, k, n) ==
    /\ p.at[k] # 0
    /\ \/ n = 0 /\ \E m \in Modes : m # k[2] /\ p.at[<<k[1], m>>] # 0
       \/ n = 1 /\ \A m \in Modes : m # k[2] => p.at[<<k[1], m>>] = 0

\* A key taken off so leaves the pool in order.
LEMMA TakenOK ==
    ASSUME NEW p, PoolOK(p), NEW k \in Keys, NEW n, MayTake(p, k, n),
           NEW q \in Pool, Written(p, q, k, 0, p.at[k], -n)
    PROVE  PoolOK(q)
  <1> DEFINE i == p.at[k]
  <1>1. p \in Pool /\ CountsRight(p) /\ OneConnection(p) /\ n \in {0, 1} /\ i # 0
    BY DEF PoolOK, MayTake
  <1>2. /\ p.at \in [Keys -> Nat] /\ i \in 1..Len(p.adapters) /\ Len(p.adapters) \in Nat
        /\ Len(p.counts) = Len(p.adapters)
        /\ \A j \in 1..Len(p.counts) : p.counts[j] \in Int
    <2>1. p.at \in [Keys -> Nat] /\ p.counts \in Seq(Int) /\ Len(p.adapters) \in Nat
      BY <1>1 DEF Pool
    <2>2. i \in Nat /\ i <= Len(p.adapters)
      BY <1>1, <2>1 DEF OneConnection
    <2> QED
      BY <1>1, <2>1, <2>2 DEF CountsRight
  <1>3. /\ q.at = [p.at EXCEPT ![k] = 0]
        /\ Len(q.adapters) = Len(p.adapters) /\ Len(q.counts) = Len(p.counts)
        /\ \A j \in 1..Len(p.counts) :
              q.counts[j] = IF j = i THEN p.counts[i] + (-n) ELSE p.counts[j]
    BY DEF Written
  <1> HIDE DEF i
  <1>4. k = <<k[1], k[2]>> /\ k[1] \in Symbols /\ k[2] \in Modes
    BY DEF Keys
  <1>5. \A s \in Symbols, m \in Modes : <<s, m>> \in Keys
    BY DEF Keys
  <1>6. \A s \in Symbols, m \in Modes :
           q.at[<<s, m>>] = IF <<s, m>> = k THEN 0 ELSE p.at[<<s, m>>]
    BY <1>2, <1>3, <1>5
  <1>7. \A m \in Modes : p.at[<<k[1], m>>] \in {0, i}
    <2> SUFFICES ASSUME NEW m \in Modes, p.at[<<k[1], m>>] # 0
                 PROVE  p.at[<<k[1], m>>] = i
      OBVIOUS
    <2>1. p.at[<<k[1], k[2]>>] = i
      BY <1>4 DEF i
    <2> QED
      BY <1>1, <1>4, <2>1 DEF OneConnection
  <1>8. OneConnection(q)
    <2>1. ASSUME NEW kk \in Keys
          PROVE  q.at[kk] <= Len(q.adapters)
      <3>1. p.at[kk] <= Len(p.adapters)
        BY <1>1 DEF OneConnection
      <3> QED
        BY <1>2, <1>3, <3>1
    <2>2. ASSUME NEW s \in Symbols, NEW m \in Modes, NEW mm \in Modes,
                 q.at[<<s, m>>] # 0, q.at[<<s, mm>>] # 0
          PROVE  q.at[<<s, m>>] = q.at[<<s, mm>>]
      <3>1. <<s, m>> # k /\ <<s, mm>> # k
        BY <1>6, <2>2
      <3> QED
        BY <1>1, <1>6, <2>2, <3>1 DEF OneConnection
    <2> QED
      BY <2>1, <2>2 DEF OneConnection
  <1>9. ASSUME NEW s \in Symbols, s # k[1], NEW m \in Modes
        PROVE  q.at[<<s, m>>] = p.at[<<s, m>>]
    <2>1. <<s, m>> # k
      BY <1>4, <1>9
    <2> QED
      BY <1>6, <2>1
  <1>10. ASSUME NEW j, NEW s \in Symbols, s # k[1]
         PROVE  s \in Carried(q, j) <=> s \in Carried(p, j)
    BY <1>9, <1>10 DEF Carried
  <1>11. \A j : Carried(q, j) \in SUBSET Symbols /\ Carried(p, j) \in SUBSET Symbols
    BY CarriedFinite
  <1>12. k[1] \in Carried(p, i)
    <2>1. p.at[<<k[1], k[2]>>] = i
      BY <1>4 DEF i
    <2> QED
      BY <1>4, <2>1 DEF Carried
  <1>13. ASSUME NEW j \in 1..Len(p.counts), j # i
         PROVE  Carried(q, j) = Carried(p, j)
    <2>1. \A m \in Modes : p.at[<<k[1], m>>] # j /\ q.at[<<k[1], m>>] # j
      BY <1>2, <1>4, <1>6, <1>7, <1>13
    <2>2. k[1] \notin Carried(p, j) /\ k[1] \notin Carried(q, j)
      BY <2>1 DEF Carried
    <2>3. Carried(q, j) \in SUBSET Symbols /\ Carried(p, j) \in SUBSET Symbols
      BY CarriedFinite
    <2>4. \A s \in Symbols : s # k[1] => (s \in Carried(q, j) <=> s \in Carried(p, j))
      BY <1>10
    <2>5. \A s \in Symbols : s \in Carried(q, j) <=> s \in Carried(p, j)
      BY <2>2, <2>4
    <2> QED
      BY <2>3, <2>5
  <1>14. n = 0 => Carried(q, i) = Carried(p, i)
    <2> SUFFICES ASSUME n = 0
                 PROVE  k[1] \in Carried(q, i)
      BY <1>10, <1>11, <1>12
    <2>1. PICK m \in Modes : m # k[2] /\ p.at[<<k[1], m>>] # 0
      BY DEF MayTake
    <2>2. <<k[1], m>> # k
      BY <1>4, <2>1
    <2>3. q.at[<<k[1], m>>] = i
      BY <1>4, <1>6, <1>7, <2>1, <2>2
    <2> QED
      BY <1>4, <2>3 DEF Carried
  <1>15. n = 1 => Carried(q, i) = Carried(p, i) \ {k[1]}
    <2> SUFFICES ASSUME n = 1
                 PROVE  k[1] \notin Carried(q, i)
      BY <1>10, <1>11, <1>12
    <2>1. ASSUME NEW m \in Modes
          PROVE  q.at[<<k[1], m>>] = 0
      <3>1. CASE m = k[2]
        BY <1>4, <1>6, <3>1
      <3>2. CASE m # k[2]
        <4>1. <<k[1], m>> # k /\ p.at[<<k[1], m>>] = 0
          BY <1>4, <3>2 DEF MayTake
        <4> QED
          BY <1>4, <1>6, <4>1
      <3> QED
        BY <3>1, <3>2
    <2> QED
      BY <1>1, <2>1 DEF Carried
  <1>16. CountsRight(q)
    <2>1. IsFiniteSet(Carried(p, i)) /\ Cardinality(Carried(p, i)) \in Nat /\ MaxSymbols \in Nat
      BY CarriedFinite, FS_CardinalityType, PoolAssumption
    <2>2. Cardinality(Carried(q, i)) = Cardinality(Carried(p, i)) - n
      <3>1. Cardinality(Carried(p, i) \ {k[1]}) = Cardinality(Carried(p, i)) - 1
        BY <1>12, <2>1, FS_RemoveElement
      <3> QED
        BY <1>1, <1>14, <1>15, <2>1, <3>1
    <2>3. i \in 1..Len(p.counts)
      BY <1>2
    <2>4. p.counts[i] = Cardinality(Carried(p, i)) /\ p.counts[i] <= MaxSymbols
      BY <1>1, <2>3 DEF CountsRight
    <2>5. q.counts[i] = Cardinality(Carried(q, i)) /\ q.counts[i] <= MaxSymbols
      BY <1>1, <1>3, <2>1, <2>2, <2>3, <2>4
    <2>6. ASSUME NEW j \in 1..Len(q.counts), j # i
          PROVE  q.counts[j] = Cardinality(Carried(q, j)) /\ q.counts[j] <= MaxSymbols
      <3>1. j \in 1..Len(p.counts)
        BY <1>3
      <3> QED
        BY <1>1, <1>3, <1>13, <2>6, <3>1 DEF CountsRight
    <2> QED
      BY <1>2, <1>3, <2>5, <2>6 DEF CountsRight
  <1> QED
    BY <1>8, <1>16 DEF PoolOK

\* An adapter of the pool, after what it streams has changed.
LEMMA StreamsType ==
    ASSUME NEW p \in Pool, NEW i \in 1..Len(p.adapters), NEW S \in SUBSET Keys
    PROVE  /\ [p EXCEPT !.adapters[i].streams = S] \in Pool
           /\ Len([p EXCEPT !.adapters[i].streams = S].adapters) = Len(p.adapters)
           /\ [p EXCEPT !.adapters[i].streams = S].at = p.at
           /\ [p EXCEPT !.adapters[i].streams = S].counts = p.counts
  <1> DEFINE q == [p EXCEPT !.adapters[i].streams = S]
             a == [p.adapters[i] EXCEPT !.streams = S]
  <1>1. p.adapters \in Seq(Adapter) /\ p.adapters[i] \in Adapter
    BY DEF Pool
  <1>2. a \in Adapter
    BY <1>1 DEF Adapter
  <1>3. q.adapters = [p.adapters EXCEPT ![i] = a]
    BY DEF Pool
  <1>4. q.adapters \in Seq(Adapter) /\ Len(q.adapters) = Len(p.adapters)
    BY <1>1, <1>2, <1>3, ExceptSeq
  <1> QED
    BY <1>4 DEF Pool

\* The last mode of a symbol is taken off with its symbol.
LEMMA UnsubscribeLastOK ==
    ASSUME NEW p, PoolOK(p), NEW k \in Keys, NEW a \in Answers, p.at[k] # 0,
           ModesOf(p, k[1]) \ {k[2]} = {}
    PROVE  PoolOK(UnsubscribeLast(p, k, a).pool)
  <1> DEFINE i == p.at[k]
             q == [p EXCEPT !.at[k] = 0, !.counts[i] = @ - 1,
                            !.adapters[i].streams = @ \ {k}]
             b == [p.adapters[i] EXCEPT !.streams = @ \ {k}]
  <1>1. p \in Pool /\ CountsRight(p) /\ OneConnection(p)
    BY DEF PoolOK
  <1>2. /\ p.at \in [Keys -> Nat] /\ p.adapters \in Seq(Adapter) /\ p.counts \in Seq(Int)
        /\ Len(p.counts) = Len(p.adapters) /\ Len(p.adapters) \in Nat
    BY <1>1 DEF Pool, CountsRight
  <1>3. i \in 1..Len(p.adapters) /\ i \in 1..Len(p.counts)
    BY <1>1, <1>2 DEF OneConnection
  <1>4. p.adapters[i] \in Adapter /\ p.counts[i] \in Int
    BY <1>2, <1>3
  <1>5. b \in Adapter
    BY <1>4 DEF Adapter
  <1>6. q.adapters = [p.adapters EXCEPT ![i] = b]
    BY <1>1 DEF Pool
  <1>7. q.counts = [p.counts EXCEPT ![i] = p.counts[i] - 1]
    BY <1>1 DEF Pool
  <1>8. q.at = [p.at EXCEPT ![k] = 0]
    BY <1>1 DEF Pool
  <1>9. q.adapters \in Seq(Adapter) /\ Len(q.adapters) = Len(p.adapters)
    BY <1>2, <1>3, <1>5, <1>6, ExceptSeq
  <1>10. /\ q.counts \in Seq(Int) /\ Len(q.counts) = Len(p.counts)
         /\ \A j \in 1..Len(p.counts) :
               q.counts[j] = IF j = i THEN p.counts[i] - 1 ELSE p.counts[j]
    BY <1>2, <1>3, <1>4, <1>7, ExceptSeq
  <1>11. q.at \in [Keys -> Nat]
    BY <1>2, <1>8
  <1>12. q \in Pool
    BY <1>1, <1>9, <1>10, <1>11 DEF Pool
  <1> HIDE DEF q, b
  <1>13. Written(p, q, k, 0, i, -1)
    BY <1>4, <1>8, <1>9, <1>10 DEF Written
  <1>14. MayTake(p, k, 1)
    <2>1. ASSUME NEW m \in Modes, m # k[2]
          PROVE  p.at[<<k[1], m>>] = 0
      BY <2>1 DEF ModesOf
    <2> QED
      BY <2>1 DEF MayTake
  <1>15. PoolOK(q)
    BY <1>12, <1>13, <1>14, TakenOK
  <1> QED
    BY <1>15 DEF UnsubscribeLast, Result, q

\* A mode is taken off and its symbol stays.
LEMMA DroppedOK ==
    ASSUME NEW p, PoolOK(p), NEW k \in Keys, p.at[k] # 0,
           ModesOf(p, k[1]) \ {k[2]} # {},
           NEW q \in Pool, q.at = [p.at EXCEPT ![k] = 0], q.counts = p.counts,
           Len(q.adapters) = Len(p.adapters)
    PROVE  PoolOK(q)
  <1>1. MayTake(p, k, 0)
    BY DEF MayTake, ModesOf
  <1>2. \A j \in 1..Len(p.counts) : p.counts[j] \in Int
    BY DEF PoolOK, Pool
  <1>3. \A j \in 1..Len(p.counts) :
           q.counts[j] = IF j = p.at[k] THEN p.counts[p.at[k]] + (-0) ELSE p.counts[j]
    BY <1>2
  <1>4. Written(p, q, k, 0, p.at[k], -0)
    BY <1>3 DEF Written
  <1> QED
    BY <1>1, <1>4, TakenOK

\* A downgrade keeps the pool in order, refused or not.
LEMMA DowngradeOK ==
    ASSUME NEW p, PoolOK(p), NEW k \in Keys, NEW a \in Answers, p.at[k] # 0,
           ModesOf(p, k[1]) \ {k[2]} # {}, NEW lower \in Modes
    PROVE  PoolOK(Downgrade(p, k, lower, a).pool)
  <1> DEFINE i == p.at[k]
             live == p.adapters[i].live
             kept == IF a.unsub THEN p.adapters[i].streams \ {k} ELSE p.adapters[i].streams
             more == kept \cup {<<k[1], lower>>}
             back == IF live /\ a.back THEN kept \cup {k} ELSE kept
  <1>1. p \in Pool /\ CountsRight(p) /\ OneConnection(p)
    BY DEF PoolOK
  <1>2. i \in 1..Len(p.adapters)
    <2>1. i \in Nat /\ i <= Len(p.adapters) /\ Len(p.adapters) \in Nat
      BY <1>1 DEF OneConnection, Pool
    <2> QED
      BY <2>1
  <1>3. p.adapters[i] \in Adapter /\ <<k[1], lower>> \in Keys
    BY <1>1, <1>2 DEF Pool, Keys
  <1>4. more \in SUBSET Keys /\ back \in SUBSET Keys
    BY <1>3 DEF Adapter
  <1> HIDE DEF more, back
  <1>5. PoolOK([p EXCEPT !.adapters[i].streams = back])
    BY <1>1, <1>2, <1>4, StreamsType, SameBooks, ZenonT(60)
  <1> DEFINE q == [p EXCEPT !.at[k] = 0, !.adapters[i].streams = more]
             r == [p EXCEPT !.adapters[i].streams = more]
  <1>6. /\ r \in Pool /\ Len(r.adapters) = Len(p.adapters)
        /\ r.at = p.at /\ r.counts = p.counts
    BY <1>1, <1>2, <1>4, StreamsType
  <1>7. q = [r EXCEPT !.at[k] = 0]
    BY <1>1 DEF Pool
  <1> HIDE DEF q, r
  <1>8. /\ q.at = [p.at EXCEPT ![k] = 0] /\ q.counts = p.counts
        /\ q.adapters = r.adapters /\ q \in Pool
    BY <1>6, <1>7 DEF Pool
  <1>9. PoolOK(q)
    BY <1>6, <1>8, DroppedOK
  <1> QED
    BY <1>5, <1>9 DEF Downgrade, Result, q, more, back

\* unsubscribe keeps the pool in order, whatever the broker answers.
LEMMA UnsubscribeOK ==
    ASSUME NEW p, PoolOK(p), NEW k \in Keys, NEW a \in Answers
    PROVE  PoolOK(Unsubscribe(p, k, a).pool)
  <1> DEFINE rest == ModesOf(p, k[1]) \ {k[2]}
             q == [p EXCEPT !.at[k] = 0]
  <1>1. CASE p.at[k] = 0
    BY <1>1 DEF Unsubscribe, Result
  <1>2. CASE p.at[k] # 0 /\ rest = {}
    BY <1>2, UnsubscribeLastOK DEF Unsubscribe
  <1>3. CASE p.at[k] # 0 /\ rest # {}
    <2>1. Highest(rest) \in Modes
      <3>1. rest \in SUBSET Modes
        BY DEF ModesOf
      <3> HIDE DEF rest
      <3> QED
        BY <1>3, <3>1, HighestType
    <2>2. PoolOK(Downgrade(p, k, Highest(rest), a).pool)
      BY <1>3, <2>1, DowngradeOK
    <2>3. PoolOK(q)
      <3>1. p \in Pool
        BY DEF PoolOK
      <3>2. /\ q \in Pool /\ q.at = [p.at EXCEPT ![k] = 0]
            /\ q.counts = p.counts /\ q.adapters = p.adapters
        BY <3>1 DEF Pool
      <3> HIDE DEF q
      <3> QED
        BY <1>3, <3>2, DroppedOK
    <2> QED
      BY <1>3, <2>2, <2>3 DEF Unsubscribe, Result
  <1> QED
    BY <1>1, <1>2, <1>3

\* Nothing is carried by a pool that holds no key.
LEMMA NothingCarried ==
    ASSUME NEW q, q \in Pool, \A k \in Keys : q.at[k] = 0,
           Len(q.counts) = Len(q.adapters), \A j \in 1..Len(q.counts) : q.counts[j] = 0
    PROVE  PoolOK(q)
  <1>1. Len(q.adapters) \in Nat
    BY DEF Pool
  <1>2. ASSUME NEW s \in Symbols, NEW m \in Modes
        PROVE  q.at[<<s, m>>] = 0
    BY DEF Keys
  <1>3. ASSUME NEW j \in 1..Len(q.counts)
        PROVE  q.counts[j] = Cardinality(Carried(q, j)) /\ q.counts[j] <= MaxSymbols
    <2>1. j # 0
      BY <1>1
    <2>2. Carried(q, j) = {}
      BY <1>2, <2>1 DEF Carried
    <2>3. Cardinality({}) = 0 /\ 0 <= MaxSymbols
      BY FS_EmptySet, PoolAssumption
    <2> QED
      BY <2>2, <2>3
  <1> QED
    BY <1>1, <1>2, <1>3 DEF PoolOK, CountsRight, OneConnection

\* unsubscribe_all leaves the connections and nothing on them.
LEMMA UnsubscribeAllOK ==
    ASSUME NEW p, PoolOK(p)
    PROVE  PoolOK(UnsubscribeAll(p))
  <1> DEFINE q == UnsubscribeAll(p)
             A == [i \in DOMAIN p.adapters |-> [p.adapters[i] EXCEPT !.streams = {}]]
             C == [i \in DOMAIN p.counts |-> 0]
  <1>1. p \in Pool /\ CountsRight(p)
    BY DEF PoolOK
  <1>2. /\ p.adapters \in Seq(Adapter) /\ p.counts \in Seq(Int)
        /\ Len(p.adapters) \in Nat /\ Len(p.counts) = Len(p.adapters)
        /\ DOMAIN p.adapters = 1..Len(p.adapters) /\ DOMAIN p.counts = 1..Len(p.counts)
    BY <1>1 DEF Pool, CountsRight
  <1>3. q.adapters = A /\ q.counts = C /\ q.at = EmptyPool.at
    BY <1>1 DEF UnsubscribeAll, Pool
  <1>4. ASSUME NEW i \in 1..Len(p.adapters)
        PROVE  [p.adapters[i] EXCEPT !.streams = {}] \in Adapter
    <2>1. p.adapters[i] \in Adapter
      BY <1>2
    <2> QED
      BY <2>1 DEF Adapter
  <1>5. A \in Seq(Adapter) /\ Len(A) = Len(p.adapters)
    BY <1>2, <1>4
  <1>6. C \in Seq(Int) /\ Len(C) = Len(p.counts)
    BY <1>2
  <1>7. EmptyPool.at \in [Keys -> Nat] /\ \A k \in Keys : EmptyPool.at[k] = 0
    BY DEF EmptyPool
  <1>8. q \in Pool
    BY <1>1, <1>3, <1>5, <1>6, <1>7 DEF UnsubscribeAll, Pool
  <1>9. \A j \in 1..Len(q.counts) : q.counts[j] = 0
    BY <1>2, <1>3, <1>6
  <1> HIDE DEF A, C, q
  <1>10. (\A k \in Keys : q.at[k] = 0) /\ Len(q.counts) = Len(q.adapters)
    BY <1>2, <1>3, <1>5, <1>6, <1>7
  <1>11. PoolOK(q)
    BY <1>8, <1>9, <1>10, NothingCarried
  <1> QED
    BY <1>11 DEF q

\* The end of the token leaves the books as they are.
LEMMA DeadOK ==
    ASSUME NEW p, PoolOK(p)
    PROVE  PoolOK(Dead(p))
  <1> DEFINE q == Dead(p)
             A == [i \in DOMAIN p.adapters |-> [live |-> FALSE, streams |-> {}]]
  <1>1. p \in Pool
    BY DEF PoolOK
  <1>2. /\ p.adapters \in Seq(Adapter) /\ Len(p.adapters) \in Nat
        /\ DOMAIN p.adapters = 1..Len(p.adapters)
    BY <1>1 DEF Pool
  <1>3. q.adapters = A /\ q.counts = p.counts /\ q.at = p.at
    BY <1>1 DEF Dead, Pool
  <1>4. [live |-> FALSE, streams |-> {}] \in Adapter
    BY DEF Adapter
  <1>5. A \in Seq(Adapter) /\ Len(A) = Len(p.adapters)
    BY <1>2, <1>4
  <1>6. q \in Pool
    BY <1>1, <1>3, <1>5 DEF Dead, Pool
  <1> HIDE DEF A, q
  <1>7. PoolOK(q)
    BY <1>3, <1>5, <1>6, SameBooks
  <1> QED
    BY <1>7 DEF q

\* initialize adds a connection or nothing.
LEMMA InitializeOK ==
    ASSUME NEW p, PoolOK(p), NEW ok \in BOOLEAN, NEW token \in BOOLEAN
    PROVE  PoolOK(Initialize(p, ok, token).pool)
  <1> DEFINE q == Opened(p, token)
             r == [q EXCEPT !.initialized = TRUE]
  <1>1. PoolOK(q) /\ q \in Pool
    BY OpenedOK DEF PoolOK
  <1> HIDE DEF q
  <1>2. r \in Pool /\ r.at = q.at /\ r.counts = q.counts /\ r.adapters = q.adapters
    BY <1>1 DEF Pool
  <1> HIDE DEF r
  <1>3. PoolOK(r)
    BY <1>1, <1>2, SameBooks
  <1> QED
    BY <1>3 DEF Initialize, Result, q, r

\* What initialize(force=True) starts from is in order.
LEMMA ClearedOK ==
    ASSUME NEW p, PoolOK(p)
    PROVE  PoolOK(Cleared(p))
  BY EmptyPoolOK DEF Cleared

\* To mark a pool connected changes no books.
LEMMA MarkedOK ==
    ASSUME NEW p, PoolOK(p)
    PROVE  PoolOK([p EXCEPT !.connected = TRUE])
  <1> DEFINE q == [p EXCEPT !.connected = TRUE]
  <1>1. p \in Pool
    BY DEF PoolOK
  <1>2. q \in Pool /\ q.at = p.at /\ q.counts = p.counts /\ q.adapters = p.adapters
    BY <1>1 DEF Pool
  <1> HIDE DEF q
  <1>3. PoolOK(q)
    BY <1>2, SameBooks
  <1> QED
    BY <1>3 DEF q

\* connect marks the pool connected, or answers that it cannot.
LEMMA ConnectOK ==
    ASSUME NEW p, PoolOK(p)
    PROVE  PoolOK(Connect(p).pool)
  BY MarkedOK DEF Connect, Result
-----------------------------------------------------------------------------
(* What an operation does to the connections and to the keys *)

\* Connections stay as they are, or are made with the token; what one streams it goes
\* on to stream.
Extends(p, q, token) ==
    /\ Len(p.adapters) \in Nat /\ Len(q.adapters) \in Nat
    /\ Len(p.adapters) <= Len(q.adapters)
    /\ \A j \in 1..Len(p.adapters) :
          /\ q.adapters[j].live = p.adapters[j].live
          /\ p.adapters[j].streams \subseteq q.adapters[j].streams
    /\ \A j \in 1..Len(q.adapters) : j > Len(p.adapters) => q.adapters[j].live = token

\* A pool extends itself.
LEMMA ExtendsItself ==
    ASSUME NEW p \in Pool, NEW token
    PROVE  Extends(p, p, token)
  <1>1. Len(p.adapters) \in Nat
    BY DEF Pool
  <1> QED
    BY <1>1 DEF Extends

\* A connection made with the token extends the pool.
LEMMA OpenedExtends ==
    ASSUME NEW p \in Pool, NEW token \in BOOLEAN
    PROVE  /\ Extends(p, Opened(p, token), token)
           /\ Opened(p, token).connected = p.connected
           /\ Opened(p, token).initialized = p.initialized
           /\ Opened(p, token).adapters[Len(p.adapters) + 1] = [live |-> token, streams |-> {}]
  <1> DEFINE q == Opened(p, token)
  <1>1. p.adapters \in Seq(Adapter) /\ Len(p.adapters) \in Nat
    BY DEF Pool
  <1>2. [live |-> token, streams |-> {}] \in Adapter
    BY DEF Adapter
  <1>3. /\ q.adapters = Append(p.adapters, [live |-> token, streams |-> {}])
        /\ q.initialized = p.initialized /\ q.connected = p.connected
    BY DEF Opened, Pool
  <1> HIDE DEF q
  <1>4. /\ Len(q.adapters) = Len(p.adapters) + 1
        /\ \A j \in 1..Len(p.adapters) : q.adapters[j] = p.adapters[j]
        /\ q.adapters[Len(p.adapters) + 1] = [live |-> token, streams |-> {}]
    BY <1>1, <1>2, <1>3
  <1>5. \A j \in 1..Len(q.adapters) : j > Len(p.adapters) => j = Len(p.adapters) + 1
    BY <1>1, <1>4
  <1>6. Extends(p, q, token)
    BY <1>1, <1>4, <1>5 DEF Extends
  <1> QED
    BY <1>3, <1>4, <1>6 DEF q

\* The broker is asked for a key: it refuses and nothing changes, or the connection
\* is live and streams the key from now on.
LEMMA AskedDoes ==
    ASSUME NEW p \in Pool, NEW i \in 1..Len(p.adapters), NEW k \in Keys, NEW n, NEW ok, NEW token
    PROVE  LET r == Asked(p, i, k, n, ok) IN
           /\ Extends(p, r.pool, token)
           /\ \/ r.status # "success" /\ r.pool.at = p.at
              \/ /\ r.status = "success" /\ r.pool.at = [p.at EXCEPT ![k] = i]
                 /\ k \in r.pool.adapters[i].streams
  <1> DEFINE q == [p EXCEPT !.adapters[i].streams = @ \cup {k},
                            !.at[k] = i, !.counts[i] = @ + n]
             a == [p.adapters[i] EXCEPT !.streams = @ \cup {k}]
  <1>1. p.adapters \in Seq(Adapter) /\ Len(p.adapters) \in Nat /\ p.adapters[i] \in Adapter
    BY DEF Pool
  <1>2. /\ a \in Adapter /\ a.live = p.adapters[i].live
        /\ a.streams = p.adapters[i].streams \cup {k}
    BY <1>1 DEF Adapter
  <1>3. q.adapters = [p.adapters EXCEPT ![i] = a] /\ q.at = [p.at EXCEPT ![k] = i]
    BY DEF Pool
  <1> HIDE DEF q, a
  <1>4. /\ Len(q.adapters) = Len(p.adapters)
        /\ \A j \in 1..Len(p.adapters) : q.adapters[j] = IF j = i THEN a ELSE p.adapters[j]
    BY <1>1, <1>2, <1>3, ExceptSeq
  <1>5. Extends(p, q, token)
    BY <1>1, <1>2, <1>4 DEF Extends
  <1>6. k \in q.adapters[i].streams
    BY <1>2, <1>4
  <1> QED
    BY <1>3, <1>5, <1>6, ExtendsItself DEF Asked, Result, q

\* One pool extends another by way of a third.
LEMMA ExtendsOn ==
    ASSUME NEW p, NEW q, NEW r, NEW token, Extends(p, q, token), Extends(q, r, token)
    PROVE  Extends(p, r, token)
  <1>1. /\ Len(p.adapters) \in Nat /\ Len(q.adapters) \in Nat /\ Len(r.adapters) \in Nat
        /\ Len(p.adapters) <= Len(q.adapters) /\ Len(q.adapters) <= Len(r.adapters)
    BY DEF Extends
  <1>2. ASSUME NEW j \in 1..Len(p.adapters)
        PROVE  /\ r.adapters[j].live = p.adapters[j].live
               /\ p.adapters[j].streams \subseteq r.adapters[j].streams
    <2>1. j \in 1..Len(q.adapters)
      BY <1>1
    <2> QED
      BY <2>1 DEF Extends
  <1>3. ASSUME NEW j \in 1..Len(r.adapters), j > Len(p.adapters)
        PROVE  r.adapters[j].live = token
    <2>1. CASE j \in 1..Len(q.adapters)
      BY <1>3, <2>1 DEF Extends
    <2>2. CASE j \notin 1..Len(q.adapters)
      <3>1. j > Len(q.adapters)
        BY <1>1, <2>2
      <3> QED
        BY <3>1 DEF Extends
    <2> QED
      BY <2>1, <2>2
  <1> QED
    BY <1>1, <1>2, <1>3 DEF Extends

\* The key of a successful subscription, put on connection i of q: the connection is told
\* to stream it, or a higher mode of the symbol is wanted there already.
Placed(p, q, k, i) ==
    /\ p.at[k] = 0 /\ i \in Nat \ {0} /\ q.at = [p.at EXCEPT ![k] = i]
    /\ \A m \in Modes : p.at[<<k[1], m>>] \in {0, i}
    /\ \/ k \in q.adapters[i].streams
       \/ ModesOf(p, k[1]) # {} /\ k[2] <= Highest(ModesOf(p, k[1]))

\* subscribe, of a symbol that has no connection.
LEMMA SubscribeNewDoes ==
    ASSUME NEW p, PoolOK(p), NEW k \in Keys, NEW ok \in BOOLEAN, NEW token \in BOOLEAN,
           p.at[k] = 0, ModesOf(p, k[1]) = {}
    PROVE  LET r == SubscribeNew(p, k, ok, token) IN
           /\ Extends(p, r.pool, token)
           /\ \/ r.status # "success" /\ r.pool.at = p.at
              \/ r.status = "success" /\ \E i \in Nat : Placed(p, r.pool, k, i)
  <1> DEFINE r == SubscribeNew(p, k, ok, token)
  <1>1. p \in Pool /\ Len(p.adapters) \in Nat
    BY DEF PoolOK, Pool
  <1>2. \A m \in Modes : p.at[<<k[1], m>>] = 0
    BY DEF ModesOf
  <1>3. CASE \E i \in 1..Len(p.adapters) : Free(p, i)
    <2> DEFINE i == FirstFree(p)
    <2>1. i \in 1..Len(p.adapters) /\ i \in Nat \ {0}
      BY <1>1, <1>3, FirstFreeType
    <2>2. r = Asked(p, i, k, 1, ok)
      BY <1>3 DEF SubscribeNew
    <2> HIDE DEF i, r
    <2>3. /\ Extends(p, r.pool, token)
          /\ \/ r.status # "success" /\ r.pool.at = p.at
             \/ /\ r.status = "success" /\ r.pool.at = [p.at EXCEPT ![k] = i]
                /\ k \in r.pool.adapters[i].streams
      <3> DEFINE x == Asked(p, i, k, 1, ok)
      <3>1. /\ Extends(p, x.pool, token)
            /\ \/ x.status # "success" /\ x.pool.at = p.at
               \/ /\ x.status = "success" /\ x.pool.at = [p.at EXCEPT ![k] = i]
                  /\ k \in x.pool.adapters[i].streams
        BY <1>1, <2>1, AskedDoes
      <3> QED
        BY <2>2, <3>1
    <2>4. r.status = "success" => Placed(p, r.pool, k, i)
      BY <1>2, <2>1, <2>3 DEF Placed
    <2> QED
      BY <2>1, <2>3, <2>4 DEF r
  <1>4. CASE /\ ~(\E i \in 1..Len(p.adapters) : Free(p, i))
             /\ Len(p.adapters) >= MaxConnections
    <2>1. r = Result(p, "error")
      BY <1>4 DEF SubscribeNew
    <2> QED
      BY <1>1, <2>1, ExtendsItself DEF Result
  <1>5. CASE /\ ~(\E i \in 1..Len(p.adapters) : Free(p, i))
             /\ ~(Len(p.adapters) >= MaxConnections)
    <2> DEFINE q == Opened(p, token)
               new == Len(p.adapters) + 1
    <2>1. PoolOK(q) /\ q.at = p.at /\ Len(q.adapters) = new /\ Extends(p, q, token)
      BY <1>1, OpenedOK, OpenedExtends
    <2>2. r = Asked(q, new, k, 1, ok)
      BY <1>5 DEF SubscribeNew
    <2> HIDE DEF q, r
    <2>3. new \in 1..Len(q.adapters) /\ q \in Pool /\ new \in Nat \ {0}
      BY <1>1, <2>1 DEF PoolOK
    <2>4. /\ Extends(q, r.pool, token)
          /\ \/ r.status # "success" /\ r.pool.at = p.at
             \/ /\ r.status = "success" /\ r.pool.at = [p.at EXCEPT ![k] = new]
                /\ k \in r.pool.adapters[new].streams
      <3> DEFINE x == Asked(q, new, k, 1, ok)
      <3>1. /\ Extends(q, x.pool, token)
            /\ \/ x.status # "success" /\ x.pool.at = q.at
               \/ /\ x.status = "success" /\ x.pool.at = [q.at EXCEPT ![k] = new]
                  /\ k \in x.pool.adapters[new].streams
        BY <2>3, AskedDoes
      <3> QED
        BY <2>1, <2>2, <3>1
    <2>5. Extends(p, r.pool, token)
      BY <2>1, <2>4, ExtendsOn
    <2>6. r.status = "success" => Placed(p, r.pool, k, new)
      BY <1>2, <2>3, <2>4 DEF Placed
    <2> QED
      BY <2>3, <2>4, <2>5, <2>6 DEF r
  <1> QED
    BY <1>3, <1>4, <1>5

\* subscribe, of a symbol that has a connection.
LEMMA SubscribeMoreDoes ==
    ASSUME NEW p, PoolOK(p), NEW k \in Keys, NEW ok \in BOOLEAN, NEW token \in BOOLEAN,
           p.at[k] = 0, ModesOf(p, k[1]) # {}
    PROVE  LET r == SubscribeMore(p, k, ok) IN
           /\ Extends(p, r.pool, token)
           /\ \/ r.status # "success" /\ r.pool.at = p.at
              \/ r.status = "success" /\ \E i \in Nat : Placed(p, r.pool, k, i)
  <1> DEFINE r == SubscribeMore(p, k, ok)
             hi == Highest(ModesOf(p, k[1]))
             i == p.at[<<k[1], hi>>]
  <1>1. hi \in Modes /\ i # 0
    <2>1. ModesOf(p, k[1]) \in SUBSET Modes
      BY DEF ModesOf
    <2>2. hi \in ModesOf(p, k[1])
      BY <2>1, HighestType
    <2> HIDE DEF hi
    <2> QED
      BY <2>2 DEF ModesOf
  <1>2. r = IF k[2] > hi THEN Asked(p, i, k, 0, ok)
            ELSE Result([p EXCEPT !.at[k] = i], "success")
    BY DEF SubscribeMore
  <1>3. p \in Pool /\ OneConnection(p)
    BY DEF PoolOK
  <1>4. <<k[1], hi>> \in Keys /\ k[1] \in Symbols /\ k[2] \in Nat /\ hi \in Nat
    BY <1>1, PoolAssumption DEF Keys
  <1>5. i \in 1..Len(p.adapters) /\ i \in Nat \ {0}
    <2>1. i \in Nat /\ i <= Len(p.adapters) /\ Len(p.adapters) \in Nat
      BY <1>3, <1>4 DEF Pool, OneConnection
    <2> QED
      BY <1>1, <2>1
  <1>6. \A m \in Modes : p.at[<<k[1], m>>] \in {0, i}
    BY <1>1, <1>3, <1>4 DEF OneConnection
  <1>7. [p EXCEPT !.at[k] = i].adapters = p.adapters
        /\ [p EXCEPT !.at[k] = i].at = [p.at EXCEPT ![k] = i]
    BY <1>3 DEF Pool
  <1>8. hi = Highest(ModesOf(p, k[1]))
    OBVIOUS
  <1> HIDE DEF hi, i, r
  <1>9. CASE k[2] > hi
    <2>1. r = Asked(p, i, k, 0, ok)
      BY <1>2, <1>9
    <2>2. /\ Extends(p, r.pool, token)
          /\ \/ r.status # "success" /\ r.pool.at = p.at
             \/ /\ r.status = "success" /\ r.pool.at = [p.at EXCEPT ![k] = i]
                /\ k \in r.pool.adapters[i].streams
      BY <1>3, <1>5, <2>1, AskedDoes
    <2>3. r.status = "success" => Placed(p, r.pool, k, i)
      BY <1>5, <1>6, <2>2 DEF Placed
    <2> QED
      BY <1>5, <2>2, <2>3 DEF r
  <1>10. CASE ~(k[2] > hi)
    <2>1. /\ r.status = "success" /\ r.pool.adapters = p.adapters
          /\ r.pool.at = [p.at EXCEPT ![k] = i]
      BY <1>2, <1>7, <1>10 DEF Result
    <2>2. k[2] <= hi
      BY <1>4, <1>10
    <2>3. Placed(p, r.pool, k, i)
      BY <1>5, <1>6, <1>8, <2>1, <2>2 DEF Placed
    <2>4. Extends(p, r.pool, token)
      BY <1>3, <2>1, ExtendsItself DEF Extends
    <2> QED
      BY <1>5, <2>1, <2>3, <2>4 DEF r
  <1> QED
    BY <1>9, <1>10

\* subscribe: a key that is tracked already changes nothing; a call that fails leaves the
\* keys alone; one that succeeds puts the key on a connection.
LEMMA SubscribeDoes ==
    ASSUME NEW p, PoolOK(p), NEW k \in Keys, NEW ok \in BOOLEAN, NEW token \in BOOLEAN
    PROVE  LET r == Subscribe(p, k, ok, token) IN
           /\ Extends(p, r.pool, token)
           /\ \/ r.pool.at = p.at /\ (r.status = "success" => p.at[k] # 0)
              \/ r.status = "success" /\ \E i \in Nat : Placed(p, r.pool, k, i)
  <1>1. CASE p.at[k] # 0
    <2>1. p \in Pool
      BY DEF PoolOK
    <2> QED
      BY <1>1, <2>1, ExtendsItself DEF Subscribe, Result
  <1>2. CASE p.at[k] = 0 /\ ModesOf(p, k[1]) # {}
    BY <1>2, SubscribeMoreDoes DEF Subscribe
  <1>3. CASE p.at[k] = 0 /\ ModesOf(p, k[1]) = {}
    BY <1>3, SubscribeNewDoes DEF Subscribe
  <1> QED
    BY <1>1, <1>2, <1>3

\* Connections stay as they are, but that one may no longer stream key k.
Drops(p, q, k) ==
    /\ Len(p.adapters) \in Nat /\ Len(q.adapters) = Len(p.adapters)
    /\ \A j \in 1..Len(p.adapters) :
          /\ q.adapters[j].live = p.adapters[j].live
          /\ p.adapters[j].streams \ {k} \subseteq q.adapters[j].streams

\* What connection i streams becomes S.
LEMMA StreamsDrop ==
    ASSUME NEW p \in Pool, NEW k, NEW i \in 1..Len(p.adapters), NEW S,
           p.adapters[i].streams \ {k} \subseteq S,
           NEW q, q.adapters = [p.adapters EXCEPT ![i] = [p.adapters[i] EXCEPT !.streams = S]]
    PROVE  Drops(p, q, k) /\ q.adapters[i].streams = S
  <1> DEFINE a == [p.adapters[i] EXCEPT !.streams = S]
  <1>1. p.adapters \in Seq(Adapter) /\ Len(p.adapters) \in Nat /\ p.adapters[i] \in Adapter
    BY DEF Pool
  <1>2. a.live = p.adapters[i].live /\ a.streams = S
    BY <1>1 DEF Adapter
  <1> HIDE DEF a
  <1>3. q.adapters = [p.adapters EXCEPT ![i] = a]
    BY DEF a
  <1>4. /\ Len(q.adapters) = Len(p.adapters)
        /\ \A j \in 1..Len(p.adapters) : q.adapters[j] = IF j = i THEN a ELSE p.adapters[j]
    BY <1>1, <1>3
  <1> QED
    BY <1>1, <1>2, <1>4 DEF Drops

\* The key is the highest mode of its symbol and the broker has not stopped it.
Stuck(p, q, k) == q.at = p.at /\ \A m \in ModesOf(p, k[1]) : m <= k[2]

\* The key is off the books, and the highest mode that is left, when there is one, was
\* higher anyhow or is streamed instead.
Taken(p, q, k) ==
    LET rest == ModesOf(p, k[1]) \ {k[2]} IN
    /\ q.at = [p.at EXCEPT ![k] = 0]
    /\ \/ rest = {}
       \/ k[2] < Highest(rest)
       \/ <<k[1], Highest(rest)>> \in q.adapters[p.at[k]].streams

\* A tracked key is on one of the connections.
LEMMA TrackedAt ==
    ASSUME NEW p, PoolOK(p), NEW k \in Keys, p.at[k] # 0
    PROVE  p.at[k] \in 1..Len(p.adapters)
  <1>1. p.at[k] \in Nat /\ p.at[k] <= Len(p.adapters) /\ Len(p.adapters) \in Nat
    BY DEF PoolOK, OneConnection, Pool
  <1> QED
    BY <1>1

\* unsubscribe: a key that is not tracked changes nothing; one that the broker does not
\* stop stays, and is the highest of its symbol; another goes.
LEMMA UnsubscribeDoes ==
    ASSUME NEW p, PoolOK(p), NEW k \in Keys, NEW a \in Answers
    PROVE  LET r == Unsubscribe(p, k, a) IN
           /\ Drops(p, r.pool, k)
           /\ \/ p.at[k] = 0 /\ r.pool = p
              \/ p.at[k] # 0 /\ r.status = "error" /\ Stuck(p, r.pool, k)
              \/ p.at[k] # 0 /\ r.status = "success" /\ Taken(p, r.pool, k)
  <1> DEFINE r == Unsubscribe(p, k, a)
             rest == ModesOf(p, k[1]) \ {k[2]}
             i == p.at[k]
             ad == p.adapters[i]
  <1>1. p \in Pool /\ Len(p.adapters) \in Nat
    BY DEF PoolOK, Pool
  <1>2. /\ \A m \in Modes : m \in Nat
        /\ k[1] \in Symbols /\ k[2] \in Modes /\ k = <<k[1], k[2]>>
        /\ rest \in SUBSET Modes
        /\ \A m \in ModesOf(p, k[1]) : m \in Modes /\ (m = k[2] \/ m \in rest)
    BY PoolAssumption DEF Keys, ModesOf
  <1>3. Drops(p, p, k)
    BY <1>1 DEF Drops
  <1>4. CASE p.at[k] = 0
    BY <1>3, <1>4 DEF Unsubscribe, Result
  <1>5. CASE p.at[k] # 0 /\ rest = {}
    <2>1. r = IF a.unsub
              THEN Result([p EXCEPT !.at[k] = 0, !.counts[i] = @ - 1,
                                    !.adapters[i].streams = @ \ {k}], "success")
              ELSE Result(p, "error")
      BY <1>5 DEF Unsubscribe, UnsubscribeLast
    <2>2. i \in 1..Len(p.adapters)
      BY <1>5, TrackedAt
    <2>3. CASE a.unsub
      <3> DEFINE q == [p EXCEPT !.at[k] = 0, !.counts[i] = @ - 1,
                                !.adapters[i].streams = @ \ {k}]
                 S == ad.streams \ {k}
      <3>1. /\ q.at = [p.at EXCEPT ![k] = 0]
            /\ q.adapters = [p.adapters EXCEPT ![i] = [ad EXCEPT !.streams = S]]
        BY <1>1 DEF Pool
      <3>2. r.pool = q /\ r.status = "success"
        BY <2>1, <2>3 DEF Result
      <3>3. ad.streams \ {k} \subseteq S
        OBVIOUS
      <3> HIDE DEF q, r, S
      <3>4. Drops(p, q, k)
        BY <1>1, <2>2, <3>1, <3>3, StreamsDrop
      <3>5. Taken(p, q, k)
        BY <1>5, <3>1 DEF Taken
      <3> QED
        BY <1>5, <3>2, <3>4, <3>5 DEF r
    <2>4. CASE ~a.unsub
      <3>1. \A m \in ModesOf(p, k[1]) : m <= k[2]
        BY <1>2, <1>5
      <3>2. r.pool = p /\ r.status = "error"
        BY <2>1, <2>4 DEF Result
      <3> QED
        BY <1>3, <1>5, <3>1, <3>2 DEF Stuck
    <2> QED
      BY <2>3, <2>4
  <1>6. CASE p.at[k] # 0 /\ rest # {} /\ k[2] < Highest(rest)
    <2>1. r = Result([p EXCEPT !.at[k] = 0], "success")
      BY <1>6 DEF Unsubscribe
    <2> DEFINE q == [p EXCEPT !.at[k] = 0]
    <2>2. q.at = [p.at EXCEPT ![k] = 0] /\ q.adapters = p.adapters
      BY <1>1 DEF Pool
    <2> HIDE DEF q, r
    <2>3. /\ r.pool.at = [p.at EXCEPT ![k] = 0] /\ r.pool.adapters = p.adapters
          /\ r.status = "success"
      BY <2>1, <2>2 DEF Result, q
    <2>4. Drops(p, r.pool, k)
      BY <1>3, <2>3 DEF Drops
    <2>5. Taken(p, r.pool, k)
      BY <1>6, <2>3 DEF Taken
    <2> QED
      BY <1>6, <2>3, <2>4, <2>5 DEF r
  <1>7. CASE p.at[k] # 0 /\ rest # {} /\ ~(k[2] < Highest(rest))
    <2> DEFINE lower == Highest(rest)
               low == <<k[1], lower>>
               kept == IF a.unsub THEN ad.streams \ {k} ELSE ad.streams
               more == kept \cup {low}
               back == IF ad.live /\ a.back THEN kept \cup {k} ELSE kept
               q1 == [p EXCEPT !.at[k] = 0, !.adapters[i].streams = more]
               q2 == [p EXCEPT !.adapters[i].streams = back]
    <2>1. r = IF ad.live /\ a.sub THEN Result(q1, "success") ELSE Result(q2, "error")
      BY <1>7 DEF Unsubscribe, Downgrade
    <2>2. i \in 1..Len(p.adapters)
      BY <1>7, TrackedAt
    <2>3. /\ q1.at = [p.at EXCEPT ![k] = 0] /\ q2.at = p.at
          /\ q1.adapters = [p.adapters EXCEPT ![i] = [ad EXCEPT !.streams = more]]
          /\ q2.adapters = [p.adapters EXCEPT ![i] = [ad EXCEPT !.streams = back]]
      BY <1>1 DEF Pool
    <2>4. lower \in rest /\ \A n \in rest : n <= lower
      <3> HIDE DEF rest
      <3> QED
        BY <1>2, <1>7, HighestType
    <2>5. \A m \in ModesOf(p, k[1]) : m <= k[2]
      <3>1. lower \in Nat /\ k[2] \in Nat /\ ~(k[2] < lower)
        BY <1>2, <1>7, <2>4
      <3> HIDE DEF lower, rest
      <3>2. ASSUME NEW m \in ModesOf(p, k[1])
            PROVE  m <= k[2]
        <4>1. m \in Nat /\ (m = k[2] \/ m <= lower)
          BY <1>2, <2>4
        <4> QED
          BY <3>1, <4>1
      <3> QED
        BY <3>2
    <2>6. ad.streams \ {k} \subseteq more /\ ad.streams \ {k} \subseteq back /\ low \in more
      OBVIOUS
    <2>7. \/ r.pool = q1 /\ r.status = "success"
          \/ r.pool = q2 /\ r.status = "error"
      <3> HIDE DEF q1, q2, r
      <3>1. CASE ad.live /\ a.sub
        BY <2>1, <3>1 DEF Result
      <3>2. CASE ~(ad.live /\ a.sub)
        BY <2>1, <3>2 DEF Result
      <3> QED
        BY <3>1, <3>2
    <2> HIDE DEF q1, q2, r, more, back
    <2>8. Drops(p, q1, k) /\ q1.adapters[i].streams = more
      <3>1. /\ ad.streams \ {k} \subseteq more
            /\ q1.adapters = [p.adapters EXCEPT ![i] = [ad EXCEPT !.streams = more]]
        BY <2>3, <2>6
      <3>2. Drops(p, q1, k)
        BY <1>1, <2>2, <3>1, StreamsDrop
      <3>3. q1.adapters[i].streams = more
        <4>1. ad \in Adapter /\ p.adapters \in Seq(Adapter)
          BY <1>1, <2>2 DEF Pool
        <4>2. [ad EXCEPT !.streams = more].streams = more
          BY <4>1 DEF Adapter
        <4> QED
          BY <2>2, <3>1, <4>1, <4>2
      <3> QED
        BY <3>2, <3>3
    <2>9. Drops(p, q2, k)
      BY <1>1, <2>2, <2>3, <2>6, StreamsDrop, ZenonT(60)
    <2>10. Taken(p, q1, k)
      BY <2>3, <2>6, <2>8 DEF Taken
    <2>11. Stuck(p, q2, k)
      BY <2>3, <2>5 DEF Stuck
    <2> QED
      BY <1>7, <2>7, <2>8, <2>9, <2>10, <2>11 DEF r
  <1> QED
    BY <1>4, <1>5, <1>6, <1>7

\* unsubscribe_all and the end of the token change no connection for another; after the
\* one no key is on the books, after the other no connection is live.
LEMMA AllConnectionsDo ==
    ASSUME NEW p \in Pool
    PROVE  /\ \A k \in Keys : UnsubscribeAll(p).at[k] = 0
           /\ Len(UnsubscribeAll(p).adapters) = Len(p.adapters)
           /\ \A j \in 1..Len(p.adapters) : UnsubscribeAll(p).adapters[j].live = p.adapters[j].live
           /\ Dead(p).at = p.at
           /\ Len(Dead(p).adapters) = Len(p.adapters)
           /\ \A j \in 1..Len(p.adapters) : Dead(p).adapters[j].live = FALSE
           /\ Dead(p).connected = p.connected /\ Dead(p).initialized = p.initialized
  <1> DEFINE A == [i \in DOMAIN p.adapters |-> [p.adapters[i] EXCEPT !.streams = {}]]
             B == [i \in DOMAIN p.adapters |-> [live |-> FALSE, streams |-> {}]]
  <1>1. /\ p.adapters \in Seq(Adapter) /\ Len(p.adapters) \in Nat
        /\ DOMAIN p.adapters = 1..Len(p.adapters)
    BY DEF Pool
  <1>2. /\ UnsubscribeAll(p).adapters = A /\ UnsubscribeAll(p).at = EmptyPool.at
        /\ Dead(p).adapters = B /\ Dead(p).at = p.at
        /\ Dead(p).connected = p.connected /\ Dead(p).initialized = p.initialized
    BY DEF UnsubscribeAll, Dead, Pool
  <1>3. \A k \in Keys : EmptyPool.at[k] = 0
    BY DEF EmptyPool
  <1>4. Len(A) = Len(p.adapters) /\ Len(B) = Len(p.adapters)
    BY <1>1
  <1>5. \A j \in 1..Len(p.adapters) : A[j].live = p.adapters[j].live /\ B[j].live = FALSE
    BY <1>1 DEF Adapter
  <1> HIDE DEF A, B
  <1> QED
    BY <1>2, <1>3, <1>4, <1>5

\* initialize adds a connection, or nothing, and touches no key.
LEMMA InitializeDoes ==
    ASSUME NEW p, PoolOK(p), NEW ok \in BOOLEAN, NEW token \in BOOLEAN
    PROVE  LET r == Initialize(p, ok, token) IN
           /\ Extends(p, r.pool, token) /\ r.pool.at = p.at
           /\ r.pool.connected = p.connected
           /\ \/ r.status # "success" /\ r.pool = p
              \/ /\ r.status = "success" /\ r.pool.initialized
                 /\ Len(r.pool.adapters) = Len(p.adapters) + 1
  <1> DEFINE q == Opened(p, token)
             s == [q EXCEPT !.initialized = TRUE]
  <1>1. p \in Pool /\ q \in Pool /\ q.at = p.at /\ Len(q.adapters) = Len(p.adapters) + 1
    BY OpenedOK DEF PoolOK
  <1>2. Extends(p, q, token) /\ q.connected = p.connected
    BY <1>1, OpenedExtends
  <1> HIDE DEF q
  <1>3. /\ s.at = q.at /\ s.adapters = q.adapters /\ s.connected = q.connected
        /\ s.initialized = TRUE
    BY <1>1 DEF Pool
  <1> HIDE DEF s
  <1>4. Extends(p, s, token)
    BY <1>2, <1>3 DEF Extends
  <1> QED
    BY <1>1, <1>2, <1>3, <1>4, ExtendsItself DEF Initialize, Result, s, q

\* connect touches neither keys nor connections; it succeeds on a pool that was connected
\* or whose first connection is live.
LEMMA ConnectDoes ==
    ASSUME NEW p \in Pool
    PROVE  LET r == Connect(p) IN
           /\ r.pool.at = p.at /\ r.pool.adapters = p.adapters
           /\ r.pool.initialized = p.initialized
           /\ r.status = "auth" => p.initialized
           /\ \/ /\ r.status = "success" /\ p.initialized
                 /\ p.connected \/ (p.adapters # <<>> /\ p.adapters[1].live)
              \/ r.status # "success" /\ r.pool = p
  <1> DEFINE q == [p EXCEPT !.connected = TRUE]
  <1>1. q.at = p.at /\ q.adapters = p.adapters /\ q.initialized = p.initialized
    BY DEF Pool
  <1> HIDE DEF q
  <1> QED
    BY <1>1 DEF Connect, Result, q
=============================================================================
