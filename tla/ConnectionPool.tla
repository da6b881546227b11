--------------------------- MODULE ConnectionPool ---------------------------
(***************************************************************************)
(* The pool of broker connections of one user                              *)
(* (websocket_proxy/connection_manager.py): which connection carries a     *)
(* symbol, in which modes it is wanted, and what the connection has been   *)
(* told to stream.  The operations run under the lock of the pool and are  *)
(* functions from the pool to the pool and the answer of the call.         *)
(*                                                                         *)
(* A connection is an adapter as the pool uses one: it streams a symbol in *)
(* each mode it was asked for (angel_adapter.py keeps a subscription for   *)
(* each), the broker may refuse any call, and once the token it was made   *)
(* with has ended it is dead: it streams nothing and answers with an       *)
(* authentication error.                                                   *)
(***************************************************************************)
EXTENDS Integers, Sequences, FiniteSets, TLC

CONSTANTS
    Symbols,            \* a symbol of an exchange
    Modes,              \* 1 LTP, 2 Quote, 3 Depth: a mode includes the lower ones
    MaxSymbols,         \* MAX_SYMBOLS_PER_WEBSOCKET
    MaxConnections      \* MAX_WEBSOCKET_CONNECTIONS

ASSUME PoolAssumption ==
    /\ IsFiniteSet(Symbols) /\ Modes \subseteq Nat \ {0} /\ IsFiniteSet(Modes)
    /\ MaxSymbols \in Nat \ {0} /\ MaxConnections \in Nat \ {0}

Keys == Symbols \X Modes

Adapter == [live : BOOLEAN, streams : SUBSET Keys]

\* at: subscription_map, 0 for a key it does not hold.
Pool == [adapters : Seq(Adapter), counts : Seq(Int), at : [Keys -> Nat],
         initialized : BOOLEAN, connected : BOOLEAN]

EmptyPool == [adapters |-> <<>>, counts |-> <<>>, at |-> [k \in Keys |-> 0],
              initialized |-> FALSE, connected |-> FALSE]

\* What the broker says to the calls of one operation: to subscribe, to
\* unsubscribe, and to the subscription that takes a failed downgrade back.
Answers == [sub : BOOLEAN, unsub : BOOLEAN, back : BOOLEAN]
Accepted == [sub |-> TRUE, unsub |-> TRUE, back |-> TRUE]

Result(pool, status) == [pool |-> pool, status |-> status]

Tracked(p) == {k \in Keys : p.at[k] # 0}

\* _get_existing_modes
ModesOf(p, s) == {m \in Modes : p.at[<<s, m>>] # 0}

Highest(M) == CHOOSE m \in M : \A n \in M : n <= m

\* The symbols a connection carries.
Carried(p, i) == {s \in Symbols : \E m \in Modes : p.at[<<s, m>>] = i}

-----------------------------------------------------------------------------
(* subscribe *)

\* Variant: the limit is tested after the count has passed it.
FreeLate(p, i) == i \in 1..Len(p.adapters) /\ p.counts[i] <= MaxSymbols

Free(p, i) == i \in 1..Len(p.adapters) /\ p.counts[i] < MaxSymbols

FirstFree(p) ==
    CHOOSE i \in 1..Len(p.adapters) :
       Free(p, i) /\ \A j \in 1..Len(p.adapters) : Free(p, j) => i <= j

\* A new connection has no symbols; what its connect answers is not looked at.
Opened(p, token) ==
    [p EXCEPT !.adapters = Append(@, [live |-> token, streams |-> {}]),
              !.counts = Append(@, 0)]

\* The broker is asked for a key on connection i, which counts n symbols more if
\* it agrees.
Asked(p, i, k, n, ok) ==
    IF ~p.adapters[i].live THEN Result(p, "auth")
    ELSE IF ~ok THEN Result(p, "error")
    ELSE Result([p EXCEPT !.adapters[i].streams = @ \cup {k},
                          !.at[k] = i,
                          !.counts[i] = @ + n], "success")

\* _get_adapter_with_capacity, then the call
SubscribeNew(p, k, ok, token) ==
    IF \E i \in 1..Len(p.adapters) : Free(p, i)
    THEN Asked(p, FirstFree(p), k, 1, ok)
    ELSE IF Len(p.adapters) >= MaxConnections THEN Result(p, "error")
    ELSE Asked(Opened(p, token), Len(p.adapters) + 1, k, 1, ok)

\* Variant: another mode of a symbol goes wherever there is room.
SubscribeMoreElsewhere(p, k, ok) == SubscribeNew(p, k, ok, TRUE)

\* A symbol keeps its connection; a mode below the highest is only written down.
SubscribeMore(p, k, ok) ==
    LET hi == Highest(ModesOf(p, k[1]))
        i == p.at[<<k[1], hi>>]
    IN IF k[2] > hi THEN Asked(p, i, k, 0, ok)
       ELSE Result([p EXCEPT !.at[k] = i], "success")

\* _subscribe_inner
Subscribe(p, k, ok, token) ==
    IF p.at[k] # 0 THEN Result(p, "success")
    ELSE IF ModesOf(p, k[1]) # {} THEN SubscribeMore(p, k, ok)
    ELSE SubscribeNew(p, k, ok, token)

-----------------------------------------------------------------------------
(* unsubscribe *)

\* The last mode of a symbol: the connection is told to stop that mode.
UnsubscribeLast(p, k, a) ==
    LET i == p.at[k] IN
    IF a.unsub
    THEN Result([p EXCEPT !.at[k] = 0,
                          !.counts[i] = @ - 1,
                          !.adapters[i].streams = @ \ {k}], "success")
    ELSE Result(p, "error")

\* Variant: a lower mode that remains is not asked for again.
DowngradeSilent(p, k, lower, a) ==
    Result([p EXCEPT !.at[k] = 0, !.adapters[p.at[k]].streams = @ \ {k}], "success")

\* The highest mode goes and a lower one remains: stop the one and ask for the
\* other.  When that is refused, ask for the first again, and take no notice of
\* the answer.
Downgrade(p, k, lower, a) ==
    LET i == p.at[k]
        live == p.adapters[i].live
        kept == IF a.unsub THEN p.adapters[i].streams \ {k} ELSE p.adapters[i].streams
    IN IF live /\ a.sub
       THEN Result([p EXCEPT !.at[k] = 0,
                             !.adapters[i].streams = kept \cup {<<k[1], lower>>}], "success")
       ELSE Result([p EXCEPT !.adapters[i].streams =
                                IF live /\ a.back THEN kept \cup {k} ELSE kept], "error")

Unsubscribe(p, k, a) ==
    LET rest == ModesOf(p, k[1]) \ {k[2]} IN
    IF p.at[k] = 0 THEN Result(p, "error")
    ELSE IF rest = {} THEN UnsubscribeLast(p, k, a)
    ELSE IF k[2] < Highest(rest) THEN Result([p EXCEPT !.at[k] = 0], "success")
    ELSE Downgrade(p, k, Highest(rest), a)

\* unsubscribe_all: the connections stay.
UnsubscribeAll(p) ==
    [p EXCEPT !.adapters = [i \in DOMAIN @ |-> [@[i] EXCEPT !.streams = {}]],
              !.counts = [i \in DOMAIN @ |-> 0],
              !.at = EmptyPool.at]

-----------------------------------------------------------------------------
(* initialize, connect and disconnect *)

Disconnect(p) == EmptyPool

\* What initialize(force=True) throws away: nothing unless the pool is
\* initialized.
Cleared(p) == IF p.initialized THEN EmptyPool ELSE p

\* A first connection is made, or the broker refuses one.
Initialize(p, ok, token) ==
    IF ok THEN Result([Opened(p, token) EXCEPT !.initialized = TRUE], "success")
    ELSE Result(p, "error")

\* The first connection connects; one that is dead cannot.
Connect(p) ==
    IF ~p.initialized THEN Result(p, "error")
    ELSE IF p.connected THEN Result(p, "success")
    ELSE IF p.adapters = <<>> THEN Result(p, "error")
    ELSE IF p.adapters[1].live THEN Result([p EXCEPT !.connected = TRUE], "success")
    ELSE Result(p, "auth")

\* The token of the user ends, and with it all connections made with it.
Dead(p) == [p EXCEPT !.adapters = [i \in DOMAIN @ |-> [live |-> FALSE, streams |-> {}]]]

-----------------------------------------------------------------------------
(* What holds of a pool at all times.                                      *)

\* The count of a connection is the number of symbols it carries, within the
\* limit: however symbols were added, upgraded, downgraded and taken off.
CountsRight(p) ==
    /\ Len(p.counts) = Len(p.adapters)
    /\ \A i \in 1..Len(p.counts) :
          p.counts[i] = Cardinality(Carried(p, i)) /\ p.counts[i] <= MaxSymbols

\* All modes of a symbol are on one connection, and it is one of the pool's.
OneConnection(p) ==
    /\ \A k \in Keys : p.at[k] <= Len(p.adapters)
    /\ \A s \in Symbols, m, n \in Modes :
          p.at[<<s, m>>] # 0 /\ p.at[<<s, n>>] # 0 => p.at[<<s, m>>] = p.at[<<s, n>>]
=============================================================================
