--------------------------- MODULE WsProxy_proofs ---------------------------
(***************************************************************************)
(* For any clients, symbols, modes and limits: the proxy's two tables of   *)
(* who wants what agree, its pool's books are right, a subscriber is       *)
(* served, nothing unused is tracked or held, and no connection outlives   *)
(* its token, after every step of a handler, of a login and of the broker. *)
(***************************************************************************)
EXTENDS WsProxy, ConnectionPool_proofs

\* What the event loop is in the middle of, as the handlers rely on it.
LoopOK ==
    /\ loop.step \in {"leave", "unsubscribe_all"} => loop.client \in Clients
    /\ loop.step \in {"snapshot", "rebuild", "restart", "restore"} =>
          loop.client \in authed /\ loop.key \in Keys

\* Each message not yet received was published by a login or a logout.
MessagesOK == invalid <= logins

\* The inductive invariant.
Inv == TypeOK /\ IndexMatches /\ PoolOK(pool) /\ LoopOK /\ MessagesOK

\* What the broker may answer.
LEMMA AnswerTypes ==
    Agrees \subseteq BOOLEAN /\ AgreesTo \subseteq Answers
  BY DEF Agrees, AgreesTo

\* connect, recovery included, keeps the books of the pool right.
LEMMA ConnectedOK ==
    ASSUME NEW p, PoolOK(p), NEW ok \in BOOLEAN, token \in BOOLEAN
    PROVE  PoolOK(Connected(p, ok).pool)
  <1> DEFINE fresh == Initialize(Cleared(p), ok, token)
  <1>1. PoolOK(Connect(p).pool)
    BY ConnectOK
  <1>2. PoolOK(fresh.pool)
    BY ClearedOK, InitializeOK
  <1>3. PoolOK(Connect(fresh.pool).pool)
    BY <1>2, ConnectOK
  <1> QED
    BY <1>1, <1>2, <1>3 DEF Connected, Result

\* A client taken off a key: the books of the pool stay right.
LEMMA TakenOffOK ==
    ASSUME PoolOK(pool), NEW c, NEW k \in Keys, NEW asks, TakenOff(c, k, asks)
    PROVE  PoolOK(pool')
  <1>1. CASE index[k] = {c} /\ asks
    <2>1. PICK a \in AgreesTo : pool' = Unsubscribe(pool, k, a).pool
      BY <1>1 DEF TakenOff, PoolIs
    <2> QED
      BY <2>1, AnswerTypes, UnsubscribeOK
  <1>2. CASE ~(index[k] = {c} /\ asks)
    BY <1>2 DEF TakenOff, PoolIs
  <1> QED
    BY <1>1, <1>2

\* Every step keeps the books of the pool right.
LEMMA PoolStep ==
    ASSUME Inv, Next
    PROVE  PoolOK(pool')
  <1> USE DEF Inv
  <1>1. token \in BOOLEAN /\ loop.todo \in SUBSET Keys
    BY DEF TypeOK, Loop
  <1>2. ASSUME NEW c \in Clients,
               ClientConnects(c) \/ Authenticate(c) \/ UnsubscribeAllClient(c) \/ Disconnects(c)
        PROVE  PoolOK(pool')
    BY <1>2 DEF ClientConnects, Authenticate, UnsubscribeAllClient, Disconnects
  <1>3. ASSUME NEW c \in Clients, NEW k \in Keys, SubscribeClient(c, k)
        PROVE  PoolOK(pool')
    <2>1. PICK ok \in Agrees : pool' = Subscribe(pool, k, ok, token).pool
      BY <1>3 DEF SubscribeClient, Subscribed, PoolIs
    <2> QED
      BY <1>1, <2>1, AnswerTypes, SubscribeOK
  <1>4. ASSUME NEW c \in Clients, NEW k \in Keys, UnsubscribeClient(c, k)
        PROVE  PoolOK(pool')
    BY <1>4, TakenOffOK DEF UnsubscribeClient
  <1>5. CASE Initializes
    <2> DEFINE p == IF registered THEN pool ELSE EmptyPool
    <2>1. PoolOK(p)
      BY EmptyPoolOK
    <2> HIDE DEF p
    <2>2. PICK ok \in Agrees :
             pool' = IF p.initialized THEN p ELSE Initialize(p, ok, token).pool
      BY <1>5 DEF Initializes, PoolIs, p
    <2> QED
      BY <1>1, <2>1, <2>2, AnswerTypes, InitializeOK
  <1>6. CASE Connects
    <2>1. PICK ok \in Agrees : pool' = Connected(pool, ok).pool
      BY <1>6 DEF Connects, PoolIs
    <2> QED
      BY <1>1, <2>1, AnswerTypes, ConnectedOK
  <1>7. CASE ForcesInitialize \/ Rebuilds
    <2>1. PICK ok \in Agrees : pool' = Initialize(Cleared(pool), ok, token).pool
      BY <1>7 DEF ForcesInitialize, Rebuilds, PoolIs
    <2> QED
      BY <1>1, <2>1, AnswerTypes, ClearedOK, InitializeOK
  <1>8. CASE Snapshots \/ UnsubscribesLast
    BY <1>8 DEF Snapshots, UnsubscribesLast
  <1>9. CASE Restarts
    BY <1>9, MarkedOK DEF Restarts, PoolIs
  <1>10. ASSUME NEW k \in Keys, Restores(k)
         PROVE  PoolOK(pool')
    <2>1. PICK ok \in Agrees : pool' = Subscribe(pool, k, ok, token).pool
      BY <1>10 DEF Restores, PoolIs
    <2> QED
      BY <1>1, <2>1, AnswerTypes, SubscribeOK
  <1>11. CASE Retries
    <2>1. loop.key \in Keys
      BY <1>11 DEF Retries, At, LoopOK
    <2>2. PICK ok \in Agrees : pool' = Subscribe(pool, loop.key, ok, token).pool
      BY <1>11 DEF Retries, Subscribed, PoolIs
    <2> QED
      BY <1>1, <2>1, <2>2, AnswerTypes, SubscribeOK
  <1>12. ASSUME NEW k \in Keys, UnsubscribesNext(k) \/ LeavesKey(k)
         PROVE  PoolOK(pool')
    BY <1>12, TakenOffOK DEF UnsubscribesNext, LeavesKey
  <1>13. CASE LeavesLast
    BY <1>13, UnsubscribeAllOK, EmptyPoolOK DEF LeavesLast, TornDown, PoolIs, Disconnect
  <1>14. CASE CacheInvalidation \/ CleanupPools
    BY <1>14, EmptyPoolOK DEF CacheInvalidation, CleanupPools, TornDown, PoolIs, Disconnect
  <1>15. CASE TokenEnds
    BY <1>15, DeadOK DEF TokenEnds, PoolIs
  <1>16. ASSUME NEW login \in BOOLEAN, UpsertAuth(login)
         PROVE  PoolOK(pool')
    BY <1>16 DEF UpsertAuth
  <1> QED
    BY <1>2, <1>3, <1>4, <1>5, <1>6, <1>7, <1>8, <1>9, <1>10, <1>11, <1>12, <1>13,
       <1>14, <1>15, <1>16 DEF Next, Handlers

-----------------------------------------------------------------------------
(* Types *)

\* What PoolIs assigns, but for the pool.
LEMMA PoolIsType ==
    ASSUME TypeOK, NEW p, NEW idx \in [Keys -> SUBSET Clients], NEW down \in SUBSET Symbols,
           NEW stuck \in SUBSET Keys, PoolIs(p, idx, down, stuck)
    PROVE  index' \in [Keys -> SUBSET Clients] /\ lost' \subseteq Symbols /\ refused' \subseteq Keys
  BY DEF TypeOK, PoolIs

\* A refusal stays within its bound.
LEMMA CountedType ==
    ASSUME TypeOK, NEW agreed \in BOOLEAN, agreed \/ refusals < MaxRefusals, Counted(agreed)
    PROVE  refusals' \in 0..MaxRefusals
  BY ProxyAssumption DEF TypeOK, Counted

\* Whatever the pool is asked for.
LEMMA SubscribedType ==
    ASSUME TypeOK, NEW c \in Clients, NEW k \in Keys, NEW r, Subscribed(c, k, r)
    PROVE  /\ subs' \in [Clients -> SUBSET Keys] /\ index' \in [Keys -> SUBSET Clients]
           /\ lost' \subseteq Symbols /\ refused' \subseteq Keys
  <1>1. index \in [Keys -> SUBSET Clients] /\ refused \in SUBSET Keys
    BY DEF TypeOK
  <1>2. Granted(c, k) \in [Keys -> SUBSET Clients]
    BY <1>1 DEF Granted
  <1>3. CASE r.status = "success"
    <2>1. PoolIs(r.pool, Granted(c, k), {}, refused)
      BY <1>3 DEF Subscribed
    <2>2. subs' \in [Clients -> SUBSET Keys]
      BY <1>3 DEF Subscribed, TypeOK
    <2> QED
      BY <1>1, <1>2, <2>1, <2>2, PoolIsType
  <1>4. CASE r.status # "success"
    <2>1. PoolIs(r.pool, index, {}, refused) /\ subs' = subs
      BY <1>4 DEF Subscribed
    <2>2. subs \in [Clients -> SUBSET Keys]
      BY DEF TypeOK
    <2> QED
      BY <1>1, <2>1, <2>2, PoolIsType
  <1> QED
    BY <1>3, <1>4

\* A client taken off a key.
LEMMA TakenOffType ==
    ASSUME TypeOK, NEW c \in Clients, NEW k \in Keys, NEW asks, TakenOff(c, k, asks)
    PROVE  /\ index' \in [Keys -> SUBSET Clients] /\ lost' \subseteq Symbols
           /\ refused' \subseteq Keys /\ refusals' \in 0..MaxRefusals
  <1> DEFINE idx == [index EXCEPT ![k] = @ \ {c}]
  <1>1. idx \in [Keys -> SUBSET Clients] /\ refused \in SUBSET Keys
        /\ refusals \in 0..MaxRefusals
    BY DEF TypeOK
  <1>2. CASE index[k] = {c} /\ asks
    <2>1. PICK a \in AgreesTo :
             LET r == Unsubscribe(pool, k, a)
                 failed == r.status = "error" /\ pool.at[k] # 0
             IN /\ Counted(a = Accepted)
                /\ PoolIs(r.pool, idx, {}, IF failed THEN refused \cup {k} ELSE refused \ {k})
      BY <1>2 DEF TakenOff
    <2>2. a = Accepted \/ refusals < MaxRefusals
      BY DEF AgreesTo
    <2>3. refusals' \in 0..MaxRefusals
      BY <2>1, <2>2, CountedType
    <2>4. PICK stuck \in SUBSET Keys : PoolIs(Unsubscribe(pool, k, a).pool, idx, {}, stuck)
      BY <1>1, <2>1
    <2> HIDE DEF idx
    <2> QED
      BY <1>1, <2>3, <2>4, PoolIsType
  <1>3. CASE ~(index[k] = {c} /\ asks)
    <2>1. PoolIs(pool, idx, {}, refused) /\ refusals' = refusals
      BY <1>3 DEF TakenOff
    <2> HIDE DEF idx
    <2> QED
      BY <1>1, <2>1, PoolIsType
  <1> QED
    BY <1>2, <1>3

\* Every step keeps the types.
LEMMA TypeStep ==
    ASSUME Inv, Next
    PROVE  TypeOK'
  <1> USE DEF Inv
  <1>1. pool' \in Pool
    BY PoolStep DEF PoolOK
  <1>2. /\ loop \in Loop /\ loop.todo \in SUBSET Keys /\ loop.client \in Clients \cup {None}
        /\ loop.key \in Keys \cup {None}
        /\ token \in BOOLEAN /\ index \in [Keys -> SUBSET Clients] /\ refused \in SUBSET Keys
        /\ subs \in [Clients -> SUBSET Keys] /\ refusals \in 0..MaxRefusals
    BY DEF TypeOK, Loop
  <1>3. Idle \in Loop
    BY DEF Idle, Loop, Steps
  <1>4. ASSUME NEW step \in Steps
        PROVE  Goes(step) \in Loop
    BY <1>2 DEF Goes, Loop
  <1>5. ASSUME NEW ok \in Agrees, Counted(ok)
        PROVE  refusals' \in 0..MaxRefusals
    <2>1. ok \in BOOLEAN /\ (ok \/ refusals < MaxRefusals)
      BY DEF Agrees
    <2> QED
      BY <1>5, <2>1, CountedType
  <1>6. ASSUME NEW step \in {"snapshot", "leave", "unsubscribe_all", "initialize"},
               NEW c \in Clients, NEW k \in Keys \cup {None}, NEW todo \in SUBSET Keys
        PROVE  [step |-> step, client |-> c, key |-> k, todo |-> todo] \in Loop
    BY DEF Loop, Steps
  <1>7. ASSUME NEW c \in Clients,
               ClientConnects(c) \/ Authenticate(c) \/ UnsubscribeAllClient(c) \/ Disconnects(c)
        PROVE  TypeOK'
    <2>1. CASE ClientConnects(c)
      BY <1>1, <2>1 DEF ClientConnects, TypeOK, web
    <2>2. CASE Authenticate(c)
      <3>1. [Idle EXCEPT !.step = "initialize", !.client = c] \in Loop
        BY DEF Idle, Loop, Steps
      <3> QED
        BY <1>1, <1>2, <2>2, <3>1 DEF Authenticate, TypeOK, web
    <2>3. CASE UnsubscribeAllClient(c)
      <3>1. loop' \in Loop
        BY <1>2, <1>6, <2>3 DEF UnsubscribeAllClient
      <3> QED
        BY <1>1, <2>3, <3>1 DEF UnsubscribeAllClient, TypeOK, web
    <2>4. CASE Disconnects(c)
      <3>1. loop' \in Loop
        BY <1>2, <1>6, <2>4 DEF Disconnects
      <3> QED
        BY <1>1, <2>4, <3>1 DEF Disconnects, TypeOK, web
    <2> QED
      BY <1>7, <2>1, <2>2, <2>3, <2>4
  <1>8. ASSUME NEW c \in Clients, NEW k \in Keys, SubscribeClient(c, k)
        PROVE  TypeOK'
    <2>1. PICK ok \in Agrees :
             LET r == Subscribe(pool, k, ok, token) IN
             /\ Counted(ok) /\ Subscribed(c, k, r)
             /\ loop' = IF r.status = "auth"
                        THEN [step |-> "snapshot", client |-> c, key |-> k, todo |-> {}]
                        ELSE loop
      BY <1>8 DEF SubscribeClient
    <2>2. loop' \in Loop
      BY <1>2, <1>6, <2>1
    <2>3. refusals' \in 0..MaxRefusals
      BY <1>5, <2>1
    <2>4. /\ subs' \in [Clients -> SUBSET Keys] /\ index' \in [Keys -> SUBSET Clients]
          /\ lost' \subseteq Symbols /\ refused' \subseteq Keys
      BY <2>1, SubscribedType
    <2> QED
      BY <1>1, <1>8, <2>2, <2>3, <2>4 DEF SubscribeClient, TypeOK, web
  <1>9. ASSUME NEW c \in Clients, NEW k \in Keys, UnsubscribeClient(c, k)
        PROVE  TypeOK'
    <2>1. /\ index' \in [Keys -> SUBSET Clients] /\ lost' \subseteq Symbols
          /\ refused' \subseteq Keys /\ refusals' \in 0..MaxRefusals
      BY <1>9, TakenOffType DEF UnsubscribeClient
    <2>2. subs' \in [Clients -> SUBSET Keys]
      BY <1>2, <1>9 DEF UnsubscribeClient
    <2> QED
      BY <1>1, <1>9, <2>1, <2>2 DEF UnsubscribeClient, TypeOK, web
  <1>10. CASE Initializes \/ Connects \/ ForcesInitialize \/ Rebuilds
    <2>1. loop' \in Loop
      <3>1. {"connect", "force", "reconnect", "restart"} \subseteq Steps
        BY DEF Steps
      <3> QED
        BY <1>3, <1>4, <1>10, <3>1 DEF Initializes, Connects, ForcesInitialize, Rebuilds
    <2>2. PICK ok \in Agrees, down \in SUBSET Symbols :
             Counted(ok) /\ PoolIs(pool', index, down, refused)
      <3>1. {k[1] : k \in Tracked(pool)} \in SUBSET Symbols /\ {} \in SUBSET Symbols
        BY DEF Tracked, Keys
      <3>2. \A p, d, r : PoolIs(p, index, d, r) => PoolIs(pool', index, d, r)
        BY DEF PoolIs
      <3> QED
        BY <1>10, <3>1, <3>2 DEF Initializes, Connects, ForcesInitialize, Rebuilds
    <2>3. refusals' \in 0..MaxRefusals
      BY <1>5, <2>2
    <2>4. index' \in [Keys -> SUBSET Clients] /\ lost' \subseteq Symbols /\ refused' \subseteq Keys
      BY <1>2, <2>2, PoolIsType
    <2>5. held' \in BOOLEAN /\ registered' \in BOOLEAN
      BY <1>10 DEF Initializes, Connects, ForcesInitialize, Rebuilds, TypeOK
    <2>6. UNCHANGED <<clients, authed, subs, keeps, web>>
      BY <1>10 DEF Initializes, Connects, ForcesInitialize, Rebuilds
    <2> QED
      BY <1>1, <2>1, <2>3, <2>4, <2>5, <2>6 DEF TypeOK, web
  <1>11. CASE Snapshots
    <2>1. loop' \in Loop
      BY <1>2, <1>11 DEF Snapshots, Loop, Steps, Tracked
    <2> QED
      BY <1>1, <1>11, <2>1 DEF Snapshots, TypeOK, web
  <1>12. CASE Restarts
    <2>1. loop' \in Loop
      <3>1. "restore" \in Steps
        BY DEF Steps
      <3> QED
        BY <1>3, <1>4, <1>12, <3>1 DEF Restarts
    <2>2. index' \in [Keys -> SUBSET Clients] /\ lost' \subseteq Symbols /\ refused' \subseteq Keys
      <3>1. CASE pool.adapters # <<>> /\ pool.adapters[1].live
        <4>1. PoolIs([pool EXCEPT !.connected = TRUE], index, {}, refused)
          BY <1>12, <3>1 DEF Restarts
        <4> QED
          BY <1>2, <4>1, PoolIsType
      <3>2. CASE ~(pool.adapters # <<>> /\ pool.adapters[1].live)
        BY <1>12, <3>2 DEF Restarts, TypeOK
      <3> QED
        BY <3>1, <3>2
    <2> QED
      BY <1>1, <1>12, <2>1, <2>2 DEF Restarts, TypeOK, web
  <1>13. ASSUME NEW k \in Keys, Restores(k)
         PROVE  TypeOK'
    <2>1. PICK ok \in Agrees :
             Counted(ok) /\ PoolIs(Subscribe(pool, k, ok, token).pool, index, {k[1]}, refused)
      BY <1>13 DEF Restores
    <2>2. loop' \in Loop
      BY <1>2, <1>13 DEF Restores, Loop
    <2>3. refusals' \in 0..MaxRefusals
      BY <1>5, <2>1
    <2>4. {k[1]} \in SUBSET Symbols
      BY DEF Keys
    <2>5. index' \in [Keys -> SUBSET Clients] /\ lost' \subseteq Symbols /\ refused' \subseteq Keys
      BY <1>2, <2>1, <2>4, PoolIsType
    <2> QED
      BY <1>1, <1>13, <2>2, <2>3, <2>5 DEF Restores, TypeOK, web
  <1>14. CASE Retries
    <2>1. loop.client \in Clients /\ loop.key \in Keys
      BY <1>14 DEF Retries, At, LoopOK, TypeOK
    <2>2. PICK ok \in Agrees :
             /\ Counted(ok)
             /\ Subscribed(loop.client, loop.key, Subscribe(pool, loop.key, ok, token))
      BY <1>14 DEF Retries
    <2>3. refusals' \in 0..MaxRefusals
      BY <1>5, <2>2
    <2>4. /\ subs' \in [Clients -> SUBSET Keys] /\ index' \in [Keys -> SUBSET Clients]
          /\ lost' \subseteq Symbols /\ refused' \subseteq Keys
      BY <2>1, <2>2, SubscribedType
    <2> QED
      BY <1>1, <1>3, <1>14, <2>3, <2>4 DEF Retries, TypeOK, web
  <1>15. ASSUME NEW k \in Keys, UnsubscribesNext(k) \/ LeavesKey(k)
         PROVE  TypeOK'
    <2>1. loop.client \in Clients
      BY <1>15 DEF UnsubscribesNext, LeavesKey, At, LoopOK
    <2>2. PICK asks : TakenOff(loop.client, k, asks)
      BY <1>15 DEF UnsubscribesNext, LeavesKey
    <2>3. /\ index' \in [Keys -> SUBSET Clients] /\ lost' \subseteq Symbols
          /\ refused' \subseteq Keys /\ refusals' \in 0..MaxRefusals
      BY <2>1, <2>2, TakenOffType
    <2>4. loop' \in Loop
      BY <1>2, <1>15, ZenonT(60) DEF UnsubscribesNext, LeavesKey, Loop
    <2> QED
      BY <1>1, <1>15, <2>3, <2>4 DEF UnsubscribesNext, LeavesKey, TypeOK, web
  <1>16. CASE UnsubscribesLast
    BY <1>1, <1>3, <1>16 DEF UnsubscribesLast, TypeOK, web
  <1>17. CASE LeavesLast
    <2>1. index' \in [Keys -> SUBSET Clients] /\ lost' \subseteq Symbols /\ refused' \subseteq Keys
      BY <1>2, <1>17 DEF LeavesLast, TornDown, PoolIs, TypeOK
    <2>2. held' \in BOOLEAN /\ registered' \in BOOLEAN
      BY <1>17 DEF LeavesLast, TypeOK
    <2>3. subs' \in [Clients -> SUBSET Keys] /\ authed' \subseteq Clients
      BY <1>17 DEF LeavesLast, TypeOK
    <2> QED
      BY <1>1, <1>3, <1>17, <2>1, <2>2, <2>3 DEF LeavesLast, TypeOK, web
  <1>18. CASE CacheInvalidation \/ CleanupPools
    <2>1. index' \in [Keys -> SUBSET Clients] /\ lost' \subseteq Symbols /\ refused' \subseteq Keys
      BY <1>2, <1>18 DEF CacheInvalidation, CleanupPools, TornDown, PoolIs, TypeOK
    <2>2. invalid' \in 0..MaxLogins /\ cleaning' \in BOOLEAN
      <3>1. invalid \in 0..MaxLogins /\ cleaning \in BOOLEAN
        BY DEF TypeOK
      <3>2. invalid' = invalid \/ (invalid > 0 /\ invalid' = invalid - 1)
        BY <1>18 DEF CacheInvalidation, CleanupPools
      <3>3. cleaning' \in BOOLEAN
        BY <1>18, <3>1 DEF CacheInvalidation, CleanupPools
      <3> QED
        BY <3>1, <3>2, <3>3, ProxyAssumption
    <2>3. held' \in BOOLEAN /\ registered' \in BOOLEAN
      BY <1>18 DEF CacheInvalidation, CleanupPools, TypeOK
    <2>4. UNCHANGED <<clients, authed, subs, keeps, token, logins, loop, refusals>>
      BY <1>18 DEF CacheInvalidation, CleanupPools
    <2> QED
      BY <1>1, <2>1, <2>2, <2>3, <2>4 DEF TypeOK
  <1>19. CASE TokenEnds
    <2>1. index' \in [Keys -> SUBSET Clients] /\ lost' \subseteq Symbols /\ refused' \subseteq Keys
      BY <1>2, <1>19, PoolIsType DEF TokenEnds
    <2> QED
      BY <1>1, <1>19, <2>1 DEF TokenEnds, TypeOK
  <1>20. ASSUME NEW login \in BOOLEAN, UpsertAuth(login)
         PROVE  TypeOK'
    <2>1. logins' \in 0..MaxLogins /\ invalid' \in 0..MaxLogins
      BY <1>20, ProxyAssumption DEF UpsertAuth, TypeOK, MessagesOK
    <2> QED
      BY <1>1, <1>20, <2>1 DEF UpsertAuth, TypeOK
  <1> QED
    BY <1>7, <1>8, <1>9, <1>10, <1>11, <1>12, <1>13, <1>14, <1>15, <1>16, <1>17, <1>18,
       <1>19, <1>20 DEF Next, Handlers

-----------------------------------------------------------------------------
(* The two tables *)

Busy == {"leave", "unsubscribe_all"}

\* What a client taken off a key does to the index.
LEMMA TakenOffIndex ==
    ASSUME NEW c, NEW k, NEW asks, TakenOff(c, k, asks)
    PROVE  index' = [index EXCEPT ![k] = @ \ {c}]
  BY DEF TakenOff, PoolIs

\* Steps that touch neither table, and no departure: of the clients, some more may
\* connect, and those that are connected authenticate.
LEMMA TablesKept ==
    ASSUME IndexMatches, index' = index, subs' = subs,
           clients \subseteq clients', authed \subseteq authed',
           authed' \ authed \subseteq clients,
           loop' = loop \/ (loop.step \notin Busy /\ loop'.step \notin Busy)
    PROVE  IndexMatches'
  <1>1. \A c : (TakenOffAlready(c))' = TakenOffAlready(c)
    BY DEF TakenOffAlready, Busy
  <1>2. loop.step = "leave" => loop' = loop
    BY DEF Busy
  <1> QED
    BY <1>1, <1>2 DEF IndexMatches, At

\* A key asked for, by a client that is authenticated.
LEMMA TablesSubscribed ==
    ASSUME TypeOK, IndexMatches, NEW c \in authed, NEW k \in Keys, NEW r,
           Subscribed(c, k, r), clients' = clients, authed' = authed,
           loop.step \notin Busy, loop'.step \notin Busy
    PROVE  IndexMatches'
  <1>1. CASE r.status # "success"
    <2>1. index' = index /\ subs' = subs
      BY <1>1 DEF Subscribed, PoolIs
    <2> QED
      BY <2>1, TablesKept
  <1>2. CASE r.status = "success"
    <2>1. index' = [index EXCEPT ![k] = @ \cup {c}] /\ subs' = [subs EXCEPT ![c] = @ \cup {k}]
      BY <1>2 DEF Subscribed, PoolIs, Granted
    <2>2. \A d : (TakenOffAlready(d))' = {} /\ TakenOffAlready(d) = {}
      BY DEF TakenOffAlready, Busy
    <2>3. /\ subs \in [Clients -> SUBSET Keys] /\ index \in [Keys -> SUBSET Clients]
          /\ c \in Clients
      BY DEF TypeOK
    <2>4. \A d \in Clients, l \in Keys : d \in index'[l] <=> l \in subs'[d]
      BY <2>1, <2>2, <2>3 DEF IndexMatches
    <2>5. \A d \in Clients : subs'[d] # {} => d \in authed
      BY <2>1, <2>3 DEF IndexMatches
    <2>6. \A d \in authed : d \in clients
      BY DEF IndexMatches, At, Busy
    <2> QED
      BY <2>2, <2>4, <2>5, <2>6 DEF IndexMatches
  <1> QED
    BY <1>1, <1>2

\* Every step keeps the two tables in agreement.
LEMMA IndexStep ==
    ASSUME Inv, Next
    PROVE  IndexMatches'
  <1> USE DEF Inv
  <1>1. /\ subs \in [Clients -> SUBSET Keys] /\ index \in [Keys -> SUBSET Clients]
        /\ loop.todo \in SUBSET Keys
    BY DEF TypeOK, Loop
  <1>2. Idle.step \notin Busy /\ Goes("connect").step \notin Busy
        /\ Goes("force").step \notin Busy /\ Goes("reconnect").step \notin Busy
        /\ Goes("restart").step \notin Busy /\ Goes("restore").step \notin Busy
    <2>1. \A step : Goes(step).step = step
      BY DEF Goes, TypeOK, Loop
    <2> QED
      BY <2>1 DEF Idle, Busy
  <1>3. ASSUME NEW c \in Clients, ClientConnects(c) \/ Authenticate(c)
        PROVE  IndexMatches'
    <2>1. loop.step \notin Busy
      BY <1>3 DEF ClientConnects, Authenticate, At, Busy
    <2>2. loop' = loop \/ loop'.step \notin Busy
      BY <1>3 DEF ClientConnects, Authenticate, Idle, Busy
    <2>3. /\ index' = index /\ subs' = subs /\ clients \subseteq clients'
          /\ authed \subseteq authed' /\ authed' \ authed \subseteq clients
      BY <1>3 DEF ClientConnects, Authenticate
    <2> QED
      BY <2>1, <2>2, <2>3, TablesKept
  <1>4. ASSUME NEW c \in Clients, UnsubscribeAllClient(c) \/ Disconnects(c)
        PROVE  IndexMatches'
    <2>1. /\ index' = index /\ subs' = subs /\ authed' = authed
          /\ loop.step = "free" /\ loop'.client = c /\ loop'.todo = subs[c]
          /\ \/ loop'.step = "unsubscribe_all" /\ clients' = clients
             \/ loop'.step = "leave" /\ clients' = clients \ {c}
      BY <1>4 DEF UnsubscribeAllClient, Disconnects, At
    <2>2. \A d \in Clients : (TakenOffAlready(d))' = {} /\ TakenOffAlready(d) = {}
      BY <2>1 DEF TakenOffAlready
    <2> QED
      BY <2>1, <2>2 DEF IndexMatches, At
  <1>5. ASSUME NEW c \in Clients, NEW k \in Keys, SubscribeClient(c, k)
        PROVE  IndexMatches'
    <2>1. PICK ok \in Agrees : Subscribed(c, k, Subscribe(pool, k, ok, token))
      BY <1>5 DEF SubscribeClient
    <2>2. loop.step \notin Busy /\ loop'.step \notin Busy /\ c \in authed
      BY <1>5 DEF SubscribeClient, At, Busy
    <2>3. clients' = clients /\ authed' = authed
      BY <1>5 DEF SubscribeClient
    <2> QED
      BY <2>1, <2>2, <2>3, TablesSubscribed
  <1>6. ASSUME NEW c \in Clients, NEW k \in Keys, UnsubscribeClient(c, k)
        PROVE  IndexMatches'
    <2>1. index' = [index EXCEPT ![k] = @ \ {c}]
      BY <1>6, TakenOffIndex DEF UnsubscribeClient
    <2>2. /\ subs' = [subs EXCEPT ![c] = @ \ {k}] /\ loop' = loop /\ loop.step = "free"
          /\ authed' = authed /\ clients' = clients
      BY <1>6 DEF UnsubscribeClient, At
    <2>3. \A d : (TakenOffAlready(d))' = {} /\ TakenOffAlready(d) = {}
      BY <2>2 DEF TakenOffAlready
    <2>4. \A d \in Clients, l \in Keys : d \in index'[l] <=> l \in subs'[d]
      BY <1>1, <2>1, <2>2, <2>3 DEF IndexMatches
    <2>5. \A d \in Clients : subs'[d] # {} => d \in authed
      BY <1>1, <2>2 DEF IndexMatches
    <2> QED
      BY <2>2, <2>3, <2>4, <2>5 DEF IndexMatches, At
  <1>7. CASE Initializes \/ Connects \/ ForcesInitialize \/ Rebuilds \/ Restarts \/ Snapshots
    <2>1. index' = index /\ subs' = subs /\ clients' = clients /\ authed' = authed
      BY <1>7 DEF Initializes, Connects, ForcesInitialize, Rebuilds, Restarts, Snapshots, PoolIs
    <2>2. loop.step \notin Busy
      BY <1>7 DEF Initializes, Connects, ForcesInitialize, Rebuilds, Restarts, Snapshots, At, Busy
    <2>3. loop'.step \notin Busy
      <3>1. CASE Snapshots
        BY <3>1 DEF Snapshots, Busy, TypeOK, Loop
      <3> QED
        BY <1>2, <1>7, <3>1 DEF Initializes, Connects, ForcesInitialize, Rebuilds, Restarts
    <2> QED
      BY <2>1, <2>2, <2>3, TablesKept
  <1>8. ASSUME NEW k \in Keys, Restores(k)
        PROVE  IndexMatches'
    <2>1. index' = index /\ subs' = subs /\ clients' = clients /\ authed' = authed
      BY <1>8 DEF Restores, PoolIs
    <2>2. loop.step \notin Busy /\ loop'.step \notin Busy
      BY <1>8 DEF Restores, At, Busy, TypeOK, Loop
    <2> QED
      BY <2>1, <2>2, TablesKept
  <1>9. CASE Retries
    <2>1. loop.client \in authed /\ loop.key \in Keys /\ loop.step \notin Busy
      BY <1>9 DEF Retries, At, LoopOK, Busy
    <2>2. PICK ok \in Agrees :
             Subscribed(loop.client, loop.key, Subscribe(pool, loop.key, ok, token))
      BY <1>9 DEF Retries
    <2>3. clients' = clients /\ authed' = authed /\ loop'.step \notin Busy
      BY <1>2, <1>9 DEF Retries
    <2> QED
      BY <2>1, <2>2, <2>3, TablesSubscribed
  <1>10. ASSUME NEW k \in Keys, UnsubscribesNext(k) \/ LeavesKey(k)
         PROVE  IndexMatches'
    <2> DEFINE c == loop.client
    <2>1. PICK asks : TakenOff(c, k, asks)
      BY <1>10 DEF UnsubscribesNext, LeavesKey
    <2>2. index' = [index EXCEPT ![k] = @ \ {c}]
      BY <2>1, TakenOffIndex
    <2>3. /\ loop.step \in Busy /\ k \in loop.todo /\ subs' = subs
          /\ authed' = authed /\ clients' = clients
          /\ loop'.step = loop.step /\ loop'.client = c /\ loop'.todo = loop.todo \ {k}
      BY <1>10 DEF UnsubscribesNext, LeavesKey, At, Busy, TypeOK, Loop
    <2>4. ASSUME NEW d \in Clients, NEW l \in Keys
          PROVE  d \in index'[l] <=> l \in subs'[d] \ (TakenOffAlready(d))'
      <3>1. d \in index[l] <=> l \in subs[d] \ TakenOffAlready(d)
        BY DEF IndexMatches
      <3>2. CASE d = c
        <4>1. /\ TakenOffAlready(d) = subs[d] \ loop.todo
              /\ (TakenOffAlready(d))' = subs[d] \ (loop.todo \ {k})
          BY <2>3, <3>2 DEF TakenOffAlready, Busy
        <4> QED
          BY <1>1, <2>2, <2>3, <3>1, <3>2, <4>1
      <3>3. CASE d # c
        <4>1. TakenOffAlready(d) = {} /\ (TakenOffAlready(d))' = {}
          BY <2>3, <3>3 DEF TakenOffAlready
        <4> QED
          BY <1>1, <2>2, <2>3, <3>1, <3>3, <4>1
      <3> QED
        BY <3>2, <3>3
    <2> QED
      BY <2>3, <2>4 DEF IndexMatches, At
  <1>11. CASE UnsubscribesLast \/ LeavesLast
    <2> DEFINE c == loop.client
    <2>1. /\ index' = index /\ loop.step \in Busy /\ loop.todo = {} /\ loop' = Idle
          /\ subs' = [subs EXCEPT ![c] = {}] /\ clients' = clients
          /\ \/ authed' = authed /\ loop.step = "unsubscribe_all"
             \/ authed' = authed \ {c}
      BY <1>11 DEF UnsubscribesLast, LeavesLast, At, Busy, TornDown, PoolIs
    <2>2. c \in Clients
      BY <2>1 DEF LoopOK, Busy
    <2>3. \A d : (TakenOffAlready(d))' = {}
      BY <2>1 DEF TakenOffAlready, Idle
    <2>4. \A d \in Clients : TakenOffAlready(d) = IF d = c THEN subs[c] ELSE {}
      BY <2>1 DEF TakenOffAlready, Busy
    <2>5. \A d \in Clients, l \in Keys : d \in index'[l] <=> l \in subs'[d]
      BY <1>1, <2>1, <2>2, <2>4 DEF IndexMatches
    <2>6. \A d \in Clients : subs'[d] # {} => d \in authed'
      BY <1>1, <2>1, <2>2 DEF IndexMatches
    <2>7. \A d \in authed' : d \in clients
      BY <2>1 DEF IndexMatches, At
    <2> QED
      BY <2>1, <2>3, <2>5, <2>6, <2>7 DEF IndexMatches
  <1>12. CASE TokenEnds \/ CleanupPools \/ CacheInvalidation \/ \E login \in BOOLEAN : UpsertAuth(login)
    <2>1. /\ index' = index /\ subs' = subs /\ clients' = clients /\ authed' = authed
          /\ loop' = loop
      BY <1>12 DEF TokenEnds, CleanupPools, CacheInvalidation, UpsertAuth, TornDown, PoolIs
    <2> QED
      BY <2>1, TablesKept
  <1> QED
    BY <1>3, <1>4, <1>5, <1>6, <1>7, <1>8, <1>9, <1>10, <1>11, <1>12 DEF Next, Handlers

\* Every step keeps to what the handlers rely on, and no message is made up.
LEMMA LoopStep ==
    ASSUME Inv, Next
    PROVE  LoopOK' /\ MessagesOK'
  <1> USE DEF Inv
  <1>1. loop \in Loop /\ logins \in Nat /\ invalid \in Nat
    BY ProxyAssumption DEF TypeOK
  <1>2. ASSUME UNCHANGED <<logins, invalid>>
        PROVE  MessagesOK'
    BY <1>2 DEF MessagesOK
  <1>3. ASSUME loop' = Idle \/ (loop' = loop /\ authed' = authed)
        PROVE  LoopOK'
    BY <1>3 DEF LoopOK, Idle
  <1>4. ASSUME NEW c \in Clients,
               ClientConnects(c) \/ Authenticate(c) \/ UnsubscribeAllClient(c) \/ Disconnects(c)
        PROVE  LoopOK' /\ MessagesOK'
    <2>1. loop.step = "free" /\ UNCHANGED <<logins, invalid>>
      BY <1>4 DEF ClientConnects, Authenticate, UnsubscribeAllClient, Disconnects, At, web
    <2>2. \/ loop' = loop
          \/ loop' = [step |-> "initialize", client |-> c, key |-> None, todo |-> {}]
          \/ loop'.step \in Busy /\ loop'.client = c
      <3>1. CASE ClientConnects(c)
        BY <3>1 DEF ClientConnects
      <3>2. CASE Authenticate(c)
        BY <3>2 DEF Authenticate, Idle
      <3>3. CASE UnsubscribeAllClient(c) \/ Disconnects(c)
        BY <3>3 DEF UnsubscribeAllClient, Disconnects, Busy
      <3> QED
        BY <1>4, <3>1, <3>2, <3>3
    <2>3. LoopOK'
      BY <2>1, <2>2 DEF LoopOK, Busy
    <2> QED
      BY <1>2, <2>1, <2>3
  <1>5. ASSUME NEW c \in Clients, NEW k \in Keys, SubscribeClient(c, k)
        PROVE  LoopOK' /\ MessagesOK'
    <2>1. UNCHANGED <<logins, invalid, authed>> /\ c \in authed /\ loop.step = "free"
      BY <1>5 DEF SubscribeClient, At, web
    <2>2. \/ loop' = [step |-> "snapshot", client |-> c, key |-> k, todo |-> {}]
          \/ loop' = loop
      BY <1>5 DEF SubscribeClient
    <2>3. LoopOK'
      BY <2>1, <2>2 DEF LoopOK
    <2> QED
      BY <1>2, <2>1, <2>3
  <1>6. ASSUME NEW c \in Clients, NEW k \in Keys, UnsubscribeClient(c, k)
        PROVE  LoopOK' /\ MessagesOK'
    BY <1>2, <1>3, <1>6 DEF UnsubscribeClient, web
  <1>7. CASE Initializes \/ Connects \/ ForcesInitialize
    <2>1. UNCHANGED <<logins, invalid, authed>>
      BY <1>7 DEF Initializes, Connects, ForcesInitialize, web
    <2>2. loop' \in {Goes("connect"), Goes("force"), Goes("reconnect"), Idle}
      BY <1>7 DEF Initializes, Connects, ForcesInitialize
    <2>3. LoopOK'
      BY <1>1, <2>2 DEF Goes, Loop, Idle, LoopOK
    <2> QED
      BY <1>2, <2>1, <2>3
  <1>8. CASE Snapshots \/ Rebuilds \/ Restarts \/ \E k \in Keys : Restores(k)
    <2>1. UNCHANGED <<logins, invalid, authed>>
      BY <1>8 DEF Snapshots, Rebuilds, Restarts, Restores, web
    <2>2. loop.client \in authed /\ loop.key \in Keys
      BY <1>8 DEF Snapshots, Rebuilds, Restarts, Restores, At, LoopOK
    <2>3. \/ loop' = Idle
          \/ /\ loop'.step \in {"rebuild", "restart", "restore"}
             /\ loop'.client = loop.client /\ loop'.key = loop.key
      <3>1. CASE Snapshots
        BY <1>1, <3>1 DEF Snapshots, Loop
      <3>2. CASE Rebuilds
        BY <1>1, <3>2 DEF Rebuilds, Goes, Loop
      <3>3. CASE Restarts
        BY <1>1, <3>3 DEF Restarts, Goes, Loop
      <3>4. CASE \E k \in Keys : Restores(k)
        BY <1>1, <3>4 DEF Restores, At, Loop
      <3> QED
        BY <1>8, <3>1, <3>2, <3>3, <3>4
    <2>4. LoopOK'
      BY <2>1, <2>2, <2>3 DEF LoopOK, Idle
    <2> QED
      BY <1>2, <2>1, <2>4
  <1>9. ASSUME NEW k \in Keys, UnsubscribesNext(k) \/ LeavesKey(k)
        PROVE  LoopOK' /\ MessagesOK'
    <2>1. UNCHANGED <<logins, invalid>>
      BY <1>9 DEF UnsubscribesNext, LeavesKey, web
    <2>2. loop.step \in Busy /\ loop'.step = loop.step /\ loop'.client = loop.client
      BY <1>1, <1>9 DEF UnsubscribesNext, LeavesKey, At, Busy, Loop
    <2>3. LoopOK'
      BY <2>2 DEF LoopOK, Busy
    <2> QED
      BY <1>2, <2>1, <2>3
  <1>10. CASE Retries \/ UnsubscribesLast \/ LeavesLast
    BY <1>2, <1>3, <1>10 DEF Retries, UnsubscribesLast, LeavesLast, web
  <1>11. CASE CacheInvalidation
    <2>1. LoopOK'
      BY <1>3, <1>11 DEF CacheInvalidation
    <2>2. MessagesOK'
      BY <1>1, <1>11 DEF CacheInvalidation, MessagesOK
    <2> QED
      BY <2>1, <2>2
  <1>12. CASE TokenEnds \/ CleanupPools
    BY <1>2, <1>3, <1>12 DEF TokenEnds, CleanupPools
  <1>13. ASSUME NEW login \in BOOLEAN, UpsertAuth(login)
         PROVE  LoopOK' /\ MessagesOK'
    <2>1. LoopOK'
      BY <1>3, <1>13 DEF UpsertAuth
    <2>2. MessagesOK'
      BY <1>1, <1>13 DEF UpsertAuth, MessagesOK
    <2> QED
      BY <2>1, <2>2
  <1> QED
    BY <1>4, <1>5, <1>6, <1>7, <1>8, <1>9, <1>10, <1>11, <1>12, <1>13 DEF Next, Handlers

-----------------------------------------------------------------------------
(* What holds of every behaviour *)

\* The proxy starts with nobody connected and no connection made.
LEMMA InitInv == Init => Inv
  <1> SUFFICES ASSUME Init
               PROVE  Inv
    OBVIOUS
  <1>1. PoolOK(pool) /\ pool \in Pool
    BY EmptyPoolOK DEF Init, PoolOK
  <1>2. Idle \in Loop
    BY DEF Idle, Loop, Steps
  <1>3. TypeOK
    <2>1. 0 \in 0..MaxLogins /\ 0 \in 0..MaxRefusals
      BY ProxyAssumption
    <2>2. logins \in 0..MaxLogins /\ invalid \in 0..MaxLogins /\ refusals \in 0..MaxRefusals
      BY <2>1 DEF Init
    <2>3. subs \in [Clients -> SUBSET Keys] /\ index \in [Keys -> SUBSET Clients]
      BY DEF Init
    <2>4. /\ clients \subseteq Clients /\ authed \subseteq Clients /\ lost \subseteq Symbols
          /\ refused \subseteq Keys /\ loop \in Loop
      BY <1>2 DEF Init
    <2>5. held \in BOOLEAN /\ registered \in BOOLEAN /\ keeps \in BOOLEAN
          /\ token \in BOOLEAN /\ cleaning \in BOOLEAN
      BY DEF Init
    <2> QED
      BY <1>1, <2>2, <2>3, <2>4, <2>5 DEF TypeOK
  <1>4. IndexMatches /\ LoopOK
    BY DEF Init, IndexMatches, LoopOK, TakenOffAlready, Idle
  <1>5. MessagesOK
    BY DEF Init, MessagesOK
  <1> QED
    BY <1>1, <1>3, <1>4, <1>5 DEF Inv

\* A step, or none, keeps the invariant.
LEMMA NextInv == Inv /\ [Next]_vars => Inv'
  <1>1. ASSUME Inv, Next
        PROVE  Inv'
    BY <1>1, PoolStep, TypeStep, IndexStep, LoopStep DEF Inv
  <1>2. ASSUME Inv, UNCHANGED vars
        PROVE  Inv'
    BY <1>2 DEF Inv, vars, TypeOK, IndexMatches, TakenOffAlready, At, LoopOK, MessagesOK
  <1> QED
    BY <1>1, <1>2

\* Every variable keeps its type: in particular the books of the pool stay those of a
\* pool through every recovery, and no more messages wait than were published.
THEOREM ProxyTypeCorrect == Spec => []TypeOK
  <1>1. Inv => TypeOK
    BY DEF Inv
  <1> QED
    BY <1>1, InitInv, NextInv, PTL DEF Spec

\* subscriptions and subscription_index agree in every state, those between two steps
\* of a departure included, and hold authenticated clients only.
THEOREM TablesAgree == Spec => []IndexMatches
  <1>1. Inv => IndexMatches
    BY DEF Inv
  <1> QED
    BY <1>1, InitInv, NextInv, PTL DEF Spec

\* The count of each broker connection is the number of symbols it carries and within
\* MAX_SYMBOLS_PER_WEBSOCKET, whatever was refused, torn down or restored.
THEOREM CountsAreRight == Spec => []PoolCounts
  <1>1. Inv => PoolCounts
    BY DEF Inv, PoolOK, PoolCounts
  <1> QED
    BY <1>1, InitInv, NextInv, PTL DEF Spec

\* All modes of a symbol are on one connection, and that connection exists: a
\* subscription never names an adapter that was thrown away.
THEOREM SymbolOnOneConnection == Spec => []PoolOneConnection
  <1>1. Inv => PoolOneConnection
    BY DEF Inv, PoolOK, PoolOneConnection
  <1> QED
    BY <1>1, InitInv, NextInv, PTL DEF Spec
-----------------------------------------------------------------------------
(* What the pool streams *)

HighOf(p, s) == <<s, Highest(ModesOf(p, s))>>

\* The highest mode a symbol is wanted in is streamed by its connection when that is live, or
\* is in R, the keys that the broker has refused to stop.
SymbolServed(p, s, R) ==
    ModesOf(p, s) # {} =>
       \/ HighOf(p, s) \in R
       \/ p.adapters[p.at[HighOf(p, s)]].live => Delivered(p, HighOf(p, s))

HighServed(p, R) == \A s \in Symbols : SymbolServed(p, s, R)

\* The highest mode of a symbol is one of its modes, and they are all on one connection.
LEMMA HighOfType ==
    ASSUME NEW p, PoolOK(p), NEW s \in Symbols, ModesOf(p, s) # {}
    PROVE  /\ HighOf(p, s) \in Keys /\ HighOf(p, s)[1] = s
           /\ HighOf(p, s)[2] \in ModesOf(p, s)
           /\ \A m \in ModesOf(p, s) : m <= HighOf(p, s)[2] /\ p.at[<<s, m>>] = p.at[HighOf(p, s)]
           /\ p.at[HighOf(p, s)] \in 1..Len(p.adapters)
  <1> DEFINE h == Highest(ModesOf(p, s))
  <1>1. ModesOf(p, s) \in SUBSET Modes
    BY DEF ModesOf
  <1>2. h \in ModesOf(p, s) /\ \A m \in ModesOf(p, s) : m <= h
    BY <1>1, HighestType
  <1>3. HighOf(p, s) = <<s, h>>
    BY DEF HighOf
  <1> HIDE DEF h
  <1>4. <<s, h>> \in Keys /\ p.at[<<s, h>>] # 0
    BY <1>1, <1>2 DEF Keys, ModesOf
  <1>5. \A m \in ModesOf(p, s) : p.at[<<s, m>>] = p.at[<<s, h>>]
    BY <1>1, <1>2 DEF PoolOK, OneConnection, ModesOf
  <1> QED
    BY <1>2, <1>3, <1>4, <1>5, TrackedAt

\* The highest of some modes is what is one of them and not below any.
LEMMA HighestIs ==
    ASSUME NEW M \in SUBSET Modes, NEW h \in M, \A m \in M : m <= h
    PROVE  Highest(M) = h
  <1>1. Highest(M) \in M /\ h <= Highest(M) /\ Highest(M) <= h
    BY HighestType
  <1>2. h \in Nat /\ Highest(M) \in Nat
    BY <1>1, PoolAssumption
  <1> QED
    BY <1>1, <1>2

\* A symbol whose keys and connections stay, or whose connections die, is served as before.
LEMMA SymbolKept ==
    ASSUME NEW p, PoolOK(p), NEW q, NEW s \in Symbols, NEW R, NEW T, SymbolServed(p, s, R),
           \A m \in Modes : q.at[<<s, m>>] = p.at[<<s, m>>],
           \A m \in Modes : <<s, m>> \in R => <<s, m>> \in T,
           \A j \in 1..Len(p.adapters) :
              \/ ~q.adapters[j].live
              \/ /\ p.adapters[j].live
                 /\ \A m \in Modes : <<s, m>> \in p.adapters[j].streams => <<s, m>> \in q.adapters[j].streams
    PROVE  SymbolServed(q, s, T)
  <1>1. ModesOf(q, s) = ModesOf(p, s) /\ HighOf(q, s) = HighOf(p, s)
    BY DEF ModesOf, HighOf
  <1> SUFFICES ASSUME ModesOf(p, s) # {}
               PROVE  SymbolServed(q, s, T)
    BY <1>1 DEF SymbolServed
  <1> DEFINE hi == HighOf(p, s)
             j == p.at[hi]
  <1>2. /\ hi[1] = s /\ hi[2] \in Modes /\ hi = <<s, hi[2]>> /\ j \in 1..Len(p.adapters)
    BY HighOfType DEF ModesOf, HighOf
  <1>3. q.at[hi] = j
    BY <1>2
  <1>4. CASE hi \in R
    BY <1>1, <1>2, <1>4 DEF SymbolServed
  <1>5. CASE ~q.adapters[j].live
    BY <1>1, <1>3, <1>5 DEF SymbolServed
  <1>6. CASE hi \notin R /\ q.adapters[j].live
    <2>1. /\ p.adapters[j].live
          /\ \A m \in Modes : <<s, m>> \in p.adapters[j].streams => <<s, m>> \in q.adapters[j].streams
      BY <1>2, <1>6
    <2>2. Delivered(p, hi)
      BY <1>6, <2>1 DEF SymbolServed
    <2>3. Delivered(q, hi)
      BY <1>2, <1>3, <2>1, <2>2 DEF Delivered
    <2> QED
      BY <1>1, <2>3 DEF SymbolServed
  <1> QED
    BY <1>4, <1>5, <1>6

\* A pool on whose books there is no key leaves no symbol unserved.
LEMMA BareServed ==
    ASSUME NEW p, \A k \in Keys : p.at[k] = 0, NEW R
    PROVE  HighServed(p, R)
  BY DEF HighServed, SymbolServed, ModesOf, Keys

\* Another pool with the same keys that extends it, or whose connections are dead.
LEMMA SameServed ==
    ASSUME NEW p, PoolOK(p), NEW q, q.at = p.at, NEW R, HighServed(p, R), NEW tok,
           \/ Extends(p, q, tok)
           \/ \A j \in 1..Len(p.adapters) : q.adapters[j].live = FALSE
    PROVE  HighServed(q, R)
  <1> SUFFICES ASSUME NEW s \in Symbols
               PROVE  SymbolServed(q, s, R)
    BY DEF HighServed
  <1>1. \A j \in 1..Len(p.adapters) :
              \/ ~q.adapters[j].live
              \/ /\ p.adapters[j].live
                 /\ \A m \in Modes : <<s, m>> \in p.adapters[j].streams => <<s, m>> \in q.adapters[j].streams
    BY DEF Extends
  <1>2. SymbolServed(p, s, R)
    BY DEF HighServed
  <1> QED
    BY <1>1, <1>2, SymbolKept

\* A subscription leaves every symbol served.
LEMMA SubscribeServed ==
    ASSUME NEW p, PoolOK(p), NEW k \in Keys, NEW ok \in BOOLEAN, NEW tok \in BOOLEAN,
           NEW R, HighServed(p, R)
    PROVE  HighServed(Subscribe(p, k, ok, tok).pool, R)
  <1> DEFINE q == Subscribe(p, k, ok, tok).pool
  <1>1. /\ Extends(p, q, tok) /\ PoolOK(q)
        /\ q.at = p.at \/ \E i \in Nat : Placed(p, q, k, i)
    BY SubscribeDoes, SubscribeOK
  <1> HIDE DEF q
  <1>2. CASE q.at = p.at
    BY <1>1, <1>2, SameServed DEF q
  <1>3. CASE \E i \in Nat : Placed(p, q, k, i)
    <2>1. PICK i \in Nat : Placed(p, q, k, i)
      BY <1>3
    <2>2. /\ p.at[k] = 0 /\ i # 0 /\ q.at = [p.at EXCEPT ![k] = i] /\ p.at \in [Keys -> Nat]
          /\ k = <<k[1], k[2]>> /\ k[1] \in Symbols /\ k[2] \in Modes
      BY <2>1 DEF Placed, PoolOK, Pool, Keys
    <2>3. \A s \in Symbols, m \in Modes :
             q.at[<<s, m>>] = IF s = k[1] /\ m = k[2] THEN i ELSE p.at[<<s, m>>]
      BY <2>2 DEF Keys
    <2> SUFFICES ASSUME NEW s \in Symbols
                 PROVE  SymbolServed(q, s, R)
      BY DEF HighServed, q
    <2>4. SymbolServed(p, s, R)
      BY DEF HighServed
    <2>5. CASE s # k[1]
      <3>1. \A m \in Modes : q.at[<<s, m>>] = p.at[<<s, m>>]
        BY <2>3, <2>5
      <3>2. \A j \in 1..Len(p.adapters) :
              \/ ~q.adapters[j].live
              \/ /\ p.adapters[j].live
                 /\ \A m \in Modes : <<s, m>> \in p.adapters[j].streams => <<s, m>> \in q.adapters[j].streams
        BY <1>1 DEF Extends
      <3> QED
        BY <2>4, <3>1, <3>2, SymbolKept
    <2>6. CASE s = k[1]
      <3> DEFINE M == ModesOf(p, s)
      <3>1. ModesOf(q, s) = M \cup {k[2]} /\ M \in SUBSET Modes /\ k[2] \notin M
        BY <2>2, <2>3, <2>6 DEF ModesOf
      <3>2. \A m \in Modes : m \in Nat
        BY PoolAssumption
      <3>3. \A m \in Modes : q.at[<<s, m>>] \in {0, i}
        BY <2>1, <2>3, <2>6 DEF Placed
      <3>4. CASE M # {} /\ k[2] <= Highest(M)
        <4>1. Highest(M) \in M /\ \A m \in M : m <= Highest(M)
          BY <3>1, <3>4, HighestType
        <4>2. Highest(ModesOf(q, s)) = Highest(M)
          <5>1. \A m \in ModesOf(q, s) : m <= Highest(M)
            BY <3>1, <3>4, <4>1
          <5>2. ModesOf(q, s) \in SUBSET Modes /\ Highest(M) \in ModesOf(q, s)
            BY <2>2, <3>1, <4>1
          <5> HIDE DEF M
          <5> QED
            BY <5>1, <5>2, HighestIs
        <4>3. HighOf(q, s) = HighOf(p, s)
          BY <4>2 DEF HighOf
        <4> DEFINE hi == HighOf(p, s)
                   j == p.at[hi]
        <4>4. hi = <<s, Highest(M)>> /\ j \in 1..Len(p.adapters)
          BY <3>4, HighOfType DEF HighOf
        <4>5. q.at[hi] = j
          <5>1. Highest(M) # k[2] /\ Highest(M) \in Modes
            BY <3>1, <4>1
          <5> HIDE DEF M
          <5> QED
            BY <2>3, <4>4, <5>1
        <4>6. /\ q.adapters[j].live = p.adapters[j].live
              /\ p.adapters[j].streams \subseteq q.adapters[j].streams
          BY <1>1, <4>4 DEF Extends
        <4>7. Delivered(p, hi) => Delivered(q, hi)
          BY <4>5, <4>6 DEF Delivered
        <4> QED
          BY <2>4, <3>4, <4>3, <4>5, <4>6, <4>7 DEF SymbolServed
      <3>5. CASE k \in q.adapters[i].streams
        <4>1. ModesOf(q, s) # {}
          BY <3>1
        <4> DEFINE hi == HighOf(q, s)
        <4>2. /\ hi = <<s, hi[2]>> /\ hi[2] \in ModesOf(q, s) /\ k[2] <= hi[2]
              /\ q.at[hi] # 0
          <5>1. /\ hi[2] \in ModesOf(q, s)
                /\ \A m \in ModesOf(q, s) : m <= hi[2]
            BY <1>1, <4>1, HighOfType
          <5>2. hi = <<s, hi[2]>>
            BY DEF HighOf
          <5>3. k[2] <= hi[2]
            BY <3>1, <5>1
          <5> HIDE DEF hi
          <5> QED
            BY <5>1, <5>2, <5>3 DEF ModesOf
        <4>3. CASE hi[2] = k[2]
          <5>1. hi = k /\ q.at[hi] = i
            BY <2>2, <2>3, <2>6, <4>2, <4>3
          <5>2. Delivered(q, hi)
            BY <2>2, <3>2, <3>5, <5>1 DEF Delivered
          <5> QED
            BY <5>2 DEF SymbolServed
        <4>4. CASE hi[2] # k[2]
          <5>1. hi[2] \in M
            BY <3>1, <4>2, <4>4
          <5>2. \A m \in M : m <= hi[2]
            BY <1>1, <3>1, <4>1, HighOfType DEF HighOf
          <5>3. Highest(M) = hi[2]
            <6> HIDE DEF M, hi
            <6> QED
              BY <3>1, <5>1, <5>2, HighestIs
          <5>4. M # {} /\ k[2] <= Highest(M)
            BY <4>2, <5>1, <5>3
          <5> QED
            BY <3>4, <5>4
        <4> QED
          BY <4>3, <4>4
      <3> QED
        BY <2>1, <2>6, <3>4, <3>5 DEF Placed
    <2> QED
      BY <2>5, <2>6
  <1> QED
    BY <1>1, <1>2, <1>3

\* An unsubscription leaves every symbol served but one whose mode the broker does not stop.
LEMMA UnsubscribeServed ==
    ASSUME NEW p, PoolOK(p), NEW k \in Keys, NEW a \in Answers, NEW R, HighServed(p, R)
    PROVE  LET r == Unsubscribe(p, k, a)
               failed == r.status = "error" /\ p.at[k] # 0
           IN HighServed(r.pool, IF failed THEN R \cup {k} ELSE R \ {k})
  <1> DEFINE r == Unsubscribe(p, k, a)
             q == r.pool
             failed == r.status = "error" /\ p.at[k] # 0
             T == IF failed THEN R \cup {k} ELSE R \ {k}
  <1>1. /\ PoolOK(q) /\ Drops(p, q, k)
        /\ \/ p.at[k] = 0 /\ q = p
           \/ failed /\ Stuck(p, q, k)
           \/ ~failed /\ p.at[k] # 0 /\ Taken(p, q, k)
    BY UnsubscribeDoes, UnsubscribeOK
  <1>2. /\ k = <<k[1], k[2]>> /\ k[1] \in Symbols /\ k[2] \in Modes
        /\ \A m \in Modes : m \in Nat
        /\ p.at \in [Keys -> Nat]
    BY PoolAssumption DEF Keys, PoolOK, Pool
  <1>3. \A x : x \in R /\ x # k => x \in T
    OBVIOUS
  <1>4. failed => T = R \cup {k}
    OBVIOUS
  <1> HIDE DEF r, failed, T
  <1> SUFFICES ASSUME NEW s \in Symbols
               PROVE  SymbolServed(q, s, T)
    BY DEF HighServed, r, failed, T
  <1>5. SymbolServed(p, s, R)
    BY DEF HighServed
  <1>6. CASE s # k[1]
    <2>1. \A m \in Modes : <<s, m>> # k /\ q.at[<<s, m>>] = p.at[<<s, m>>]
      <3>1. q = p \/ q.at = p.at \/ q.at = [p.at EXCEPT ![k] = 0]
        BY <1>1 DEF Stuck, Taken
      <3>2. \A m \in Modes : <<s, m>> # k
        BY <1>2, <1>6
      <3> QED
        BY <1>2, <3>1, <3>2 DEF Keys
    <2>2. \A m \in Modes : <<s, m>> \in R => <<s, m>> \in T
      BY <1>3, <2>1
    <2>3. \A j \in 1..Len(p.adapters) :
              \/ ~q.adapters[j].live
              \/ /\ p.adapters[j].live
                 /\ \A m \in Modes : <<s, m>> \in p.adapters[j].streams => <<s, m>> \in q.adapters[j].streams
      BY <1>1, <2>1 DEF Drops
    <2> QED
      BY <1>5, <2>1, <2>2, <2>3, SymbolKept
  <1>7. CASE s = k[1] /\ p.at[k] = 0
    <2>1. q = p
      BY <1>1, <1>7 DEF failed
    <2> SUFFICES ASSUME ModesOf(p, s) # {}
                 PROVE  SymbolServed(p, s, T)
      BY <2>1 DEF SymbolServed
    <2>2. HighOf(p, s) # k
      <3>1. HighOf(p, s)[2] \in ModesOf(p, s)
        BY HighOfType
      <3> QED
        BY <1>2, <1>7, <3>1 DEF ModesOf
    <2> QED
      BY <1>3, <1>5, <2>2 DEF SymbolServed
  <1>8. CASE s = k[1] /\ failed /\ Stuck(p, q, k)
    <2>1. q.at = p.at /\ p.at[k] # 0 /\ \A m \in ModesOf(p, s) : m <= k[2]
      BY <1>8 DEF Stuck, failed
    <2>2. k[2] \in ModesOf(p, s) /\ ModesOf(p, s) \in SUBSET Modes
      BY <1>2, <1>8, <2>1 DEF ModesOf
    <2>3. Highest(ModesOf(p, s)) = k[2]
      BY <2>1, <2>2, HighestIs
    <2>4. HighOf(q, s) = k
      BY <1>2, <1>8, <2>1, <2>3 DEF HighOf, ModesOf
    <2> QED
      BY <1>4, <1>8, <2>4 DEF SymbolServed
  <1>9. CASE s = k[1] /\ ~failed /\ p.at[k] # 0 /\ Taken(p, q, k)
    <2> DEFINE rest == ModesOf(p, s) \ {k[2]}
    <2>1. /\ q.at = [p.at EXCEPT ![k] = 0]
          /\ \/ rest = {}
             \/ k[2] < Highest(rest)
             \/ <<s, Highest(rest)>> \in q.adapters[p.at[k]].streams
      BY <1>9 DEF Taken
    <2>2. \A m \in Modes : q.at[<<s, m>>] = IF m = k[2] THEN 0 ELSE p.at[<<s, m>>]
      BY <1>2, <1>9, <2>1 DEF Keys
    <2>3. ModesOf(q, s) = rest /\ rest \in SUBSET Modes
      BY <1>2, <2>2 DEF ModesOf
    <2> SUFFICES ASSUME rest # {}
                 PROVE  SymbolServed(q, s, T)
      BY <2>3 DEF SymbolServed
    <2> DEFINE h == Highest(rest)
    <2>4. h \in rest /\ \A m \in rest : m <= h
      <3> HIDE DEF rest
      <3> QED
        BY <2>3, HighestType
    <2>5. HighOf(q, s) = <<s, h>>
      BY <2>3 DEF HighOf
    <2>6. h \in ModesOf(p, s) /\ h # k[2] /\ h \in Modes /\ h \in Nat /\ k[2] \in Nat
      BY <1>2, <2>3, <2>4
    <2>7. k[2] < h \/ <<s, h>> \in q.adapters[p.at[k]].streams
      BY <2>1
    <2>8. \A m \in ModesOf(p, s) : m = k[2] \/ m <= h
      BY <2>4
    <2> HIDE DEF h, rest
    <2> DEFINE j == p.at[<<s, h>>]
    <2>9. q.at[<<s, h>>] = j /\ j # 0 /\ p.at[k] = j /\ j \in 1..Len(p.adapters)
      <3>1. q.at[<<s, h>>] = j /\ j # 0
        BY <2>2, <2>6 DEF ModesOf
      <3>2. <<s, h>> \in Keys
        BY <2>6 DEF Keys
      <3>3. j \in 1..Len(p.adapters)
        BY <3>1, <3>2, TrackedAt
      <3>4. p.at[k] = j
        BY <1>2, <1>9, <2>6, <3>1 DEF PoolOK, OneConnection
      <3> QED
        BY <3>1, <3>3, <3>4
    <2>10. CASE <<s, h>> \in q.adapters[p.at[k]].streams
      <3>1. Delivered(q, <<s, h>>)
        BY <2>6, <2>9, <2>10 DEF Delivered
      <3> QED
        BY <2>5, <3>1 DEF SymbolServed
    <2>11. CASE k[2] < h
      <3>1. ModesOf(p, s) \in SUBSET Modes /\ \A m \in ModesOf(p, s) : m <= h
        <4>1. k[2] <= h
          BY <2>6, <2>11
        <4>2. \A m \in ModesOf(p, s) : m <= h
          BY <2>8, <4>1
        <4> QED
          BY <4>2 DEF ModesOf
      <3>2. Highest(ModesOf(p, s)) = h
        BY <2>6, <3>1, HighestIs
      <3>3. HighOf(p, s) = <<s, h>> /\ <<s, h>> # k
        BY <1>2, <2>6, <3>2 DEF HighOf
      <3>4. \/ <<s, h>> \in R
            \/ p.adapters[j].live => Delivered(p, <<s, h>>)
        BY <1>5, <2>6, <3>3 DEF SymbolServed
      <3>5. /\ q.adapters[j].live = p.adapters[j].live
            /\ p.adapters[j].streams \ {k} \subseteq q.adapters[j].streams
        BY <1>1, <2>9 DEF Drops
      <3>6. ASSUME NEW m \in Modes, m >= h
            PROVE  <<s, m>> # k
        <4>1. m # k[2]
          BY <1>2, <2>6, <2>11, <3>6
        <4> QED
          BY <1>2, <4>1
      <3>7. Delivered(p, <<s, h>>) => Delivered(q, <<s, h>>)
        BY <2>9, <3>5, <3>6 DEF Delivered
      <3> QED
        BY <1>3, <2>5, <2>9, <3>3, <3>4, <3>5, <3>7 DEF SymbolServed
    <2> QED
      BY <2>7, <2>10, <2>11
  <1> QED
    BY <1>1, <1>6, <1>7, <1>8, <1>9

-----------------------------------------------------------------------------
(* Who holds the pool, and what is in it *)

AllLive(p) == \A i \in DOMAIN p.adapters : p.adapters[i].live

\* A pool that has no key on its books and is not connected: it has its first connection
\* at most.
Bare(p) ==
    /\ \A k \in Keys : p.at[k] = 0
    /\ ~p.connected
    /\ Len(p.adapters) = 0 \/ (Len(p.adapters) = 1 /\ p.initialized)

\* A handler that takes the proxy to hold the pool, or not to, is right; and a broker
\* whose connection does not outlive the last client is not held without one.
HeldOK ==
    /\ held /\ ~keeps => authed # {}
    /\ loop.step \in {"initialize", "connect", "force", "reconnect"} =>
          loop.client \in authed /\ ~held
    /\ loop.step \in {"snapshot", "rebuild", "restart", "restore", "unsubscribe_all"} => held

\* A pool that is not held is bare.
BareOK == ~held => Bare(pool)

\* While a connection made with an ended token is there and the token is good, a message to
\* the one that holds the pool and the cleanup of the registered one are on the way.
FreshOK == token /\ ~AllLive(pool) => (held => invalid > 0) /\ (registered => cleaning)

\* What is tracked is wanted, or was refused; so is what a recovery is about to restore.
\* What a departure is about to take off is what the departing client asked for.
WantedOK ==
    /\ \A k \in Keys : pool.at[k] # 0 => k \in refused \/ index[k] # {}
    /\ loop.step \in {"rebuild", "restart", "restore"} =>
          \A k \in loop.todo : k \in refused \/ index[k] # {}
    /\ loop.step = "leave" => loop.todo \subseteq subs[loop.client]

\* What is wanted is tracked, or its symbol is lost, and the highest mode of each symbol
\* is streamed.
ServedOK ==
    /\ \A k \in Keys : index[k] # {} => k[1] \in lost \/ pool.at[k] # 0
    /\ HighServed(pool, refused)

ServiceInv == Inv /\ HeldOK /\ BareOK /\ FreshOK /\ WantedOK /\ ServedOK

\* A new pool is bare, and none of its connections is dead.
LEMMA EmptyBare == Bare(EmptyPool) /\ AllLive(EmptyPool)
  <1>1. EmptyPool.adapters = <<>> /\ ~EmptyPool.connected /\ \A k \in Keys : EmptyPool.at[k] = 0
    BY DEF EmptyPool
  <1> QED
    BY <1>1 DEF Bare, AllLive

\* A connection is added: what is live stays so.
LEMMA LiveExtends ==
    ASSUME NEW p \in Pool, NEW q \in Pool, Extends(p, q, TRUE), AllLive(p)
    PROVE  AllLive(q)
  <1>1. /\ DOMAIN p.adapters = 1..Len(p.adapters) /\ DOMAIN q.adapters = 1..Len(q.adapters)
        /\ Len(p.adapters) \in Nat /\ Len(q.adapters) \in Nat
    BY DEF Pool
  <1> SUFFICES ASSUME NEW i \in 1..Len(q.adapters)
               PROVE  q.adapters[i].live
    BY <1>1 DEF AllLive
  <1>2. i \in 1..Len(p.adapters) \/ i > Len(p.adapters)
    BY <1>1
  <1> QED
    BY <1>1, <1>2 DEF AllLive, Extends

\* Neither initialize, while the token is good, nor unsubscribe_all makes a dead connection.
LEMMA LiveInitialized ==
    ASSUME NEW p, PoolOK(p), NEW ok \in BOOLEAN, AllLive(p)
    PROVE  /\ AllLive(Initialize(p, ok, TRUE).pool)
           /\ AllLive(UnsubscribeAll(p))
  <1>1. p \in Pool
    BY DEF PoolOK
  <1>2. AllLive(Initialize(p, ok, TRUE).pool)
    BY <1>1, InitializeDoes, InitializeOK, LiveExtends DEF PoolOK
  <1> DEFINE q == UnsubscribeAll(p)
  <1>3. /\ q \in Pool /\ Len(q.adapters) = Len(p.adapters)
        /\ \A j \in 1..Len(p.adapters) : q.adapters[j].live = p.adapters[j].live
    BY <1>1, AllConnectionsDo, UnsubscribeAllOK DEF PoolOK
  <1> HIDE DEF q
  <1>4. DOMAIN q.adapters = 1..Len(p.adapters) /\ DOMAIN p.adapters = 1..Len(p.adapters)
    BY <1>1, <1>3 DEF Pool
  <1>5. AllLive(q)
    BY <1>3, <1>4 DEF AllLive
  <1> QED
    BY <1>2, <1>5 DEF q

\* Nor does a subscription, while the token is good, or an unsubscription.
LEMMA LiveKept ==
    ASSUME NEW p, PoolOK(p), NEW k \in Keys, NEW ok \in BOOLEAN, NEW a \in Answers, AllLive(p)
    PROVE  /\ AllLive(Subscribe(p, k, ok, TRUE).pool)
           /\ AllLive(Unsubscribe(p, k, a).pool)
  <1>1. p \in Pool
    BY DEF PoolOK
  <1>2. AllLive(Subscribe(p, k, ok, TRUE).pool)
    BY <1>1, SubscribeDoes, SubscribeOK, LiveExtends DEF PoolOK
  <1> DEFINE q == Unsubscribe(p, k, a).pool
  <1>3. Drops(p, q, k) /\ q \in Pool
    BY UnsubscribeDoes, UnsubscribeOK DEF PoolOK
  <1> HIDE DEF q
  <1>4. DOMAIN q.adapters = 1..Len(p.adapters) /\ DOMAIN p.adapters = 1..Len(p.adapters)
    BY <1>1, <1>3 DEF Drops, Pool
  <1>5. AllLive(q)
    BY <1>3, <1>4 DEF Drops, AllLive
  <1> QED
    BY <1>2, <1>5 DEF q

\* A bare pool is left bare when it is initialized, with force or without.
LEMMA InitializeBare ==
    ASSUME NEW p, PoolOK(p), Bare(p), ~p.initialized, NEW ok \in BOOLEAN, NEW good \in BOOLEAN
    PROVE  Bare(Initialize(p, ok, good).pool)
  <1> DEFINE r == Initialize(p, ok, good)
  <1>1. /\ r.pool.at = p.at /\ r.pool.connected = p.connected
        /\ \/ r.pool = p
           \/ r.pool.initialized /\ Len(r.pool.adapters) = Len(p.adapters) + 1
    BY InitializeDoes
  <1>2. Len(p.adapters) = 0
    BY DEF Bare
  <1> HIDE DEF r
  <1>3. Bare(r.pool)
    BY <1>1, <1>2 DEF Bare
  <1> QED
    BY <1>3 DEF r

\* What initialize(force=True) starts from.
LEMMA ClearedBare ==
    ASSUME NEW p, PoolOK(p)
    PROVE  /\ Bare(p) => Bare(Cleared(p)) /\ ~Cleared(p).initialized
           /\ AllLive(p) => AllLive(Cleared(p))
           /\ \A k \in Keys : Cleared(p).at[k] = 0 \/ Cleared(p).at[k] = p.at[k]
  <1>1. ~EmptyPool.initialized /\ \A k \in Keys : EmptyPool.at[k] = 0
    BY DEF EmptyPool
  <1>2. p.initialized \in BOOLEAN
    BY DEF PoolOK, Pool
  <1> QED
    BY <1>1, <1>2, EmptyBare DEF Cleared

\* connect, on a bare pool: when it succeeds no connection is dead, and when it does not
\* the pool is still bare.
LEMMA ConnectBare ==
    ASSUME NEW p, PoolOK(p), Bare(p)
    PROVE  LET r == Connect(p) IN
           /\ \A k \in Keys : r.pool.at[k] = 0
           /\ r.status = "success" => AllLive(r.pool)
           /\ r.status # "success" => Bare(r.pool)
           /\ AllLive(p) => AllLive(r.pool)
           /\ r.status = "auth" => p.initialized
  <1> DEFINE r == Connect(p)
  <1>1. p \in Pool
    BY DEF PoolOK
  <1>2. /\ r.pool.at = p.at /\ r.pool.adapters = p.adapters
        /\ r.status = "auth" => p.initialized
        /\ \/ /\ r.status = "success"
              /\ p.connected \/ (p.adapters # <<>> /\ p.adapters[1].live)
           \/ r.status # "success" /\ r.pool = p
    BY <1>1, ConnectDoes
  <1> HIDE DEF r
  <1>3. ASSUME r.status = "success"
        PROVE  AllLive(r.pool)
    <2>1. p.adapters \in Seq(Adapter) /\ p.adapters # <<>> /\ p.adapters[1].live
      BY <1>1, <1>2, <1>3 DEF Bare, Pool
    <2>2. Len(p.adapters) = 1 /\ DOMAIN p.adapters = 1..1
      BY <2>1 DEF Bare
    <2> QED
      BY <1>2, <2>1, <2>2 DEF AllLive
  <1> QED
    BY <1>2, <1>3 DEF Bare, AllLive, r

\* connect with its recovery, on a bare pool.
LEMMA ConnectedBare ==
    ASSUME NEW p, PoolOK(p), Bare(p), NEW ok \in BOOLEAN, token \in BOOLEAN
    PROVE  LET r == Connected(p, ok) IN
           /\ \A k \in Keys : r.pool.at[k] = 0
           /\ r.status = "success" => AllLive(r.pool)
           /\ r.status # "success" => Bare(r.pool)
           /\ token /\ AllLive(p) => AllLive(r.pool)
  <1> DEFINE r == Connected(p, ok)
             first == Connect(p)
             fresh == Initialize(Cleared(p), ok, token)
             again == Connect(fresh.pool)
  <1>1. /\ \A k \in Keys : first.pool.at[k] = 0
        /\ first.status = "success" => AllLive(first.pool)
        /\ first.status # "success" => Bare(first.pool)
        /\ AllLive(p) => AllLive(first.pool)
    BY ConnectBare
  <1>2. PoolOK(fresh.pool) /\ Bare(fresh.pool)
    BY ClearedOK, ClearedBare, InitializeOK, InitializeBare
  <1>3. /\ \A k \in Keys : again.pool.at[k] = 0
        /\ again.status = "success" => AllLive(again.pool)
    BY <1>2, ConnectBare
  <1>4. token /\ AllLive(p) => AllLive(fresh.pool)
    <2>1. ASSUME AllLive(p), token
          PROVE  AllLive(fresh.pool)
      <3>1. PoolOK(Cleared(p)) /\ AllLive(Cleared(p)) /\ token = TRUE
        BY <2>1, ClearedOK, ClearedBare
      <3> QED
        BY <3>1, LiveInitialized
    <2> QED
      BY <2>1
  <1>5. r = IF first.status # "auth" THEN first
            ELSE IF fresh.status = "success" /\ again.status = "success" THEN again
            ELSE Result(fresh.pool, "auth")
    BY DEF Connected
  <1> HIDE DEF r, first, fresh, again
  <1>6. \/ r = first
        \/ r = again /\ again.status = "success"
        \/ r.pool = fresh.pool /\ r.status = "auth"
    BY <1>5 DEF Result
  <1>7. \A k \in Keys : fresh.pool.at[k] = 0
    BY <1>2 DEF Bare
  <1> QED
    BY <1>1, <1>2, <1>3, <1>4, <1>6, <1>7 DEF r

\* What a client taken off a key does to the pool and to the histories: nothing, or the pool
\* is asked to stop the key of which the client was the last.
LEMMA TakenOffDoes ==
    ASSUME NEW c, NEW k, NEW asks, TakenOff(c, k, asks)
    PROVE  /\ PoolIs(pool', index', {}, refused')
           /\ \/ ~(index[k] = {c} /\ asks) /\ pool' = pool /\ refused' = refused
              \/ /\ index[k] = {c} /\ asks
                 /\ \E a \in Answers :
                       LET r == Unsubscribe(pool, k, a)
                           failed == r.status = "error" /\ pool.at[k] # 0
                       IN /\ pool' = r.pool
                          /\ refused' = IF failed THEN refused \cup {k} ELSE refused \ {k}
  <1>1. CASE ~(index[k] = {c} /\ asks)
    BY <1>1 DEF TakenOff, PoolIs
  <1>2. CASE index[k] = {c} /\ asks
    <2> DEFINE idx == [index EXCEPT ![k] = @ \ {c}]
    <2>1. PICK a \in AgreesTo :
             LET r == Unsubscribe(pool, k, a)
                 failed == r.status = "error" /\ pool.at[k] # 0
             IN PoolIs(r.pool, idx, {}, IF failed THEN refused \cup {k} ELSE refused \ {k})
      BY <1>2 DEF TakenOff
    <2> DEFINE r == Unsubscribe(pool, k, a)
               failed == r.status = "error" /\ pool.at[k] # 0
               stuck == IF failed THEN refused \cup {k} ELSE refused \ {k}
    <2>2. PoolIs(r.pool, idx, {}, stuck) /\ a \in Answers
      BY <2>1, AnswerTypes
    <2>3. stuck = IF failed THEN refused \cup {k} ELSE refused \ {k}
      OBVIOUS
    <2> HIDE DEF idx, stuck
    <2>4. pool' = r.pool /\ refused' = stuck /\ PoolIs(pool', index', {}, refused')
      BY <2>2 DEF PoolIs
    <2> QED
      BY <1>2, <2>2, <2>3, <2>4
  <1> QED
    BY <1>1, <1>2

\* Every step keeps what the handlers take of who holds the pool.
LEMMA HeldStep ==
    ASSUME Inv, HeldOK, Next
    PROVE  HeldOK'
  <1> DEFINE Users == {"initialize", "connect", "force", "reconnect"}
             Holders == {"snapshot", "rebuild", "restart", "restore", "unsubscribe_all"}
  <1>1. /\ loop \in Loop /\ keeps' = keeps
        /\ \A step : Goes(step).step = step /\ Goes(step).client = loop.client
    BY DEF Inv, TypeOK, Loop, Goes, Next, Handlers, ClientConnects, Authenticate,
           UnsubscribeAllClient, Disconnects, SubscribeClient, UnsubscribeClient, Initializes,
           Connects, ForcesInitialize, Snapshots, Rebuilds, Restarts, Retries, UnsubscribesLast,
           LeavesLast, CacheInvalidation, Restores, UnsubscribesNext, LeavesKey, TokenEnds,
           CleanupPools, UpsertAuth
  <1>2. ASSUME held' = held \/ held' = FALSE, authed \subseteq authed',
               loop'.step \notin Users \cup Holders
        PROVE  HeldOK'
    BY <1>1, <1>2 DEF HeldOK
  <1>3. ASSUME held' = held, authed \subseteq authed', loop' = loop
        PROVE  HeldOK'
    BY <1>1, <1>3 DEF HeldOK
  <1>4. ASSUME held, held' = held, authed \subseteq authed', loop'.step \in Holders
        PROVE  HeldOK'
    BY <1>1, <1>4 DEF HeldOK
  <1>5. CASE \E c \in Clients : ClientConnects(c)
    BY <1>3, <1>5 DEF ClientConnects
  <1>6. ASSUME NEW c \in Clients, Authenticate(c)
        PROVE  HeldOK'
    <2>1. /\ held' = held /\ authed' = authed \cup {c} /\ At("free")
          /\ loop' = IF held THEN loop ELSE [Idle EXCEPT !.step = "initialize", !.client = c]
      BY <1>6 DEF Authenticate
    <2>2. CASE held
      BY <1>3, <2>1, <2>2
    <2>3. CASE ~held
      <3>1. loop'.step = "initialize" /\ loop'.client = c
        BY <2>1, <2>3 DEF Idle
      <3> QED
        BY <1>1, <2>1, <2>3, <3>1 DEF HeldOK
    <2> QED
      BY <2>2, <2>3
  <1>7. CASE \E c \in Clients : UnsubscribeAllClient(c)
    BY <1>4, <1>7 DEF UnsubscribeAllClient
  <1>8. CASE \E c \in Clients : Disconnects(c)
    BY <1>2, <1>8 DEF Disconnects
  <1>9. ASSUME NEW c \in Clients, NEW k \in Keys, SubscribeClient(c, k)
        PROVE  HeldOK'
    <2>1. /\ held /\ held' = held /\ authed' = authed
          /\ \/ loop' = [step |-> "snapshot", client |-> c, key |-> k, todo |-> {}]
             \/ loop' = loop
      BY <1>9 DEF SubscribeClient
    <2> QED
      BY <1>3, <1>4, <2>1
  <1>10. CASE \E c \in Clients, k \in Keys : UnsubscribeClient(c, k)
    BY <1>3, <1>10 DEF UnsubscribeClient
  <1>11. CASE Initializes
    <2>1. /\ held' = held /\ authed' = authed /\ loop' = Goes("connect") /\ At("initialize")
      BY <1>11 DEF Initializes
    <2> QED
      BY <1>1, <2>1 DEF HeldOK, At
  <1>12. CASE Connects
    <2>1. PICK ok \in Agrees :
             LET r == Connected(pool, ok) IN
             /\ held' = (r.status = "success")
             /\ loop' = IF r.status = "auth" /\ At("connect") THEN Goes("force") ELSE Idle
      BY <1>12 DEF Connects
    <2>2. authed' = authed /\ loop.step \in {"connect", "reconnect"}
      BY <1>12 DEF Connects
    <2>3. loop.client \in authed
      BY <2>2 DEF HeldOK
    <2>4. CASE loop' = Idle
      BY <1>1, <2>2, <2>3, <2>4 DEF HeldOK, Idle
    <2>5. CASE loop' = Goes("force") /\ held' = FALSE
      BY <1>1, <2>2, <2>3, <2>5 DEF HeldOK
    <2> QED
      BY <2>1, <2>4, <2>5
  <1>13. CASE ForcesInitialize
    <2>1. /\ held' = held /\ authed' = authed /\ At("force")
          /\ loop' = Goes("reconnect") \/ loop' = Idle
      BY <1>13 DEF ForcesInitialize
    <2>2. loop.client \in authed /\ ~held
      BY <2>1 DEF HeldOK, At
    <2>3. CASE loop' = Goes("reconnect")
      BY <1>1, <2>1, <2>2, <2>3 DEF HeldOK
    <2>4. CASE loop' = Idle
      BY <1>2, <2>1, <2>4 DEF Idle
    <2> QED
      BY <2>1, <2>3, <2>4
  <1>14. CASE Snapshots
    <2>1. held' = held /\ authed' = authed /\ held /\ loop'.step = "rebuild"
      BY <1>1, <1>14 DEF Snapshots, At, HeldOK, Loop
    <2> QED
      BY <1>4, <2>1
  <1>15. CASE Rebuilds \/ Restarts
    <2>1. held' = held /\ authed' = authed /\ held
      BY <1>15 DEF Rebuilds, Restarts, At, HeldOK
    <2>2. loop' = Idle \/ loop' = Goes("restart") \/ loop' = Goes("restore")
      BY <1>15 DEF Rebuilds, Restarts
    <2>3. CASE loop' = Idle
      BY <1>2, <2>1, <2>3 DEF Idle
    <2>4. CASE loop' # Idle
      <3>1. loop'.step \in Holders
        BY <1>1, <2>2, <2>4
      <3> QED
        BY <1>4, <2>1, <3>1
    <2> QED
      BY <2>3, <2>4
  <1>16. CASE \E k \in Keys : Restores(k)
    <2>1. held' = held /\ authed' = authed /\ held /\ loop'.step = "restore"
      BY <1>1, <1>16 DEF Restores, At, HeldOK, Loop
    <2> QED
      BY <1>4, <2>1
  <1>17. CASE Retries \/ UnsubscribesLast
    <2>1. held' = held /\ authed' = authed /\ loop'.step = "free"
      BY <1>17 DEF Retries, UnsubscribesLast, Idle
    <2> QED
      BY <1>2, <2>1
  <1>18. CASE \E k \in Keys : UnsubscribesNext(k)
    <2>1. held' = held /\ authed' = authed /\ held /\ loop'.step = "unsubscribe_all"
      BY <1>1, <1>18 DEF UnsubscribesNext, At, HeldOK, Loop
    <2> QED
      BY <1>4, <2>1
  <1>19. CASE \E k \in Keys : LeavesKey(k)
    <2>1. held' = held /\ authed' = authed /\ loop'.step = "leave"
      BY <1>1, <1>19 DEF LeavesKey, At, Loop
    <2> QED
      BY <1>2, <2>1
  <1>20. CASE LeavesLast
    <2>1. authed' = authed \ {loop.client} /\ loop'.step = "free"
      BY <1>20 DEF LeavesLast, Idle
    <2>2. CASE authed = {loop.client} /\ held
      <3>1. keeps \/ held' = FALSE
        BY <1>20, <2>2 DEF LeavesLast, LastOfUser
      <3> QED
        BY <1>1, <2>1, <3>1 DEF HeldOK
    <2>3. CASE ~(authed = {loop.client} /\ held)
      <3>1. held' = held
        BY <1>20, <2>3 DEF LeavesLast, LastOfUser
      <3>2. held /\ ~keeps => authed' # {}
        BY <2>1, <2>3 DEF HeldOK
      <3> QED
        BY <1>1, <2>1, <3>1, <3>2 DEF HeldOK
    <2> QED
      BY <2>2, <2>3
  <1>21. CASE CacheInvalidation
    <2>1. /\ authed' = authed /\ loop' = loop /\ loop.step = "free"
          /\ held' = held \/ held' = FALSE
      BY <1>21 DEF CacheInvalidation, At
    <2> QED
      BY <1>2, <2>1
  <1>22. CASE TokenEnds \/ CleanupPools \/ \E login \in BOOLEAN : UpsertAuth(login)
    BY <1>3, <1>22 DEF TokenEnds, CleanupPools, UpsertAuth
  <1> QED
    BY <1>5, <1>6, <1>7, <1>8, <1>9, <1>10, <1>11, <1>12, <1>13, <1>14, <1>15, <1>16, <1>17,
       <1>18, <1>19, <1>20, <1>21, <1>22 DEF Next, Handlers

\* Every step leaves a pool that is not held bare.
LEMMA BareStep ==
    ASSUME Inv, HeldOK, BareOK, Next
    PROVE  BareOK'
  <1> USE DEF Inv
  <1>1. token \in BOOLEAN /\ pool \in Pool
    BY DEF TypeOK
  <1>2. ASSUME held' = held, pool' = pool
        PROVE  BareOK'
    BY <1>2 DEF BareOK
  <1>3. ASSUME held, held' = held
        PROVE  BareOK'
    BY <1>3 DEF BareOK
  <1>4. ASSUME Bare(pool')
        PROVE  BareOK'
    BY <1>4 DEF BareOK
  <1>5. CASE \E c \in Clients : \/ ClientConnects(c) \/ Authenticate(c) \/ UnsubscribeAllClient(c)
                                \/ Disconnects(c)
    BY <1>2, <1>5 DEF ClientConnects, Authenticate, UnsubscribeAllClient, Disconnects
  <1>6. CASE \E c \in Clients, k \in Keys : SubscribeClient(c, k) \/ UnsubscribeClient(c, k)
    BY <1>3, <1>6 DEF SubscribeClient, UnsubscribeClient
  <1>7. CASE Initializes
    <2> DEFINE p == IF registered THEN pool ELSE EmptyPool
    <2>1. Bare(p) /\ PoolOK(p)
      <3>1. ~held
        BY <1>7 DEF Initializes, At, HeldOK
      <3> QED
        BY <3>1, EmptyBare, EmptyPoolOK DEF BareOK
    <2> HIDE DEF p
    <2>2. PICK ok \in Agrees :
             pool' = IF p.initialized THEN p ELSE Initialize(p, ok, token).pool
      BY <1>7 DEF Initializes, PoolIs, p
    <2> QED
      BY <1>1, <1>4, <2>1, <2>2, AnswerTypes, InitializeBare
  <1>8. CASE Connects
    <2>1. PICK ok \in Agrees :
             /\ pool' = Connected(pool, ok).pool
             /\ held' = (Connected(pool, ok).status = "success")
      BY <1>8 DEF Connects, PoolIs
    <2>2. Bare(pool)
      BY <1>8 DEF Connects, HeldOK, BareOK
    <2> QED
      BY <1>1, <2>1, <2>2, AnswerTypes, ConnectedBare DEF BareOK
  <1>9. CASE ForcesInitialize
    <2>1. PICK ok \in Agrees : pool' = Initialize(Cleared(pool), ok, token).pool
      BY <1>9 DEF ForcesInitialize, PoolIs
    <2>2. Bare(pool)
      BY <1>9 DEF ForcesInitialize, At, HeldOK, BareOK
    <2>3. Bare(Cleared(pool)) /\ ~Cleared(pool).initialized /\ PoolOK(Cleared(pool))
      BY <2>2, ClearedBare, ClearedOK
    <2> QED
      BY <1>1, <1>4, <2>1, <2>3, AnswerTypes, InitializeBare
  <1>10. CASE Snapshots \/ UnsubscribesLast
    BY <1>2, <1>10 DEF Snapshots, UnsubscribesLast
  <1>11. CASE Rebuilds \/ Restarts \/ Retries \/ \E k \in Keys : Restores(k) \/ UnsubscribesNext(k)
    <2>1. held /\ held' = held
      BY <1>11 DEF Rebuilds, Restarts, Retries, Restores, UnsubscribesNext, At, HeldOK
    <2> QED
      BY <1>3, <2>1
  <1>12. ASSUME NEW k \in Keys, LeavesKey(k)
         PROVE  BareOK'
    <2>1. TakenOff(loop.client, k, loop.client \in authed /\ held) /\ held' = held
      BY <1>12 DEF LeavesKey
    <2>2. ~held => pool' = pool
      BY <2>1 DEF TakenOff, PoolIs
    <2> QED
      BY <1>2, <1>3, <2>1, <2>2 DEF BareOK
  <1>13. CASE LeavesLast
    <2>1. \/ held /\ held' = held
          \/ pool' = EmptyPool
          \/ held' = held /\ pool' = pool
      BY <1>13 DEF LeavesLast, TornDown, PoolIs, Disconnect
    <2> QED
      BY <1>2, <1>3, <1>4, <2>1, EmptyBare
  <1>14. CASE CacheInvalidation \/ CleanupPools
    <2>1. \/ pool' = EmptyPool
          \/ held' = held /\ pool' = pool
      BY <1>14 DEF CacheInvalidation, CleanupPools, TornDown, PoolIs, Disconnect
    <2> QED
      BY <1>2, <1>4, <2>1, EmptyBare
  <1>15. CASE TokenEnds
    <2>1. pool' = Dead(pool) /\ held' = held
      BY <1>15 DEF TokenEnds, PoolIs
    <2>2. Bare(pool) => Bare(Dead(pool))
      BY <1>1, AllConnectionsDo DEF Bare
    <2> QED
      BY <2>1, <2>2 DEF BareOK
  <1>16. CASE \E login \in BOOLEAN : UpsertAuth(login)
    BY <1>2, <1>16 DEF UpsertAuth
  <1> QED
    BY <1>5, <1>6, <1>7, <1>8, <1>9, <1>10, <1>11, <1>12, <1>13, <1>14, <1>15, <1>16
       DEF Next, Handlers

\* Every step keeps a connection made with an ended token from being in use once the login
\* is through.
LEMMA FreshStep ==
    ASSUME Inv, HeldOK, BareOK, FreshOK, Next
    PROVE  FreshOK'
  <1> USE DEF Inv
  <1>1. token \in BOOLEAN /\ pool \in Pool /\ invalid \in Nat
    BY ProxyAssumption DEF TypeOK
  <1>2. ASSUME UNCHANGED <<token, invalid, cleaning>>, held' => held, registered' => registered,
               token /\ AllLive(pool) => AllLive(pool')
        PROVE  FreshOK'
    BY <1>2 DEF FreshOK
  <1>3. ASSUME token' => AllLive(pool')
        PROVE  FreshOK'
    BY <1>3 DEF FreshOK
  <1>4. CASE \E c \in Clients : \/ ClientConnects(c) \/ Authenticate(c) \/ UnsubscribeAllClient(c)
                                \/ Disconnects(c)
    BY <1>2, <1>4 DEF ClientConnects, Authenticate, UnsubscribeAllClient, Disconnects, web
  <1>5. ASSUME NEW k \in Keys, NEW ok \in BOOLEAN, pool' = Subscribe(pool, k, ok, token).pool
        PROVE  token /\ AllLive(pool) => AllLive(pool')
    <2>1. token = TRUE \/ token = FALSE
      BY <1>1
    <2>2. Accepted \in Answers
      BY DEF Accepted, Answers
    <2> QED
      BY <1>5, <2>1, <2>2, LiveKept
  <1>6. ASSUME NEW k \in Keys, NEW c, NEW asks, TakenOff(c, k, asks)
        PROVE  token /\ AllLive(pool) => AllLive(pool')
    <2>1. pool' = pool \/ \E a \in Answers : pool' = Unsubscribe(pool, k, a).pool
      BY <1>6, TakenOffDoes
    <2> QED
      BY <2>1, LiveKept
  <1>7. ASSUME NEW p, PoolOK(p), NEW ok \in BOOLEAN
        PROVE  token /\ AllLive(p) => AllLive(Initialize(p, ok, token).pool)
    <2>1. token = TRUE \/ token = FALSE
      BY <1>1
    <2> QED
      BY <1>7, <2>1, LiveInitialized
  <1>8. ASSUME NEW c \in Clients, NEW k \in Keys, SubscribeClient(c, k)
        PROVE  FreshOK'
    <2>1. PICK ok \in Agrees : pool' = Subscribe(pool, k, ok, token).pool
      BY <1>8 DEF SubscribeClient, Subscribed, PoolIs
    <2>2. UNCHANGED <<token, invalid, cleaning, held, registered>>
      BY <1>8 DEF SubscribeClient, web
    <2> QED
      BY <1>2, <1>5, <2>1, <2>2, AnswerTypes
  <1>9. ASSUME NEW c \in Clients, NEW k \in Keys, UnsubscribeClient(c, k)
        PROVE  FreshOK'
    <2>1. /\ UNCHANGED <<token, invalid, cleaning, held, registered>>
          /\ TakenOff(c, k, TRUE)
      BY <1>9 DEF UnsubscribeClient, web
    <2> QED
      BY <1>2, <1>6, <2>1
  <1>10. CASE Initializes
    <2> DEFINE p == IF registered THEN pool ELSE EmptyPool
    <2>1. PoolOK(p) /\ ((registered /\ p = pool) \/ AllLive(p))
      BY EmptyPoolOK, EmptyBare
    <2> HIDE DEF p
    <2>2. PICK ok \in Agrees :
             pool' = IF p.initialized THEN p ELSE Initialize(p, ok, token).pool
      BY <1>10 DEF Initializes, PoolIs, p
    <2>3. token /\ AllLive(p) => AllLive(pool')
      BY <1>7, <2>1, <2>2, AnswerTypes
    <2>4. UNCHANGED <<token, invalid, cleaning, held>> /\ ~held
      BY <1>10 DEF Initializes, web, At, HeldOK
    <2> QED
      BY <2>1, <2>3, <2>4 DEF FreshOK
  <1>11. CASE Connects
    <2>1. PICK ok \in Agrees :
             /\ pool' = Connected(pool, ok).pool
             /\ held' = (Connected(pool, ok).status = "success")
      BY <1>11 DEF Connects, PoolIs
    <2>2. Bare(pool) /\ ok \in BOOLEAN
      BY <1>11, AnswerTypes DEF Connects, HeldOK, BareOK
    <2>3. /\ held' => AllLive(pool')
          /\ token /\ AllLive(pool) => AllLive(pool')
      BY <1>1, <2>1, <2>2, ConnectedBare
    <2>4. UNCHANGED <<token, invalid, cleaning, registered>>
      BY <1>11 DEF Connects, web
    <2> QED
      BY <2>3, <2>4 DEF FreshOK
  <1>12. CASE ForcesInitialize \/ Rebuilds
    <2>1. PICK ok \in Agrees : pool' = Initialize(Cleared(pool), ok, token).pool
      BY <1>12 DEF ForcesInitialize, Rebuilds, PoolIs
    <2>2. PoolOK(Cleared(pool)) /\ (AllLive(pool) => AllLive(Cleared(pool)))
      BY ClearedOK, ClearedBare
    <2>3. UNCHANGED <<token, invalid, cleaning, held, registered>>
      BY <1>12 DEF ForcesInitialize, Rebuilds, web
    <2> QED
      BY <1>2, <1>7, <2>1, <2>2, <2>3, AnswerTypes
  <1>13. CASE Snapshots \/ UnsubscribesLast
    BY <1>2, <1>13 DEF Snapshots, UnsubscribesLast, web
  <1>14. CASE Restarts
    <2>1. UNCHANGED <<token, invalid, cleaning, held, registered>>
      BY <1>14 DEF Restarts, web
    <2>2. pool' = pool \/ pool' = [pool EXCEPT !.connected = TRUE]
      BY <1>14 DEF Restarts, PoolIs
    <2>3. pool'.adapters = pool.adapters
      BY <1>1, <2>2 DEF Pool
    <2> QED
      BY <1>2, <2>1, <2>3 DEF AllLive
  <1>15. ASSUME NEW k \in Keys, Restores(k)
         PROVE  FreshOK'
    <2>1. PICK ok \in Agrees : pool' = Subscribe(pool, k, ok, token).pool
      BY <1>15 DEF Restores, PoolIs
    <2>2. UNCHANGED <<token, invalid, cleaning, held, registered>>
      BY <1>15 DEF Restores, web
    <2> QED
      BY <1>2, <1>5, <2>1, <2>2, AnswerTypes
  <1>16. CASE Retries
    <2>1. PICK ok \in Agrees : pool' = Subscribe(pool, loop.key, ok, token).pool
      BY <1>16 DEF Retries, Subscribed, PoolIs
    <2>2. loop.key \in Keys
      BY <1>16 DEF Retries, At, LoopOK
    <2>3. UNCHANGED <<token, invalid, cleaning, held, registered>>
      BY <1>16 DEF Retries, web
    <2> QED
      BY <1>2, <1>5, <2>1, <2>2, <2>3, AnswerTypes
  <1>17. ASSUME NEW k \in Keys, UnsubscribesNext(k) \/ LeavesKey(k)
         PROVE  FreshOK'
    <2>1. UNCHANGED <<token, invalid, cleaning, held, registered>>
      BY <1>17 DEF UnsubscribesNext, LeavesKey, web
    <2>2. PICK asks : TakenOff(loop.client, k, asks)
      BY <1>17 DEF UnsubscribesNext, LeavesKey
    <2> QED
      BY <1>2, <1>6, <2>1, <2>2
  <1>18. CASE LeavesLast
    <2>1. UNCHANGED <<token, invalid, cleaning>>
      BY <1>18 DEF LeavesLast, web
    <2>2. \/ pool' = EmptyPool
          \/ /\ pool' = UnsubscribeAll(pool) \/ pool' = pool
             /\ held' = held /\ registered' = registered
      BY <1>18 DEF LeavesLast, TornDown, PoolIs, Disconnect
    <2>3. AllLive(pool) => AllLive(UnsubscribeAll(pool))
      BY LiveInitialized
    <2> QED
      BY <1>2, <1>3, <2>1, <2>2, <2>3, EmptyBare
  <1>19. CASE TokenEnds
    BY <1>3, <1>19 DEF TokenEnds
  <1>20. ASSUME NEW login \in BOOLEAN, UpsertAuth(login)
         PROVE  FreshOK'
    <2>1. token' = login /\ cleaning' = login /\ invalid' = invalid + 1
      BY <1>20 DEF UpsertAuth
    <2>2. invalid + 1 > 0
      BY <1>1
    <2> QED
      BY <2>1, <2>2 DEF FreshOK
  <1>21. CASE CleanupPools
    <2>1. /\ UNCHANGED <<token, invalid, held>> /\ registered' = FALSE
          /\ pool' = EmptyPool \/ pool' = pool
      BY <1>21 DEF CleanupPools, TornDown, PoolIs, Disconnect
    <2> QED
      BY <1>3, <2>1, EmptyBare DEF FreshOK
  <1>22. CASE CacheInvalidation
    <2>1. /\ UNCHANGED <<token, cleaning>>
          /\ \/ pool' = EmptyPool
             \/ pool' = pool /\ ~held /\ held' = held /\ registered' = registered
      BY <1>22 DEF CacheInvalidation, TornDown, PoolIs, Disconnect
    <2> QED
      BY <1>3, <2>1, EmptyBare DEF FreshOK
  <1> QED
    BY <1>4, <1>8, <1>9, <1>10, <1>11, <1>12, <1>13, <1>14, <1>15, <1>16, <1>17, <1>18,
       <1>19, <1>20, <1>21, <1>22 DEF Next, Handlers

\* Which keys a subscription of k puts on the books.
LEMMA KeysPut ==
    ASSUME NEW p, PoolOK(p), NEW k \in Keys, NEW ok \in BOOLEAN, NEW good \in BOOLEAN
    PROVE  LET r == Subscribe(p, k, ok, good) IN
           /\ \A l \in Keys : l # k => r.pool.at[l] = p.at[l]
           /\ p.at[k] # 0 => r.pool.at[k] # 0
           /\ r.status = "success" => r.pool.at[k] # 0
           /\ r.status # "success" => r.pool.at = p.at
  <1> DEFINE r == Subscribe(p, k, ok, good)
  <1>1. p.at \in [Keys -> Nat]
    BY DEF PoolOK, Pool
  <1>2. \/ r.pool.at = p.at /\ (r.status = "success" => p.at[k] # 0)
        \/ r.status = "success" /\ \E i \in Nat : Placed(p, r.pool, k, i)
    BY SubscribeDoes
  <1> HIDE DEF r
  <1> QED
    BY <1>1, <1>2 DEF Placed, r

\* Which keys an unsubscription of k takes off them.
LEMMA KeysTaken ==
    ASSUME NEW p, PoolOK(p), NEW k \in Keys, NEW a \in Answers
    PROVE  LET r == Unsubscribe(p, k, a) IN
           /\ \A l \in Keys : l # k => r.pool.at[l] = p.at[l]
           /\ r.pool.at[k] = 0 \/ (r.status = "error" /\ p.at[k] # 0)
  <1> DEFINE r == Unsubscribe(p, k, a)
  <1>1. p.at \in [Keys -> Nat]
    BY DEF PoolOK, Pool
  <1>2. \/ p.at[k] = 0 /\ r.pool = p
        \/ p.at[k] # 0 /\ r.status = "error" /\ Stuck(p, r.pool, k)
        \/ p.at[k] # 0 /\ r.status = "success" /\ Taken(p, r.pool, k)
    BY UnsubscribeDoes
  <1> HIDE DEF r
  <1> QED
    BY <1>1, <1>2 DEF Stuck, Taken, r

\* Whatever is on the books afterwards was on them before, and what was refused or wanted is.
LEMMA WantedKept ==
    ASSUME WantedOK, index' = index, refused \subseteq refused', loop'.step # "leave",
           \A k \in Keys : pool'.at[k] # 0 => pool.at[k] # 0,
           \/ loop'.step \notin {"rebuild", "restart", "restore"}
           \/ /\ loop.step \in {"rebuild", "restart", "restore"}
              /\ loop'.todo \subseteq loop.todo
    PROVE  WantedOK'
  BY DEF WantedOK

\* A key asked for is wanted by the client that asked when it is on the books.
LEMMA WantedSubscribed ==
    ASSUME Inv, WantedOK, NEW c \in Clients, NEW k \in Keys, NEW ok \in BOOLEAN,
           Subscribed(c, k, Subscribe(pool, k, ok, token)),
           loop'.step \notin {"rebuild", "restart", "restore", "leave"}
    PROVE  WantedOK'
  <1> DEFINE r == Subscribe(pool, k, ok, token)
  <1>1. /\ PoolOK(pool) /\ token \in BOOLEAN /\ index \in [Keys -> SUBSET Clients]
    BY DEF Inv, TypeOK
  <1>2. /\ pool' = r.pool /\ refused' = refused
        /\ r.status = "success" => index' = [index EXCEPT ![k] = @ \cup {c}]
        /\ r.status # "success" => index' = index
    BY DEF Subscribed, PoolIs, Granted
  <1>3. /\ \A l \in Keys : l # k => r.pool.at[l] = pool.at[l]
        /\ r.status # "success" => r.pool.at = pool.at
    BY <1>1, KeysPut
  <1> HIDE DEF r
  <1>4. ASSUME NEW l \in Keys, pool'.at[l] # 0
        PROVE  l \in refused' \/ index'[l] # {}
    <2>1. CASE pool.at[l] # 0
      BY <1>1, <1>2, <2>1 DEF WantedOK
    <2>2. CASE pool.at[l] = 0
      BY <1>1, <1>2, <1>3, <1>4, <2>2
    <2> QED
      BY <2>1, <2>2
  <1> QED
    BY <1>4 DEF WantedOK

\* A key that nobody wants any more is off the books, or refused.
LEMMA WantedTakenOff ==
    ASSUME Inv, BareOK, WantedOK, NEW c \in Clients, NEW k \in Keys, NEW asks,
           TakenOff(c, k, asks), c \in index[k] /\ held => asks,
           loop'.step \notin {"rebuild", "restart", "restore"},
           loop'.step = "leave" => loop'.todo \subseteq subs'[loop'.client]
    PROVE  WantedOK'
  <1>1. /\ PoolOK(pool) /\ index \in [Keys -> SUBSET Clients]
    BY DEF Inv, TypeOK
  <1>2. index' = [index EXCEPT ![k] = @ \ {c}]
    BY TakenOffIndex
  <1>3. \/ ~(index[k] = {c} /\ asks) /\ pool' = pool /\ refused' = refused
        \/ /\ index[k] = {c} /\ asks
           /\ \E a \in Answers :
                 LET r == Unsubscribe(pool, k, a)
                     failed == r.status = "error" /\ pool.at[k] # 0
                 IN /\ pool' = r.pool
                    /\ refused' = IF failed THEN refused \cup {k} ELSE refused \ {k}
    BY TakenOffDoes
  <1>4. ASSUME NEW l \in Keys, pool'.at[l] # 0
        PROVE  l \in refused' \/ index'[l] # {}
    <2>1. CASE ~(index[k] = {c} /\ asks)
      <3>1. pool' = pool /\ refused' = refused
        BY <1>3, <2>1
      <3>2. l \in refused \/ index[l] # {}
        BY <1>4, <3>1 DEF WantedOK
      <3>3. CASE l # k
        BY <1>1, <1>2, <3>1, <3>2, <3>3
      <3>4. CASE l = k /\ index[k] # {c}
        BY <1>1, <1>2, <3>1, <3>2, <3>4
      <3>5. CASE l = k /\ index[k] = {c}
        <4>1. ~held
          BY <2>1, <3>5
        <4>2. pool.at[l] = 0
          BY <4>1 DEF BareOK, Bare
        <4> QED
          BY <1>4, <3>1, <4>2
      <3> QED
        BY <3>3, <3>4, <3>5
    <2>2. CASE index[k] = {c} /\ asks
      <3>1. PICK a \in Answers :
                 LET r == Unsubscribe(pool, k, a)
                     failed == r.status = "error" /\ pool.at[k] # 0
                 IN /\ pool' = r.pool
                    /\ refused' = IF failed THEN refused \cup {k} ELSE refused \ {k}
        BY <1>3, <2>2
      <3> DEFINE u == Unsubscribe(pool, k, a)
      <3>2. /\ \A m \in Keys : m # k => u.pool.at[m] = pool.at[m]
            /\ u.pool.at[k] = 0 \/ (u.status = "error" /\ pool.at[k] # 0)
        BY <1>1, KeysTaken
      <3>3. /\ pool' = u.pool
            /\ refused' = IF u.status = "error" /\ pool.at[k] # 0
                          THEN refused \cup {k} ELSE refused \ {k}
        BY <3>1
      <3> HIDE DEF u
      <3>4. CASE l = k
        BY <1>4, <3>2, <3>3, <3>4
      <3>5. CASE l # k
        <4>1. pool.at[l] # 0
          BY <1>4, <3>2, <3>3, <3>5
        <4>2. l \in refused \/ index[l] # {}
          BY <4>1 DEF WantedOK
        <4> QED
          BY <1>1, <1>2, <3>3, <3>5, <4>2
      <3> QED
        BY <3>4, <3>5
    <2> QED
      BY <2>1, <2>2
  <1> QED
    BY <1>4 DEF WantedOK

\* Every step keeps what is tracked wanted.
LEMMA WantedStep ==
    ASSUME Inv, HeldOK, BareOK, WantedOK, Next
    PROVE  WantedOK'
  <1> USE DEF Inv
  <1> DEFINE Recovering == {"rebuild", "restart", "restore"}
  <1>1. /\ token \in BOOLEAN /\ loop \in Loop /\ pool \in Pool
        /\ \A step : Goes(step).step = step /\ Goes(step).todo = loop.todo
        /\ subs \in [Clients -> SUBSET Keys]
    BY DEF TypeOK, Loop, Goes
  <1>2. ASSUME NEW c \in Clients, ClientConnects(c) \/ Authenticate(c) \/ UnsubscribeAllClient(c)
        PROVE  WantedOK'
    <2>1. index' = index /\ pool' = pool /\ refused' = refused /\ loop.step = "free"
      BY <1>2 DEF ClientConnects, Authenticate, UnsubscribeAllClient, At
    <2>2. loop'.step \in {"free", "initialize", "unsubscribe_all"}
      <3>1. CASE ClientConnects(c)
        BY <2>1, <3>1 DEF ClientConnects
      <3>2. CASE Authenticate(c)
        BY <2>1, <3>2 DEF Authenticate, Idle
      <3>3. CASE UnsubscribeAllClient(c)
        BY <3>3 DEF UnsubscribeAllClient
      <3> QED
        BY <1>2, <3>1, <3>2, <3>3
    <2> QED
      BY <2>1, <2>2, WantedKept
  <1>3. ASSUME NEW c \in Clients, Disconnects(c)
        PROVE  WantedOK'
    <2>1. /\ index' = index /\ pool' = pool /\ refused' = refused /\ subs' = subs
          /\ loop' = [step |-> "leave", client |-> c, key |-> None, todo |-> subs[c]]
      BY <1>3 DEF Disconnects
    <2> QED
      BY <2>1 DEF WantedOK
  <1>4. ASSUME NEW c \in Clients, NEW k \in Keys, SubscribeClient(c, k)
        PROVE  WantedOK'
    <2>1. PICK ok \in Agrees : Subscribed(c, k, Subscribe(pool, k, ok, token))
      BY <1>4 DEF SubscribeClient
    <2>2. loop'.step \in {"free", "snapshot"}
      BY <1>4 DEF SubscribeClient, At
    <2> QED
      BY <2>1, <2>2, AnswerTypes, WantedSubscribed
  <1>5. ASSUME NEW c \in Clients, NEW k \in Keys, UnsubscribeClient(c, k)
        PROVE  WantedOK'
    <2>1. TakenOff(c, k, TRUE) /\ loop'.step = "free"
      BY <1>5 DEF UnsubscribeClient, At
    <2> QED
      BY <2>1, WantedTakenOff
  <1>6. CASE Initializes \/ Connects \/ ForcesInitialize
    <2>1. Bare(pool) /\ loop' \in {Goes("connect"), Goes("force"), Goes("reconnect"), Idle}
      BY <1>6 DEF Initializes, Connects, ForcesInitialize, At, HeldOK, BareOK
    <2>2. index' = index /\ refused' = refused
      BY <1>6 DEF Initializes, Connects, ForcesInitialize, PoolIs
    <2>3. \A k \in Keys : pool'.at[k] = 0
      <3>1. CASE Initializes
        <4> DEFINE p == IF registered THEN pool ELSE EmptyPool
        <4>1. Bare(p) /\ PoolOK(p)
          BY <2>1, EmptyBare, EmptyPoolOK
        <4> HIDE DEF p
        <4>2. PICK ok \in Agrees :
                 pool' = IF p.initialized THEN p ELSE Initialize(p, ok, token).pool
          BY <3>1 DEF Initializes, PoolIs, p
        <4>3. pool'.at = p.at
          BY <1>1, <4>1, <4>2, AnswerTypes, InitializeDoes
        <4> QED
          BY <4>1, <4>3 DEF Bare
      <3>2. CASE Connects
        <4>1. PICK ok \in Agrees : pool' = Connected(pool, ok).pool
          BY <3>2 DEF Connects, PoolIs
        <4> QED
          BY <1>1, <2>1, <4>1, AnswerTypes, ConnectedBare
      <3>3. CASE ForcesInitialize
        <4>1. PICK ok \in Agrees : pool' = Initialize(Cleared(pool), ok, token).pool
          BY <3>3 DEF ForcesInitialize, PoolIs
        <4>2. PoolOK(Cleared(pool)) /\ Bare(Cleared(pool))
          BY <2>1, ClearedOK, ClearedBare
        <4>3. pool'.at = Cleared(pool).at
          BY <1>1, <4>1, <4>2, AnswerTypes, InitializeDoes
        <4> QED
          BY <4>2, <4>3 DEF Bare
      <3> QED
        BY <1>6, <3>1, <3>2, <3>3
    <2>4. loop'.step \notin Recovering \cup {"leave"}
      BY <1>1, <2>1 DEF Idle
    <2> QED
      BY <2>2, <2>3, <2>4, WantedKept
  <1>7. CASE Snapshots
    <2>1. /\ index' = index /\ pool' = pool /\ refused' = refused
          /\ loop'.step = "rebuild" /\ loop'.todo = Tracked(pool)
      BY <1>1, <1>7 DEF Snapshots, Loop
    <2> QED
      BY <2>1 DEF WantedOK, Tracked
  <1>8. CASE Rebuilds
    <2>1. PICK ok \in Agrees : pool' = Initialize(Cleared(pool), ok, token).pool
      BY <1>8 DEF Rebuilds, PoolIs
    <2>2. PoolOK(Cleared(pool)) /\ \A k \in Keys : Cleared(pool).at[k] = 0 \/ Cleared(pool).at[k] = pool.at[k]
      BY ClearedOK, ClearedBare
    <2>3. pool'.at = Cleared(pool).at
      BY <1>1, <2>1, <2>2, AnswerTypes, InitializeDoes
    <2>4. /\ index' = index /\ refused' = refused /\ loop.step = "rebuild"
          /\ loop' = Goes("restart") \/ loop' = Idle
      BY <1>8 DEF Rebuilds, PoolIs, At
    <2>5. /\ loop'.step # "leave"
          /\ loop'.step \notin Recovering \/ loop'.todo \subseteq loop.todo
      BY <1>1, <2>4 DEF Idle
    <2> QED
      BY <2>2, <2>3, <2>4, <2>5, WantedKept
  <1>9. CASE Restarts
    <2>1. /\ index' = index /\ refused' = refused /\ loop.step = "restart"
          /\ loop' = Goes("restore") \/ loop' = Idle
          /\ pool' = pool \/ pool' = [pool EXCEPT !.connected = TRUE]
      BY <1>9 DEF Restarts, PoolIs, At
    <2>2. pool'.at = pool.at
      BY <1>1, <2>1 DEF Pool
    <2>3. /\ loop'.step # "leave"
          /\ loop'.step \notin Recovering \/ loop'.todo \subseteq loop.todo
      BY <1>1, <2>1 DEF Idle
    <2> QED
      BY <2>1, <2>2, <2>3, WantedKept
  <1>10. ASSUME NEW k \in Keys, Restores(k)
         PROVE  WantedOK'
    <2>1. PICK ok \in Agrees : pool' = Subscribe(pool, k, ok, token).pool
      BY <1>10 DEF Restores, PoolIs
    <2>2. /\ index' = index /\ refused' = refused /\ loop.step = "restore" /\ k \in loop.todo
          /\ loop'.step = "restore" /\ loop'.todo \subseteq loop.todo
      BY <1>1, <1>10 DEF Restores, PoolIs, At, Loop
    <2>3. \A l \in Keys : l # k => pool'.at[l] = pool.at[l]
      BY <1>1, <2>1, AnswerTypes, KeysPut
    <2>4. k \in refused \/ index[k] # {}
      BY <2>2 DEF WantedOK
    <2>5. \A l \in Keys : pool'.at[l] # 0 => l \in refused' \/ index'[l] # {}
      BY <2>2, <2>3, <2>4 DEF WantedOK
    <2>6. \A l \in loop'.todo : l \in refused' \/ index'[l] # {}
      BY <2>2 DEF WantedOK
    <2> QED
      BY <2>2, <2>5, <2>6 DEF WantedOK
  <1>11. CASE Retries
    <2>1. loop.client \in Clients /\ loop.key \in Keys
      BY <1>11 DEF Retries, At, LoopOK, TypeOK
    <2>2. PICK ok \in Agrees :
             Subscribed(loop.client, loop.key, Subscribe(pool, loop.key, ok, token))
      BY <1>11 DEF Retries
    <2>3. loop'.step = "free"
      BY <1>11 DEF Retries, Idle
    <2> QED
      BY <2>1, <2>2, <2>3, AnswerTypes, WantedSubscribed
  <1>12. ASSUME NEW k \in Keys, UnsubscribesNext(k)
         PROVE  WantedOK'
    <2>1. /\ TakenOff(loop.client, k, TRUE) /\ loop.client \in Clients
          /\ loop'.step = "unsubscribe_all"
      BY <1>1, <1>12 DEF UnsubscribesNext, At, Loop, LoopOK
    <2> QED
      BY <2>1, WantedTakenOff
  <1>13. ASSUME NEW k \in Keys, LeavesKey(k)
         PROVE  WantedOK'
    <2>1. /\ TakenOff(loop.client, k, loop.client \in authed /\ held) /\ loop.client \in Clients
          /\ loop.step = "leave" /\ loop'.step = "leave" /\ loop'.client = loop.client
          /\ loop'.todo \subseteq loop.todo /\ k \in loop.todo /\ subs' = subs
      BY <1>1, <1>13 DEF LeavesKey, At, Loop, LoopOK
    <2>2. loop.todo \subseteq subs[loop.client]
      BY <2>1 DEF WantedOK
    <2>3. loop.client \in authed
      BY <2>1, <2>2 DEF IndexMatches
    <2> QED
      BY <2>1, <2>2, <2>3, WantedTakenOff
  <1>14. CASE UnsubscribesLast
    <2>1. index' = index /\ pool' = pool /\ refused' = refused /\ loop'.step = "free"
      BY <1>14 DEF UnsubscribesLast, Idle
    <2> QED
      BY <2>1, WantedKept
  <1>15. CASE LeavesLast
    <2>1. /\ index' = index /\ loop'.step = "free"
          /\ \/ pool' = EmptyPool
             \/ pool' = UnsubscribeAll(pool)
             \/ pool' = pool /\ refused' = refused
      BY <1>15 DEF LeavesLast, TornDown, PoolIs, Disconnect, Idle
    <2>2. CASE pool' = EmptyPool \/ pool' = UnsubscribeAll(pool)
      <3>1. \A k \in Keys : pool'.at[k] = 0
        <4>1. \A k \in Keys : EmptyPool.at[k] = 0 /\ UnsubscribeAll(pool).at[k] = 0
          BY <1>1, EmptyBare, AllConnectionsDo, ZenonT(60) DEF Bare
        <4> QED
          BY <2>2, <4>1
      <3> QED
        BY <2>1, <3>1 DEF WantedOK
    <2>3. CASE pool' = pool /\ refused' = refused
      BY <2>1, <2>3, WantedKept
    <2> QED
      BY <2>1, <2>2, <2>3
  <1>16. CASE CacheInvalidation
    <2>1. /\ index' = index /\ loop'.step = "free"
          /\ \/ pool' = EmptyPool
             \/ pool' = pool /\ refused' = refused
      BY <1>16 DEF CacheInvalidation, TornDown, PoolIs, Disconnect, At
    <2>2. CASE pool' = EmptyPool
      <3>1. \A k \in Keys : pool'.at[k] = 0
        BY <2>2, EmptyBare DEF Bare
      <3> QED
        BY <2>1, <3>1 DEF WantedOK
    <2>3. CASE pool' = pool /\ refused' = refused
      BY <2>1, <2>3, WantedKept
    <2> QED
      BY <2>1, <2>2, <2>3
  <1>17. CASE TokenEnds \/ CleanupPools \/ \E login \in BOOLEAN : UpsertAuth(login)
    <2>1. /\ index' = index /\ refused' = refused /\ loop' = loop /\ subs' = subs
          /\ pool' = pool \/ pool' = EmptyPool \/ pool' = Dead(pool)
      BY <1>17 DEF TokenEnds, CleanupPools, UpsertAuth, TornDown, PoolIs, Disconnect
    <2>2. \A k \in Keys : pool'.at[k] # 0 => pool.at[k] # 0
      <3>1. Dead(pool).at = pool.at /\ \A k \in Keys : EmptyPool.at[k] = 0
        BY <1>1, EmptyBare, AllConnectionsDo DEF Bare
      <3> QED
        BY <2>1, <3>1
    <2> QED
      BY <2>1, <2>2 DEF WantedOK
  <1> QED
    BY <1>2, <1>3, <1>4, <1>5, <1>6, <1>7, <1>8, <1>9, <1>10, <1>11, <1>12, <1>13, <1>14,
       <1>15, <1>16, <1>17 DEF Next, Handlers

\* A key that is wanted and no longer tracked leaves its symbol lost, when it was so before or
\* this step let it down.
LEMMA LostStep ==
    ASSUME NEW p, NEW idx, NEW down, NEW stuck, PoolIs(p, idx, down, stuck),
           \A k \in Keys : idx[k] # {} /\ p.at[k] = 0 => k[1] \in lost \cup down
    PROVE  \A k \in Keys : index'[k] # {} => k[1] \in lost' \/ pool'.at[k] # 0
  <1> SUFFICES ASSUME NEW k \in Keys, idx[k] # {}, p.at[k] = 0
               PROVE  k[1] \in lost'
    BY DEF PoolIs
  <1>1. k[1] \in Symbols /\ k[2] \in Modes /\ k = <<k[1], k[2]>>
    BY DEF Keys
  <1>2. ~Delivered(p, <<k[1], k[2]>>) /\ idx[<<k[1], k[2]>>] # {}
    BY <1>1 DEF Delivered
  <1> QED
    BY <1>1, <1>2 DEF PoolIs

\* A step after which nothing is on the books, or what was on them, and no key is newly wanted.
LEMMA ServedKept ==
    ASSUME ServedOK, NEW p, NEW down, NEW stuck, PoolIs(p, index, down, stuck),
           \A k \in Keys : pool.at[k] # 0 /\ p.at[k] = 0 => k[1] \in down,
           HighServed(p, stuck)
    PROVE  ServedOK'
  <1>1. \A k \in Keys : index[k] # {} /\ p.at[k] = 0 => k[1] \in lost \cup down
    BY DEF ServedOK
  <1>2. \A k \in Keys : index'[k] # {} => k[1] \in lost' \/ pool'.at[k] # 0
    BY <1>1, LostStep
  <1>3. pool' = p /\ refused' = stuck
    BY DEF PoolIs
  <1>4. HighServed(pool', refused')
    BY <1>3
  <1> QED
    BY <1>2, <1>4 DEF ServedOK, HighServed, SymbolServed, HighOf, ModesOf, Delivered

\* A step that changes neither the pool nor what is wanted or lost.
LEMMA ServedSame ==
    ASSUME ServedOK, UNCHANGED <<pool, index, lost, refused>>
    PROVE  ServedOK'
  BY DEF ServedOK, HighServed, SymbolServed, HighOf, ModesOf, Delivered

\* A key asked for by a client is served when it is granted.
LEMMA ServedSubscribed ==
    ASSUME Inv, ServedOK, NEW c \in Clients, NEW k \in Keys, NEW ok \in BOOLEAN,
           Subscribed(c, k, Subscribe(pool, k, ok, token))
    PROVE  ServedOK'
  <1> DEFINE r == Subscribe(pool, k, ok, token)
             idx == IF r.status = "success" THEN Granted(c, k) ELSE index
  <1>1. /\ PoolOK(pool) /\ token \in BOOLEAN /\ index \in [Keys -> SUBSET Clients]
    BY DEF Inv, TypeOK
  <1>2. PoolIs(r.pool, idx, {}, refused)
    BY DEF Subscribed
  <1>3. /\ \A l \in Keys : l # k => r.pool.at[l] = pool.at[l]
        /\ r.status = "success" => r.pool.at[k] # 0
        /\ r.status # "success" => r.pool.at = pool.at
    BY <1>1, KeysPut
  <1>4. HighServed(r.pool, refused)
    BY <1>1, SubscribeServed DEF ServedOK
  <1>5. \A l \in Keys : idx[l] # {} /\ r.pool.at[l] = 0 => l[1] \in lost \cup {}
    BY <1>1, <1>3 DEF ServedOK, Granted
  <1> HIDE DEF r, idx
  <1>6. \A l \in Keys : index'[l] # {} => l[1] \in lost' \/ pool'.at[l] # 0
    BY <1>2, <1>5, LostStep
  <1>7. pool' = r.pool /\ refused' = refused
    BY <1>2 DEF PoolIs
  <1> QED
    BY <1>4, <1>6, <1>7 DEF ServedOK, HighServed, SymbolServed, HighOf, ModesOf, Delivered

\* A client taken off a key takes the feed from nobody else.
LEMMA ServedTakenOff ==
    ASSUME Inv, ServedOK, NEW c \in Clients, NEW k \in Keys, NEW asks, TakenOff(c, k, asks)
    PROVE  ServedOK'
  <1>1. /\ PoolOK(pool) /\ index \in [Keys -> SUBSET Clients]
    BY DEF Inv, TypeOK
  <1>2. index' = [index EXCEPT ![k] = @ \ {c}]
    BY TakenOffIndex
  <1>3. /\ PoolIs(pool', index', {}, refused')
        /\ \/ ~(index[k] = {c} /\ asks) /\ pool' = pool /\ refused' = refused
           \/ /\ index[k] = {c} /\ asks
              /\ \E a \in Answers :
                    LET r == Unsubscribe(pool, k, a)
                        failed == r.status = "error" /\ pool.at[k] # 0
                    IN /\ pool' = r.pool
                       /\ refused' = IF failed THEN refused \cup {k} ELSE refused \ {k}
    BY TakenOffDoes
  <1>4. ASSUME \A l \in Keys : index'[l] # {} => pool'.at[l] = pool.at[l],
               HighServed(pool', refused')
        PROVE  ServedOK'
    <2>1. \A l \in Keys : index'[l] # {} => index[l] # {}
      BY <1>1, <1>2
    <2>2. \A l \in Keys : index'[l] # {} /\ pool'.at[l] = 0 => l[1] \in lost \cup {}
      BY <1>4, <2>1 DEF ServedOK
    <2>3. \A l \in Keys : index'[l] # {} => l[1] \in lost' \/ pool'.at[l] # 0
      BY <1>3, <2>2, LostStep
    <2> QED
      BY <1>4, <2>3 DEF ServedOK, HighServed, SymbolServed, HighOf, ModesOf, Delivered
  <1>5. CASE pool' = pool /\ refused' = refused
    BY <1>4, <1>5 DEF ServedOK, HighServed, SymbolServed, HighOf, ModesOf, Delivered
  <1>6. CASE ~(pool' = pool /\ refused' = refused)
    <2>1. index[k] = {c}
      BY <1>3, <1>6
    <2>2. PICK a \in Answers :
             LET r == Unsubscribe(pool, k, a)
                 failed == r.status = "error" /\ pool.at[k] # 0
             IN /\ pool' = r.pool
                /\ refused' = IF failed THEN refused \cup {k} ELSE refused \ {k}
      BY <1>3, <1>6
    <2> DEFINE u == Unsubscribe(pool, k, a)
               stuck == IF u.status = "error" /\ pool.at[k] # 0 THEN refused \cup {k}
                        ELSE refused \ {k}
    <2>3. pool' = u.pool /\ refused' = stuck
      BY <2>2
    <2>4. HighServed(u.pool, stuck)
      BY <1>1, UnsubscribeServed DEF ServedOK
    <2>5. \A l \in Keys : l # k => u.pool.at[l] = pool.at[l]
      BY <1>1, KeysTaken
    <2>6. index'[k] = {}
      BY <1>1, <1>2, <2>1
    <2> HIDE DEF u, stuck
    <2>7. HighServed(pool', refused')
      BY <2>3, <2>4
    <2>8. \A l \in Keys : index'[l] # {} => pool'.at[l] = pool.at[l]
      BY <2>3, <2>5, <2>6
    <2> QED
      BY <1>4, <2>7, <2>8
  <1> QED
    BY <1>5, <1>6

\* Every step keeps what is wanted served.
LEMMA ServedStep ==
    ASSUME Inv, HeldOK, BareOK, ServedOK, Next
    PROVE  ServedOK'
  <1> USE DEF Inv
  <1>1. token \in BOOLEAN /\ loop \in Loop /\ pool \in Pool /\ HighServed(pool, refused)
    BY DEF TypeOK, ServedOK
  <1>2. \A k \in Keys : EmptyPool.at[k] = 0
    BY EmptyBare DEF Bare
  <1>3. ASSUME UNCHANGED <<pool, index, lost, refused>>
        PROVE  ServedOK'
    BY <1>3, ServedSame
  <1>4. ASSUME NEW stuck, TornDown(stuck)
        PROVE  ServedOK'
    <2>1. PoolIs(EmptyPool, index, Symbols, stuck) /\ HighServed(EmptyPool, stuck)
      BY <1>2, <1>4, BareServed DEF TornDown, Disconnect
    <2>2. \A k \in Keys : k[1] \in Symbols
      BY DEF Keys
    <2> QED
      BY <2>1, <2>2, ServedKept
  <1>5. CASE \E c \in Clients : \/ ClientConnects(c) \/ Authenticate(c) \/ UnsubscribeAllClient(c)
                                \/ Disconnects(c)
    BY <1>3, <1>5 DEF ClientConnects, Authenticate, UnsubscribeAllClient, Disconnects
  <1>6. ASSUME NEW c \in Clients, NEW k \in Keys, SubscribeClient(c, k)
        PROVE  ServedOK'
    <2>1. PICK ok \in Agrees : Subscribed(c, k, Subscribe(pool, k, ok, token))
      BY <1>6 DEF SubscribeClient
    <2> QED
      BY <2>1, AnswerTypes, ServedSubscribed
  <1>7. ASSUME NEW c \in Clients, NEW k \in Keys, UnsubscribeClient(c, k)
        PROVE  ServedOK'
    BY <1>7, ServedTakenOff DEF UnsubscribeClient
  <1>8. CASE Initializes
    <2> DEFINE p == IF registered THEN pool ELSE EmptyPool
               q(ok) == IF p.initialized THEN p ELSE Initialize(p, ok, token).pool
    <2>1. Bare(pool)
      BY <1>8 DEF Initializes, At, HeldOK, BareOK
    <2>2. Bare(p) /\ PoolOK(p)
      BY <2>1, EmptyBare, EmptyPoolOK
    <2>3. PICK ok \in Agrees : PoolIs(q(ok), index, {}, refused)
      BY <1>8 DEF Initializes
    <2> HIDE DEF p
    <2>4. q(ok).at = p.at
      BY <1>1, <2>2, AnswerTypes, InitializeDoes
    <2> HIDE DEF q
    <2>5. \A k \in Keys : q(ok).at[k] = 0 /\ pool.at[k] = 0
      BY <2>1, <2>2, <2>4 DEF Bare
    <2> QED
      BY <2>3, <2>5, BareServed, ServedKept
  <1>9. CASE Connects
    <2>1. Bare(pool)
      BY <1>9 DEF Connects, HeldOK, BareOK
    <2>2. PICK ok \in Agrees : PoolIs(Connected(pool, ok).pool, index, {}, refused)
      BY <1>9 DEF Connects
    <2>3. \A k \in Keys : Connected(pool, ok).pool.at[k] = 0 /\ pool.at[k] = 0
      BY <1>1, <2>1, AnswerTypes, ConnectedBare DEF Bare
    <2> QED
      BY <2>2, <2>3, BareServed, ServedKept
  <1>10. CASE ForcesInitialize
    <2>1. Bare(pool)
      BY <1>10 DEF ForcesInitialize, At, HeldOK, BareOK
    <2> DEFINE q(ok) == Initialize(Cleared(pool), ok, token).pool
    <2>2. PICK ok \in Agrees : PoolIs(q(ok), index, {}, refused)
      BY <1>10 DEF ForcesInitialize
    <2>3. Bare(Cleared(pool)) /\ PoolOK(Cleared(pool))
      BY <2>1, ClearedBare, ClearedOK
    <2>4. q(ok).at = Cleared(pool).at
      BY <1>1, <2>3, AnswerTypes, InitializeDoes
    <2> HIDE DEF q
    <2>5. \A k \in Keys : q(ok).at[k] = 0 /\ pool.at[k] = 0
      BY <2>1, <2>3, <2>4 DEF Bare
    <2> QED
      BY <2>2, <2>5, BareServed, ServedKept
  <1>11. CASE Snapshots \/ UnsubscribesLast
    BY <1>3, <1>11 DEF Snapshots, UnsubscribesLast
  <1>12. CASE Rebuilds
    <2> DEFINE p == Cleared(pool)
               q(ok) == Initialize(p, ok, token).pool
               down == {k[1] : k \in Tracked(pool)}
    <2>1. PICK ok \in Agrees : PoolIs(q(ok), index, down, refused)
      BY <1>12 DEF Rebuilds
    <2>2. PoolOK(p) /\ HighServed(p, refused)
      BY <1>1, <1>2, ClearedOK, BareServed DEF Cleared
    <2> HIDE DEF p
    <2>3. q(ok).at = p.at /\ Extends(p, q(ok), token)
      BY <1>1, <2>2, AnswerTypes, InitializeDoes
    <2> HIDE DEF q
    <2>4. HighServed(q(ok), refused)
      BY <2>2, <2>3, SameServed
    <2>5. \A k \in Keys : pool.at[k] # 0 => k[1] \in down
      BY DEF Tracked
    <2> HIDE DEF down
    <2> QED
      BY <2>1, <2>4, <2>5, ServedKept
  <1>13. CASE Restarts
    <2> DEFINE q == [pool EXCEPT !.connected = TRUE]
    <2>1. q.at = pool.at /\ q.adapters = pool.adapters
      BY <1>1 DEF Pool
    <2>2. PoolIs(q, index, {}, refused) \/ UNCHANGED <<pool, index, lost, refused>>
      BY <1>13 DEF Restarts
    <2> HIDE DEF q
    <2>3. Extends(pool, q, token)
      BY <1>1, <2>1, ExtendsItself DEF Extends
    <2>4. HighServed(q, refused)
      BY <1>1, <2>1, <2>3, SameServed
    <2> QED
      BY <1>3, <2>1, <2>2, <2>4, ServedKept
  <1>14. ASSUME NEW k \in Keys, Restores(k)
         PROVE  ServedOK'
    <2> DEFINE q(ok) == Subscribe(pool, k, ok, token).pool
    <2>1. PICK ok \in Agrees : PoolIs(q(ok), index, {k[1]}, refused)
      BY <1>14 DEF Restores
    <2>2. HighServed(q(ok), refused)
      BY <1>1, AnswerTypes, SubscribeServed
    <2>3. \A l \in Keys : l # k => q(ok).at[l] = pool.at[l]
      BY <1>1, AnswerTypes, KeysPut
    <2> HIDE DEF q
    <2>4. \A l \in Keys : pool.at[l] # 0 /\ q(ok).at[l] = 0 => l[1] \in {k[1]}
      BY <2>3
    <2> QED
      BY <2>1, <2>2, <2>4, ServedKept
  <1>15. CASE Retries
    <2>1. loop.client \in Clients /\ loop.key \in Keys
      BY <1>15 DEF Retries, At, LoopOK, TypeOK
    <2>2. PICK ok \in Agrees :
             Subscribed(loop.client, loop.key, Subscribe(pool, loop.key, ok, token))
      BY <1>15 DEF Retries
    <2> QED
      BY <2>1, <2>2, AnswerTypes, ServedSubscribed
  <1>16. ASSUME NEW k \in Keys, UnsubscribesNext(k) \/ LeavesKey(k)
         PROVE  ServedOK'
    <2>1. loop.client \in Clients
      BY <1>16 DEF UnsubscribesNext, LeavesKey, At, LoopOK
    <2> QED
      BY <1>16, <2>1, ServedTakenOff DEF UnsubscribesNext, LeavesKey
  <1>17. CASE LeavesLast
    <2>1. CASE UNCHANGED <<pool, index, lost, refused>>
      BY <1>3, <2>1
    <2>2. CASE TornDown({})
      BY <1>4, <2>2
    <2>3. CASE /\ LastOfUser(loop.client)
               /\ PoolIs(UnsubscribeAll(pool), index, {}, refused)
      <3>1. \A k \in Keys : UnsubscribeAll(pool).at[k] = 0
        BY <1>1, AllConnectionsDo
      <3>2. loop.step = "leave" /\ loop.todo = {} /\ loop.client \in Clients
        BY <1>17 DEF LeavesLast, At, LoopOK
      <3>3. \A k \in Keys : index[k] = {}
        <4> SUFFICES ASSUME NEW k \in Keys, NEW d \in Clients, d \in index[k]
                     PROVE  FALSE
          BY DEF TypeOK
        <4>1. k \in subs[d] \ TakenOffAlready(d)
          BY DEF IndexMatches
        <4>2. d \in authed
          BY <4>1 DEF IndexMatches
        <4>3. d = loop.client
          BY <2>3, <4>2 DEF LastOfUser
        <4>4. TakenOffAlready(d) = subs[d]
          BY <3>2, <4>3 DEF TakenOffAlready
        <4> QED
          BY <4>1, <4>4
      <3>4. \A k \in Keys : index'[k] # {} => k[1] \in lost' \/ pool'.at[k] # 0
        BY <2>3, <3>3 DEF PoolIs
      <3>5. \A k \in Keys : pool'.at[k] = 0
        BY <2>3, <3>1 DEF PoolIs
      <3>6. HighServed(pool', refused')
        BY <3>5, BareServed
      <3> QED
        BY <3>4, <3>6 DEF ServedOK, HighServed, SymbolServed, HighOf, ModesOf, Delivered
    <2> QED
      BY <1>17, <2>1, <2>2, <2>3 DEF LeavesLast
  <1>18. CASE CacheInvalidation \/ CleanupPools
    <2>1. (\E stuck : TornDown(stuck)) \/ UNCHANGED <<pool, index, lost, refused>>
      BY <1>18 DEF CacheInvalidation, CleanupPools
    <2> QED
      BY <1>3, <1>4, <2>1
  <1>19. CASE TokenEnds
    <2>1. PoolIs(Dead(pool), index, {}, refused)
      BY <1>19 DEF TokenEnds
    <2>2. /\ Dead(pool).at = pool.at
          /\ \A j \in 1..Len(pool.adapters) : Dead(pool).adapters[j].live = FALSE
      BY <1>1, AllConnectionsDo
    <2>3. HighServed(Dead(pool), refused)
      BY <1>1, <2>2, SameServed
    <2> QED
      BY <2>1, <2>2, <2>3, ServedKept
  <1>20. CASE \E login \in BOOLEAN : UpsertAuth(login)
    BY <1>3, <1>20 DEF UpsertAuth
  <1> QED
    BY <1>5, <1>6, <1>7, <1>8, <1>9, <1>10, <1>11, <1>12, <1>13, <1>14, <1>15, <1>16, <1>17,
       <1>18, <1>19, <1>20 DEF Next, Handlers

-----------------------------------------------------------------------------
(* What the proxy promises of every behaviour *)

\* Nobody wants anything of a proxy that starts, and it holds no pool.
LEMMA InitService == Init => ServiceInv
  <1> SUFFICES ASSUME Init
               PROVE  ServiceInv
    OBVIOUS
  <1>1. Inv
    BY InitInv
  <1>2. /\ pool = EmptyPool /\ held = FALSE /\ loop.step = "free" /\ refused = {}
        /\ \A k \in Keys : index[k] = {}
    BY DEF Init, Idle
  <1>3. Bare(pool) /\ AllLive(pool)
    BY <1>2, EmptyBare
  <1>4. HeldOK /\ BareOK /\ FreshOK
    BY <1>2, <1>3 DEF HeldOK, BareOK, FreshOK
  <1>5. \A k \in Keys : pool.at[k] = 0
    BY <1>3 DEF Bare
  <1>6. WantedOK
    BY <1>2, <1>5 DEF WantedOK
  <1>7. ServedOK
    BY <1>2, <1>5, BareServed DEF ServedOK
  <1> QED
    BY <1>1, <1>4, <1>6, <1>7 DEF ServiceInv

\* A step, or none, keeps the invariant.
LEMMA NextService == ServiceInv /\ [Next]_vars => ServiceInv'
  <1>1. ASSUME ServiceInv, Next
        PROVE  ServiceInv'
    BY <1>1, NextInv, HeldStep, BareStep, FreshStep, WantedStep, ServedStep DEF ServiceInv
  <1>2. ASSUME ServiceInv, UNCHANGED vars
        PROVE  ServiceInv'
    <2>1. Inv'
      BY <1>2, NextInv DEF ServiceInv
    <2>2. HeldOK' /\ BareOK' /\ FreshOK' /\ WantedOK'
      BY <1>2 DEF ServiceInv, vars, HeldOK, BareOK, FreshOK, WantedOK, Bare, AllLive
    <2>3. ServedOK'
      BY <1>2, ServedSame DEF ServiceInv, vars
    <2> QED
      BY <2>1, <2>2, <2>3 DEF ServiceInv
  <1> QED
    BY <1>1, <1>2

\* In what sense the invariant serves: the key of a client is tracked on a connection of a held
\* pool and, when that is live, streamed; or its symbol is lost or refused.
LEMMA InvServes == ServiceInv => Served
  <1> SUFFICES ASSUME ServiceInv, At("free"), NEW c \in Clients, NEW k \in subs[c],
                      k[1] \notin lost \cup {r[1] : r \in refused}
               PROVE  /\ held /\ pool.at[k] # 0
                      /\ pool.adapters[pool.at[k]].live => Delivered(pool, k)
    BY DEF Served
  <1>1. PoolOK(pool) /\ k \in Keys
    BY DEF ServiceInv, Inv, TypeOK
  <1>2. /\ k[1] \in Symbols /\ k[2] \in Modes /\ k = <<k[1], k[2]>>
        /\ \A m \in Modes : m \in Nat
    BY <1>1, PoolAssumption DEF Keys
  <1>3. c \in index[k]
    BY <1>1 DEF ServiceInv, Inv, IndexMatches, TakenOffAlready, At
  <1>4. pool.at[k] # 0
    BY <1>1, <1>3 DEF ServiceInv, ServedOK
  <1>5. held
    BY <1>1, <1>4 DEF ServiceInv, BareOK, Bare
  <1>6. k[2] \in ModesOf(pool, k[1])
    BY <1>2, <1>4 DEF ModesOf
  <1> DEFINE hi == HighOf(pool, k[1])
  <1>7. /\ hi \in Keys /\ hi[1] = k[1] /\ hi[2] \in Modes /\ k[2] <= hi[2]
        /\ pool.at[k] = pool.at[hi]
    <2>1. ModesOf(pool, k[1]) # {}
      BY <1>6
    <2>2. /\ hi \in Keys /\ hi[1] = k[1] /\ hi[2] \in ModesOf(pool, k[1])
          /\ \A m \in ModesOf(pool, k[1]) : m <= hi[2] /\ pool.at[<<k[1], m>>] = pool.at[hi]
      BY <1>1, <1>2, <2>1, HighOfType
    <2> HIDE DEF hi
    <2>3. k[2] <= hi[2] /\ pool.at[<<k[1], k[2]>>] = pool.at[hi]
      BY <1>6, <2>2
    <2> QED
      BY <1>2, <2>2, <2>3 DEF ModesOf
  <1>8. hi \notin refused
    BY <1>7
  <1>9. pool.adapters[pool.at[hi]].live => Delivered(pool, hi)
    BY <1>2, <1>6, <1>8 DEF ServiceInv, ServedOK, HighServed, SymbolServed
  <1> HIDE DEF hi
  <1>10. Delivered(pool, hi) => Delivered(pool, k)
    <2> SUFFICES ASSUME NEW m \in Modes, m >= hi[2],
                        <<k[1], m>> \in pool.adapters[pool.at[k]].streams
                 PROVE  Delivered(pool, k)
      BY <1>7 DEF Delivered
    <2>1. m \in Nat /\ hi[2] \in Nat /\ k[2] \in Nat
      BY <1>2, <1>7
    <2>2. m >= k[2]
      BY <1>7, <2>1
    <2> QED
      BY <1>4, <2>2 DEF Delivered
  <1> QED
    BY <1>4, <1>5, <1>7, <1>9, <1>10

\* A subscriber of a symbol goes on being served whatever the other clients subscribe to,
\* unsubscribe from or leave, in whatever mode, unless a login, a failed recovery or a refusal
\* of the broker ended the feed (subscribe_client, unsubscribe_client, cleanup_client).
THEOREM SubscribersServed == Spec => []Served
  BY InvServes, InitService, NextService, PTL DEF Spec

\* The pool tracks no key that no client wants any more, but one whose unsubscription the broker
\* refused.
THEOREM NoSubscriptionLeft == Spec => []NothingUnused
  <1>1. ServiceInv => NothingUnused
    BY DEF ServiceInv, WantedOK, NothingUnused, Tracked
  <1> QED
    BY <1>1, InitService, NextService, PTL DEF Spec

\* The last client that leaves takes the connection to the broker with it, unless the broker is
\* one whose connection is kept; an authentication still under way holds none.
THEOREM AdapterHeldForSomeone == Spec => []AdapterNeeded
  <1>1. ServiceInv => AdapterNeeded
    BY DEF ServiceInv, HeldOK, AdapterNeeded
  <1> QED
    BY <1>1, InitService, NextService, PTL DEF Spec

\* When a login is through and its message received, no connection made with an ended token is
\* in use: the cleanup of the registered pool and the message to the holder leave none between
\* them, in whatever order they come and whatever handler is under way.
THEOREM NoStaleConnection == Spec => []Fresh
  <1>1. ServiceInv => Fresh
    BY DEF ServiceInv, FreshOK, AllLive, Fresh
  <1> QED
    BY <1>1, InitService, NextService, PTL DEF Spec
=============================================================================
