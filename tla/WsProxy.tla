------------------------------ MODULE WsProxy ------------------------------
(***************************************************************************)
(* The WebSocket proxy (websocket_proxy/server.py): clients connect,       *)
(* authenticate, subscribe and leave; the proxy keeps who wants what, and  *)
(* asks the user's pool of broker connections for it.  A deployment has    *)
(* one user.                                                               *)
(*                                                                         *)
(* The handlers run on one event loop and wait for nothing between two     *)
(* changes of state, so the loop is busy with one of them from its first   *)
(* step to its last.  The calls it makes to the pool take the lock of the  *)
(* pool each on its own: between two of them a thread of the web           *)
(* application may store a new token and throw the pool away               *)
(* (database/auth_db.py upsert_auth), and the broker may end the token.    *)
(***************************************************************************)
EXTENDS ConnectionPool

CONSTANTS
    Clients,
    None,
    MaxLogins,          \* bound: logins and logouts of the user
    MaxWanted,          \* bound: subscriptions of all clients at a time
    MaxRefusals         \* bound: calls to the broker that fail

ASSUME ProxyAssumption ==
    MaxLogins \in Nat /\ MaxWanted \in Nat /\ MaxRefusals \in Nat

VARIABLES
    clients,            \* clients and the keys of subscriptions
    authed,             \* the keys of user_mapping
    subs,               \* subscriptions: the keys each client asked for
    index,              \* subscription_index: the clients of each key
    pool,               \* the ConnectionPool, connections included
    held,               \* broker_adapters has the pool
    registered,         \* _POOLED_ADAPTERS has the pool
    keeps,              \* the broker is one whose connection outlives the last client
    token,              \* the token in the database is good
    logins,             \* logins and logouts so far
    invalid,            \* CACHE_INVALIDATE messages not yet received
    cleaning,           \* upsert_auth has yet to call cleanup_pools_for_user
    refusals,           \* calls to the broker that failed
    loop,               \* what the event loop is doing
    lost,               \* history: symbols whose feed was ended under a subscriber
    refused             \* history: keys whose unsubscription was refused

vars == <<clients, authed, subs, index, pool, held, registered, keeps, token,
          logins, invalid, cleaning, refusals, loop, lost, refused>>

web == <<token, logins, invalid, cleaning>>

Steps == {"free", "initialize", "connect", "force", "reconnect",
          "snapshot", "rebuild", "restart", "restore",
          "leave", "unsubscribe_all"}

Loop == [step : Steps, client : Clients \cup {None}, key : Keys \cup {None},
         todo : SUBSET Keys]

Idle == [step |-> "free", client |-> None, key |-> None, todo |-> {}]
At(step) == loop.step = step
Goes(step) == [loop EXCEPT !.step = step]

Init ==
    /\ clients = {} /\ authed = {}
    /\ subs = [c \in Clients |-> {}] /\ index = [k \in Keys |-> {}]
    /\ pool = EmptyPool /\ held = FALSE /\ registered = FALSE
    /\ keeps \in BOOLEAN
    /\ token = TRUE /\ logins = 0 /\ invalid = 0 /\ cleaning = FALSE
    /\ refusals = 0 /\ loop = Idle /\ lost = {} /\ refused = {}

\* zmq_listener: a tick of a mode goes to the clients of that mode and below.
Delivered(p, k) ==
    /\ p.at[k] # 0
    /\ \E m \in Modes : m >= k[2] /\ <<k[1], m>> \in p.adapters[p.at[k]].streams

\* The pool becomes p, the index idx, and the two histories follow: the symbols
\* in down were let down by this step, and stuck are the keys the broker
\* has refused to stop.
PoolIs(p, idx, down, stuck) ==
    /\ pool' = p
    /\ index' = idx
    /\ lost' = {s \in lost \cup down :
                  \E m \in Modes : idx[<<s, m>>] # {} /\ ~Delivered(p, <<s, m>>)}
    /\ refused' = stuck

\* The pool is thrown away.
TornDown(stuck) == PoolIs(Disconnect(pool), index, Symbols, stuck)

\* What the broker may answer to one call, and to the calls of one operation: a
\* refusal counts.
Agrees == {TRUE} \cup {ok \in {FALSE} : refusals < MaxRefusals}
AgreesTo == {a \in Answers : a = Accepted \/ refusals < MaxRefusals}
Counted(agreed) == refusals' = IF agreed THEN refusals ELSE refusals + 1

-----------------------------------------------------------------------------
(* Connections and authentication *)

ClientConnects(c) ==
    /\ At("free") /\ c \notin clients
    /\ clients' = clients \cup {c}
    /\ UNCHANGED <<authed, subs, index, pool, held, registered, keeps, web, loop, lost, refused, refusals>>

\* authenticate_client: a pool that is held is used as it is.
Authenticate(c) ==
    /\ At("free") /\ c \in clients
    /\ authed' = authed \cup {c}
    /\ loop' = IF held THEN loop ELSE [Idle EXCEPT !.step = "initialize", !.client = c]
    /\ UNCHANGED <<clients, subs, index, pool, held, registered, keeps, web, lost, refused, refusals>>

\* _ensure_pool and initialize.  A failure in the form the pool reports it is not
\* recognised, and connect is called all the same.
Initializes ==
    /\ At("initialize")
    /\ LET p == IF registered THEN pool ELSE EmptyPool IN
       \E ok \in Agrees :
          /\ Counted(ok)
          /\ PoolIs(IF p.initialized THEN p ELSE Initialize(p, ok, token).pool, index, {}, refused)
    /\ registered' = TRUE
    /\ loop' = Goes("connect")
    /\ UNCHANGED <<clients, authed, subs, held, keeps, web>>

\* connect, under one hold of the lock with its recovery: a dead connection is
\* replaced and the new one connected, or not.
Connected(p, ok) ==
    LET r == Connect(p)
        fresh == Initialize(Cleared(p), ok, token)
        again == Connect(fresh.pool)
    IN IF r.status # "auth" THEN r
       ELSE IF fresh.status = "success" /\ again.status = "success" THEN again
       ELSE Result(fresh.pool, "auth")

Connects ==
    /\ loop.step \in {"connect", "reconnect"}
    /\ \E ok \in Agrees :
          LET r == Connected(pool, ok) IN
          /\ Counted(ok)
          /\ PoolIs(r.pool, index, {}, refused)
          /\ held' = (r.status = "success")
          /\ loop' = IF r.status = "auth" /\ At("connect") THEN Goes("force") ELSE Idle
    /\ UNCHANGED <<clients, authed, subs, registered, keeps, web>>

\* authenticate_client tries once more, with a pool made anew.
ForcesInitialize ==
    /\ At("force")
    /\ \E ok \in Agrees :
          LET r == Initialize(Cleared(pool), ok, token) IN
          /\ Counted(ok)
          /\ PoolIs(r.pool, index, {}, refused)
          /\ loop' = IF r.status = "success" THEN Goes("reconnect") ELSE Idle
    /\ UNCHANGED <<clients, authed, subs, held, registered, keeps, web>>

-----------------------------------------------------------------------------
(* Subscription *)

Wanted == {w \in Clients \X Keys : w[2] \in subs[w[1]]}

Granted(c, k) == [index EXCEPT ![k] = @ \cup {c}]

\* What becomes of a call to subscribe: granted to the client, or not.
Subscribed(c, k, r) ==
    IF r.status = "success"
    THEN /\ PoolIs(r.pool, Granted(c, k), {}, refused)
         /\ subs' = [subs EXCEPT ![c] = @ \cup {k}]
    ELSE /\ PoolIs(r.pool, index, {}, refused)
         /\ UNCHANGED subs

\* subscribe_client; an authentication error starts the recovery of the pool.
SubscribeClient(c, k) ==
    /\ At("free") /\ c \in authed /\ held
    /\ k \in subs[c] \/ Cardinality(Wanted) < MaxWanted
    /\ \E ok \in Agrees :
          LET r == Subscribe(pool, k, ok, token) IN
          /\ Counted(ok)
          /\ Subscribed(c, k, r)
          /\ loop' = IF r.status = "auth"
                     THEN [step |-> "snapshot", client |-> c, key |-> k, todo |-> {}]
                     ELSE loop
    /\ UNCHANGED <<clients, authed, held, registered, keeps, web>>

\* _attempt_auth_recovery, which holds the lock for one call at a time.
Snapshots ==
    /\ At("snapshot")
    /\ loop' = [loop EXCEPT !.step = "rebuild", !.todo = Tracked(pool)]
    /\ UNCHANGED <<clients, authed, subs, index, pool, held, registered, keeps, web, lost, refused, refusals>>

Rebuilds ==
    /\ At("rebuild")
    /\ \E ok \in Agrees :
          LET r == Initialize(Cleared(pool), ok, token) IN
          /\ Counted(ok)
          /\ PoolIs(r.pool, index, {k[1] : k \in Tracked(pool)}, refused)
          /\ loop' = IF r.status = "success" THEN Goes("restart") ELSE Idle
    /\ UNCHANGED <<clients, authed, subs, held, registered, keeps, web>>

Restarts ==
    /\ At("restart")
    /\ IF pool.adapters # <<>> /\ pool.adapters[1].live
       THEN /\ PoolIs([pool EXCEPT !.connected = TRUE], index, {}, refused)
            /\ loop' = Goes("restore")
       ELSE /\ UNCHANGED <<pool, index, lost, refused>>
            /\ loop' = Idle
    /\ UNCHANGED <<clients, authed, subs, held, registered, keeps, web, refusals>>

\* A subscription that cannot be restored is only logged.
Restores(k) ==
    /\ At("restore") /\ k \in loop.todo
    /\ \E ok \in Agrees :
          /\ Counted(ok)
          /\ PoolIs(Subscribe(pool, k, ok, token).pool, index, {k[1]}, refused)
    /\ loop' = [loop EXCEPT !.todo = @ \ {k}]
    /\ UNCHANGED <<clients, authed, subs, held, registered, keeps, web>>

Retries ==
    /\ At("restore") /\ loop.todo = {}
    /\ \E ok \in Agrees :
          /\ Counted(ok)
          /\ Subscribed(loop.client, loop.key, Subscribe(pool, loop.key, ok, token))
    /\ loop' = Idle
    /\ UNCHANGED <<clients, authed, held, registered, keeps, web>>

-----------------------------------------------------------------------------
(* Unsubscription and departure *)

\* A client is taken off a key; the pool is asked to stop it when no client is
\* left.  Nothing is put back when the pool fails to.
TakenOff(c, k, asks) ==
    LET idx == [index EXCEPT ![k] = @ \ {c}] IN
    IF index[k] = {c} /\ asks
    THEN \E a \in AgreesTo :
            LET r == Unsubscribe(pool, k, a)
                failed == r.status = "error" /\ pool.at[k] # 0
            IN /\ Counted(a = Accepted)
               /\ PoolIs(r.pool, idx, {}, IF failed THEN refused \cup {k} ELSE refused \ {k})
    ELSE PoolIs(pool, idx, {}, refused) /\ UNCHANGED refusals

UnsubscribeClient(c, k) ==
    /\ At("free") /\ c \in authed /\ held
    /\ TakenOff(c, k, TRUE)
    /\ subs' = [subs EXCEPT ![c] = @ \ {k}]
    /\ UNCHANGED <<clients, authed, held, registered, keeps, web, loop>>

UnsubscribeAllClient(c) ==
    /\ At("free") /\ c \in authed /\ held
    /\ loop' = [step |-> "unsubscribe_all", client |-> c, key |-> None, todo |-> subs[c]]
    /\ UNCHANGED <<clients, authed, subs, index, pool, held, registered, keeps, web, lost, refused, refusals>>

UnsubscribesNext(k) ==
    /\ At("unsubscribe_all") /\ k \in loop.todo
    /\ TakenOff(loop.client, k, TRUE)
    /\ loop' = [loop EXCEPT !.todo = @ \ {k}]
    /\ UNCHANGED <<clients, authed, subs, held, registered, keeps, web>>

\* Variant: the subscriptions of the client are not cleared.
UnsubscribesLastKept ==
    /\ At("unsubscribe_all") /\ loop.todo = {}
    /\ loop' = Idle
    /\ UNCHANGED <<clients, authed, subs, index, pool, held, registered, keeps, web, lost, refused, refusals>>

UnsubscribesLast ==
    /\ At("unsubscribe_all") /\ loop.todo = {}
    /\ subs' = [subs EXCEPT ![loop.client] = {}]
    /\ loop' = Idle
    /\ UNCHANGED <<clients, authed, index, pool, held, registered, keeps, web, lost, refused, refusals>>

\* cleanup_client
Disconnects(c) ==
    /\ At("free") /\ c \in clients
    /\ clients' = clients \ {c}
    /\ loop' = [step |-> "leave", client |-> c, key |-> None, todo |-> subs[c]]
    /\ UNCHANGED <<authed, subs, index, pool, held, registered, keeps, web, lost, refused, refusals>>

\* Variant: a departing client is only taken out of the index.
LeavesKeyInIndexOnly(k) ==
    /\ At("leave") /\ k \in loop.todo
    /\ PoolIs(pool, [index EXCEPT ![k] = @ \ {loop.client}], {}, refused)
    /\ loop' = [loop EXCEPT !.todo = @ \ {k}]
    /\ UNCHANGED <<clients, authed, subs, held, registered, keeps, web, refusals>>

LeavesKey(k) ==
    /\ At("leave") /\ k \in loop.todo
    /\ TakenOff(loop.client, k, loop.client \in authed /\ held)
    /\ loop' = [loop EXCEPT !.todo = @ \ {k}]
    /\ UNCHANGED <<clients, authed, subs, held, registered, keeps, web>>

\* Variant: the departing client is counted among the others.
LastOfUserCounted(c) == authed = {}

LastOfUser(c) == authed = {c}

LeavesLast ==
    LET c == loop.client IN
    /\ At("leave") /\ loop.todo = {}
    /\ subs' = [subs EXCEPT ![c] = {}]
    /\ authed' = authed \ {c}
    /\ IF LastOfUser(c) /\ held
       THEN IF keeps
            THEN /\ PoolIs(UnsubscribeAll(pool), index, {}, refused)
                 /\ UNCHANGED <<held, registered>>
            ELSE TornDown({}) /\ held' = FALSE /\ registered' = FALSE
       ELSE UNCHANGED <<index, pool, held, registered, lost, refused>>
    /\ loop' = Idle
    /\ UNCHANGED <<clients, keeps, web, refusals>>

-----------------------------------------------------------------------------
(* The token *)

\* The broker ends the token: what was made with it is dead.
TokenEnds ==
    /\ token
    /\ token' = FALSE
    /\ PoolIs(Dead(pool), index, {}, refused)
    /\ UNCHANGED <<clients, authed, subs, held, registered, keeps, logins, invalid, cleaning, loop, refusals>>

\* Variant: a message for each of the two caches.
UpsertAuthTwoMessages(login) ==
    /\ logins < MaxLogins /\ ~cleaning
    /\ logins' = logins + 1
    /\ token' = login
    /\ invalid' = invalid + 2
    /\ cleaning' = login
    /\ UNCHANGED <<clients, authed, subs, index, pool, held, registered, keeps, loop, lost, refused, refusals>>

\* upsert_auth, by a login or by a logout, up to the message it publishes.  A
\* logout names no broker, which matches no pool to clean up.
UpsertAuth(login) ==
    /\ logins < MaxLogins /\ ~cleaning
    /\ logins' = logins + 1
    /\ token' = login
    /\ invalid' = invalid + 1
    /\ cleaning' = login
    /\ UNCHANGED <<clients, authed, subs, index, pool, held, registered, keeps, loop, lost, refused, refusals>>

\* Variant: no pool is found under the names of broker and user.
CleanupPoolsNone ==
    /\ cleaning
    /\ cleaning' = FALSE
    /\ UNCHANGED <<clients, authed, subs, index, pool, held, registered, keeps, token,
                   logins, invalid, loop, lost, refused, refusals>>

\* cleanup_pools_for_user
CleanupPools ==
    /\ cleaning
    /\ cleaning' = FALSE
    /\ registered' = FALSE
    /\ IF registered THEN TornDown(refused) ELSE UNCHANGED <<pool, index, lost, refused>>
    /\ UNCHANGED <<clients, authed, subs, held, keeps, token, logins, invalid, loop, refusals>>

\* _handle_cache_invalidation
CacheInvalidation ==
    /\ At("free") /\ invalid > 0
    /\ invalid' = invalid - 1
    /\ IF held THEN TornDown({}) /\ held' = FALSE /\ registered' = FALSE
       ELSE UNCHANGED <<pool, index, held, registered, lost, refused>>
    /\ UNCHANGED <<clients, authed, subs, keeps, token, logins, cleaning, loop, refusals>>

-----------------------------------------------------------------------------
Handlers ==
    \/ \E c \in Clients :
          \/ ClientConnects(c) \/ Authenticate(c) \/ UnsubscribeAllClient(c) \/ Disconnects(c)
          \/ \E k \in Keys : SubscribeClient(c, k) \/ UnsubscribeClient(c, k)
    \/ Initializes \/ Connects \/ ForcesInitialize
    \/ Snapshots \/ Rebuilds \/ Restarts \/ Retries
    \/ UnsubscribesLast \/ LeavesLast \/ CacheInvalidation
    \/ \E k \in Keys : Restores(k) \/ UnsubscribesNext(k) \/ LeavesKey(k)

Next == Handlers \/ TokenEnds \/ CleanupPools \/ \E login \in BOOLEAN : UpsertAuth(login)

Spec == Init /\ [][Next]_vars

Symmetry == Permutations(Clients) \cup Permutations(Symbols)

-----------------------------------------------------------------------------
(* What the proxy promises *)

TypeOK ==
    /\ clients \subseteq Clients /\ authed \subseteq Clients
    /\ subs \in [Clients -> SUBSET Keys] /\ index \in [Keys -> SUBSET Clients]
    /\ pool \in Pool
    /\ held \in BOOLEAN /\ registered \in BOOLEAN /\ keeps \in BOOLEAN
    /\ token \in BOOLEAN /\ logins \in 0..MaxLogins /\ invalid \in 0..MaxLogins
    /\ cleaning \in BOOLEAN /\ loop \in Loop /\ refusals \in 0..MaxRefusals
    /\ lost \subseteq Symbols /\ refused \subseteq Keys

\* The keys the running handler has already taken its client off.
TakenOffAlready(c) ==
    IF loop.step \in {"leave", "unsubscribe_all"} /\ loop.client = c
    THEN subs[c] \ loop.todo ELSE {}

\* The two tables of who wants what agree, whatever the handlers are in the middle
\* of, and only authenticated clients are in them.
IndexMatches ==
    /\ \A c \in Clients, k \in Keys :
          c \in index[k] <=> k \in subs[c] \ TakenOffAlready(c)
    /\ \A c \in Clients : subs[c] # {} => c \in authed
    /\ \A c \in authed : c \in clients \/ (At("leave") /\ loop.client = c)

\* The pool's own bookkeeping.
PoolCounts == CountsRight(pool)
PoolOneConnection == OneConnection(pool)

\* A subscriber of a symbol is served by the pool, unless the feed of the symbol
\* was ended by a login, by a recovery that could not restore it, or the broker
\* refused to stop a mode of it: no other departure, unsubscription or downgrade of
\* another client ends it.
Served ==
    At("free") =>
        \A c \in Clients : \A k \in subs[c] :
           \/ k[1] \in lost \cup {r[1] : r \in refused}
           \/ /\ held /\ pool.at[k] # 0
              /\ pool.adapters[pool.at[k]].live => Delivered(pool, k)

\* The pool tracks nothing that no client wants, but for a refused unsubscription.
NothingUnused == At("free") => \A k \in Tracked(pool) \ refused : index[k] # {}

\* No broker connection is kept when nobody is there to use it.
AdapterNeeded == At("free") /\ held /\ ~keeps => authed # {}

\* Once a login is through and its message received, no connection made with an
\* ended token is in use.
Fresh ==
    At("free") /\ token /\ ~cleaning /\ invalid = 0 /\ (held \/ registered) =>
        \A i \in DOMAIN pool.adapters : pool.adapters[i].live
=============================================================================
