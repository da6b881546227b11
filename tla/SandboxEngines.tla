---------------------------- MODULE SandboxEngines ----------------------------
(***************************************************************************)
(* The threads that execute pending orders: sandbox/execution_thread.py.   *)
(* Requests that switch the analyzer mode call start_execution_engine and  *)
(* stop_execution_engine, which hold _thread_lock.  Polling threads and    *)
(* upgrade watchers run beside them and are told to stop through events; a *)
(* join waits for such a thread for a bounded time only and then goes on   *)
(* without it.  Of the WebSocket engine there is whether it runs; its own  *)
(* fallback thread is not part of this module.                             *)
(***************************************************************************)

CONSTANTS
    Callers,            \* request threads that switch the engine on and off
    Polls,              \* ExecutionEngineThread objects
    Watchers,           \* threads of _start_websocket_upgrade_watcher
    None,               \* Python's None, and an unlocked lock
    EngineType          \* SANDBOX_ENGINE_TYPE

ASSUME EnginesAssumption ==
    /\ None \notin Callers \cup Polls \cup Watchers
    /\ Callers \cap Watchers = {}
    /\ EngineType \in {"websocket", "polling"}

VARIABLES
    calls,          \* what each caller is doing
    lock,           \* holder of _thread_lock
    executionThread,    \* _execution_thread
    upgradeThread,      \* _auto_upgrade_thread
    upgradeStop,        \* _auto_upgrade_stop_event
    websocketRunning,   \* _websocket_engine is set and its _running too
    polls,          \* the polling threads, each with its stop_event
    watchers,       \* the upgrade watchers
    proxyUp,        \* the WebSocket proxy accepts connections
    wanted          \* the last call that took effect: start or stop

globals == <<lock, executionThread, upgradeThread, upgradeStop, websocketRunning>>
vars == <<calls, globals, polls, watchers, proxyUp, wanted>>

CallSteps == {"idle", "start", "stop",                 \* waiting for the lock
              "joinWatcher", "engine", "polling", "joinPoll"}
PollRecord == [phase : {"dead", "loop", "pass"}, stop : BOOLEAN]
WatcherSteps == {"dead", "sleep", "lock", "joinPoll"}

DeadPoll == [phase |-> "dead", stop |-> FALSE]

TypeOK ==
    /\ calls \in [Callers -> CallSteps]
    /\ lock \in Callers \cup Watchers \cup {None}
    /\ executionThread \in Polls \cup {None}
    /\ upgradeThread \in Watchers \cup {None}
    /\ upgradeStop \in BOOLEAN
    /\ websocketRunning \in BOOLEAN
    /\ polls \in [Polls -> PollRecord]
    /\ watchers \in [Watchers -> WatcherSteps]
    /\ proxyUp \in BOOLEAN
    /\ wanted \in {"start", "stop"}

Init ==
    /\ calls = [c \in Callers |-> "idle"]
    /\ lock = None
    /\ executionThread = None /\ upgradeThread = None
    /\ upgradeStop = FALSE /\ websocketRunning = FALSE
    /\ polls = [p \in Polls |-> DeadPoll]
    /\ watchers = [w \in Watchers |-> "dead"]
    /\ proxyUp \in BOOLEAN
    /\ wanted = "stop"

-----------------------------------------------------------------------------
(* A dead thread nobody refers to stands for one not created yet.          *)

PollAlive(p) == p # None /\ polls[p].phase # "dead"
WatcherAlive(w) == w # None /\ watchers[w] # "dead"

NewPoll(p) == ~PollAlive(p) /\ p # executionThread
NewWatcher(w) == ~WatcherAlive(w) /\ w # upgradeThread

At(c, step) == calls[c] = step
Goto(c, step) == calls' = [calls EXCEPT ![c] = step]

-----------------------------------------------------------------------------
(* start_execution_engine *)

Call(c, request) ==
    /\ At(c, "idle")
    /\ Goto(c, request)
    /\ UNCHANGED <<globals, polls, watchers, proxyUp, wanted>>

\* Variant: the check of start_execution_engine looks at the polling thread only.
EngineFoundPolling == PollAlive(executionThread)

EngineFound == PollAlive(executionThread) \/ websocketRunning

Starts(c) ==
    /\ At(c, "start") /\ lock = None
    /\ Goto(c, "idle")
    /\ wanted' = "start"

\* An engine is running already.
StartFindsEngine(c) ==
    /\ Starts(c)
    /\ EngineFound
    /\ UNCHANGED <<globals, polls, watchers, proxyUp>>

\* The proxy answers: start the WebSocket engine with its health monitor.
StartWebSocket(c) ==
    /\ Starts(c)
    /\ ~EngineFound
    /\ EngineType = "websocket" /\ proxyUp
    /\ websocketRunning' = TRUE
    /\ UNCHANGED <<lock, executionThread, upgradeThread, upgradeStop,
                   polls, watchers, proxyUp>>

\* Variant: the event the last stop has set is not cleared.
StartPollingUncleared(c) ==
    /\ Starts(c)
    /\ ~EngineFound
    /\ EngineType = "polling" \/ ~proxyUp
    /\ \E p \in Polls :
         /\ NewPoll(p)
         /\ executionThread' = p
         /\ polls' = [polls EXCEPT ![p] = [phase |-> "loop", stop |-> FALSE]]
    /\ IF EngineType = "websocket" /\ ~WatcherAlive(upgradeThread)
       THEN \E w \in Watchers :
              /\ NewWatcher(w)
              /\ upgradeThread' = w
              /\ watchers' = [watchers EXCEPT ![w] = "sleep"]
       ELSE UNCHANGED <<upgradeThread, watchers>>
    /\ UNCHANGED <<lock, upgradeStop, websocketRunning, proxyUp>>

(***************************************************************************)
(* Polling, by configuration or because the proxy does not answer.  In the *)
(* second case a watcher is started that upgrades to the WebSocket engine; *)
(* it clears the stop event all watchers share.                            *)
(***************************************************************************)
StartPolling(c) ==
    /\ Starts(c)
    /\ ~EngineFound
    /\ EngineType = "polling" \/ ~proxyUp
    /\ \E p \in Polls :
         /\ NewPoll(p)
         /\ executionThread' = p
         /\ polls' = [polls EXCEPT ![p] = [phase |-> "loop", stop |-> FALSE]]
    /\ IF EngineType = "websocket" /\ ~WatcherAlive(upgradeThread)
       THEN \E w \in Watchers :
              /\ NewWatcher(w)
              /\ upgradeThread' = w
              /\ upgradeStop' = FALSE
              /\ watchers' = [watchers EXCEPT ![w] = "sleep"]
       ELSE UNCHANGED <<upgradeThread, upgradeStop, watchers>>
    /\ UNCHANGED <<lock, websocketRunning, proxyUp>>

-----------------------------------------------------------------------------
(* stop_execution_engine.  A join returns when the thread has ended or     *)
(* after its timeout: the caller goes on in either case.  A polling thread *)
(* between passes sees its event within a second, so that only a pass can  *)
(* outlast the ten seconds of its join.                                    *)

PollJoinReturns == polls[executionThread].phase \in {"dead", "pass"}

\* Variant: the watcher is waited for without being told to stop.
StopWatcherUntold(c) ==
    /\ At(c, "stop") /\ lock = None
    /\ lock' = c
    /\ Goto(c, "joinWatcher")
    /\ UNCHANGED <<executionThread, upgradeThread, upgradeStop,
                   websocketRunning, polls, watchers, proxyUp, wanted>>

StopWatcher(c) ==
    /\ At(c, "stop") /\ lock = None
    /\ lock' = c
    /\ upgradeStop' = TRUE
    /\ IF WatcherAlive(upgradeThread)
       THEN Goto(c, "joinWatcher") /\ UNCHANGED upgradeThread
       ELSE Goto(c, "engine") /\ upgradeThread' = None
    /\ UNCHANGED <<executionThread, websocketRunning, polls, watchers, proxyUp, wanted>>

\* Variant: the join has no timeout.
WatcherJoinedFully(c) ==
    /\ At(c, "joinWatcher")
    /\ ~WatcherAlive(upgradeThread)
    /\ upgradeThread' = None
    /\ Goto(c, "engine")
    /\ UNCHANGED <<lock, executionThread, upgradeStop, websocketRunning, polls,
                   watchers, proxyUp, wanted>>

\* Variant: the reference is overwritten by what is_alive returns.
WatcherJoinedFlag(c) ==
    /\ At(c, "joinWatcher")
    /\ upgradeThread' = WatcherAlive(upgradeThread)
    /\ Goto(c, "engine")
    /\ UNCHANGED <<lock, executionThread, upgradeStop, websocketRunning, polls,
                   watchers, proxyUp, wanted>>

WatcherJoined(c) ==
    /\ At(c, "joinWatcher")
    /\ upgradeThread' = None
    /\ Goto(c, "engine")
    /\ UNCHANGED <<lock, executionThread, upgradeStop, websocketRunning, polls,
                   watchers, proxyUp, wanted>>

StopEngine(c) ==
    /\ At(c, "engine")
    /\ websocketRunning' = FALSE
    /\ Goto(c, "polling")
    /\ UNCHANGED <<lock, executionThread, upgradeThread, upgradeStop, polls,
                   watchers, proxyUp, wanted>>

Stopped(c) ==
    /\ Goto(c, "idle")
    /\ lock' = None
    /\ wanted' = "stop"
    /\ UNCHANGED <<upgradeThread, upgradeStop, websocketRunning, watchers, proxyUp>>

StopPolling(c) ==
    /\ At(c, "polling")
    /\ IF PollAlive(executionThread)
       THEN /\ polls' = [polls EXCEPT ![executionThread].stop = TRUE]
            /\ Goto(c, "joinPoll")
            /\ UNCHANGED <<globals, watchers, proxyUp, wanted>>
       ELSE Stopped(c) /\ UNCHANGED <<executionThread, polls>>

PollJoined(c) ==
    /\ At(c, "joinPoll")
    /\ PollJoinReturns
    /\ executionThread' = None
    /\ Stopped(c)
    /\ UNCHANGED polls

-----------------------------------------------------------------------------
(* ExecutionEngineThread.run *)

PollPass(p) ==
    /\ polls[p].phase = "loop" /\ ~polls[p].stop
    /\ polls' = [polls EXCEPT ![p].phase = "pass"]
    /\ UNCHANGED <<calls, globals, watchers, proxyUp, wanted>>

PollPassEnds(p) ==
    /\ polls[p].phase = "pass"
    /\ polls' = [polls EXCEPT ![p].phase = "loop"]
    /\ UNCHANGED <<calls, globals, watchers, proxyUp, wanted>>

PollEnds(p) ==
    /\ polls[p].phase = "loop" /\ polls[p].stop
    /\ polls' = [polls EXCEPT ![p] = DeadPoll]
    /\ UNCHANGED <<calls, globals, watchers, proxyUp, wanted>>

-----------------------------------------------------------------------------
(* The upgrade watcher: _watch *)

\* After its sleep: end, or go on to upgrade if the proxy answers.
WatcherWakes(w) ==
    /\ watchers[w] = "sleep"
    /\ upgradeStop \/ proxyUp
    /\ watchers' = [watchers EXCEPT ![w] = IF upgradeStop THEN "dead" ELSE "lock"]
    /\ UNCHANGED <<calls, globals, polls, proxyUp, wanted>>

Upgradable == PollAlive(executionThread) /\ ~websocketRunning

UpgradeSkipped(w) ==
    /\ watchers[w] = "lock" /\ lock = None
    /\ ~Upgradable
    /\ watchers' = [watchers EXCEPT ![w] = "sleep"]
    /\ UNCHANGED <<calls, globals, polls, proxyUp, wanted>>

\* Variant: the polling thread is waited for without being told to stop.
UpgradeUntold(w) ==
    /\ watchers[w] = "lock" /\ lock = None
    /\ Upgradable
    /\ websocketRunning' = TRUE
    /\ lock' = w
    /\ watchers' = [watchers EXCEPT ![w] = "joinPoll"]
    /\ UNCHANGED <<calls, executionThread, upgradeThread, upgradeStop, polls,
                   proxyUp, wanted>>

Upgrade(w) ==
    /\ watchers[w] = "lock" /\ lock = None
    /\ Upgradable
    /\ websocketRunning' = TRUE
    /\ polls' = [polls EXCEPT ![executionThread].stop = TRUE]
    /\ lock' = w
    /\ watchers' = [watchers EXCEPT ![w] = "joinPoll"]
    /\ UNCHANGED <<calls, executionThread, upgradeThread, upgradeStop, proxyUp, wanted>>

Upgraded(w) ==
    /\ watchers[w] = "joinPoll"
    /\ PollJoinReturns
    /\ executionThread' = None
    /\ lock' = None
    /\ watchers' = [watchers EXCEPT ![w] = "dead"]
    /\ UNCHANGED <<calls, upgradeThread, upgradeStop, websocketRunning, polls, proxyUp, wanted>>

-----------------------------------------------------------------------------

\* The WebSocket proxy comes and goes.
ProxyChanges ==
    /\ proxyUp' = ~proxyUp
    /\ UNCHANGED <<calls, globals, polls, watchers, wanted>>

-----------------------------------------------------------------------------

TakesLock(c) ==
    StartFindsEngine(c) \/ StartWebSocket(c) \/ StartPolling(c) \/ StopWatcher(c)
Stops(c) ==
    \/ WatcherJoined(c) \/ StopEngine(c) \/ StopPolling(c) \/ PollJoined(c)
Polling(p) == PollPass(p) \/ PollPassEnds(p) \/ PollEnds(p)
TriesUpgrade(w) == UpgradeSkipped(w) \/ Upgrade(w)

Next ==
    \/ \E c \in Callers :
         Call(c, "start") \/ Call(c, "stop") \/ TakesLock(c) \/ Stops(c)
    \/ \E p \in Polls : Polling(p)
    \/ \E w \in Watchers : WatcherWakes(w) \/ TriesUpgrade(w) \/ Upgraded(w)
    \/ ProxyChanges

Spec == Init /\ [][Next]_vars

(***************************************************************************)
(* Every thread keeps running, passes and joins end (requests to the       *)
(* broker and joins have timeouts), and a thread that waits for            *)
(* _thread_lock gets it: the lock is held for bounded times and every      *)
(* thread that comes back for it sleeps for seconds in between.  Nothing   *)
(* is assumed of the callers and the proxy.                                *)
(***************************************************************************)
Fairness ==
    /\ \A c \in Callers : SF_vars(TakesLock(c)) /\ WF_vars(Stops(c))
    /\ \A p \in Polls : WF_vars(Polling(p))
    /\ \A w \in Watchers :
         WF_vars(WatcherWakes(w)) /\ SF_vars(TriesUpgrade(w)) /\ WF_vars(Upgraded(w))

FairSpec == Spec /\ Fairness

-----------------------------------------------------------------------------
(* Properties *)

(***************************************************************************)
(* execution_thread.py keeps one reference, _execution_thread, and drops   *)
(* it after a join that may have timed out.  A polling thread it no longer *)
(* refers to has been told to stop, so nothing can be left running that    *)
(* no later stop would reach.                                              *)
(***************************************************************************)
ForgottenPollsStop ==
    \A p \in Polls : PollAlive(p) /\ p # executionThread => polls[p].stop

(***************************************************************************)
(* Between calls, an engine serves orders exactly if the last call to take *)
(* effect was a start, and it is one of the two engines, never both: the   *)
(* upgrade from polling to WebSocket leaves no gap and no pair.            *)
(***************************************************************************)
PollServes == PollAlive(executionThread) /\ ~polls[executionThread].stop

ServedAsWanted ==
    lock = None => /\ (PollServes \/ websocketRunning) <=> wanted = "start"
                   /\ ~(PollServes /\ websocketRunning)

(***************************************************************************)
(* stop_execution_engine waits for the watcher while the watcher may wait  *)
(* for the lock the caller holds: every call returns nevertheless.         *)
(***************************************************************************)
CallsReturn == \A c \in Callers : ~At(c, "idle") ~> At(c, "idle")

(***************************************************************************)
(* Once the engine stays stopped every thread it started ends, those       *)
(* included whose join timed out.                                          *)
(***************************************************************************)
AllQuiet ==
    /\ \A p \in Polls : ~PollAlive(p)
    /\ \A w \in Watchers : ~WatcherAlive(w)

StopEndsThreads == <>[](wanted = "stop" /\ lock = None) => <>[]AllQuiet

(***************************************************************************)
(* An engine that fell back to polling because the proxy did not answer is *)
(* upgraded once the proxy stays up.                                       *)
(***************************************************************************)
UpgradeHappens ==
    EngineType = "websocket" =>
        (<>[](wanted = "start" /\ proxyUp) => <>[]websocketRunning)
=============================================================================
