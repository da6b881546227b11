------------------------ MODULE SandboxEngines_proofs ------------------------
(***************************************************************************)
(* Proofs about SandboxEngines, for any number of callers, threads and     *)
(* watchers.  The inductive invariant says who holds _thread_lock and what *)
(* is true of the two engines at each step the holder may be at.           *)
(***************************************************************************)
EXTENDS SandboxEngines, TLAPS

HoldingSteps == {"joinWatcher", "engine", "polling", "joinPoll"}

\* A thread is between acquiring and releasing _thread_lock iff it is the holder.
LockHeld ==
    /\ \A c \in Callers : calls[c] \in HoldingSteps <=> lock = c
    /\ \A w \in Watchers : watchers[w] = "joinPoll" <=> lock = w

\* Nobody has told the polling thread in _execution_thread to stop.
Untold == executionThread # None => PollServes

\* The engines while nobody holds the lock.
Free == lock = None => Untold /\ ServedAsWanted

\* The engines while stop_execution_engine holds it, by its step.
Stopping ==
    \A c \in Callers :
      /\ calls[c] \in {"joinWatcher", "engine", "polling"} => Untold
      /\ calls[c] \in {"polling", "joinPoll"} => ~websocketRunning
      /\ calls[c] = "joinPoll" => /\ executionThread # None
                                  /\ ~PollServes

\* The engines while the watcher holds it and waits for the polling thread.
Upgrading ==
    \A w \in Watchers :
      watchers[w] = "joinPoll" => /\ executionThread # None
                                  /\ ~PollServes
                                  /\ websocketRunning
                                  /\ wanted = "start"

IInv == TypeOK /\ LockHeld /\ ForgottenPollsStop /\ Free /\ Stopping /\ Upgrading

LEMMA InitIInv == Init => IInv
  <1> SUFFICES ASSUME Init PROVE IInv
    OBVIOUS
  <1> USE EnginesAssumption DEF Init, DeadPoll
  <1>1. TypeOK
    BY DEF TypeOK, CallSteps, PollRecord, WatcherSteps
  <1>2. LockHeld
    BY DEF LockHeld, HoldingSteps
  <1>3. ForgottenPollsStop
    BY DEF ForgottenPollsStop, PollAlive
  <1>4. Free
    BY DEF Free, Untold, ServedAsWanted, PollServes, PollAlive
  <1>5. Stopping /\ Upgrading
    BY DEF Stopping, Upgrading
  <1>6. QED
    BY <1>1, <1>2, <1>3, <1>4, <1>5 DEF IInv

LEMMA CallKeeps ==
  ASSUME NEW c \in Callers, NEW r \in {"start", "stop"}, Call(c, r), IInv
  PROVE  IInv'
  <1> USE EnginesAssumption DEF IInv, Call, At, Goto, globals
  <1>1. TypeOK'
    BY DEF TypeOK, CallSteps, PollRecord, WatcherSteps, DeadPoll
  <1>2. LockHeld'
    BY DEF LockHeld, HoldingSteps, TypeOK
  <1>3. ForgottenPollsStop'
    BY DEF ForgottenPollsStop, PollAlive, PollServes, Free, Stopping,
        Upgrading, Untold, TypeOK, PollRecord, DeadPoll
  <1>4. Free'
    BY DEF Free, Untold, ServedAsWanted, PollServes, PollAlive, Stopping,
        Upgrading, LockHeld, HoldingSteps, TypeOK, PollRecord, DeadPoll
  <1>5. Stopping'
    BY DEF Stopping, Free, Untold, PollServes, PollAlive, LockHeld,
        HoldingSteps, TypeOK, PollRecord, DeadPoll
  <1>6. Upgrading'
    BY DEF Upgrading, Free, Untold, ServedAsWanted, PollServes, PollAlive,
        LockHeld, HoldingSteps, TypeOK, PollRecord, DeadPoll
  <1>7. QED
    BY <1>1, <1>2, <1>3, <1>4, <1>5, <1>6

LEMMA StartFindsEngineKeeps ==
  ASSUME NEW c \in Callers, StartFindsEngine(c), IInv
  PROVE  IInv'
  <1> USE EnginesAssumption DEF IInv, StartFindsEngine, Starts,
      EngineFound, At, Goto, globals
  <1>1. TypeOK'
    BY DEF TypeOK, CallSteps, PollRecord, WatcherSteps, DeadPoll
  <1>2. LockHeld'
    BY DEF LockHeld, HoldingSteps, TypeOK
  <1>3. ForgottenPollsStop'
    BY DEF ForgottenPollsStop, PollAlive, PollServes, Free, Stopping,
        Upgrading, Untold, TypeOK, PollRecord, DeadPoll
  <1>4. Free'
    BY DEF Free, Untold, ServedAsWanted, PollServes, PollAlive, Stopping,
        Upgrading, LockHeld, HoldingSteps, TypeOK, PollRecord, DeadPoll
  <1>5. Stopping'
    BY DEF Stopping, Free, Untold, PollServes, PollAlive, LockHeld,
        HoldingSteps, TypeOK, PollRecord, DeadPoll
  <1>6. Upgrading'
    BY DEF Upgrading, Free, Untold, ServedAsWanted, PollServes, PollAlive,
        LockHeld, HoldingSteps, TypeOK, PollRecord, DeadPoll
  <1>7. QED
    BY <1>1, <1>2, <1>3, <1>4, <1>5, <1>6

LEMMA StartWebSocketKeeps ==
  ASSUME NEW c \in Callers, StartWebSocket(c), IInv
  PROVE  IInv'
  <1> USE EnginesAssumption DEF IInv, StartWebSocket, Starts, EngineFound,
      At, Goto
  <1>1. TypeOK'
    BY DEF TypeOK, CallSteps, PollRecord, WatcherSteps, DeadPoll
  <1>2. LockHeld'
    BY DEF LockHeld, HoldingSteps, TypeOK
  <1>3. ForgottenPollsStop'
    BY DEF ForgottenPollsStop, PollAlive, PollServes, Free, Stopping,
        Upgrading, Untold, TypeOK, PollRecord, DeadPoll
  <1>4. Free'
    BY DEF Free, Untold, ServedAsWanted, PollServes, PollAlive, Stopping,
        Upgrading, LockHeld, HoldingSteps, TypeOK, PollRecord, DeadPoll
  <1>5. Stopping'
    BY DEF Stopping, Free, Untold, PollServes, PollAlive, LockHeld,
        HoldingSteps, TypeOK, PollRecord, DeadPoll
  <1>6. Upgrading'
    BY DEF Upgrading, Free, Untold, ServedAsWanted, PollServes, PollAlive,
        LockHeld, HoldingSteps, TypeOK, PollRecord, DeadPoll
  <1>7. QED
    BY <1>1, <1>2, <1>3, <1>4, <1>5, <1>6

LEMMA StartPollingKeeps ==
  ASSUME NEW c \in Callers, StartPolling(c), IInv
  PROVE  IInv'
  <1> USE EnginesAssumption DEF IInv, StartPolling, Starts, EngineFound,
      NewPoll, NewWatcher, WatcherAlive, At, Goto
  <1>1. TypeOK'
    <2>1. polls' \in [Polls -> PollRecord] /\ executionThread' \in Polls \cup {None}
      <3>1. PICK p \in Polls : /\ executionThread' = p
                              /\ polls' = [polls EXCEPT ![p] = [phase |-> "loop", stop |-> FALSE]]
        OBVIOUS
      <3>2. QED
        BY <3>1 DEF TypeOK, PollRecord
    <2>2. /\ upgradeThread' \in Watchers \cup {None}
          /\ upgradeStop' \in BOOLEAN
          /\ watchers' \in [Watchers -> WatcherSteps]
      BY DEF TypeOK, WatcherSteps
    <2>3. calls' \in [Callers -> CallSteps] /\ wanted' \in {"start", "stop"}
      BY DEF TypeOK, CallSteps
    <2>4. QED
      BY <2>1, <2>2, <2>3 DEF TypeOK
  <1>2. LockHeld'
    BY DEF LockHeld, HoldingSteps, TypeOK
  <1>3. ForgottenPollsStop'
    BY DEF ForgottenPollsStop, PollAlive, PollServes, Free, Stopping,
        Upgrading, Untold, TypeOK, PollRecord, DeadPoll
  <1>4. Free'
    BY DEF Free, Untold, ServedAsWanted, PollServes, PollAlive, Stopping,
        Upgrading, LockHeld, HoldingSteps, TypeOK, PollRecord, DeadPoll
  <1>5. Stopping'
    BY DEF Stopping, Free, Untold, PollServes, PollAlive, LockHeld,
        HoldingSteps, TypeOK, PollRecord, DeadPoll
  <1>6. Upgrading'
    BY DEF Upgrading, Free, Untold, ServedAsWanted, PollServes, PollAlive,
        LockHeld, HoldingSteps, TypeOK, PollRecord, DeadPoll
  <1>7. QED
    BY <1>1, <1>2, <1>3, <1>4, <1>5, <1>6

LEMMA StopWatcherKeeps ==
  ASSUME NEW c \in Callers, StopWatcher(c), IInv
  PROVE  IInv'
  <1> USE EnginesAssumption DEF IInv, StopWatcher, At, Goto
  <1>1. TypeOK'
    BY DEF TypeOK, CallSteps, PollRecord, WatcherSteps, DeadPoll
  <1>2. LockHeld'
    BY DEF LockHeld, HoldingSteps, TypeOK
  <1>3. ForgottenPollsStop'
    BY DEF ForgottenPollsStop, PollAlive, PollServes, Free, Stopping,
        Upgrading, Untold, TypeOK, PollRecord, DeadPoll
  <1>4. Free'
    BY DEF Free, Untold, ServedAsWanted, PollServes, PollAlive, Stopping,
        Upgrading, LockHeld, HoldingSteps, TypeOK, PollRecord, DeadPoll
  <1>5. Stopping'
    BY DEF Stopping, Free, Untold, PollServes, PollAlive, LockHeld,
        HoldingSteps, TypeOK, PollRecord, DeadPoll
  <1>6. Upgrading'
    BY DEF Upgrading, Free, Untold, ServedAsWanted, PollServes, PollAlive,
        LockHeld, HoldingSteps, TypeOK, PollRecord, DeadPoll
  <1>7. QED
    BY <1>1, <1>2, <1>3, <1>4, <1>5, <1>6

LEMMA WatcherJoinedKeeps ==
  ASSUME NEW c \in Callers, WatcherJoined(c), IInv
  PROVE  IInv'
  <1> USE EnginesAssumption DEF IInv, WatcherJoined, At, Goto
  <1>1. TypeOK'
    BY DEF TypeOK, CallSteps, PollRecord, WatcherSteps, DeadPoll
  <1>2. LockHeld'
    BY DEF LockHeld, HoldingSteps, TypeOK
  <1>3. ForgottenPollsStop'
    BY DEF ForgottenPollsStop, PollAlive, PollServes, Free, Stopping,
        Upgrading, Untold, TypeOK, PollRecord, DeadPoll
  <1>4. Free'
    BY DEF Free, Untold, ServedAsWanted, PollServes, PollAlive, Stopping,
        Upgrading, LockHeld, HoldingSteps, TypeOK, PollRecord, DeadPoll
  <1>5. Stopping'
    BY DEF Stopping, Free, Untold, PollServes, PollAlive, LockHeld,
        HoldingSteps, TypeOK, PollRecord, DeadPoll
  <1>6. Upgrading'
    BY DEF Upgrading, Free, Untold, ServedAsWanted, PollServes, PollAlive,
        LockHeld, HoldingSteps, TypeOK, PollRecord, DeadPoll
  <1>7. QED
    BY <1>1, <1>2, <1>3, <1>4, <1>5, <1>6

LEMMA StopEngineKeeps ==
  ASSUME NEW c \in Callers, StopEngine(c), IInv
  PROVE  IInv'
  <1> USE EnginesAssumption DEF IInv, StopEngine, At, Goto
  <1>1. TypeOK'
    BY DEF TypeOK, CallSteps, PollRecord, WatcherSteps, DeadPoll
  <1>2. LockHeld'
    BY DEF LockHeld, HoldingSteps, TypeOK
  <1>3. ForgottenPollsStop'
    BY DEF ForgottenPollsStop, PollAlive, PollServes, Free, Stopping,
        Upgrading, Untold, TypeOK, PollRecord, DeadPoll
  <1>4. Free'
    BY DEF Free, Untold, ServedAsWanted, PollServes, PollAlive, Stopping,
        Upgrading, LockHeld, HoldingSteps, TypeOK, PollRecord, DeadPoll
  <1>5. Stopping'
    BY DEF Stopping, Free, Untold, PollServes, PollAlive, LockHeld,
        HoldingSteps, TypeOK, PollRecord, DeadPoll
  <1>6. Upgrading'
    BY DEF Upgrading, Free, Untold, ServedAsWanted, PollServes, PollAlive,
        LockHeld, HoldingSteps, TypeOK, PollRecord, DeadPoll
  <1>7. QED
    BY <1>1, <1>2, <1>3, <1>4, <1>5, <1>6

LEMMA StopPollingKeeps ==
  ASSUME NEW c \in Callers, StopPolling(c), IInv
  PROVE  IInv'
  <1> USE EnginesAssumption DEF IInv, StopPolling, Stopped, At, Goto, globals
  <1>1. TypeOK'
    <2>1. polls' \in [Polls -> PollRecord]
      <3>1. CASE PollAlive(executionThread)
        <4>1. executionThread \in Polls /\ polls[executionThread] \in PollRecord
          BY <3>1 DEF TypeOK, PollAlive
        <4>2. polls' = [polls EXCEPT ![executionThread].stop = TRUE]
          BY <3>1
        <4>3. [polls[executionThread] EXCEPT !.stop = TRUE] \in PollRecord
          BY <4>1 DEF PollRecord
        <4>4. QED
          BY <4>1, <4>2, <4>3 DEF TypeOK
      <3>2. CASE ~PollAlive(executionThread)
        BY <3>2 DEF TypeOK
      <3>3. QED
        BY <3>1, <3>2
    <2>2. calls' \in [Callers -> CallSteps] /\ wanted' \in {"start", "stop"}
      BY DEF TypeOK, CallSteps
    <2>3. QED
      BY <2>1, <2>2 DEF TypeOK
  <1>2. LockHeld'
    BY DEF LockHeld, HoldingSteps, TypeOK
  <1>3. ForgottenPollsStop'
    BY DEF ForgottenPollsStop, PollAlive, PollServes, Free, Stopping,
        Upgrading, Untold, TypeOK, PollRecord, DeadPoll
  <1>4. Free'
    BY DEF Free, Untold, ServedAsWanted, PollServes, PollAlive, Stopping,
        Upgrading, LockHeld, HoldingSteps, TypeOK, PollRecord, DeadPoll
  <1>5. Stopping'
    BY DEF Stopping, Free, Untold, PollServes, PollAlive, LockHeld,
        HoldingSteps, TypeOK, PollRecord, DeadPoll
  <1>6. Upgrading'
    BY DEF Upgrading, Free, Untold, ServedAsWanted, PollServes, PollAlive,
        LockHeld, HoldingSteps, TypeOK, PollRecord, DeadPoll
  <1>7. QED
    BY <1>1, <1>2, <1>3, <1>4, <1>5, <1>6

LEMMA PollJoinedKeeps ==
  ASSUME NEW c \in Callers, PollJoined(c), IInv
  PROVE  IInv'
  <1> USE EnginesAssumption DEF IInv, PollJoined, Stopped, At, Goto
  <1>1. TypeOK'
    BY DEF TypeOK, CallSteps, PollRecord, WatcherSteps, DeadPoll
  <1>2. LockHeld'
    BY DEF LockHeld, HoldingSteps, TypeOK
  <1>3. ForgottenPollsStop'
    BY DEF ForgottenPollsStop, PollAlive, PollServes, Free, Stopping,
        Upgrading, Untold, TypeOK, PollRecord, DeadPoll
  <1>4. Free'
    BY DEF Free, Untold, ServedAsWanted, PollServes, PollAlive, Stopping,
        Upgrading, LockHeld, HoldingSteps, TypeOK, PollRecord, DeadPoll
  <1>5. Stopping'
    BY DEF Stopping, Free, Untold, PollServes, PollAlive, LockHeld,
        HoldingSteps, TypeOK, PollRecord, DeadPoll
  <1>6. Upgrading'
    BY DEF Upgrading, Free, Untold, ServedAsWanted, PollServes, PollAlive,
        LockHeld, HoldingSteps, TypeOK, PollRecord, DeadPoll
  <1>7. QED
    BY <1>1, <1>2, <1>3, <1>4, <1>5, <1>6

LEMMA PollingKeeps ==
  ASSUME NEW p \in Polls, Polling(p), IInv
  PROVE  IInv'
  <1> USE EnginesAssumption DEF IInv, Polling, PollPass, PollPassEnds,
      PollEnds, globals
  <1>1. TypeOK'
    <2>1. polls[p] \in PollRecord
      BY DEF TypeOK
    <2>2. /\ [polls[p] EXCEPT !.phase = "pass"] \in PollRecord
          /\ [polls[p] EXCEPT !.phase = "loop"] \in PollRecord
          /\ DeadPoll \in PollRecord
      BY <2>1 DEF PollRecord, DeadPoll
    <2>3. polls' \in [Polls -> PollRecord]
      BY <2>2 DEF TypeOK
    <2>4. QED
      BY <2>3 DEF TypeOK
  <1>2. LockHeld'
    BY DEF LockHeld, HoldingSteps, TypeOK
  <1>3. ForgottenPollsStop'
    BY DEF ForgottenPollsStop, PollAlive, PollServes, Free, Stopping,
        Upgrading, Untold, TypeOK, PollRecord, DeadPoll
  <1>4. Free'
    BY DEF Free, Untold, ServedAsWanted, PollServes, PollAlive, Stopping,
        Upgrading, LockHeld, HoldingSteps, TypeOK, PollRecord, DeadPoll
  <1>5. Stopping'
    BY DEF Stopping, Free, Untold, PollServes, PollAlive, LockHeld,
        HoldingSteps, TypeOK, PollRecord, DeadPoll
  <1>6. Upgrading'
    BY DEF Upgrading, Free, Untold, ServedAsWanted, PollServes, PollAlive,
        LockHeld, HoldingSteps, TypeOK, PollRecord, DeadPoll
  <1>7. QED
    BY <1>1, <1>2, <1>3, <1>4, <1>5, <1>6

LEMMA WatcherWakesKeeps ==
  ASSUME NEW w \in Watchers, WatcherWakes(w), IInv
  PROVE  IInv'
  <1> USE EnginesAssumption DEF IInv, WatcherWakes, globals
  <1>1. TypeOK'
    BY DEF TypeOK, CallSteps, PollRecord, WatcherSteps, DeadPoll
  <1>2. LockHeld'
    BY DEF LockHeld, HoldingSteps, TypeOK
  <1>3. ForgottenPollsStop'
    BY DEF ForgottenPollsStop, PollAlive, PollServes, Free, Stopping,
        Upgrading, Untold, TypeOK, PollRecord, DeadPoll
  <1>4. Free'
    BY DEF Free, Untold, ServedAsWanted, PollServes, PollAlive, Stopping,
        Upgrading, LockHeld, HoldingSteps, TypeOK, PollRecord, DeadPoll
  <1>5. Stopping'
    BY DEF Stopping, Free, Untold, PollServes, PollAlive, LockHeld,
        HoldingSteps, TypeOK, PollRecord, DeadPoll
  <1>6. Upgrading'
    BY DEF Upgrading, Free, Untold, ServedAsWanted, PollServes, PollAlive,
        LockHeld, HoldingSteps, TypeOK, PollRecord, DeadPoll
  <1>7. QED
    BY <1>1, <1>2, <1>3, <1>4, <1>5, <1>6

LEMMA UpgradeSkippedKeeps ==
  ASSUME NEW w \in Watchers, UpgradeSkipped(w), IInv
  PROVE  IInv'
  <1> USE EnginesAssumption DEF IInv, UpgradeSkipped, globals
  <1>1. TypeOK'
    BY DEF TypeOK, CallSteps, PollRecord, WatcherSteps, DeadPoll
  <1>2. LockHeld'
    BY DEF LockHeld, HoldingSteps, TypeOK
  <1>3. ForgottenPollsStop'
    BY DEF ForgottenPollsStop, PollAlive, PollServes, Free, Stopping,
        Upgrading, Untold, TypeOK, PollRecord, DeadPoll
  <1>4. Free'
    BY DEF Free, Untold, ServedAsWanted, PollServes, PollAlive, Stopping,
        Upgrading, LockHeld, HoldingSteps, TypeOK, PollRecord, DeadPoll
  <1>5. Stopping'
    BY DEF Stopping, Free, Untold, PollServes, PollAlive, LockHeld,
        HoldingSteps, TypeOK, PollRecord, DeadPoll
  <1>6. Upgrading'
    BY DEF Upgrading, Free, Untold, ServedAsWanted, PollServes, PollAlive,
        LockHeld, HoldingSteps, TypeOK, PollRecord, DeadPoll
  <1>7. QED
    BY <1>1, <1>2, <1>3, <1>4, <1>5, <1>6

LEMMA UpgradeKeeps ==
  ASSUME NEW w \in Watchers, Upgrade(w), IInv
  PROVE  IInv'
  <1> USE EnginesAssumption DEF IInv, Upgrade, Upgradable
  <1>1. TypeOK'
    BY DEF TypeOK, CallSteps, PollRecord, WatcherSteps, DeadPoll
  <1>2. LockHeld'
    BY DEF LockHeld, HoldingSteps, TypeOK
  <1>3. ForgottenPollsStop'
    BY DEF ForgottenPollsStop, PollAlive, PollServes, Free, Stopping,
        Upgrading, Untold, TypeOK, PollRecord, DeadPoll
  <1>4. Free'
    BY DEF Free, Untold, ServedAsWanted, PollServes, PollAlive, Stopping,
        Upgrading, LockHeld, HoldingSteps, TypeOK, PollRecord, DeadPoll
  <1>5. Stopping'
    BY DEF Stopping, Free, Untold, PollServes, PollAlive, LockHeld,
        HoldingSteps, TypeOK, PollRecord, DeadPoll
  <1>6. Upgrading'
    BY DEF Upgrading, Free, Untold, ServedAsWanted, PollServes, PollAlive,
        LockHeld, HoldingSteps, TypeOK, PollRecord, DeadPoll
  <1>7. QED
    BY <1>1, <1>2, <1>3, <1>4, <1>5, <1>6

LEMMA UpgradedKeeps ==
  ASSUME NEW w \in Watchers, Upgraded(w), IInv
  PROVE  IInv'
  <1> USE EnginesAssumption DEF IInv, Upgraded
  <1>1. TypeOK'
    BY DEF TypeOK, CallSteps, PollRecord, WatcherSteps, DeadPoll
  <1>2. LockHeld'
    BY DEF LockHeld, HoldingSteps, TypeOK
  <1>3. ForgottenPollsStop'
    BY DEF ForgottenPollsStop, PollAlive, PollServes, Free, Stopping,
        Upgrading, Untold, TypeOK, PollRecord, DeadPoll
  <1>4. Free'
    BY DEF Free, Untold, ServedAsWanted, PollServes, PollAlive, Stopping,
        Upgrading, LockHeld, HoldingSteps, TypeOK, PollRecord, DeadPoll
  <1>5. Stopping'
    BY DEF Stopping, Free, Untold, PollServes, PollAlive, LockHeld,
        HoldingSteps, TypeOK, PollRecord, DeadPoll
  <1>6. Upgrading'
    BY DEF Upgrading, Free, Untold, ServedAsWanted, PollServes, PollAlive,
        LockHeld, HoldingSteps, TypeOK, PollRecord, DeadPoll
  <1>7. QED
    BY <1>1, <1>2, <1>3, <1>4, <1>5, <1>6

LEMMA ProxyChangesKeeps ==
  ASSUME ProxyChanges, IInv
  PROVE  IInv'
  <1> USE EnginesAssumption DEF IInv, ProxyChanges, globals
  <1>1. TypeOK'
    BY DEF TypeOK, CallSteps, PollRecord, WatcherSteps, DeadPoll
  <1>2. LockHeld'
    BY DEF LockHeld, HoldingSteps, TypeOK
  <1>3. ForgottenPollsStop'
    BY DEF ForgottenPollsStop, PollAlive, PollServes, Free, Stopping,
        Upgrading, Untold, TypeOK, PollRecord, DeadPoll
  <1>4. Free'
    BY DEF Free, Untold, ServedAsWanted, PollServes, PollAlive, Stopping,
        Upgrading, LockHeld, HoldingSteps, TypeOK, PollRecord, DeadPoll
  <1>5. Stopping'
    BY DEF Stopping, Free, Untold, PollServes, PollAlive, LockHeld,
        HoldingSteps, TypeOK, PollRecord, DeadPoll
  <1>6. Upgrading'
    BY DEF Upgrading, Free, Untold, ServedAsWanted, PollServes, PollAlive,
        LockHeld, HoldingSteps, TypeOK, PollRecord, DeadPoll
  <1>7. QED
    BY <1>1, <1>2, <1>3, <1>4, <1>5, <1>6

LEMMA StutterKeeps ==
  ASSUME UNCHANGED vars, IInv
  PROVE  IInv'
  <1> USE EnginesAssumption DEF IInv, vars, globals
  <1>1. TypeOK'
    BY DEF TypeOK, CallSteps, PollRecord, WatcherSteps, DeadPoll
  <1>2. LockHeld'
    BY DEF LockHeld, HoldingSteps, TypeOK
  <1>3. ForgottenPollsStop'
    BY DEF ForgottenPollsStop, PollAlive, PollServes, Free, Stopping,
        Upgrading, Untold, TypeOK, PollRecord, DeadPoll
  <1>4. Free'
    BY DEF Free, Untold, ServedAsWanted, PollServes, PollAlive, Stopping,
        Upgrading, LockHeld, HoldingSteps, TypeOK, PollRecord, DeadPoll
  <1>5. Stopping'
    BY DEF Stopping, Free, Untold, PollServes, PollAlive, LockHeld,
        HoldingSteps, TypeOK, PollRecord, DeadPoll
  <1>6. Upgrading'
    BY DEF Upgrading, Free, Untold, ServedAsWanted, PollServes, PollAlive,
        LockHeld, HoldingSteps, TypeOK, PollRecord, DeadPoll
  <1>7. QED
    BY <1>1, <1>2, <1>3, <1>4, <1>5, <1>6

LEMMA NextKeepsIInv == IInv /\ [Next]_vars => IInv'
  <1> SUFFICES ASSUME IInv, [Next]_vars PROVE IInv'
    OBVIOUS
  <1>1. ASSUME NEW c \in Callers,
               Call(c, "start") \/ Call(c, "stop") \/ TakesLock(c) \/ Stops(c)
        PROVE  IInv'
    <2>1. CASE Call(c, "start") \/ Call(c, "stop")
      BY <2>1, CallKeeps
    <2>2. CASE TakesLock(c)
      BY <2>2, StartFindsEngineKeeps, StartWebSocketKeeps, StartPollingKeeps,
         StopWatcherKeeps DEF TakesLock
    <2>3. CASE Stops(c)
      BY <2>3, WatcherJoinedKeeps, StopEngineKeeps, StopPollingKeeps,
         PollJoinedKeeps DEF Stops
    <2>4. QED
      BY <1>1, <2>1, <2>2, <2>3
  <1>2. ASSUME NEW p \in Polls, Polling(p)
        PROVE  IInv'
    BY <1>2, PollingKeeps
  <1>3. ASSUME NEW w \in Watchers, WatcherWakes(w) \/ TriesUpgrade(w) \/ Upgraded(w)
        PROVE  IInv'
    BY <1>3, WatcherWakesKeeps, UpgradeSkippedKeeps, UpgradeKeeps, UpgradedKeeps
    DEF TriesUpgrade
  <1>4. CASE ProxyChanges
    BY <1>4, ProxyChangesKeeps
  <1>5. CASE UNCHANGED vars
    BY <1>5, StutterKeeps
  <1>6. QED
    BY <1>1, <1>2, <1>3, <1>4, <1>5 DEF Next

(***************************************************************************)
(* The inductive invariant holds in every reachable state, and with it     *)
(* every variable keeps its type.                                          *)
(***************************************************************************)
THEOREM EnginesTypeCorrect == Spec => []TypeOK
  <1>1. IInv => TypeOK
    BY DEF IInv
  <1>2. QED
    BY <1>1, InitIInv, NextKeepsIInv, PTL DEF Spec

(***************************************************************************)
(* A polling thread that execution_thread.py has lost the reference to,    *)
(* because a join timed out, has been told to stop.                        *)
(***************************************************************************)
THEOREM ForgottenPollsAreStopping == Spec => []ForgottenPollsStop
  <1>1. IInv => ForgottenPollsStop
    BY DEF IInv
  <1>2. QED
    BY <1>1, InitIInv, NextKeepsIInv, PTL DEF Spec

(***************************************************************************)
(* Whenever no call is under way exactly one engine serves orders if the   *)
(* engine was switched on last, and none if it was switched off: however   *)
(* many callers and leftover threads there are, whatever joins time out    *)
(* and whenever the proxy comes and goes.                                  *)
(***************************************************************************)
THEOREM EnginesServeAsWanted == Spec => []ServedAsWanted
  <1>1. IInv => ServedAsWanted
    BY DEF IInv, Free, ServedAsWanted
  <1>2. QED
    BY <1>1, InitIInv, NextKeepsIInv, PTL DEF Spec
=============================================================================
