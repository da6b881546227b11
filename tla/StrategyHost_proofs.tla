------------------------- MODULE StrategyHost_proofs -------------------------
(***************************************************************************)
(* For any strategies, requests and process identifiers: as long as none   *)
(* of the circumstances occurs, a strategy runs once and its process can   *)
(* be found again.                                                         *)
(***************************************************************************)
EXTENDS StrategyHost, TLAPS

-----------------------------------------------------------------------------
(* The invariant *)

\* A thread that has turned to a strategy knows which; the lock is held inside a
\* start, a stop or a deletion only.
CallsOK ==
    /\ \A t \in Threads :
          /\ calls[t].step \in {"start", "record", "stop", "stopped", "after", "remove"} =>
                calls[t].s \in Strategies
          /\ calls[t].step \in {"record", "stopped", "remove"} <=> lock = t
    /\ lock # None /\ At(lock, "record") => config[calls[lock].s].exists

\* The restorer restores or starts what is pending.
RestorerOK ==
    /\ calls[Restorer].step \in {"idle", "start", "record", "after", "restore", "pending"}
    /\ calls[Restorer].step \in {"start", "record"} => calls[Restorer].for \in {"restore", "pending"}
    /\ calls[Restorer].step = "after" => calls[Restorer].for = "restore"
    /\ calls[Restorer].step \in {"start", "record", "after"} =>
          calls[Restorer].s \notin calls[Restorer].todo

\* Before the restoration has ended nobody else does anything.
BootOK ==
    ~booted =>
        /\ \A t \in Threads \ {Restorer} : At(t, "idle")
        /\ calls[Restorer].step \in {"restore", "start", "record", "after"}
        /\ ~At(Restorer, "restore") => calls[Restorer].for = "restore"

\* What refers to a live process refers to one of its own.
RefersTo(s, p) == config[s].pid = p \/ saved[s].pid = p \/ running[s].pid = p
RefsOK == \A s \in Strategies, p \in Pids : Alive(p) /\ RefersTo(s, p) => proc[p].s = s

Holds(row, p) == row.exists /\ row.running /\ row.pid = p
Recorded(s, p) == Holds(config[s], p) /\ Holds(saved[s], p)
Doing(t, steps, s) == calls[t].step \in steps /\ calls[t].s = s
Recording(s, p) == lock # None /\ Doing(lock, {"record"}, s) /\ running[s].pid = p
Awaited(s) == ~booted /\ s \in calls[Restorer].todo
Restoring(s) == calls[Restorer].for = "restore" /\ Doing(Restorer, {"start", "after"}, s)

\* A live process is on record, or about to be; it is tracked, or will be when the
\* restoration gets to it; and nobody believes it dead.
Kept(s, p) ==
    /\ s \in Strategies /\ contracts
    /\ Recorded(s, p) \/ Recording(s, p)
    /\ running[s].pid = p \/ Awaited(s)
    /\ lock # None => ~Doing(lock, {"stopped", "remove"}, s)
    /\ ~Restoring(s)
AliveOK == \A p \in Pids : Alive(p) => Kept(proc[p].s, p)

Inv == TypeOK /\ CallsOK /\ RestorerOK /\ BootOK /\ RefsOK /\ AliveOK

-----------------------------------------------------------------------------
(* What the steps write *)

LEMMA IdleType ==
    /\ Idle \in CallRecord
    /\ Idle.step = "idle" /\ Idle.s = None /\ Idle.for = "return" /\ Idle.todo = {}
  BY DEF Idle, CallRecord, Steps, Purposes


\* Thread t becomes r.
LEMMA CallIs ==
    ASSUME TypeOK, NEW t \in Threads, NEW r \in CallRecord, calls' = [calls EXCEPT ![t] = r]
    PROVE  /\ calls' \in [Threads -> CallRecord]
           /\ calls'[t] = r
           /\ \A u \in Threads \ {t} : calls'[u] = calls[u]
  BY DEF TypeOK

LEMMA ThreadsAre ==
    /\ Restorer \in Threads /\ Enforcer \in Threads /\ Requests \subseteq Threads
    /\ Restorer # Enforcer /\ Restorer \notin Requests /\ Enforcer \notin Requests
    /\ None \notin Threads /\ None \notin Pids /\ None \notin Strategies
    /\ Circumstances = {} => \A c \in AllCircumstances : c \notin Circumstances
  BY HostAssumption DEF Threads

LEMMA GotoIs ==
    ASSUME TypeOK, NEW t \in Threads, NEW step \in Steps, Goto(t, step)
    PROVE  /\ calls' \in [Threads -> CallRecord]
           /\ calls'[t].step = step /\ calls'[t].s = calls[t].s
           /\ calls'[t].for = calls[t].for /\ calls'[t].todo = calls[t].todo
           /\ \A u \in Threads \ {t} : calls'[u] = calls[u]
  BY DEF Goto, TypeOK, CallRecord

LEMMA ServeIs ==
    ASSUME TypeOK, NEW t \in Threads, NEW step \in Steps, NEW s \in Strategies,
           NEW purpose \in Purposes, Serve(t, step, s, purpose)
    PROVE  /\ calls' \in [Threads -> CallRecord]
           /\ calls'[t].step = step /\ calls'[t].s = s
           /\ calls'[t].for = purpose /\ calls'[t].todo = {}
           /\ \A u \in Threads \ {t} : calls'[u] = calls[u]
  BY DEF Serve, Idle, TypeOK, CallRecord

LEMMA ReturnIs ==
    ASSUME TypeOK, NEW t \in Threads, Return(t)
    PROVE  /\ calls' \in [Threads -> CallRecord]
           /\ calls'[t].step = "idle" /\ calls'[t].for = "return" /\ calls'[t].todo = {}
           /\ \A u \in Threads \ {t} : calls'[u] = calls[u]
  BY IdleType, CallIs DEF Return

LEMMA HandleIs ==
    ASSUME TypeOK, NEW t \in Threads, NEW step \in Steps, NEW s \in Strategies,
           NEW purpose \in Purposes, Handle(t, s, step, purpose)
    PROVE  /\ calls' \in [Threads -> CallRecord]
           /\ calls'[t].step = step /\ calls'[t].s = s
           /\ calls'[t].for = purpose /\ calls'[t].todo = calls[t].todo \ {s}
           /\ \A u \in Threads \ {t} : calls'[u] = calls[u]
  BY ZenonT(60) DEF Handle, TypeOK, CallRecord

LEMMA LoopIs ==
    ASSUME TypeOK, NEW t \in Threads, NEW step \in Steps, Loop(t, step)
    PROVE  /\ calls' \in [Threads -> CallRecord]
           /\ calls'[t].step = step /\ calls'[t].for = "return"
           /\ calls'[t].todo = calls[t].todo
           /\ \A u \in Threads \ {t} : calls'[u] = calls[u]
  BY DEF Loop, Idle, TypeOK, CallRecord, Purposes

LEMMA SkipIs ==
    ASSUME TypeOK, NEW t \in Threads, NEW s \in Strategies, Skip(t, s)
    PROVE  /\ calls' \in [Threads -> CallRecord]
           /\ calls'[t].step = calls[t].step /\ calls'[t].s = calls[t].s
           /\ calls'[t].for = calls[t].for /\ calls'[t].todo = calls[t].todo \ {s}
           /\ \A u \in Threads \ {t} : calls'[u] = calls[u]
  BY DEF Skip, TypeOK, CallRecord

\* The thread returns, goes on with its loop, or has a result to act on.
LEMMA ResultIs ==
    ASSUME TypeOK, NEW t \in Threads, NEW ok \in BOOLEAN, Result(t, ok)
    PROVE  /\ calls' \in [Threads -> CallRecord]
           /\ calls'[t].todo = calls[t].todo
           /\ \/ /\ calls'[t].step = "after" /\ calls'[t].s = calls[t].s
                 /\ calls'[t].for = calls[t].for
                 /\ calls[t].for \in {"resume", "pause", "manual"} \/ (calls[t].for = "restore" /\ ~ok)
              \/ /\ calls'[t].step = calls[t].for /\ calls[t].for \in {"restore", "pending"}
                 /\ calls'[t].for = "return"
              \/ /\ calls'[t].step = "idle" /\ calls'[t].for = "return"
                 /\ calls[t].for \notin {"restore", "pending"}
           /\ \A u \in Threads \ {t} : calls'[u] = calls[u]
  <1> DEFINE purpose == calls[t].for
             next == IF purpose \in {"restore", "pending"} THEN purpose ELSE "idle"
             after == [calls[t] EXCEPT !.step = "after"]
             back == [Idle EXCEPT !.step = next, !.todo = calls[t].todo]
  <1>1. /\ calls[t] \in CallRecord /\ purpose \in Purposes
        /\ next \in Steps /\ calls[t].todo \in SUBSET Strategies
    BY DEF TypeOK, CallRecord, Steps
  <1>2. /\ after \in CallRecord
        /\ after.step = "after" /\ after.s = calls[t].s /\ after.for = purpose
        /\ after.todo = calls[t].todo
    BY <1>1 DEF CallRecord, Steps
  <1>3. /\ back \in CallRecord
        /\ back.step = next /\ back.for = "return" /\ back.todo = calls[t].todo
    BY <1>1 DEF CallRecord, Idle, Purposes
  <1>4. calls' = [calls EXCEPT ![t] = IF ActsOn(purpose, ok) THEN after ELSE back]
    BY DEF Result
  <1>5. ActsOn(purpose, ok) =>
           purpose \in {"resume", "pause", "manual"} \/ (purpose = "restore" /\ ~ok)
    BY DEF ActsOn
  <1> HIDE DEF after, back
  <1> QED
    BY <1>1, <1>2, <1>3, <1>4, <1>5, CallIs

\* The row of s is written.
LEMMA SetIs ==
    ASSUME TypeOK, NEW s \in Strategies, NEW row \in ConfigRow, Set(s, row)
    PROVE  /\ config' \in [Strategies -> ConfigRow]
           /\ config'[s] = row
           /\ \A r \in Strategies \ {s} : config'[r] = config[r]
  BY DEF Set, TypeOK

\* The three fields that say where the process of a strategy is.
Same(row, old) == row.exists = old.exists /\ row.running = old.running /\ row.pid = old.pid

LEMMA RowTypes ==
    ASSUME TypeOK, NEW s \in Strategies, NEW f \in BOOLEAN, NEW p \in Pids \cup {None}
    PROVE  /\ config[s] \in ConfigRow
           /\ [config[s] EXCEPT !.manual = f] \in ConfigRow
           /\ Same([config[s] EXCEPT !.manual = f], config[s])
           /\ [config[s] EXCEPT !.paused = f] \in ConfigRow
           /\ Same([config[s] EXCEPT !.paused = f], config[s])
           /\ [config[s] EXCEPT !.waiting = f] \in ConfigRow
           /\ Same([config[s] EXCEPT !.waiting = f], config[s])
           /\ Stopped(s) \in ConfigRow /\ Stopped(s).pid = None
           /\ Stopped(s).exists = config[s].exists
           /\ [Stopped(s) EXCEPT !.waiting = f] \in ConfigRow
           /\ [Stopped(s) EXCEPT !.waiting = f].pid = None
           /\ [Stopped(s) EXCEPT !.waiting = f].exists = config[s].exists
           /\ Started(s, p) \in ConfigRow /\ Started(s, p).pid = p
           /\ Started(s, p).running /\ Started(s, p).exists = config[s].exists
           /\ [NewConfig EXCEPT !.exists = FALSE] \in ConfigRow
           /\ [NewConfig EXCEPT !.exists = FALSE].pid = None
  BY ZenonT(60) DEF TypeOK, ConfigRow, Same, Stopped, Started, NewConfig

-----------------------------------------------------------------------------
(* What steps have in common *)

LEMMA LiveIsKept ==
    ASSUME Inv, NEW p \in Pids, Alive(p)
    PROVE  proc[p].s \in Strategies /\ Kept(proc[p].s, p)
  BY DEF Inv, AliveOK, Kept

\* The process of a strategy that has one, when nobody restores it.
LEMMA LiveIsTracked ==
    ASSUME Inv, booted, NEW p \in Pids, Alive(p)
    PROVE  running[proc[p].s].pid = p
  BY LiveIsKept DEF Kept, Awaited

\* Thread t moves without the lock.
LEMMA CallsStep ==
    ASSUME Inv, NEW t \in Threads, lock' = lock, lock # t,
           \A u \in Threads \ {t} : calls'[u] = calls[u],
           calls'[t].step \notin {"record", "stopped", "remove"},
           calls'[t].step \in {"start", "stop", "after"} => calls'[t].s \in Strategies,
           \A s \in Strategies : config'[s].exists = config[s].exists
    PROVE  CallsOK'
  <1>1. CallsOK /\ lock \in Threads \cup {None}
    BY DEF Inv, TypeOK
  <1>2. \A u \in Threads :
           /\ calls'[u].step \in {"start", "record", "stop", "stopped", "after", "remove"} =>
                 calls'[u].s \in Strategies
           /\ calls'[u].step \in {"record", "stopped", "remove"} <=> lock' = u
    BY <1>1 DEF CallsOK
  <1>3. lock' # None /\ At(lock, "record")' => config'[calls'[lock'].s].exists
    BY <1>1 DEF CallsOK, At
  <1> QED
    BY <1>2, <1>3 DEF CallsOK, At

\* The restorer does nothing.
LEMMA RestorerRests ==
    ASSUME Inv, booted', calls'[Restorer] = calls[Restorer]
    PROVE  RestorerOK' /\ BootOK'
  BY DEF Inv, RestorerOK, BootOK

\* Nothing refers to an identifier that was not referred to before.
LEMMA RefsStep ==
    ASSUME Inv,
           \A p \in Pids : Alive(p)' => Alive(p) /\ proc'[p].s = proc[p].s,
           \A s \in Strategies :
              {config'[s].pid, saved'[s].pid, running'[s].pid}
                \subseteq {config[s].pid, saved[s].pid, running[s].pid, None}
    PROVE  RefsOK'
  <1> SUFFICES ASSUME NEW s \in Strategies, NEW p \in Pids, Alive(p)', RefersTo(s, p)'
               PROVE  proc'[p].s = s
    BY DEF RefsOK
  <1>1. p # None /\ p \in {config'[s].pid, saved'[s].pid, running'[s].pid}
    BY DEF Alive, RefersTo
  <1>2. RefersTo(s, p)
    BY <1>1 DEF RefersTo
  <1> QED
    BY <1>2 DEF Inv, RefsOK

\* What is recorded stays so if the file gets what the server knows or stays as it is.
LEMMA RecordedStays ==
    ASSUME NEW s \in Strategies, NEW p \in Pids, Recorded(s, p),
           Same(config'[s], config[s]), saved'[s] = saved[s] \/ saved'[s] = config'[s]
    PROVE  Recorded(s, p)'
  BY DEF Recorded, Holds, Same

\* The lock and who holds it stay.
LEMMA KeptStep ==
    ASSUME Inv, NEW s \in Strategies, NEW p \in Pids, Kept(s, p), contracts',
           Recorded(s, p) => Recorded(s, p)',
           lock' = lock, lock # None => calls'[lock] = calls[lock],
           running'[s].pid = running[s].pid,
           Awaited(s) => Awaited(s)', ~Restoring(s)'
    PROVE  Kept(s, p)'
  <1>1. Recording(s, p) => Recording(s, p)'
    BY DEF Recording, Doing
  <1>2. lock' # None => ~Doing(lock, {"stopped", "remove"}, s)'
    BY DEF Kept, Doing
  <1> QED
    BY <1>1, <1>2 DEF Kept

\* Thread t does not have the lock, and changes nothing that says where a process is.
LEMMA QuietStep ==
    ASSUME Inv, TypeOK', NEW t \in Threads, lock # t,
           \A u \in Threads \ {t} : calls'[u] = calls[u],
           calls'[t].step \notin {"record", "stopped", "remove"},
           calls'[t].step \in {"start", "stop", "after"} => calls'[t].s \in Strategies,
           RestorerOK', BootOK',
           UNCHANGED <<lock, running, proc>>, contracts => contracts',
           \A s \in Strategies : Same(config'[s], config[s]),
           \A s \in Strategies : saved'[s] = saved[s] \/ saved'[s] = config'[s],
           \A s \in Strategies : \A p \in Pids :
              Alive(p) /\ proc[p].s = s => (Awaited(s) => Awaited(s)') /\ ~Restoring(s)'
    PROVE  Inv'
  <1>1. CallsOK'
    BY CallsStep DEF Same
  <1>2. \A p \in Pids : Alive(p)' => Alive(p) /\ proc'[p].s = proc[p].s
    BY DEF Alive
  <1>3. RefsOK'
    <2>1. \A s \in Strategies :
              {config'[s].pid, saved'[s].pid, running'[s].pid}
                \subseteq {config[s].pid, saved[s].pid, running[s].pid, None}
      BY DEF Same
    <2> QED
      BY <1>2, <2>1, RefsStep
  <1>4. ASSUME NEW p \in Pids, Alive(p)'
        PROVE  Kept(proc[p].s, p)'
    <2>1. Alive(p) /\ proc'[p].s = proc[p].s
      BY <1>2, <1>4
    <2>2. PICK s \in Strategies : s = proc[p].s /\ Kept(s, p)
      BY <2>1, LiveIsKept
    <2>3. Recorded(s, p) => Recorded(s, p)'
      BY RecordedStays
    <2>4. lock # None => calls'[lock] = calls[lock]
      BY DEF Inv, TypeOK
    <2>5. contracts' /\ running'[s].pid = running[s].pid
      BY <2>2 DEF Kept
    <2> QED
      BY <2>1, <2>2, <2>3, <2>4, <2>5, KeptStep
  <1> QED
    BY <1>1, <1>3, <1>4 DEF Inv, AliveOK

\* The same for a thread that is not the restorer.
LEMMA QuietThread ==
    ASSUME Inv, TypeOK', NEW t \in Threads \ {Restorer}, booted, lock # t,
           \A u \in Threads \ {t} : calls'[u] = calls[u],
           calls'[t].step \notin {"record", "stopped", "remove"},
           calls'[t].step \in {"start", "stop", "after"} => calls'[t].s \in Strategies,
           UNCHANGED <<lock, running, proc, booted, contracts>>,
           \A s \in Strategies : Same(config'[s], config[s]),
           \A s \in Strategies : saved'[s] = saved[s] \/ saved'[s] = config'[s]
    PROVE  Inv'
  <1>1. calls'[Restorer] = calls[Restorer]
    BY ThreadsAre
  <1>2. RestorerOK' /\ BootOK'
    BY <1>1, RestorerRests
  <1>3. \A s \in Strategies : Restoring(s)' => Restoring(s)
    BY <1>1 DEF Restoring, Doing
  <1>4. \A s \in Strategies : ~Awaited(s)
    BY DEF Awaited
  <1>5. \A s \in Strategies : \A p \in Pids :
           Alive(p) /\ proc[p].s = s => (Awaited(s) => Awaited(s)') /\ ~Restoring(s)'
    BY <1>3, <1>4, LiveIsKept DEF Kept
  <1> QED
    BY <1>2, <1>5, QuietStep

\* A thread that has the server's leave to act when the restoration has ended.
LEMMA OthersWait ==
    ASSUME Inv, Circumstances = {}, NEW t \in Threads \ {Restorer},
           Arrives(t) \/ ~At(t, "idle")
    PROVE  booted
  BY ThreadsAre DEF Inv, BootOK, Arrives, AllCircumstances

LEMMA Unlocked ==
    ASSUME Inv, NEW t \in Threads, calls[t].step \notin {"record", "stopped", "remove"}
    PROVE  lock # t
  BY DEF Inv, CallsOK

LEMMA SameIsSame == ASSUME NEW row PROVE Same(row, row)
  BY DEF Same

-----------------------------------------------------------------------------
(* Requests and the enforcer *)

\* What most steps of a request or of the enforcer come down to.
LEMMA ThreadStep ==
    ASSUME Inv, NEW t \in Threads \ {Restorer}, booted, lock # t,
           calls' \in [Threads -> CallRecord],
           \A u \in Threads \ {t} : calls'[u] = calls[u],
           calls'[t].step \notin {"record", "stopped", "remove"},
           calls'[t].step \in {"start", "stop", "after"} => calls'[t].s \in Strategies,
           config' \in [Strategies -> ConfigRow],
           \A s \in Strategies : Same(config'[s], config[s]),
           saved' = saved \/ saved' = config',
           UNCHANGED <<lock, running, proc, dropped, booted, environment>>
    PROVE  Inv'
  <1>1. TypeOK'
    BY DEF Inv, TypeOK, environment
  <1>2. UNCHANGED <<lock, running, proc, booted, contracts>>
    BY DEF environment
  <1>3. \A s \in Strategies : saved'[s] = saved[s] \/ saved'[s] = config'[s]
    OBVIOUS
  <1> QED
    BY <1>1, <1>2, <1>3, QuietThread

LEMMA SetSame ==
    ASSUME TypeOK, NEW s \in Strategies, NEW row \in ConfigRow, Set(s, row),
           Same(row, config[s])
    PROVE  /\ config' \in [Strategies -> ConfigRow]
           /\ \A r \in Strategies : Same(config'[r], config[r])
  BY SetIs, SameIsSame

LEMMA ConfigSame ==
    ASSUME TypeOK, config' = config
    PROVE  /\ config' \in [Strategies -> ConfigRow]
           /\ \A r \in Strategies : Same(config'[r], config[r])
  BY SameIsSame DEF TypeOK

\* A thread that is at a step of a strategy knows which.
LEMMA KnowsStrategy ==
    ASSUME Inv, NEW t \in Threads,
           calls[t].step \in {"start", "record", "stop", "stopped", "after", "remove"}
    PROVE  calls[t].s \in Strategies
  BY DEF Inv, CallsOK

LEMMA StartRequestInv ==
    ASSUME Inv, Circumstances = {}, NEW t \in Requests, NEW s \in Strategies,
           StartRequest(t, s)
    PROVE  Inv'
  <1>1. t \in Threads \ {Restorer} /\ TypeOK /\ At(t, "idle")
    BY ThreadsAre DEF Inv, StartRequest, Arrives
  <1>2. booted /\ lock # t
    BY <1>1, OthersWait, Unlocked DEF StartRequest, At
  <1>3. config' \in [Strategies -> ConfigRow] /\ \A r \in Strategies : Same(config'[r], config[r])
    BY <1>1, RowTypes, SetSame DEF StartRequest
  <1>4. /\ calls' \in [Threads -> CallRecord]
        /\ \A u \in Threads \ {t} : calls'[u] = calls[u]
        /\ calls'[t].step \in {"idle", "start"}
        /\ calls'[t].step = "start" => calls'[t].s \in Strategies
    <2>1. CASE Open
      <3>1. Serve(t, "start", s, "return")
        BY <2>1 DEF StartRequest
      <3> QED
        BY <1>1, <3>1, ServeIs DEF Steps, Purposes
    <2>2. CASE ~Open
      <3>1. calls' = calls
        BY <2>2 DEF StartRequest
      <3> QED
        BY <1>1, <3>1 DEF TypeOK, At
    <2> QED
      BY <2>1, <2>2
  <1>5. /\ saved' = saved \/ saved' = config'
        /\ UNCHANGED <<lock, running, proc, dropped, booted, environment>>
    BY DEF StartRequest, Save
  <1> QED
    BY <1>1, <1>2, <1>3, <1>4, <1>5, ThreadStep

LEMMA StopRequestInv ==
    ASSUME Inv, Circumstances = {}, NEW t \in Requests, NEW s \in Strategies,
           StopRequest(t, s)
    PROVE  Inv'
  <1>1. t \in Threads \ {Restorer} /\ TypeOK /\ At(t, "idle")
    BY ThreadsAre DEF Inv, StopRequest, Arrives
  <1>2. booted /\ lock # t
    BY <1>1, OthersWait, Unlocked DEF StopRequest, At
  <1>3. UNCHANGED <<lock, running, proc, dropped, booted, environment>>
    BY DEF StopRequest
  <1>4. CASE config[s].running
    <2>1. Serve(t, "stop", s, "manual") /\ UNCHANGED <<config, saved>>
      BY <1>4 DEF StopRequest
    <2>2. /\ calls' \in [Threads -> CallRecord]
          /\ \A u \in Threads \ {t} : calls'[u] = calls[u]
          /\ calls'[t].step = "stop" /\ calls'[t].s \in Strategies
      BY <1>1, <2>1, ServeIs DEF Steps, Purposes
    <2> QED
      BY <1>1, <1>2, <1>3, <2>1, <2>2, ConfigSame, ThreadStep
  <1>5. CASE ~config[s].running
    <2>1. Set(s, [config[s] EXCEPT !.manual = TRUE]) /\ saved' = config' /\ calls' = calls
      BY <1>5 DEF StopRequest, Save
    <2>2. config' \in [Strategies -> ConfigRow] /\ \A r \in Strategies : Same(config'[r], config[r])
      BY <1>1, <2>1, RowTypes, SetSame
    <2>3. calls' \in [Threads -> CallRecord] /\ calls'[t].step = "idle"
      BY <1>1, <2>1 DEF TypeOK, At
    <2> QED
      BY <1>1, <1>2, <1>3, <2>1, <2>2, <2>3, ThreadStep
  <1> QED
    BY <1>4, <1>5

LEMMA ScheduledStartInv ==
    ASSUME Inv, Circumstances = {}, NEW t \in Requests, NEW s \in Strategies,
           ScheduledStart(t, s)
    PROVE  Inv'
  <1>1. t \in Threads \ {Restorer} /\ TypeOK /\ At(t, "idle")
    BY ThreadsAre DEF Inv, ScheduledStart, Arrives
  <1>2. booted /\ lock # t
    BY <1>1, OthersWait, Unlocked DEF ScheduledStart, At
  <1>3. config' \in [Strategies -> ConfigRow] /\ \A r \in Strategies : Same(config'[r], config[r])
    <2>1. (~Trading) \in BOOLEAN
      BY DEF Trading
    <2>2. Set(s, [config[s] EXCEPT !.paused = ~Trading])
      BY DEF ScheduledStart
    <2> QED
      BY <1>1, <2>1, <2>2, RowTypes, SetSame
  <1>4. /\ calls' \in [Threads -> CallRecord]
        /\ \A u \in Threads \ {t} : calls'[u] = calls[u]
        /\ calls'[t].step \in {"idle", "start"}
        /\ calls'[t].step = "start" => calls'[t].s \in Strategies
    <2>1. CASE Trading
      <3>1. Serve(t, "start", s, "return")
        BY <2>1 DEF ScheduledStart
      <3> QED
        BY <1>1, <3>1, ServeIs DEF Steps, Purposes
    <2>2. CASE ~Trading
      <3>1. calls' = calls
        BY <2>2 DEF ScheduledStart
      <3> QED
        BY <1>1, <3>1 DEF TypeOK, At
    <2> QED
      BY <2>1, <2>2
  <1>5. /\ saved' = saved \/ saved' = config'
        /\ UNCHANGED <<lock, running, proc, dropped, booted, environment>>
    BY DEF ScheduledStart, Save
  <1> QED
    BY <1>1, <1>2, <1>3, <1>4, <1>5, ThreadStep

LEMMA ScheduledStopInv ==
    ASSUME Inv, Circumstances = {}, NEW t \in Requests, NEW s \in Strategies,
           ScheduledStop(t, s)
    PROVE  Inv'
  <1>1. t \in Threads \ {Restorer} /\ TypeOK /\ At(t, "idle")
    BY ThreadsAre DEF Inv, ScheduledStop, Arrives
  <1>2. booted /\ lock # t
    BY <1>1, OthersWait, Unlocked DEF ScheduledStop, At
  <1>3. /\ calls' \in [Threads -> CallRecord]
        /\ \A u \in Threads \ {t} : calls'[u] = calls[u]
        /\ calls'[t].step = "stop" /\ calls'[t].s \in Strategies
    BY <1>1, ServeIs DEF Steps, Purposes, ScheduledStop
  <1>4. UNCHANGED <<lock, running, config, saved, proc, dropped, booted, environment>>
    BY DEF ScheduledStop
  <1> QED
    BY <1>1, <1>2, <1>3, <1>4, ConfigSame, ThreadStep

LEMMA StopRequestEndsInv ==
    ASSUME Inv, Circumstances = {}, NEW t \in Requests, StopRequestEnds(t)
    PROVE  Inv'
  <1>1. /\ t \in Threads \ {Restorer} /\ TypeOK /\ calls[t].step = "after"
        /\ calls[t].s \in Strategies
    BY ThreadsAre, KnowsStrategy DEF Inv, StopRequestEnds, At
  <1>2. booted /\ lock # t
    BY <1>1, OthersWait, Unlocked DEF At
  <1>3. /\ calls' \in [Threads -> CallRecord]
        /\ \A u \in Threads \ {t} : calls'[u] = calls[u]
        /\ calls'[t].step = "idle"
    BY <1>1, ReturnIs DEF StopRequestEnds
  <1>4. UNCHANGED <<lock, running, proc, dropped, booted, environment>>
    BY DEF StopRequestEnds
  <1>5. /\ config' \in [Strategies -> ConfigRow] /\ \A r \in Strategies : Same(config'[r], config[r])
        /\ saved' = saved \/ saved' = config'
    <2>1. PICK s \in Strategies : s = calls[t].s
      BY <1>1
    <2>2. CASE config[s].exists
      <3>1. Set(s, [config[s] EXCEPT !.manual = TRUE]) /\ saved' = config'
        BY <2>1, <2>2 DEF StopRequestEnds, Save
      <3> QED
        BY <1>1, <3>1, RowTypes, SetSame
    <2>3. CASE ~config[s].exists
      BY <1>1, <2>1, <2>3, ConfigSame DEF StopRequestEnds
    <2> QED
      BY <2>2, <2>3
  <1> QED
    BY <1>1, <1>2, <1>3, <1>4, <1>5, ThreadStep

LEMMA EnforcerThread == Enforcer \in Threads \ {Restorer}
  BY ThreadsAre

LEMMA EnforcerRunsInv ==
    ASSUME Inv, Circumstances = {}, EnforcerRuns
    PROVE  Inv'
  <1>1. TypeOK /\ At(Enforcer, "idle")
    BY DEF Inv, EnforcerRuns, Arrives
  <1>2. booted /\ lock # Enforcer
    BY <1>1, EnforcerThread, OthersWait, Unlocked DEF EnforcerRuns, At
  <1>3. /\ calls' \in [Threads -> CallRecord]
        /\ \A u \in Threads \ {Enforcer} : calls'[u] = calls[u]
        /\ calls'[Enforcer].step = "enforce"
    <2>1. PICK r \in CallRecord : r = [Idle EXCEPT !.step = "enforce", !.todo = Listed]
      BY DEF Idle, CallRecord, Steps, Purposes, Listed
    <2>2. r.step = "enforce"
      BY <2>1 DEF Idle
    <2>3. calls' = [calls EXCEPT ![Enforcer] = r]
      BY <2>1 DEF EnforcerRuns
    <2> QED
      BY <1>1, <2>2, <2>3, EnforcerThread, CallIs
  <1>4. UNCHANGED <<lock, running, config, saved, proc, dropped, booted, environment>>
    BY DEF EnforcerRuns
  <1> QED
    BY <1>1, <1>2, <1>3, <1>4, EnforcerThread, ConfigSame, ThreadStep

LEMMA EnforcerResumesInv ==
    ASSUME Inv, Circumstances = {}, NEW s \in Strategies, EnforcerResumes(s)
    PROVE  Inv'
  <1>1. TypeOK /\ calls[Enforcer].step = "enforce"
    BY DEF Inv, EnforcerResumes, At
  <1>2. booted /\ lock # Enforcer
    BY <1>1, EnforcerThread, OthersWait, Unlocked DEF At
  <1>3. /\ calls' \in [Threads -> CallRecord]
        /\ \A u \in Threads \ {Enforcer} : calls'[u] = calls[u]
        /\ calls'[Enforcer].step = "start" /\ calls'[Enforcer].s = s
    BY <1>1, EnforcerThread, HandleIs DEF EnforcerResumes, Steps, Purposes
  <1>4. UNCHANGED <<lock, running, config, saved, proc, dropped, booted, environment>>
    BY DEF EnforcerResumes
  <1> QED
    BY <1>1, <1>2, <1>3, <1>4, EnforcerThread, ConfigSame, ThreadStep

LEMMA EnforcerClearsInv ==
    ASSUME Inv, Circumstances = {}, NEW s \in Strategies, EnforcerClears(s)
    PROVE  Inv'
  <1>1. TypeOK /\ calls[Enforcer].step = "enforce"
    BY DEF Inv, EnforcerClears, At
  <1>2. booted /\ lock # Enforcer
    BY <1>1, EnforcerThread, OthersWait, Unlocked DEF At
  <1>3. /\ calls' \in [Threads -> CallRecord]
        /\ \A u \in Threads \ {Enforcer} : calls'[u] = calls[u]
        /\ calls'[Enforcer].step = "enforce"
    BY <1>1, EnforcerThread, SkipIs DEF EnforcerClears
  <1>4. config' \in [Strategies -> ConfigRow] /\ \A r \in Strategies : Same(config'[r], config[r])
    BY <1>1, RowTypes, SetSame DEF EnforcerClears
  <1>5. UNCHANGED <<lock, running, saved, proc, dropped, booted, environment>>
    BY DEF EnforcerClears
  <1> QED
    BY <1>1, <1>2, <1>3, <1>4, <1>5, EnforcerThread, ThreadStep

LEMMA EnforcerStopsInv ==
    ASSUME Inv, Circumstances = {}, NEW s \in Strategies, EnforcerStops(s)
    PROVE  Inv'
  <1>1. TypeOK /\ calls[Enforcer].step = "enforce"
    BY DEF Inv, EnforcerStops, At
  <1>2. booted /\ lock # Enforcer
    BY <1>1, EnforcerThread, OthersWait, Unlocked DEF At
  <1>3. Handle(Enforcer, s, "stop", "pause") \/ Skip(Enforcer, s)
    BY DEF EnforcerStops
  <1>4. /\ calls' \in [Threads -> CallRecord]
        /\ \A u \in Threads \ {Enforcer} : calls'[u] = calls[u]
        /\ calls'[Enforcer].step \in {"stop", "enforce"}
        /\ calls'[Enforcer].step = "stop" => calls'[Enforcer].s = s
    <2>1. CASE Handle(Enforcer, s, "stop", "pause")
      BY <1>1, <2>1, EnforcerThread, HandleIs DEF Steps, Purposes
    <2>2. CASE Skip(Enforcer, s)
      BY <1>1, <2>2, EnforcerThread, SkipIs
    <2> QED
      BY <1>3, <2>1, <2>2
  <1>5. UNCHANGED <<lock, running, config, saved, proc, dropped, booted, environment>>
    BY DEF EnforcerStops
  <1> QED
    BY <1>1, <1>2, <1>4, <1>5, EnforcerThread, ConfigSame, ThreadStep

LEMMA EnforcerGoesOnInv ==
    ASSUME Inv, Circumstances = {}, EnforcerGoesOn
    PROVE  Inv'
  <1>1. TypeOK /\ calls[Enforcer].step = "after" /\ calls[Enforcer].s \in Strategies
    BY EnforcerThread, KnowsStrategy DEF Inv, EnforcerGoesOn, At
  <1>2. booted /\ lock # Enforcer
    BY <1>1, EnforcerThread, OthersWait, Unlocked DEF At
  <1>3. /\ calls' \in [Threads -> CallRecord]
        /\ \A u \in Threads \ {Enforcer} : calls'[u] = calls[u]
        /\ calls'[Enforcer].step = "enforce"
    BY <1>1, EnforcerThread, LoopIs DEF EnforcerGoesOn, Steps
  <1>4. config' \in [Strategies -> ConfigRow] /\ \A r \in Strategies : Same(config'[r], config[r])
    <2>1. PICK s \in Strategies : s = calls[Enforcer].s
      BY <1>1
    <2>2. PICK f \in BOOLEAN : f = (calls[Enforcer].for = "pause")
      OBVIOUS
    <2>3. CASE config[s].exists
      <3>1. Set(s, [config[s] EXCEPT !.paused = f])
        BY <2>1, <2>2, <2>3 DEF EnforcerGoesOn
      <3> QED
        BY <1>1, <3>1, RowTypes, SetSame
    <2>4. CASE ~config[s].exists
      BY <1>1, <2>1, <2>4, ConfigSame DEF EnforcerGoesOn
    <2> QED
      BY <2>3, <2>4
  <1>5. UNCHANGED <<lock, running, saved, proc, dropped, booted, environment>>
    BY DEF EnforcerGoesOn
  <1> QED
    BY <1>1, <1>2, <1>3, <1>4, <1>5, EnforcerThread, ThreadStep

LEMMA EnforcerEndsInv ==
    ASSUME Inv, Circumstances = {}, EnforcerEnds
    PROVE  Inv'
  <1>1. TypeOK /\ calls[Enforcer].step = "enforce"
    BY DEF Inv, EnforcerEnds, At
  <1>2. booted /\ lock # Enforcer
    BY <1>1, EnforcerThread, OthersWait, Unlocked DEF At
  <1>3. /\ calls' \in [Threads -> CallRecord]
        /\ \A u \in Threads \ {Enforcer} : calls'[u] = calls[u]
        /\ calls'[Enforcer].step = "idle"
    BY <1>1, EnforcerThread, ReturnIs DEF EnforcerEnds
  <1>4. UNCHANGED <<lock, running, config, proc, dropped, booted, environment>> /\ saved' = config'
    BY DEF EnforcerEnds, Save
  <1> QED
    BY <1>1, <1>2, <1>3, <1>4, EnforcerThread, ConfigSame, ThreadStep

-----------------------------------------------------------------------------
(* Starting and stopping a process *)

\* The restorer goes on after a start.
LEMMA RestorerResult ==
    ASSUME Inv, NEW ok \in BOOLEAN, calls[Restorer].step \in {"start", "record"},
           Result(Restorer, ok), booted' = booted
    PROVE  /\ RestorerOK' /\ BootOK'
           /\ calls'[Restorer].todo = calls[Restorer].todo
           /\ \A s \in Strategies : Restoring(s)' =>
                 ~ok /\ calls[Restorer].s = s /\ calls[Restorer].for = "restore"
           /\ calls'[Restorer].step \in {"after", "restore", "pending"}
           /\ calls'[Restorer].step = "after" => calls'[Restorer].s = calls[Restorer].s
  <1>1. /\ TypeOK /\ RestorerOK /\ BootOK /\ Restorer \in Threads
        /\ calls[Restorer].for \in {"restore", "pending"}
        /\ calls[Restorer].s \notin calls[Restorer].todo
    BY ThreadsAre DEF Inv, RestorerOK
  <1>2. /\ calls'[Restorer].todo = calls[Restorer].todo
        /\ \/ /\ calls'[Restorer].step = "after" /\ calls'[Restorer].s = calls[Restorer].s
              /\ calls'[Restorer].for = calls[Restorer].for
              /\ calls[Restorer].for = "restore" /\ ~ok
           \/ /\ calls'[Restorer].step = calls[Restorer].for
              /\ calls'[Restorer].for = "return"
        /\ \A u \in Threads \ {Restorer} : calls'[u] = calls[u]
    BY <1>1, ResultIs
  <1>3. RestorerOK'
    BY <1>1, <1>2 DEF RestorerOK
  <1>4. BootOK'
    BY <1>1, <1>2 DEF BootOK, At
  <1> QED
    BY <1>1, <1>2, <1>3, <1>4 DEF Restoring, Doing

\* The same for another thread.
LEMMA ThreadResult ==
    ASSUME Inv, NEW t \in Threads \ {Restorer}, NEW ok \in BOOLEAN, Result(t, ok)
    PROVE  /\ calls' \in [Threads -> CallRecord]
           /\ \A u \in Threads \ {t} : calls'[u] = calls[u]
           /\ calls'[t].step \in {"after", "restore", "pending", "idle"}
           /\ calls'[t].step = "after" => calls'[t].s = calls[t].s
  BY ResultIs DEF Inv

LEMMA StartFailsInv ==
    ASSUME Inv, Circumstances = {}, NEW t \in Threads, StartFails(t)
    PROVE  Inv'
  <1>1. /\ TypeOK /\ calls[t].step = "start" /\ calls[t].s \in Strategies /\ Result(t, FALSE)
        /\ UNCHANGED <<lock, running, config, saved, proc, dropped, booted, environment>>
        /\ lock # t
    BY KnowsStrategy, Unlocked DEF Inv, StartFails, At
  <1>2. CASE t # Restorer
    <2>1. t \in Threads \ {Restorer} /\ booted
      BY <1>1, <1>2, OthersWait DEF At
    <2> QED
      BY <1>1, <2>1, ThreadResult, ConfigSame, ThreadStep
  <1>3. CASE t = Restorer
    <2>1. /\ RestorerOK' /\ BootOK'
          /\ calls'[Restorer].todo = calls[Restorer].todo
          /\ \A s \in Strategies : Restoring(s)' =>
                calls[Restorer].s = s /\ calls[Restorer].for = "restore"
          /\ calls'[Restorer].step \in {"after", "restore", "pending"}
          /\ calls'[Restorer].step = "after" => calls'[Restorer].s = calls[Restorer].s
      BY <1>1, <1>3, RestorerResult
    <2>2. \A s \in Strategies : Restoring(s)' => Restoring(s)
      BY <1>1, <1>3, <2>1 DEF Restoring, Doing
    <2>3. \A s \in Strategies : Awaited(s) => Awaited(s)'
      BY <1>1, <2>1 DEF Awaited
    <2>4. \A s \in Strategies : \A p \in Pids :
             Alive(p) /\ proc[p].s = s => (Awaited(s) => Awaited(s)') /\ ~Restoring(s)'
      BY <2>2, <2>3, LiveIsKept DEF Kept
    <2>5. calls' \in [Threads -> CallRecord] /\ \A u \in Threads \ {t} : calls'[u] = calls[u]
      BY <1>1, ResultIs
    <2>6. TypeOK'
      BY <1>1, <2>5 DEF TypeOK, environment
    <2>7. /\ \A s \in Strategies : Same(config'[s], config[s])
          /\ \A s \in Strategies : saved'[s] = saved[s] \/ saved'[s] = config'[s]
          /\ UNCHANGED <<lock, running, proc>>
          /\ contracts => contracts'
      BY <1>1, ConfigSame DEF environment
    <2> QED
      BY <1>1, <1>3, <2>1, <2>4, <2>5, <2>6, <2>7, QuietStep
  <1> QED
    BY <1>2, <1>3

LEMMA StopFailsInv ==
    ASSUME Inv, Circumstances = {}, NEW t \in Threads, StopFails(t)
    PROVE  Inv'
  <1>1. /\ TypeOK /\ calls[t].step = "stop" /\ calls[t].s \in Strategies /\ Result(t, FALSE)
        /\ UNCHANGED <<lock, running, config, saved, proc, dropped, booted, environment>>
        /\ lock # t
    BY KnowsStrategy, Unlocked DEF Inv, StopFails, At
  <1>2. t \in Threads \ {Restorer} /\ booted
    BY <1>1, OthersWait DEF At, Inv, RestorerOK
  <1> QED
    BY <1>1, <1>2, ThreadResult, ConfigSame, ThreadStep

\* Some processes are reaped.
LEMMA ReapedIs ==
    ASSUME TypeOK, NEW P
    PROVE  /\ Reaped(P) \in [Pids -> ProcessRow]
           /\ \A q \in P \cap Pids : Reaped(P)[q] = NoProcess
           /\ \A q \in Pids \ P : Reaped(P)[q] = proc[q]
           /\ \A q \in Pids : Reaped(P)[q] = NoProcess \/ Reaped(P)[q] = proc[q]
  BY DEF Reaped, NoProcess, ProcessRow, TypeOK

\* The process that StartSpawns makes.
LEMMA SpawnIs ==
    ASSUME TypeOK, NEW t \in Threads, calls[t].s \in Strategies, StartSpawns(t)
    PROVE  \E p \in FreePids :
             /\ proc' \in [Pids -> ProcessRow]
             /\ proc'[p].state = "alive" /\ proc'[p].s = calls[t].s
             /\ \A q \in Pids \ {p} : proc'[q].state = "alive" =>
                   proc[q].state = "alive" /\ proc'[q].s = proc[q].s
             /\ running' \in [Strategies -> Tracked]
             /\ running'[calls[t].s].pid = p
             /\ \A r \in Strategies \ {calls[t].s} : running'[r] = running[r]
  <1>1. PICK s \in Strategies : s = calls[t].s
    OBVIOUS
  <1>2. FreePids # {} /\ FreePids \subseteq Pids
    BY DEF StartSpawns, FreePids
  <1>3. PICK p \in FreePids : p = (CHOOSE q \in FreePids : TRUE)
    BY <1>2
  <1>4. /\ proc' = [Reaped(dropped \cap Zombies) EXCEPT
                     ![p] = [state |-> "alive", s |-> s, child |-> TRUE]]
        /\ running' = [running EXCEPT ![s] = [pid |-> p, adopted |-> FALSE]]
    BY <1>1, <1>3 DEF StartSpawns
  <1>5. [state |-> "alive", s |-> s, child |-> TRUE] \in ProcessRow
    BY DEF ProcessRow
  <1>6. PICK reaped \in [Pids -> ProcessRow] :
          /\ reaped = Reaped(dropped \cap Zombies)
          /\ \A q \in Pids : reaped[q] = NoProcess \/ reaped[q] = proc[q]
    BY ReapedIs
  <1>7. /\ proc' \in [Pids -> ProcessRow]
        /\ proc'[p] = [state |-> "alive", s |-> s, child |-> TRUE]
        /\ \A q \in Pids \ {p} : proc'[q] = NoProcess \/ proc'[q] = proc[q]
    BY <1>2, <1>4, <1>5, <1>6
  <1>8. [pid |-> p, adopted |-> FALSE] \in Tracked
    BY <1>2 DEF Tracked
  <1>9. /\ running' \in [Strategies -> Tracked]
        /\ running'[s].pid = p
        /\ \A r \in Strategies \ {s} : running'[r] = running[r]
    BY <1>4, <1>8 DEF TypeOK
  <1> QED
    BY <1>1, <1>7, <1>9 DEF NoProcess

LEMMA StartSpawnsInv ==
    ASSUME Inv, Circumstances = {}, NEW t \in Threads, StartSpawns(t)
    PROVE  Inv'
  <1>1. /\ TypeOK /\ calls[t].step = "start" /\ calls[t].s \in Strategies
        /\ lock = None /\ lock' = t /\ Goto(t, "record") /\ dropped' = dropped \ Zombies
        /\ UNCHANGED <<config, saved, booted, environment>>
    BY KnowsStrategy DEF Inv, StartSpawns, At
  <1>2. PICK s \in Strategies : s = calls[t].s
    BY <1>1
  <1>3. ~IsTracked(s) /\ config[s].exists /\ contracts /\ ~Overtakes(t, s)
    BY <1>2, ThreadsAre DEF StartSpawns, StartRefused, AllCircumstances
  <1>4. /\ calls' \in [Threads -> CallRecord]
        /\ calls'[t].step = "record" /\ calls'[t].s = s
        /\ calls'[t].for = calls[t].for /\ calls'[t].todo = calls[t].todo
        /\ \A u \in Threads \ {t} : calls'[u] = calls[u]
    BY <1>1, <1>2, GotoIs DEF Steps
  <1>5. PICK p \in FreePids :
             /\ proc' \in [Pids -> ProcessRow]
             /\ proc'[p].state = "alive" /\ proc'[p].s = s
             /\ \A q \in Pids \ {p} : proc'[q].state = "alive" =>
                   proc[q].state = "alive" /\ proc'[q].s = proc[q].s
             /\ running' \in [Strategies -> Tracked]
             /\ running'[s].pid = p
             /\ \A r \in Strategies \ {s} : running'[r] = running[r]
    BY <1>1, <1>2, SpawnIs
  <1>6. TypeOK'
    BY <1>1, <1>4, <1>5 DEF TypeOK, environment
  <1>7. CallsOK'
    <2>1. \A u \in Threads :
             /\ calls'[u].step \in {"start", "record", "stop", "stopped", "after", "remove"} =>
                   calls'[u].s \in Strategies
             /\ calls'[u].step \in {"record", "stopped", "remove"} <=> lock' = u
      BY <1>1, <1>2, <1>4, ThreadsAre DEF Inv, CallsOK
    <2>2. lock' # None /\ At(lock, "record")' => config'[calls'[lock'].s].exists
      BY <1>1, <1>3, <1>4
    <2> QED
      BY <2>1, <2>2 DEF CallsOK, At
  <1>8. RestorerOK'
    <2>1. CASE t = Restorer
      BY <1>1, <1>2, <1>4, <2>1 DEF Inv, RestorerOK
    <2>2. CASE t # Restorer
      BY <1>4, <2>2, ThreadsAre DEF Inv, RestorerOK
    <2> QED
      BY <2>1, <2>2
  <1>9. BootOK'
    <2>1. CASE t = Restorer
      BY <1>1, <1>4, <2>1 DEF Inv, BootOK, At
    <2>2. CASE t # Restorer
      <3>1. booted'
        BY <1>1, <2>2, OthersWait DEF At
      <3> QED
        BY <3>1 DEF BootOK
    <2> QED
      BY <2>1, <2>2
  <1>10. RefsOK'
    <2> SUFFICES ASSUME NEW r \in Strategies, NEW q \in Pids, Alive(q)', RefersTo(r, q)'
                 PROVE  proc'[q].s = r
      BY DEF RefsOK
    <2>1. p \notin References
      BY DEF FreePids
    <2>2. CASE q = p
      <3>1. config[r].pid # p /\ saved[r].pid # p /\ running[r].pid # p
        BY <2>1 DEF References
      <3> QED
        BY <1>1, <1>5, <2>2, <3>1 DEF RefersTo
    <2>3. CASE q # p
      <3>1. Alive(q) /\ proc'[q].s = proc[q].s
        BY <1>5, <2>3 DEF Alive
      <3>2. RefersTo(r, q)
        BY <1>1, <1>5, <2>3 DEF RefersTo
      <3> QED
        BY <3>1, <3>2 DEF Inv, RefsOK
    <2> QED
      BY <2>2, <2>3
  <1>11. Kept(s, p)'
    <2>1. contracts'
      BY <1>1, <1>3 DEF environment
    <2>2. Recording(s, p)'
      BY <1>1, <1>4, <1>5, ThreadsAre DEF Recording, Doing
    <2>3. ~Restoring(s)'
      BY <1>2, <1>3, <1>4, ThreadsAre DEF Restoring, Doing, Overtakes
    <2> QED
      BY <1>1, <1>4, <1>5, <2>1, <2>2, <2>3 DEF Kept, Doing
  <1>12. ASSUME NEW q \in Pids \ {p}, Alive(q)'
         PROVE  Kept(proc[q].s, q)' /\ proc'[q].s = proc[q].s
    <2>1. Alive(q) /\ proc'[q].s = proc[q].s
      BY <1>5, <1>12 DEF Alive
    <2>2. PICK r \in Strategies : r = proc[q].s /\ Kept(r, q)
      BY <2>1, LiveIsKept
    <2>3. r # s
      <3>1. SUFFICES ASSUME r = s PROVE FALSE
        OBVIOUS
      <3>2. Awaited(s)
        BY <1>3, <2>2, <3>1, ThreadsAre DEF Kept, IsTracked
      <3>3. t = Restorer
        BY <1>1, <3>2 DEF Awaited, Inv, BootOK, At
      <3> QED
        BY <1>1, <1>2, <3>2, <3>3 DEF Awaited, Inv, RestorerOK
    <2>4. Recorded(r, q)'
      BY <1>1, <2>2 DEF Kept, Recording, Recorded, Holds
    <2>5. running'[r].pid = q \/ Awaited(r)'
      BY <1>1, <1>4, <1>5, <2>2, <2>3, ThreadsAre DEF Kept, Awaited
    <2>6. ~Restoring(r)'
      BY <1>1, <1>4, <2>2, ThreadsAre DEF Kept, Restoring, Doing
    <2>7. contracts'
      BY <1>1, <1>3 DEF environment
    <2> QED
      BY <1>1, <1>4, <2>1, <2>2, <2>4, <2>5, <2>6, <2>7 DEF Kept, Doing
  <1>13. AliveOK'
    <2> SUFFICES ASSUME NEW q \in Pids, Alive(q)'
                 PROVE  \E r \in Strategies : r = proc'[q].s /\ Kept(r, q)'
      BY DEF AliveOK
    <2>1. CASE q = p
      BY <1>5, <1>11, <2>1
    <2>2. CASE q # p
      <3>1. proc[q].s \in Strategies
        BY <1>5, <2>2, LiveIsKept DEF Alive
      <3> QED
        BY <1>12, <2>2, <3>1
    <2> QED
      BY <2>1, <2>2
  <1> QED
    BY <1>6, <1>7, <1>8, <1>9, <1>10, <1>13 DEF Inv

LEMMA StartRecordsInv ==
    ASSUME Inv, Circumstances = {}, NEW t \in Threads, StartRecords(t)
    PROVE  Inv'
  <1>1. /\ TypeOK /\ calls[t].step = "record" /\ calls[t].s \in Strategies
        /\ lock = t /\ lock' = None /\ Result(t, TRUE)
        /\ UNCHANGED <<running, proc, dropped, booted, environment>>
        /\ saved' = config'
    BY KnowsStrategy DEF Inv, CallsOK, StartRecords, At, Save
  <1>2. PICK s \in Strategies : s = calls[t].s
    BY <1>1
  <1>3. config[s].exists
    BY <1>1, <1>2, ThreadsAre DEF Inv, CallsOK, At
  <1>4. /\ config' \in [Strategies -> ConfigRow]
        /\ config'[s].running /\ config'[s].pid = running[s].pid /\ config'[s].exists
        /\ \A r \in Strategies \ {s} : config'[r] = config[r]
    <2>1. running[s].pid \in Pids \cup {None}
      BY <1>1 DEF TypeOK, Tracked
    <2>2. Set(s, Started(s, running[s].pid))
      BY <1>2 DEF StartRecords
    <2>3. PICK p \in Pids \cup {None} : p = running[s].pid
      BY <2>1
    <2>4. TRUE \in BOOLEAN
      OBVIOUS
    <2>5. /\ Started(s, p) \in ConfigRow /\ Started(s, p).pid = p
          /\ Started(s, p).running /\ Started(s, p).exists = config[s].exists
      BY <1>1, <2>4, RowTypes
    <2> QED
      BY <1>1, <1>3, <2>2, <2>3, <2>5, SetIs
  <1>5. /\ calls' \in [Threads -> CallRecord]
        /\ calls'[t].todo = calls[t].todo
        /\ calls'[t].step \in {"after", "restore", "pending", "idle"}
        /\ calls'[t].step = "after" => calls'[t].s = s
        /\ \A u \in Threads \ {t} : calls'[u] = calls[u]
    BY <1>1, <1>2, ResultIs
  <1>6. TypeOK'
    BY <1>1, <1>4, <1>5 DEF TypeOK, environment
  <1>7. CallsOK'
    <2>1. \A u \in Threads :
             /\ calls'[u].step \in {"start", "record", "stop", "stopped", "after", "remove"} =>
                   calls'[u].s \in Strategies
             /\ calls'[u].step \in {"record", "stopped", "remove"} <=> lock' = u
      BY <1>1, <1>2, <1>5, ThreadsAre DEF Inv, CallsOK
    <2> QED
      BY <1>1, <2>1 DEF CallsOK
  <1>8. RestorerOK' /\ BootOK' /\ \A r \in Strategies : Restoring(r)' => Restoring(r)
    <2>1. CASE t = Restorer
      BY <1>1, <2>1, RestorerResult
    <2>2. CASE t # Restorer
      <3>1. calls'[Restorer] = calls[Restorer] /\ booted'
        BY <1>1, <1>5, <2>2, ThreadsAre, OthersWait DEF At
      <3> QED
        BY <3>1, RestorerRests DEF Restoring, Doing
    <2> QED
      BY <2>1, <2>2
  <1>9. RefsOK'
    <2>1. \A p \in Pids : Alive(p)' => Alive(p) /\ proc'[p].s = proc[p].s
      BY <1>1 DEF Alive
    <2>2. \A r \in Strategies :
             {config'[r].pid, saved'[r].pid, running'[r].pid}
               \subseteq {config[r].pid, saved[r].pid, running[r].pid, None}
      BY <1>1, <1>4
    <2> QED
      BY <2>1, <2>2, RefsStep
  <1>10. ASSUME NEW p \in Pids, Alive(p)'
         PROVE  \E r \in Strategies : r = proc'[p].s /\ Kept(r, p)'
    <2>1. PICK r \in Strategies : r = proc[p].s /\ Kept(r, p)
      BY <1>1, <1>10, LiveIsKept DEF Alive
    <2>2. Awaited(s) => FALSE
      <3>1. SUFFICES ASSUME Awaited(s) PROVE FALSE
        OBVIOUS
      <3>2. t = Restorer
        BY <1>1, <3>1 DEF Awaited, Inv, BootOK, At
      <3> QED
        BY <1>1, <1>2, <3>1, <3>2 DEF Awaited, Inv, RestorerOK
    <2>3. Recorded(r, p)'
      <3>1. CASE r = s
        <4>1. running[s].pid = p
          BY <2>1, <2>2, <3>1 DEF Kept
        <4> QED
          BY <1>1, <1>4, <3>1, <4>1 DEF Recorded, Holds
      <3>2. CASE r # s
        <4>1. Recorded(r, p)
          BY <1>1, <1>2, <2>1, <3>2 DEF Kept, Recording, Doing
        <4> QED
          BY <1>1, <1>4, <3>2, <4>1 DEF Recorded, Holds
      <3> QED
        BY <3>1, <3>2
    <2>4. running'[r].pid = p \/ Awaited(r)'
      <3>1. calls'[Restorer].todo = calls[Restorer].todo
        BY <1>5, ThreadsAre
      <3> QED
        BY <1>1, <2>1, <3>1 DEF Kept, Awaited
    <2>5. contracts' /\ proc'[p].s = r
      BY <1>1, <2>1 DEF Kept, environment
    <2> QED
      BY <1>1, <1>8, <2>1, <2>3, <2>4, <2>5 DEF Kept
  <1> QED
    BY <1>6, <1>7, <1>8, <1>9, <1>10 DEF Inv, AliveOK

\* What happens under the lock when strategy s has no process (any more).
LEMMA UnderLock ==
    ASSUME Inv, TypeOK', NEW t \in Threads \ {Restorer}, NEW s \in Strategies, booted, booted',
           \A u \in Threads \ {t} : calls'[u] = calls[u],
           lock = None \/ lock = t,
           \/ /\ lock' = t /\ calls'[t].step \in {"stopped", "remove"} /\ calls'[t].s = s
           \/ /\ lock' = None /\ calls'[t].step \notin {"record", "stopped", "remove"}
              /\ calls'[t].step \in {"start", "stop", "after"} => calls'[t].s \in Strategies,
           calls[t].step # "record",
           \A p \in Pids : Alive(p)' => Alive(p) /\ proc'[p].s = proc[p].s /\ proc[p].s # s,
           \A r \in Strategies \ {s} : config'[r] = config[r] /\ running'[r] = running[r],
           \A r \in Strategies \ {s} : saved'[r] = saved[r] \/ saved'[r] = config'[r],
           {config'[s].pid, saved'[s].pid, running'[s].pid}
             \subseteq {config[s].pid, saved[s].pid, running[s].pid, None},
           contracts' = contracts
    PROVE  Inv'
  <1>1. TypeOK /\ CallsOK
    BY DEF Inv
  <1>2. CallsOK'
    <2>1. \A u \in Threads :
             /\ calls'[u].step \in {"start", "record", "stop", "stopped", "after", "remove"} =>
                   calls'[u].s \in Strategies
             /\ calls'[u].step \in {"record", "stopped", "remove"} <=> lock' = u
      BY <1>1, ThreadsAre DEF CallsOK
    <2>2. lock' # None => calls'[lock'].step # "record"
      OBVIOUS
    <2> QED
      BY <2>1, <2>2 DEF CallsOK, At
  <1>3. calls'[Restorer] = calls[Restorer]
    BY ThreadsAre
  <1>4. RestorerOK' /\ BootOK' /\ \A r \in Strategies : Restoring(r)' => Restoring(r)
    BY <1>3, RestorerRests DEF Restoring, Doing
  <1>5. ASSUME NEW p \in Pids, Alive(p)'
        PROVE  \E r \in Strategies : r = proc'[p].s /\ r # s /\ Kept(r, p)'
    <2>1. PICK r \in Strategies : r = proc[p].s /\ Kept(r, p)
      BY <1>5, LiveIsKept
    <2>2. r # s /\ proc'[p].s = r
      BY <1>5, <2>1
    <2>3. Recorded(r, p)
      <3>1. lock # None => calls[lock].step # "record"
        OBVIOUS
      <3> QED
        BY <2>1, <3>1 DEF Kept, Recording, Doing
    <2>4. Recorded(r, p)'
      BY <2>2, <2>3 DEF Recorded, Holds
    <2>5. running'[r].pid = p
      BY <2>1, <2>2 DEF Kept, Awaited
    <2>6. lock' # None => ~Doing(lock, {"stopped", "remove"}, r)'
      BY <2>2 DEF Doing
    <2> QED
      BY <1>4, <2>1, <2>2, <2>4, <2>5, <2>6 DEF Kept
  <1>6. RefsOK'
    <2>1. \A r \in Strategies :
             {config'[r].pid, saved'[r].pid, running'[r].pid}
               \subseteq {config[r].pid, saved[r].pid, running[r].pid, None}
      OBVIOUS
    <2> QED
      BY <2>1, RefsStep
  <1> QED
    BY <1>2, <1>4, <1>5, <1>6 DEF Inv, AliveOK

\* A process ends, reaped or not.
LEMMA EndedIs ==
    ASSUME TypeOK, NEW p \in Pids
    PROVE  /\ Ended(p) \in [Pids -> ProcessRow]
           /\ Ended(p)[p].state # "alive"
           /\ \A q \in Pids \ {p} : Ended(p)[q] = proc[q]
  <1>1. proc[p] \in ProcessRow /\ NoProcess \in ProcessRow /\ NoProcess.state # "alive"
    BY DEF TypeOK, ProcessRow, NoProcess
  <1>2. PICK row \in ProcessRow :
          /\ row = (IF proc[p].child THEN [proc[p] EXCEPT !.state = "zombie"] ELSE NoProcess)
          /\ row.state # "alive"
    <2>1. CASE proc[p].child
      <3>1. /\ [proc[p] EXCEPT !.state = "zombie"] \in ProcessRow
            /\ [proc[p] EXCEPT !.state = "zombie"].state # "alive"
        BY <1>1 DEF ProcessRow
      <3> QED
        BY <2>1, <3>1
    <2>2. CASE ~proc[p].child
      BY <1>1, <2>2
    <2> QED
      BY <2>1, <2>2
  <1>3. Ended(p) = [proc EXCEPT ![p] = row]
    BY <1>2 DEF Ended
  <1> QED
    BY <1>2, <1>3 DEF TypeOK

LEMMA StopKillsInv ==
    ASSUME Inv, Circumstances = {}, NEW t \in Threads, StopKills(t)
    PROVE  Inv'
  <1>1. /\ TypeOK /\ calls[t].step = "stop" /\ calls[t].s \in Strategies
        /\ lock = None /\ lock' = t /\ Goto(t, "stopped")
        /\ UNCHANGED <<running, config, saved, dropped, booted, environment>>
    BY KnowsStrategy DEF Inv, StopKills, At
  <1>2. t \in Threads \ {Restorer} /\ booted
    BY <1>1, OthersWait DEF At, Inv, RestorerOK
  <1>3. PICK s \in Strategies : s = calls[t].s
    BY <1>1
  <1>4. /\ calls' \in [Threads -> CallRecord]
        /\ calls'[t].step = "stopped" /\ calls'[t].s = s
        /\ \A u \in Threads \ {t} : calls'[u] = calls[u]
    BY <1>1, <1>3, GotoIs DEF Steps
  <1>5. \A p \in Pids : Alive(p) /\ proc[p].s = s => running[s].pid = p
    BY <1>2, LiveIsTracked
  <1>6. /\ proc' \in [Pids -> ProcessRow]
        /\ \A p \in Pids : proc'[p].state = "alive" => proc'[p] = proc[p] /\ running[s].pid # p
    <2>1. CASE IsTracked(s)
      <3>1. proc' = Reaped({running[s].pid})
        BY <1>3, <2>1 DEF StopKills, StopTarget
      <3> QED
        BY <1>1, <3>1, ReapedIs DEF NoProcess
    <2>2. CASE ~IsTracked(s)
      <3>1. proc' = Ended(config[s].pid) /\ Alive(config[s].pid)
        BY <1>3, <2>2 DEF StopKills, StopTarget
      <3>2. config[s].pid \in Pids
        BY <1>1, <3>1 DEF TypeOK, ConfigRow, Alive
      <3> QED
        BY <1>1, <2>2, <3>1, <3>2, EndedIs, ThreadsAre DEF IsTracked
    <2> QED
      BY <2>1, <2>2
  <1>7. TypeOK'
    BY <1>1, <1>4, <1>6 DEF TypeOK, environment
  <1>8. \A p \in Pids : Alive(p)' => Alive(p) /\ proc'[p].s = proc[p].s /\ proc[p].s # s
    BY <1>5, <1>6 DEF Alive
  <1>9. booted' /\ contracts' = contracts
    BY <1>1, <1>2 DEF environment
  <1>10. /\ \A r \in Strategies \ {s} : config'[r] = config[r] /\ running'[r] = running[r]
         /\ \A r \in Strategies \ {s} : saved'[r] = saved[r] \/ saved'[r] = config'[r]
         /\ {config'[s].pid, saved'[s].pid, running'[s].pid}
              \subseteq {config[s].pid, saved[s].pid, running[s].pid, None}
    BY <1>1
  <1> QED
    BY <1>1, <1>2, <1>4, <1>7, <1>8, <1>9, <1>10, UnderLock

LEMMA StopRecordsInv ==
    ASSUME Inv, Circumstances = {}, NEW t \in Threads, StopRecords(t)
    PROVE  Inv'
  <1>1. /\ TypeOK /\ calls[t].step = "stopped" /\ calls[t].s \in Strategies
        /\ lock = t /\ lock' = None /\ Result(t, TRUE)
        /\ UNCHANGED <<proc, dropped, booted, environment>> /\ saved' = config'
    BY KnowsStrategy DEF Inv, CallsOK, StopRecords, At, Save
  <1>2. t \in Threads \ {Restorer} /\ booted
    BY <1>1, OthersWait DEF At, Inv, RestorerOK
  <1>3. PICK s \in Strategies : s = calls[t].s
    BY <1>1
  <1>4. /\ config' \in [Strategies -> ConfigRow] /\ config'[s].pid = None
        /\ \A r \in Strategies \ {s} : config'[r] = config[r]
    <2>1. Set(s, Stopped(s)) /\ TRUE \in BOOLEAN /\ None \in Pids \cup {None}
      BY <1>3 DEF StopRecords
    <2>2. Stopped(s) \in ConfigRow /\ Stopped(s).pid = None
      BY <1>1, <2>1, RowTypes
    <2> QED
      BY <1>1, <2>1, <2>2, SetIs
  <1>5. /\ running' \in [Strategies -> Tracked] /\ running'[s].pid = None
        /\ \A r \in Strategies \ {s} : running'[r] = running[r]
    <2>1. Untracked \in Tracked /\ Untracked.pid = None
      BY DEF Untracked, Tracked
    <2>2. running' = [running EXCEPT ![s] = Untracked]
      BY <1>3 DEF StopRecords
    <2> QED
      BY <1>1, <2>1, <2>2 DEF TypeOK
  <1>6. /\ calls' \in [Threads -> CallRecord]
        /\ \A u \in Threads \ {t} : calls'[u] = calls[u]
        /\ calls'[t].step \in {"after", "restore", "pending", "idle"}
        /\ calls'[t].step = "after" => calls'[t].s = s
    BY <1>1, <1>2, <1>3, ThreadResult
  <1>7. TypeOK'
    BY <1>1, <1>4, <1>5, <1>6 DEF TypeOK, environment
  <1>8. \A p \in Pids : Alive(p)' => Alive(p) /\ proc'[p].s = proc[p].s /\ proc[p].s # s
    <2>1. Doing(lock, {"stopped", "remove"}, s) /\ lock # None
      BY <1>1, <1>3, ThreadsAre DEF Doing
    <2> QED
      BY <1>1, <2>1, LiveIsKept DEF Alive, Kept
  <1>9. booted' /\ contracts' = contracts
    BY <1>1, <1>2 DEF environment
  <1>10. /\ \A r \in Strategies \ {s} : saved'[r] = saved[r] \/ saved'[r] = config'[r]
         /\ {config'[s].pid, saved'[s].pid, running'[s].pid}
              \subseteq {config[s].pid, saved[s].pid, running[s].pid, None}
    BY <1>1, <1>4, <1>5
  <1> QED
    BY <1>1, <1>2, <1>4, <1>5, <1>6, <1>7, <1>8, <1>9, <1>10, UnderLock

LEMMA DeleteRequestInv ==
    ASSUME Inv, Circumstances = {}, NEW t \in Requests, NEW s \in Strategies,
           DeleteRequest(t, s)
    PROVE  Inv'
  <1>1. /\ t \in Threads \ {Restorer} /\ TypeOK /\ calls[t].step = "idle"
        /\ lock = None /\ lock' = t
        /\ UNCHANGED <<running, config, saved, proc, dropped, booted, environment>>
    BY ThreadsAre DEF Inv, DeleteRequest, Arrives, At
  <1>2. booted
    BY <1>1, OthersWait DEF DeleteRequest, At
  <1>3. ~IsTracked(s) /\ Serve(t, "remove", s, "return")
    BY ThreadsAre DEF DeleteRequest, AllCircumstances
  <1>4. /\ calls' \in [Threads -> CallRecord]
        /\ calls'[t].step = "remove" /\ calls'[t].s = s
        /\ \A u \in Threads \ {t} : calls'[u] = calls[u]
    BY <1>1, <1>3, ServeIs DEF Steps, Purposes
  <1>5. TypeOK'
    BY <1>1, <1>4 DEF TypeOK, environment
  <1>6. \A p \in Pids : Alive(p)' => Alive(p) /\ proc'[p].s = proc[p].s /\ proc[p].s # s
    BY <1>1, <1>2, <1>3, LiveIsTracked, ThreadsAre DEF Alive, IsTracked
  <1>7. booted' /\ contracts' = contracts
    BY <1>1, <1>2 DEF environment
  <1>8. /\ \A r \in Strategies \ {s} : config'[r] = config[r] /\ running'[r] = running[r]
        /\ \A r \in Strategies \ {s} : saved'[r] = saved[r] \/ saved'[r] = config'[r]
        /\ {config'[s].pid, saved'[s].pid, running'[s].pid}
             \subseteq {config[s].pid, saved[s].pid, running[s].pid, None}
    BY <1>1
  <1> QED
    BY <1>1, <1>2, <1>4, <1>5, <1>6, <1>7, <1>8, UnderLock

LEMMA DeletesInv ==
    ASSUME Inv, Circumstances = {}, NEW t \in Requests, Deletes(t)
    PROVE  Inv'
  <1>1. /\ t \in Threads \ {Restorer} /\ TypeOK /\ calls[t].step = "remove"
        /\ lock' = None /\ Return(t)
        /\ UNCHANGED <<running, proc, dropped, booted, environment>> /\ saved' = config'
    BY ThreadsAre DEF Inv, Deletes, At, Save
  <1>2. booted /\ calls[t].s \in Strategies /\ lock = t
    BY <1>1, OthersWait, KnowsStrategy DEF At, Inv, CallsOK
  <1>3. PICK s \in Strategies : s = calls[t].s
    BY <1>2
  <1>4. /\ config' \in [Strategies -> ConfigRow] /\ config'[s].pid = None
        /\ \A r \in Strategies \ {s} : config'[r] = config[r]
    <2>1. /\ Set(s, [NewConfig EXCEPT !.exists = FALSE])
          /\ TRUE \in BOOLEAN /\ None \in Pids \cup {None}
      BY <1>3 DEF Deletes
    <2>2. /\ [NewConfig EXCEPT !.exists = FALSE] \in ConfigRow
          /\ [NewConfig EXCEPT !.exists = FALSE].pid = None
      BY <1>1, <2>1, RowTypes
    <2> QED
      BY <1>1, <2>1, <2>2, SetIs
  <1>5. /\ calls' \in [Threads -> CallRecord]
        /\ \A u \in Threads \ {t} : calls'[u] = calls[u]
        /\ calls'[t].step = "idle"
    BY <1>1, ReturnIs
  <1>6. TypeOK'
    BY <1>1, <1>4, <1>5 DEF TypeOK, environment
  <1>7. \A p \in Pids : Alive(p)' => Alive(p) /\ proc'[p].s = proc[p].s /\ proc[p].s # s
    <2>1. Doing(lock, {"stopped", "remove"}, s) /\ lock # None
      BY <1>1, <1>2, <1>3, ThreadsAre DEF Doing
    <2> QED
      BY <1>1, <2>1, LiveIsKept DEF Alive, Kept
  <1>8. booted' /\ contracts' = contracts
    BY <1>1, <1>2 DEF environment
  <1>9. /\ \A r \in Strategies \ {s} : running'[r] = running[r]
        /\ \A r \in Strategies \ {s} : saved'[r] = saved[r] \/ saved'[r] = config'[r]
        /\ {config'[s].pid, saved'[s].pid, running'[s].pid}
             \subseteq {config[s].pid, saved[s].pid, running[s].pid, None}
    BY <1>1, <1>4
  <1> QED
    BY <1>1, <1>2, <1>4, <1>5, <1>6, <1>7, <1>8, <1>9, UnderLock

-----------------------------------------------------------------------------
(* The restoration *)

\* A step of the restorer without the lock: what it must keep of live processes.
LEMMA RestorerStep ==
    ASSUME Inv, TypeOK', lock # Restorer,
           \A u \in Threads \ {Restorer} : calls'[u] = calls[u],
           calls'[Restorer].step \notin {"record", "stopped", "remove"},
           calls'[Restorer].step \in {"start", "stop", "after"} =>
              calls'[Restorer].s \in Strategies,
           RestorerOK', BootOK', lock' = lock, proc' = proc,
           \A s \in Strategies : config'[s].exists = config[s].exists,
           \A s \in Strategies :
              {config'[s].pid, saved'[s].pid, running'[s].pid}
                \subseteq {config[s].pid, saved[s].pid, running[s].pid, None},
           \A s \in Strategies, p \in Pids :
              Alive(p) /\ proc[p].s = s =>
                 /\ contracts' /\ ~Restoring(s)'
                 /\ Recorded(s, p)' \/ (Recording(s, p) /\ running'[s].pid = p)
                 /\ running'[s].pid = p \/ Awaited(s)'
    PROVE  Inv'
  <1>1. CallsOK'
    BY ThreadsAre, CallsStep
  <1>2. RefsOK'
    <2>1. \A p \in Pids : Alive(p)' => Alive(p) /\ proc'[p].s = proc[p].s
      BY DEF Alive
    <2> QED
      BY <2>1, RefsStep
  <1>3. ASSUME NEW p \in Pids, Alive(p)'
        PROVE  \E s \in Strategies : s = proc'[p].s /\ Kept(s, p)'
    <2>1. PICK s \in Strategies : s = proc[p].s /\ Kept(s, p)
      BY <1>3, LiveIsKept DEF Alive
    <2>2. /\ contracts' /\ ~Restoring(s)'
          /\ Recorded(s, p)' \/ (Recording(s, p) /\ running'[s].pid = p)
          /\ running'[s].pid = p \/ Awaited(s)'
      BY <1>3, <2>1 DEF Alive
    <2>3. lock # None => lock \in Threads \ {Restorer} /\ calls'[lock] = calls[lock]
      BY DEF Inv, TypeOK
    <2>4. Recorded(s, p)' \/ Recording(s, p)'
      BY <2>2, <2>3 DEF Recording, Doing
    <2>5. lock' # None => ~Doing(lock, {"stopped", "remove"}, s)'
      BY <2>1, <2>3 DEF Kept, Doing
    <2> QED
      BY <2>1, <2>2, <2>4, <2>5 DEF Kept
  <1> QED
    BY <1>1, <1>2, <1>3 DEF Inv, AliveOK

\* What is on record stays so when the rows are left alone.
LEMMA RowsAlone ==
    ASSUME Inv, UNCHANGED <<config, running>>, saved' = saved \/ saved' = config
    PROVE  /\ \A s \in Strategies : config'[s].exists = config[s].exists
           /\ \A s \in Strategies :
                 {config'[s].pid, saved'[s].pid, running'[s].pid}
                   \subseteq {config[s].pid, saved[s].pid, running[s].pid, None}
           /\ \A s \in Strategies, p \in Pids : Kept(s, p) =>
                 /\ Recorded(s, p)' \/ (Recording(s, p) /\ running'[s].pid = p)
                 /\ running'[s].pid = p \/ Awaited(s)
  BY DEF Kept, Recorded, Holds, Recording

\* The restorer begins a loop.
LEMMA BeginsLoop ==
    ASSUME Inv, NEW step \in {"restore", "pending"}, booted, calls[Restorer].step = "idle",
           calls' = [calls EXCEPT ![Restorer] = [Idle EXCEPT !.step = step, !.todo = Listed]],
           UNCHANGED <<lock, running, config, saved, proc, dropped, booted, environment>>
    PROVE  Inv'
  <1>1. TypeOK /\ Restorer \in Threads /\ lock # Restorer
    BY ThreadsAre, Unlocked DEF Inv
  <1>2. /\ calls' \in [Threads -> CallRecord]
        /\ calls'[Restorer].step = step /\ calls'[Restorer].for = "return"
        /\ \A u \in Threads \ {Restorer} : calls'[u] = calls[u]
    <2>1. PICK r : r = [Idle EXCEPT !.step = step, !.todo = Listed]
      OBVIOUS
    <2>2. r \in CallRecord /\ r.step = step /\ r.for = "return"
      BY <2>1 DEF Idle, CallRecord, Steps, Purposes, Listed
    <2> QED
      BY <1>1, <2>1, <2>2, CallIs
  <1>3. TypeOK'
    BY <1>1, <1>2 DEF TypeOK, environment
  <1>4. RestorerOK' /\ BootOK'
    BY <1>2 DEF RestorerOK, BootOK
  <1>5. \A s \in Strategies, p \in Pids :
           Alive(p) /\ proc[p].s = s => contracts' /\ ~Restoring(s)' /\ Kept(s, p) /\ ~Awaited(s)
    BY <1>2, LiveIsKept DEF Kept, Restoring, Doing, environment, Awaited
  <1>6. calls'[Restorer].step \notin {"record", "stopped", "remove", "start", "stop", "after"}
    BY <1>2
  <1>7. /\ \A s \in Strategies : config'[s].exists = config[s].exists
        /\ \A s \in Strategies :
              {config'[s].pid, saved'[s].pid, running'[s].pid}
                \subseteq {config[s].pid, saved[s].pid, running[s].pid, None}
        /\ \A s \in Strategies, p \in Pids : Kept(s, p) =>
              /\ Recorded(s, p)' \/ (Recording(s, p) /\ running'[s].pid = p)
              /\ running'[s].pid = p \/ Awaited(s)
    BY RowsAlone
  <1> QED
    BY <1>1, <1>2, <1>3, <1>4, <1>5, <1>6, <1>7, RestorerStep

LEMMA LoginInv ==
    ASSUME Inv, Circumstances = {}, Login
    PROVE  Inv'
  <1>1. booted /\ calls[Restorer].step = "idle"
    BY DEF Login, At, Inv, BootOK
  <1> QED
    BY <1>1, BeginsLoop DEF Login

LEMMA CheckContractsInv ==
    ASSUME Inv, Circumstances = {}, CheckContracts
    PROVE  Inv'
  <1>1. booted /\ calls[Restorer].step = "idle"
    BY DEF CheckContracts, Arrives, At, Inv, BootOK
  <1> QED
    BY <1>1, BeginsLoop DEF CheckContracts

\* No process lives before the contracts are ready.
LEMMA NothingLives ==
    ASSUME Inv, ~contracts, NEW p \in Pids
    PROVE  ~Alive(p)
  BY LiveIsKept DEF Kept

LEMMA RestorationEndsIs ==
    ASSUME TypeOK, RestorationEnds
    PROVE  /\ booted' /\ booted' \in BOOLEAN
           /\ calls' \in [Threads -> CallRecord]
           /\ calls'[Restorer].step \in {"pending", "idle"} /\ calls'[Restorer].for = "return"
           /\ \A u \in Threads \ {Restorer} : calls'[u] = calls[u]
  <1>1. PICK r : r = IF booted THEN [Idle EXCEPT !.step = "pending", !.todo = Listed] ELSE Idle
    OBVIOUS
  <1>2. r \in CallRecord /\ r.step \in {"pending", "idle"} /\ r.for = "return"
    <2>1. CASE booted
      BY <1>1, <2>1 DEF Idle, CallRecord, Steps, Purposes, Listed
    <2>2. CASE ~booted
      BY <1>1, <2>2, IdleType
    <2> QED
      BY <2>1, <2>2
  <1>3. calls' = [calls EXCEPT ![Restorer] = r] /\ booted' = TRUE
    BY <1>1 DEF RestorationEnds
  <1> QED
    BY <1>2, <1>3, ThreadsAre, CallIs

LEMMA RestorePutsOffInv ==
    ASSUME Inv, Circumstances = {}, RestorePutsOff
    PROVE  Inv'
  <1>1. /\ TypeOK /\ calls[Restorer].step = "restore" /\ lock # Restorer /\ ~contracts
        /\ RestorationEnds /\ saved' = config'
        /\ UNCHANGED <<lock, running, proc, dropped, environment>>
    BY ThreadsAre, Unlocked DEF Inv, RestorePutsOff, At, Restorable, Save
  <1>2. /\ booted' /\ booted' \in BOOLEAN
        /\ calls' \in [Threads -> CallRecord]
        /\ calls'[Restorer].step \in {"pending", "idle"} /\ calls'[Restorer].for = "return"
        /\ \A u \in Threads \ {Restorer} : calls'[u] = calls[u]
    BY <1>1, RestorationEndsIs
  <1>3. /\ config' \in [Strategies -> ConfigRow]
        /\ \A s \in Strategies : config'[s].exists = config[s].exists
        /\ \A s \in Strategies : config'[s].pid \in {config[s].pid, None}
    <2>1. ASSUME NEW s \in Strategies
          PROVE  /\ [Stopped(s) EXCEPT !.waiting = TRUE] \in ConfigRow
                 /\ [Stopped(s) EXCEPT !.waiting = TRUE].pid = None
                 /\ [Stopped(s) EXCEPT !.waiting = TRUE].exists = config[s].exists
                 /\ config[s] \in ConfigRow
      <3>1. TRUE \in BOOLEAN /\ None \in Pids \cup {None}
        OBVIOUS
      <3> QED
        BY <1>1, <3>1, RowTypes
    <2>2. config' = [s \in Strategies |-> IF config[s].running
                       THEN [Stopped(s) EXCEPT !.waiting = TRUE] ELSE config[s]]
      BY DEF RestorePutsOff
    <2> QED
      BY <2>1, <2>2
  <1>4. TypeOK'
    BY <1>1, <1>2, <1>3 DEF TypeOK, environment
  <1>5. RestorerOK' /\ BootOK'
    BY <1>2 DEF RestorerOK, BootOK
  <1>6. \A s \in Strategies :
           {config'[s].pid, saved'[s].pid, running'[s].pid}
             \subseteq {config[s].pid, saved[s].pid, running[s].pid, None}
    BY <1>1, <1>3
  <1>7. \A p \in Pids : ~Alive(p)
    BY <1>1, NothingLives
  <1>8. calls'[Restorer].step \notin {"record", "stopped", "remove", "start", "stop", "after"}
    BY <1>2
  <1> QED
    BY <1>1, <1>2, <1>3, <1>4, <1>5, <1>6, <1>7, <1>8, RestorerStep

LEMMA RestoreWaitsInv ==
    ASSUME Inv, Circumstances = {}, RestoreWaits
    PROVE  Inv'
  <1>1. /\ TypeOK /\ calls[Restorer].step = "restore" /\ lock # Restorer /\ ~contracts
        /\ Return(Restorer) /\ booted' = TRUE /\ Restorer \in Threads
        /\ UNCHANGED <<lock, running, config, saved, proc, dropped, environment>>
    BY ThreadsAre, Unlocked DEF Inv, RestoreWaits, At, Restorable
  <1>2. /\ calls' \in [Threads -> CallRecord]
        /\ calls'[Restorer].step = "idle" /\ calls'[Restorer].for = "return"
        /\ \A u \in Threads \ {Restorer} : calls'[u] = calls[u]
    BY <1>1, ReturnIs
  <1>3. TypeOK'
    BY <1>1, <1>2 DEF TypeOK, environment
  <1>4. RestorerOK' /\ BootOK'
    BY <1>1, <1>2 DEF RestorerOK, BootOK
  <1>5. /\ \A s \in Strategies : config'[s].exists = config[s].exists
        /\ \A s \in Strategies :
              {config'[s].pid, saved'[s].pid, running'[s].pid}
                \subseteq {config[s].pid, saved[s].pid, running[s].pid, None}
    BY <1>1
  <1>6. \A p \in Pids : ~Alive(p)
    BY <1>1, NothingLives
  <1> QED
    BY <1>1, <1>2, <1>3, <1>4, <1>5, <1>6, RestorerStep

\* While the restorer is in its loop nobody records a start before the server is up.
LEMMA NobodyRecords ==
    ASSUME Inv, ~booted, calls[Restorer].step \notin {"record", "stopped", "remove"}
    PROVE  lock = None
  <1>1. SUFFICES ASSUME lock # None PROVE FALSE
    OBVIOUS
  <1>2. lock \in Threads /\ calls[lock].step \in {"record", "stopped", "remove"}
    BY <1>1 DEF Inv, TypeOK, CallsOK
  <1> QED
    BY <1>2 DEF Inv, BootOK, At

LEMMA RestoreAdoptsInv ==
    ASSUME Inv, Circumstances = {}, NEW s \in Strategies, RestoreAdopts(s)
    PROVE  Inv'
  <1>1. /\ TypeOK /\ calls[Restorer].step = "restore" /\ lock # Restorer /\ Restorer \in Threads
        /\ Alive(config[s].pid) /\ contracts
        /\ Skip(Restorer, s)
        /\ UNCHANGED <<lock, config, saved, proc, booted, environment>>
    BY ThreadsAre, Unlocked DEF Inv, RestoreAdopts, At, Restorable
  <1>2. PICK p \in Pids : p = config[s].pid /\ Alive(p)
    BY <1>1 DEF TypeOK, ConfigRow, Alive
  <1>3. /\ running' \in [Strategies -> Tracked]
        /\ running'[s].pid = p
        /\ \A r \in Strategies \ {s} : running'[r] = running[r]
    <2>1. [pid |-> p, adopted |-> TRUE] \in Tracked
      BY DEF Tracked
    <2>2. running' = [running EXCEPT ![s] = [pid |-> p, adopted |-> TRUE]]
      BY <1>2 DEF RestoreAdopts
    <2> QED
      BY <1>1, <2>1, <2>2 DEF TypeOK
  <1>4. dropped' \subseteq Pids
    <2>1. IsTracked(s) => running[s].pid \in Pids
      BY <1>1 DEF TypeOK, Tracked, IsTracked
    <2>2. dropped \subseteq Pids
      BY <1>1 DEF TypeOK
    <2> QED
      BY <2>1, <2>2 DEF RestoreAdopts
  <1>5. /\ calls' \in [Threads -> CallRecord]
        /\ calls'[Restorer].step = "restore"
        /\ calls'[Restorer].for = calls[Restorer].for
        /\ calls'[Restorer].todo = calls[Restorer].todo \ {s}
        /\ \A u \in Threads \ {Restorer} : calls'[u] = calls[u]
    BY <1>1, SkipIs
  <1>6. TypeOK'
    BY <1>1, <1>3, <1>4, <1>5 DEF TypeOK, environment
  <1>7. RestorerOK' /\ BootOK'
    BY <1>1, <1>5 DEF RestorerOK, BootOK, At, Inv
  <1>8. /\ \A r \in Strategies : config'[r].exists = config[r].exists
        /\ \A r \in Strategies :
              {config'[r].pid, saved'[r].pid, running'[r].pid}
                \subseteq {config[r].pid, saved[r].pid, running[r].pid, None}
    BY <1>1, <1>2, <1>3
  <1>9. ASSUME NEW r \in Strategies, NEW q \in Pids, Alive(q), proc[q].s = r
        PROVE  /\ contracts' /\ ~Restoring(r)'
               /\ Recorded(r, q)' \/ (Recording(r, q) /\ running'[r].pid = q)
               /\ running'[r].pid = q \/ Awaited(r)'
    <2>1. Kept(r, q)
      BY <1>9, LiveIsKept
    <2>2. contracts' /\ ~Restoring(r)'
      BY <1>1, <1>5 DEF Restoring, Doing, environment
    <2>3. CASE r # s
      <3>1. Recorded(r, q) => Recorded(r, q)'
        BY <1>1 DEF Recorded, Holds
      <3>2. Awaited(r) => Awaited(r)'
        BY <1>1, <1>5, <2>3 DEF Awaited
      <3> QED
        BY <1>3, <2>1, <2>2, <2>3, <3>1, <3>2 DEF Kept, Recording
    <2>4. CASE r = s
      <3>1. q = p
        <4>1. proc[p].s = s
          BY <1>2 DEF RefersTo, Inv, RefsOK
        <4>2. CASE booted
          BY <1>2, <1>9, <2>4, <4>1, <4>2, LiveIsTracked
        <4>3. CASE ~booted
          <5>1. lock = None
            BY <1>1, <4>3, NobodyRecords
          <5> QED
            BY <1>2, <2>1, <2>4, <5>1 DEF Kept, Recording, Recorded, Holds
        <4> QED
          BY <4>2, <4>3
      <3>2. Recorded(s, p) => Recorded(s, p)'
        BY <1>1 DEF Recorded, Holds
      <3> QED
        BY <1>3, <2>1, <2>2, <2>4, <3>1, <3>2 DEF Kept
    <2> QED
      BY <2>3, <2>4
  <1>10. calls'[Restorer].step \notin {"record", "stopped", "remove", "start", "stop", "after"}
    BY <1>5
  <1> QED
    BY <1>1, <1>5, <1>6, <1>7, <1>8, <1>9, <1>10, RestorerStep

\* The restorer turns to s, or leaves it, when s has no process.
LEMMA PassesOver ==
    ASSUME Inv, NEW s \in Strategies, calls[Restorer].step = "restore",
           calls' \in [Threads -> CallRecord],
           \/ calls'[Restorer].step = "restore" /\ calls'[Restorer].for = calls[Restorer].for
           \/ /\ calls'[Restorer].step = "start" /\ calls'[Restorer].for = "restore"
              /\ calls'[Restorer].s = s,
           calls'[Restorer].todo = calls[Restorer].todo \ {s},
           \A u \in Threads \ {Restorer} : calls'[u] = calls[u],
           UNCHANGED <<lock, running, config, saved, proc, dropped, booted, environment>>,
           \A p \in Pids : Alive(p) /\ proc[p].s = s =>
              running[s].pid = p /\ calls'[Restorer].step = "restore"
    PROVE  Inv'
  <1>1. TypeOK /\ Restorer \in Threads /\ lock # Restorer
    BY ThreadsAre, Unlocked DEF Inv
  <1>2. TypeOK'
    BY <1>1 DEF TypeOK, environment
  <1>3. RestorerOK'
    BY DEF RestorerOK
  <1>4. BootOK'
    BY DEF BootOK, At, Inv
  <1>5. /\ \A r \in Strategies : config'[r].exists = config[r].exists
        /\ \A r \in Strategies :
              {config'[r].pid, saved'[r].pid, running'[r].pid}
                \subseteq {config[r].pid, saved[r].pid, running[r].pid, None}
        /\ \A r \in Strategies, p \in Pids : Kept(r, p) =>
              /\ Recorded(r, p)' \/ (Recording(r, p) /\ running'[r].pid = p)
              /\ running'[r].pid = p \/ Awaited(r)
    BY RowsAlone
  <1>6. ASSUME NEW r \in Strategies, NEW p \in Pids, Alive(p), proc[p].s = r
        PROVE  /\ contracts' /\ ~Restoring(r)'
               /\ Recorded(r, p)' \/ (Recording(r, p) /\ running'[r].pid = p)
               /\ running'[r].pid = p \/ Awaited(r)'
    <2>1. Kept(r, p)
      BY <1>6, LiveIsKept
    <2>2. ~Restoring(r)'
      BY <1>6 DEF Restoring, Doing
    <2>3. running'[r].pid = p \/ Awaited(r)'
      BY <1>6, <2>1 DEF Kept, Awaited
    <2>4. contracts'
      BY <2>1 DEF Kept, environment
    <2> QED
      BY <1>5, <2>1, <2>2, <2>3, <2>4
  <1>7. /\ calls'[Restorer].step \notin {"record", "stopped", "remove"}
        /\ calls'[Restorer].step \in {"start", "stop", "after"} => calls'[Restorer].s \in Strategies
    OBVIOUS
  <1> QED
    BY <1>1, <1>2, <1>3, <1>4, <1>5, <1>6, <1>7, RestorerStep

LEMMA RestoreRestartsInv ==
    ASSUME Inv, Circumstances = {}, NEW s \in Strategies, RestoreRestarts(s)
    PROVE  Inv'
  <1>1. /\ TypeOK /\ calls[Restorer].step = "restore" /\ Restorer \in Threads
        /\ config[s].pid # None /\ ~Alive(config[s].pid)
        /\ ~\E t \in Threads : At(t, "record") /\ calls[t].s = s
        /\ Handle(Restorer, s, "start", "restore")
        /\ UNCHANGED <<lock, running, config, saved, proc, dropped, booted, environment>>
    BY ThreadsAre DEF Inv, RestoreRestarts, At, AllCircumstances
  <1>2. /\ calls' \in [Threads -> CallRecord]
        /\ calls'[Restorer].step = "start" /\ calls'[Restorer].s = s
        /\ calls'[Restorer].for = "restore"
        /\ calls'[Restorer].todo = calls[Restorer].todo \ {s}
        /\ \A u \in Threads \ {Restorer} : calls'[u] = calls[u]
    BY <1>1, HandleIs DEF Steps, Purposes
  <1>3. ASSUME NEW p \in Pids, Alive(p), proc[p].s = s PROVE FALSE
    <2>1. Kept(s, p)
      BY <1>3, LiveIsKept
    <2>2. ~Recorded(s, p)
      BY <1>1, <1>3 DEF Recorded, Holds
    <2>3. lock \in Threads /\ At(lock, "record") /\ calls[lock].s = s
      BY <1>1, <2>1, <2>2 DEF Kept, Recording, Doing, At, TypeOK
    <2> QED
      BY <1>1, <2>3
  <1> QED
    BY <1>1, <1>2, <1>3, PassesOver

LEMMA RestoreLeavesInv ==
    ASSUME Inv, Circumstances = {}, NEW s \in Strategies, RestoreLeaves(s)
    PROVE  Inv'
  <1>1. /\ TypeOK /\ calls[Restorer].step = "restore" /\ Restorer \in Threads
        /\ ~(config[s].running /\ config[s].pid # None)
        /\ Skip(Restorer, s)
        /\ UNCHANGED <<lock, running, config, saved, proc, dropped, booted, environment>>
    BY ThreadsAre DEF Inv, RestoreLeaves, At
  <1>2. /\ calls' \in [Threads -> CallRecord]
        /\ calls'[Restorer].step = "restore" /\ calls'[Restorer].for = calls[Restorer].for
        /\ calls'[Restorer].todo = calls[Restorer].todo \ {s}
        /\ \A u \in Threads \ {Restorer} : calls'[u] = calls[u]
    BY <1>1, SkipIs
  <1>3. ASSUME NEW p \in Pids, Alive(p), proc[p].s = s
        PROVE  running[s].pid = p
    <2>1. CASE booted
      BY <1>3, <2>1, LiveIsTracked
    <2>2. CASE ~booted
      <3>1. lock = None
        BY <1>1, <2>2, NobodyRecords
      <3>2. Recorded(s, p)
        BY <1>3, <3>1, LiveIsKept DEF Kept, Recording
      <3> QED
        BY <1>1, <3>2, ThreadsAre DEF Recorded, Holds
    <2> QED
      BY <2>1, <2>2
  <1> QED
    BY <1>1, <1>2, <1>3, PassesOver

LEMMA RestoreGoesOnInv ==
    ASSUME Inv, Circumstances = {}, RestoreGoesOn
    PROVE  Inv'
  <1>1. /\ TypeOK /\ calls[Restorer].step = "after" /\ Restorer \in Threads
        /\ calls[Restorer].s \in Strategies /\ lock # Restorer
        /\ Loop(Restorer, "restore")
        /\ UNCHANGED <<lock, running, saved, proc, dropped, booted, environment>>
    BY ThreadsAre, KnowsStrategy, Unlocked DEF Inv, RestoreGoesOn, At
  <1>2. PICK s \in Strategies : s = calls[Restorer].s
    BY <1>1
  <1>3. Restoring(s)
    BY <1>1, <1>2 DEF Restoring, Doing, Inv, RestorerOK
  <1>4. /\ calls' \in [Threads -> CallRecord]
        /\ calls'[Restorer].step = "restore" /\ calls'[Restorer].for = "return"
        /\ calls'[Restorer].todo = calls[Restorer].todo
        /\ \A u \in Threads \ {Restorer} : calls'[u] = calls[u]
    BY <1>1, LoopIs DEF Steps
  <1>5. /\ config' \in [Strategies -> ConfigRow]
        /\ config'[s].exists = config[s].exists /\ config'[s].pid \in {config[s].pid, None}
        /\ \A r \in Strategies \ {s} : config'[r] = config[r]
    <2>1. PICK f \in BOOLEAN : f = ~contracts
      BY <1>1 DEF TypeOK
    <2>2. CASE config[s].exists
      <3>1. Set(s, [Stopped(s) EXCEPT !.waiting = f]) /\ None \in Pids \cup {None}
        BY <1>2, <2>1, <2>2 DEF RestoreGoesOn
      <3>2. /\ [Stopped(s) EXCEPT !.waiting = f] \in ConfigRow
            /\ [Stopped(s) EXCEPT !.waiting = f].pid = None
            /\ [Stopped(s) EXCEPT !.waiting = f].exists = config[s].exists
        BY <1>1, <3>1, RowTypes
      <3> QED
        BY <1>1, <3>1, <3>2, SetIs
    <2>3. CASE ~config[s].exists
      <3>1. config' = config
        BY <1>2, <2>3 DEF RestoreGoesOn
      <3> QED
        BY <1>1, <3>1 DEF TypeOK
    <2> QED
      BY <2>2, <2>3
  <1>6. TypeOK'
    BY <1>1, <1>4, <1>5 DEF TypeOK, environment
  <1>7. RestorerOK' /\ BootOK'
    BY <1>1, <1>4 DEF RestorerOK, BootOK, At, Inv
  <1>8. /\ \A r \in Strategies : config'[r].exists = config[r].exists
        /\ \A r \in Strategies :
              {config'[r].pid, saved'[r].pid, running'[r].pid}
                \subseteq {config[r].pid, saved[r].pid, running[r].pid, None}
    BY <1>1, <1>5
  <1>9. ASSUME NEW r \in Strategies, NEW p \in Pids, Alive(p), proc[p].s = r
        PROVE  /\ contracts' /\ ~Restoring(r)'
               /\ Recorded(r, p)' \/ (Recording(r, p) /\ running'[r].pid = p)
               /\ running'[r].pid = p \/ Awaited(r)'
    <2>1. Kept(r, p)
      BY <1>9, LiveIsKept
    <2>2. r # s
      BY <1>3, <2>1 DEF Kept
    <2>3. contracts' /\ ~Restoring(r)'
      BY <1>1, <1>4, <2>1 DEF Kept, Restoring, Doing, environment
    <2>4. Recorded(r, p) => Recorded(r, p)'
      BY <1>1, <1>5, <2>2 DEF Recorded, Holds
    <2>5. Awaited(r) => Awaited(r)'
      BY <1>1, <1>4 DEF Awaited
    <2> QED
      BY <1>1, <2>1, <2>3, <2>4, <2>5 DEF Kept, Recording
  <1>10. calls'[Restorer].step \notin {"record", "stopped", "remove", "start", "stop", "after"}
    BY <1>4
  <1> QED
    BY <1>1, <1>4, <1>6, <1>7, <1>8, <1>9, <1>10, RestorerStep

LEMMA RestoreEndsInv ==
    ASSUME Inv, Circumstances = {}, RestoreEnds
    PROVE  Inv'
  <1>1. /\ TypeOK /\ calls[Restorer].step = "restore" /\ lock # Restorer
        /\ calls[Restorer].todo = {}
        /\ RestorationEnds /\ saved' = config
        /\ UNCHANGED <<lock, running, config, proc, dropped, environment>>
    BY ThreadsAre, Unlocked DEF Inv, RestoreEnds, At, Save
  <1>2. /\ booted' /\ booted' \in BOOLEAN
        /\ calls' \in [Threads -> CallRecord]
        /\ calls'[Restorer].step \in {"pending", "idle"} /\ calls'[Restorer].for = "return"
        /\ \A u \in Threads \ {Restorer} : calls'[u] = calls[u]
    BY <1>1, RestorationEndsIs
  <1>3. TypeOK'
    BY <1>1, <1>2 DEF TypeOK, environment
  <1>4. RestorerOK' /\ BootOK'
    BY <1>2 DEF RestorerOK, BootOK
  <1>5. /\ \A s \in Strategies : config'[s].exists = config[s].exists
        /\ \A s \in Strategies :
              {config'[s].pid, saved'[s].pid, running'[s].pid}
                \subseteq {config[s].pid, saved[s].pid, running[s].pid, None}
        /\ \A s \in Strategies, p \in Pids : Kept(s, p) =>
              /\ Recorded(s, p)' \/ (Recording(s, p) /\ running'[s].pid = p)
              /\ running'[s].pid = p \/ Awaited(s)
    BY <1>1, RowsAlone
  <1>6. \A s \in Strategies, p \in Pids :
           Alive(p) /\ proc[p].s = s => contracts' /\ ~Restoring(s)' /\ Kept(s, p) /\ ~Awaited(s)
    BY <1>1, <1>2, LiveIsKept DEF Kept, Restoring, Doing, environment, Awaited
  <1>7. calls'[Restorer].step \notin {"record", "stopped", "remove", "start", "stop", "after"}
    BY <1>2
  <1> QED
    BY <1>1, <1>2, <1>3, <1>4, <1>5, <1>6, <1>7, RestorerStep

LEMMA PendingStartsInv ==
    ASSUME Inv, Circumstances = {}, NEW s \in Strategies, PendingStarts(s)
    PROVE  Inv'
  <1>1. /\ TypeOK /\ calls[Restorer].step = "pending" /\ Restorer \in Threads /\ lock # Restorer
        /\ UNCHANGED <<lock, running, saved, proc, dropped, booted, environment>>
    BY ThreadsAre, Unlocked DEF Inv, PendingStarts, At
  <1>2. booted /\ booted'
    BY <1>1 DEF Inv, BootOK
  <1>3. /\ calls' \in [Threads -> CallRecord]
        /\ \/ /\ calls'[Restorer].step = "start" /\ calls'[Restorer].s = s
              /\ calls'[Restorer].for = "pending"
           \/ calls'[Restorer].step = "pending"
        /\ calls'[Restorer].todo = calls[Restorer].todo \ {s}
        /\ \A u \in Threads \ {Restorer} : calls'[u] = calls[u]
    <2>1. Handle(Restorer, s, "start", "pending") \/ Skip(Restorer, s)
      BY DEF PendingStarts
    <2>2. CASE Handle(Restorer, s, "start", "pending")
      BY <1>1, <2>2, HandleIs DEF Steps, Purposes
    <2>3. CASE Skip(Restorer, s)
      BY <1>1, <2>3, SkipIs
    <2> QED
      BY <2>1, <2>2, <2>3
  <1>4. config' \in [Strategies -> ConfigRow] /\ \A r \in Strategies : Same(config'[r], config[r])
    <2>1. Set(s, [config[s] EXCEPT !.waiting = FALSE]) \/ config' = config
      BY DEF PendingStarts
    <2>2. CASE Set(s, [config[s] EXCEPT !.waiting = FALSE])
      BY <1>1, <2>2, RowTypes, SetSame
    <2>3. CASE config' = config
      BY <1>1, <2>3, ConfigSame
    <2> QED
      BY <2>1, <2>2, <2>3
  <1>5. TypeOK'
    BY <1>1, <1>3, <1>4 DEF TypeOK, environment
  <1>6. RestorerOK' /\ BootOK'
    BY <1>2, <1>3 DEF RestorerOK, BootOK
  <1>7. \A r \in Strategies : ~Awaited(r) /\ ~Restoring(r)'
    BY <1>2, <1>3 DEF Awaited, Restoring, Doing
  <1>8. /\ calls'[Restorer].step \notin {"record", "stopped", "remove"}
        /\ calls'[Restorer].step \in {"start", "stop", "after"} => calls'[Restorer].s \in Strategies
        /\ UNCHANGED <<lock, running, proc>>
        /\ contracts => contracts'
    BY <1>1, <1>3 DEF environment
  <1>9. \A r \in Strategies : saved'[r] = saved[r] \/ saved'[r] = config'[r]
    BY <1>1
  <1> QED
    BY <1>1, <1>3, <1>4, <1>5, <1>6, <1>7, <1>8, <1>9, QuietStep

LEMMA PendingEndsInv ==
    ASSUME Inv, Circumstances = {}, PendingEnds
    PROVE  Inv'
  <1>1. /\ TypeOK /\ calls[Restorer].step = "pending" /\ Restorer \in Threads /\ lock # Restorer
        /\ Return(Restorer) /\ saved' = config'
        /\ UNCHANGED <<lock, running, config, proc, dropped, booted, environment>>
    BY ThreadsAre, Unlocked DEF Inv, PendingEnds, At, Save
  <1>2. booted /\ booted'
    BY <1>1 DEF Inv, BootOK
  <1>3. /\ calls' \in [Threads -> CallRecord]
        /\ calls'[Restorer].step = "idle"
        /\ \A u \in Threads \ {Restorer} : calls'[u] = calls[u]
    BY <1>1, ReturnIs
  <1>4. TypeOK'
    BY <1>1, <1>3 DEF TypeOK, environment
  <1>5. RestorerOK' /\ BootOK'
    BY <1>2, <1>3 DEF RestorerOK, BootOK
  <1>6. \A r \in Strategies : ~Awaited(r) /\ ~Restoring(r)'
    BY <1>2, <1>3 DEF Awaited, Restoring, Doing
  <1>7. /\ \A r \in Strategies : Same(config'[r], config[r])
        /\ \A r \in Strategies : saved'[r] = saved[r] \/ saved'[r] = config'[r]
        /\ UNCHANGED <<lock, running, proc>>
        /\ contracts => contracts'
    BY <1>1, ConfigSame DEF environment
  <1> QED
    BY <1>1, <1>3, <1>4, <1>5, <1>6, <1>7, QuietStep

-----------------------------------------------------------------------------
(* The cleanup, the environment and a restart of the server *)

\* A step in which no thread moves and processes only end.
LEMMA BackgroundStep ==
    ASSUME Inv, TypeOK', UNCHANGED <<calls, lock, booted>>, contracts => contracts',
           \A s \in Strategies : config'[s].exists = config[s].exists,
           \A s \in Strategies :
              {config'[s].pid, saved'[s].pid, running'[s].pid}
                \subseteq {config[s].pid, saved[s].pid, running[s].pid, None},
           \A p \in Pids : Alive(p)' => Alive(p) /\ proc'[p].s = proc[p].s,
           \A s \in Strategies, p \in Pids :
              Alive(p)' /\ proc[p].s = s =>
                 /\ Recorded(s, p) => Recorded(s, p)'
                 /\ running'[s].pid = running[s].pid
    PROVE  Inv'
  <1>1. CallsOK'
    <2>1. TypeOK
      BY DEF Inv
    <2>2. lock # None /\ At(lock, "record") => calls[lock].s \in Strategies
      BY <2>1 DEF Inv, CallsOK, TypeOK, At
    <2> QED
      BY <2>2 DEF Inv, CallsOK, At
  <1>2. RestorerOK' /\ BootOK'
    BY DEF Inv, RestorerOK, BootOK, At
  <1>3. RefsOK'
    BY RefsStep
  <1>4. ASSUME NEW p \in Pids, Alive(p)'
        PROVE  \E s \in Strategies : s = proc'[p].s /\ Kept(s, p)'
    <2>1. PICK s \in Strategies : s = proc[p].s /\ Kept(s, p)
      BY <1>4, LiveIsKept
    <2>2. /\ Recorded(s, p) => Recorded(s, p)'
          /\ running'[s].pid = running[s].pid
      BY <1>4, <2>1
    <2>3. contracts' /\ ~Restoring(s)' /\ (Awaited(s) => Awaited(s)')
      BY <2>1 DEF Kept, Restoring, Doing, Awaited
    <2>4. lock # None => calls'[lock] = calls[lock]
      OBVIOUS
    <2>5. Kept(s, p)'
      BY <2>1, <2>2, <2>3, <2>4, KeptStep
    <2> QED
      BY <1>4, <2>1, <2>5
  <1> QED
    BY <1>1, <1>2, <1>3, <1>4 DEF Inv, AliveOK

LEMMA CleanupDeadProcessesInv ==
    ASSUME Inv, Circumstances = {}, CleanupDeadProcesses
    PROVE  Inv'
  <1>1. TypeOK /\ booted /\ UNCHANGED <<calls, lock, dropped, booted, environment>>
    BY ThreadsAre DEF Inv, CleanupDeadProcesses, AllCircumstances
  <1>2. PICK dead \in SUBSET Strategies : dead = {s \in Strategies : TrackedDead(s)}
    OBVIOUS
  <1>3. /\ running' = [s \in Strategies |-> IF s \in dead THEN Untracked ELSE running[s]]
        /\ proc' = Reaped({running[s].pid : s \in dead})
        /\ config' = [s \in Strategies |->
                        IF s \in dead \/ StaleFlag(s) THEN Stopped(s) ELSE config[s]]
        /\ saved' = config' \/ saved' = saved
    BY <1>2 DEF CleanupDeadProcesses, Save
  <1>4. /\ running' \in [Strategies -> Tracked]
        /\ \A s \in dead : running'[s].pid = None
        /\ \A s \in Strategies \ dead : running'[s] = running[s]
    <2>1. Untracked \in Tracked /\ Untracked.pid = None
      BY DEF Untracked, Tracked
    <2> QED
      BY <1>1, <1>3, <2>1 DEF TypeOK
  <1>5. /\ config' \in [Strategies -> ConfigRow]
        /\ \A s \in Strategies : config'[s].exists = config[s].exists
        /\ \A s \in Strategies : config'[s].pid \in {config[s].pid, None}
        /\ \A s \in Strategies : s \notin dead /\ ~StaleFlag(s) => config'[s] = config[s]
    <2>1. ASSUME NEW s \in Strategies
          PROVE  /\ Stopped(s) \in ConfigRow /\ Stopped(s).pid = None
                 /\ Stopped(s).exists = config[s].exists /\ config[s] \in ConfigRow
      <3>1. TRUE \in BOOLEAN /\ None \in Pids \cup {None}
        OBVIOUS
      <3> QED
        BY <1>1, <3>1, RowTypes
    <2> QED
      BY <1>3, <2>1
  <1>6. /\ proc' \in [Pids -> ProcessRow]
        /\ \A p \in Pids : Alive(p)' => Alive(p) /\ proc'[p].s = proc[p].s
    BY <1>1, <1>3, ReapedIs DEF Alive, NoProcess
  <1>7. TypeOK'
    BY <1>1, <1>3, <1>4, <1>5, <1>6 DEF TypeOK, environment
  <1>8. \A s \in Strategies :
           {config'[s].pid, saved'[s].pid, running'[s].pid}
             \subseteq {config[s].pid, saved[s].pid, running[s].pid, None}
    BY <1>3, <1>4, <1>5
  <1>9. ASSUME NEW s \in Strategies, NEW p \in Pids, Alive(p)', proc[p].s = s
        PROVE  /\ Recorded(s, p) => Recorded(s, p)'
               /\ running'[s].pid = running[s].pid
    <2>1. Alive(p) /\ running[s].pid = p
      BY <1>1, <1>6, <1>9, LiveIsTracked
    <2>2. ~TrackedDead(s) /\ ~StaleFlag(s)
      BY <2>1 DEF TrackedDead, StaleFlag, IsTracked, PidExists, Alive
    <2>3. config'[s] = config[s] /\ running'[s] = running[s]
      BY <1>2, <1>4, <1>5, <2>2
    <2> QED
      BY <1>3, <2>3, RecordedStays, SameIsSame
  <1>10. contracts => contracts'
    BY <1>1 DEF environment
  <1> QED
    BY <1>1, <1>5, <1>6, <1>7, <1>8, <1>9, <1>10, BackgroundStep

LEMMA RefreshFlagInv ==
    ASSUME Inv, Circumstances = {}, NEW s \in Strategies, RefreshFlag(s)
    PROVE  Inv'
  <1>1. /\ TypeOK /\ ~Alive(config[s].pid) /\ saved' = config'
        /\ UNCHANGED <<calls, lock, running, proc, dropped, booted, environment>>
    BY DEF Inv, RefreshFlag, Save
  <1>2. /\ config' \in [Strategies -> ConfigRow]
        /\ config'[s].pid = None /\ config'[s].exists = config[s].exists
        /\ \A r \in Strategies \ {s} : config'[r] = config[r]
    <2>1. Set(s, Stopped(s)) /\ TRUE \in BOOLEAN /\ None \in Pids \cup {None}
      BY DEF RefreshFlag
    <2>2. /\ Stopped(s) \in ConfigRow /\ Stopped(s).pid = None
          /\ Stopped(s).exists = config[s].exists
      BY <1>1, <2>1, RowTypes
    <2> QED
      BY <1>1, <2>1, <2>2, SetIs
  <1>3. TypeOK'
    BY <1>1, <1>2 DEF TypeOK, environment
  <1>4. /\ \A p \in Pids : Alive(p)' => Alive(p) /\ proc'[p].s = proc[p].s
        /\ \A r \in Strategies : config'[r].exists = config[r].exists
        /\ \A r \in Strategies :
              {config'[r].pid, saved'[r].pid, running'[r].pid}
                \subseteq {config[r].pid, saved[r].pid, running[r].pid, None}
        /\ contracts => contracts'
    BY <1>1, <1>2 DEF Alive, environment
  <1>5. ASSUME NEW r \in Strategies, NEW p \in Pids, Alive(p)', proc[p].s = r
        PROVE  /\ Recorded(r, p) => Recorded(r, p)'
               /\ running'[r].pid = running[r].pid
    <2>1. Recorded(r, p) => r # s
      BY <1>1, <1>4, <1>5 DEF Recorded, Holds
    <2> QED
      BY <1>1, <1>2, <2>1 DEF Recorded, Holds
  <1> QED
    BY <1>1, <1>2, <1>3, <1>4, <1>5, BackgroundStep

LEMMA ProcessDiesInv ==
    ASSUME Inv, Circumstances = {}, NEW p \in Pids, ProcessDies(p)
    PROVE  Inv'
  <1>1. /\ TypeOK /\ proc' = Ended(p)
        /\ UNCHANGED <<calls, lock, running, config, saved, dropped, booted, environment>>
    BY DEF Inv, ProcessDies
  <1>2. /\ proc' \in [Pids -> ProcessRow]
        /\ \A q \in Pids : Alive(q)' => Alive(q) /\ proc'[q].s = proc[q].s
    BY <1>1, EndedIs DEF Alive
  <1>3. TypeOK'
    BY <1>1, <1>2 DEF TypeOK, environment
  <1>4. \A r \in Strategies, q \in Pids : Recorded(r, q) => Recorded(r, q)'
    BY <1>1 DEF Recorded, Holds
  <1>5. contracts => contracts'
    BY <1>1 DEF environment
  <1> QED
    BY <1>1, <1>2, <1>3, <1>4, <1>5, BackgroundStep

\* The day or the contracts change.
LEMMA EnvironmentInv ==
    ASSUME Inv, DayChanges \/ ContractsDownloaded
    PROVE  Inv'
  <1>1. TypeOK
    BY DEF Inv
  <1>2. /\ UNCHANGED <<calls, lock, running, config, saved, proc, dropped, booted>>
        /\ contracts => contracts'
        /\ TypeOK'
    BY <1>1 DEF DayChanges, ContractsDownloaded, TypeOK
  <1>3. \A p \in Pids : Alive(p)' => Alive(p) /\ proc'[p].s = proc[p].s
    BY <1>2 DEF Alive
  <1>4. \A r \in Strategies, q \in Pids : Recorded(r, q) => Recorded(r, q)'
    BY <1>2 DEF Recorded, Holds
  <1> QED
    BY <1>2, <1>3, <1>4, BackgroundStep

LEMMA RestartInv ==
    ASSUME Inv, Circumstances = {}, Restart
    PROVE  Inv'
  <1>1. PICK survivors \in {{p \in Pids : Alive(p)}, {}} :
          /\ lock = None /\ contracts' \in BOOLEAN /\ (contracts' \/ survivors = {})
          /\ proc' = [p \in Pids |-> IF p \in survivors THEN [proc[p] EXCEPT !.child = FALSE]
                                     ELSE NoProcess]
    BY ThreadsAre DEF Restart, AllCircumstances
  <1>2. /\ lock' = None /\ config' = saved /\ saved' = saved /\ dropped' = {} /\ booted' = FALSE
        /\ market' = market
        /\ running' = [s \in Strategies |-> Untracked]
        /\ calls' = [t \in Threads |->
                       IF t = Restorer
                       THEN [Idle EXCEPT !.step = "restore", !.todo = {s \in Strategies : saved[s].exists}]
                       ELSE Idle]
    BY DEF Restart
  <1>3. /\ calls' \in [Threads -> CallRecord]
        /\ calls'[Restorer].step = "restore" /\ calls'[Restorer].for = "return"
        /\ calls'[Restorer].todo = {s \in Strategies : saved[s].exists}
        /\ \A t \in Threads \ {Restorer} : calls'[t].step = "idle"
    <2>1. PICK r : r = [Idle EXCEPT !.step = "restore", !.todo = {s \in Strategies : saved[s].exists}]
      OBVIOUS
    <2>2. /\ r \in CallRecord /\ r.step = "restore" /\ r.for = "return"
          /\ r.todo = {s \in Strategies : saved[s].exists}
      BY <2>1 DEF Idle, CallRecord, Steps, Purposes
    <2>3. calls' = [t \in Threads |-> IF t = Restorer THEN r ELSE Idle]
      BY <1>2, <2>1
    <2> QED
      BY <2>2, <2>3, IdleType, ThreadsAre
  <1>4. TypeOK
    BY DEF Inv
  <1>5. /\ running' \in [Strategies -> Tracked]
        /\ \A s \in Strategies : running'[s].pid = None
    BY <1>2 DEF Untracked, Tracked
  <1>6. /\ proc' \in [Pids -> ProcessRow]
        /\ \A p \in Pids : Alive(p)' => p \in survivors /\ Alive(p) /\ proc'[p].s = proc[p].s
    BY <1>1, <1>4 DEF TypeOK, ProcessRow, NoProcess, Alive
  <1>7. TypeOK'
    BY <1>1, <1>2, <1>3, <1>4, <1>5, <1>6 DEF TypeOK
  <1>8. CallsOK'
    BY <1>2, <1>3, ThreadsAre DEF CallsOK
  <1>9. RestorerOK' /\ BootOK'
    BY <1>3 DEF RestorerOK, BootOK, At
  <1>10. RefsOK'
    <2>1. \A s \in Strategies :
             {config'[s].pid, saved'[s].pid, running'[s].pid}
               \subseteq {config[s].pid, saved[s].pid, running[s].pid, None}
      BY <1>2, <1>5
    <2> QED
      BY <1>6, <2>1, RefsStep
  <1>11. ASSUME NEW p \in Pids, Alive(p)'
         PROVE  \E s \in Strategies : s = proc'[p].s /\ Kept(s, p)'
    <2>1. PICK s \in Strategies : s = proc[p].s /\ Kept(s, p)
      BY <1>6, <1>11, LiveIsKept
    <2>2. Recorded(s, p)
      BY <1>1, <2>1 DEF Kept, Recording
    <2>3. Recorded(s, p)' /\ saved[s].exists
      BY <1>2, <2>2 DEF Recorded, Holds
    <2>4. Awaited(s)' /\ ~Restoring(s)'
      BY <1>2, <1>3, <2>3 DEF Awaited, Restoring, Doing
    <2>5. contracts'
      BY <1>1, <1>6, <1>11
    <2> QED
      BY <1>2, <1>6, <1>11, <2>1, <2>3, <2>4, <2>5 DEF Kept
  <1> QED
    BY <1>7, <1>8, <1>9, <1>10, <1>11 DEF Inv, AliveOK

-----------------------------------------------------------------------------
(* The theorems *)

LEMMA InitInv ==
    ASSUME Init
    PROVE  Inv
  <1>1. NewConfig \in ConfigRow /\ Untracked \in Tracked /\ NoProcess \in ProcessRow
    BY DEF NewConfig, ConfigRow, Untracked, Tracked, NoProcess, ProcessRow
  <1>2. \A t \in Threads : calls[t] = Idle
    BY DEF Init
  <1>3. TypeOK
    BY <1>1, IdleType DEF Init, TypeOK
  <1>4. CallsOK /\ RestorerOK /\ BootOK
    BY <1>2, IdleType, ThreadsAre DEF Init, CallsOK, RestorerOK, BootOK, At
  <1>5. \A p \in Pids : ~Alive(p)
    BY DEF Init, Alive, NoProcess
  <1> QED
    BY <1>3, <1>4, <1>5 DEF Inv, RefsOK, AliveOK

LEMMA ContinueInv ==
    ASSUME Inv, Circumstances = {}, NEW t \in Threads, Continue(t)
    PROVE  Inv'
  BY StartFailsInv, StartSpawnsInv, StartRecordsInv, StopFailsInv, StopKillsInv, StopRecordsInv
     DEF Continue

LEMMA StutterInv ==
    ASSUME Inv, UNCHANGED vars
    PROVE  Inv'
  <1>1. UNCHANGED <<calls, lock, running, config, saved, proc, dropped, booted, market, contracts>>
    BY DEF vars, environment
  <1>2. TypeOK'
    BY <1>1 DEF Inv, TypeOK
  <1>3. \A p \in Pids : Alive(p)' => Alive(p) /\ proc'[p].s = proc[p].s
    BY <1>1 DEF Alive
  <1>4. \A r \in Strategies, q \in Pids : Recorded(r, q) => Recorded(r, q)'
    BY <1>1 DEF Recorded, Holds
  <1> QED
    BY <1>1, <1>2, <1>3, <1>4, BackgroundStep

LEMMA NextInv ==
    ASSUME Inv, Circumstances = {}, [Next]_vars
    PROVE  Inv'
  <1>1. ASSUME NEW t \in Requests, ContinueRequest(t) PROVE Inv'
    BY <1>1, ThreadsAre, ContinueInv, DeletesInv, StopRequestEndsInv DEF ContinueRequest
  <1>2. ASSUME NEW t \in Requests, NEW s \in Strategies,
               \/ StartRequest(t, s) \/ StopRequest(t, s)
               \/ ScheduledStart(t, s) \/ ScheduledStop(t, s) \/ DeleteRequest(t, s)
        PROVE  Inv'
    BY <1>2, StartRequestInv, StopRequestInv, ScheduledStartInv, ScheduledStopInv,
       DeleteRequestInv
  <1>3. ASSUME ContinueEnforcer PROVE Inv'
    BY <1>3, ThreadsAre, ContinueInv, EnforcerRunsInv, EnforcerGoesOnInv, EnforcerEndsInv,
       EnforcerResumesInv, EnforcerClearsInv, EnforcerStopsInv DEF ContinueEnforcer
  <1>4. ASSUME ContinueRestorer PROVE Inv'
    BY <1>4, ThreadsAre, ContinueInv, RestorePutsOffInv, RestoreWaitsInv, RestoreGoesOnInv,
       RestoreEndsInv, PendingEndsInv, RestoreAdoptsInv, RestoreRestartsInv, RestoreLeavesInv,
       PendingStartsInv DEF ContinueRestorer
  <1>5. CASE Login \/ CheckContracts \/ CleanupDeadProcesses \/ Restart
    BY <1>5, LoginInv, CheckContractsInv, CleanupDeadProcessesInv, RestartInv
  <1>6. CASE \E s \in Strategies : RefreshFlag(s)
    BY <1>6, RefreshFlagInv
  <1>7. CASE \E p \in Pids : ProcessDies(p)
    BY <1>7, ProcessDiesInv
  <1>8. CASE DayChanges \/ ContractsDownloaded
    BY <1>8, EnvironmentInv
  <1>9. CASE UNCHANGED vars
    BY <1>9, StutterInv
  <1> QED
    BY <1>1, <1>2, <1>3, <1>4, <1>5, <1>6, <1>7, <1>8, <1>9 DEF Next

\* The invariant holds in every state when none of the circumstances occurs.
LEMMA HostInvariant ==
    ASSUME Circumstances = {}
    PROVE  Spec => []Inv
  <1>1. Init => Inv
    BY InitInv
  <1>2. Inv /\ [Next]_vars => Inv'
    BY NextInv
  <1> QED
    BY <1>1, <1>2, PTL DEF Spec

\* Every variable of the strategy host keeps its type.
THEOREM HostTypeCorrect == Circumstances = {} => (Spec => []TypeOK)
  <1> SUFFICES ASSUME Circumstances = {} PROVE Spec => []TypeOK
    OBVIOUS
  <1>1. Inv => TypeOK
    BY DEF Inv
  <1> QED
    BY <1>1, HostInvariant, PTL

\* Between starts and stops a live process is the one in the configuration file of
\* its strategy, whatever requests, jobs, deaths, logins and restarts did before.
THEOREM LiveProcessIsSaved == Circumstances = {} => (Spec => []LiveIsSaved)
  <1> SUFFICES ASSUME Circumstances = {} PROVE Spec => []LiveIsSaved
    OBVIOUS
  <1>1. Inv => LiveIsSaved
    <2> SUFFICES ASSUME Inv, lock = None, NEW p \in Pids, Alive(p)
                 PROVE  \E s : /\ s = proc[p].s
                               /\ saved[s].exists /\ saved[s].running /\ saved[s].pid = p
      BY DEF LiveIsSaved
    <2>1. PICK s \in Strategies : s = proc[p].s /\ Kept(s, p)
      BY LiveIsKept
    <2> QED
      BY <2>1 DEF Kept, Recording, Recorded, Holds
  <1> QED
    BY <1>1, HostInvariant, PTL

\* A strategy runs once (start_strategy_process refuses one that is running), for
\* any number of requests, strategies and processes.
THEOREM StrategyRunsOnce == Circumstances = {} => (Spec => []OneProcess)
  <1> SUFFICES ASSUME Circumstances = {} PROVE Spec => []OneProcess
    OBVIOUS
  <1>1. Inv => OneProcess
    <2> SUFFICES ASSUME Inv, NEW p \in Pids, NEW q \in Pids, Alive(p), Alive(q),
                        proc[p].s = proc[q].s
                 PROVE  p = q
      BY DEF OneProcess
    <2>1. PICK s \in Strategies : s = proc[p].s /\ Kept(s, p) /\ Kept(s, q)
      BY LiveIsKept
    <2>2. CASE Recorded(s, p) /\ Recorded(s, q)
      BY <2>2 DEF Recorded, Holds
    <2>3. CASE running[s].pid = p /\ running[s].pid = q
      BY <2>3
    <2>4. CASE lock # None /\ Doing(lock, {"record"}, s) /\ Awaited(s)
      <3>1. lock = Restorer
        <4>1. lock \in Threads /\ ~At(lock, "idle")
          BY <2>4 DEF Inv, TypeOK, Doing, At
        <4> QED
          BY <2>4, <4>1 DEF Inv, BootOK, Awaited
      <3> QED
        BY <2>4, <3>1 DEF Inv, RestorerOK, Awaited, Doing
    <2> QED
      BY <2>1, <2>2, <2>3, <2>4 DEF Kept, Recording
  <1> QED
    BY <1>1, HostInvariant, PTL

-----------------------------------------------------------------------------
(* A strategy the user has stopped *)

Starters == Requests \cup {Enforcer}

\* Thread t alone moves, and begins no start.
LEMMA NoStartBegins ==
    ASSUME NEW t \in Threads, NEW s \in Strategies,
           \A u \in Threads \ {t} : calls'[u] = calls[u],
           calls'[t].step = "start" => calls[t].step = "start" /\ calls'[t].s = calls[t].s,
           StartsUnderWay(s) = {}
    PROVE  StartsUnderWay(s)' = {}
  <1>1. \A u \in Starters : ~(calls[u].step = "start" /\ calls[u].s = s)
    BY DEF StartsUnderWay, Starters, At
  <1>2. \A u \in Starters : ~(calls'[u].step = "start" /\ calls'[u].s = s)
    BY <1>1 DEF Starters, Threads
  <1> QED
    BY <1>2 DEF StartsUnderWay, Starters, At

\* The restorer alone moves: what it starts ran before.
LEMMA RestorerBegins ==
    ASSUME NEW s \in Strategies, \A u \in Threads \ {Restorer} : calls'[u] = calls[u],
           StartsUnderWay(s) = {}
    PROVE  StartsUnderWay(s)' = {}
  <1>1. \A u \in Starters : calls'[u] = calls[u]
    BY ThreadsAre DEF Starters, Threads
  <1> QED
    BY <1>1 DEF StartsUnderWay, Starters, At

LEMMA ContinueStarts ==
    ASSUME TypeOK, NEW t \in Threads, Continue(t), NEW s \in Strategies, StartsUnderWay(s) = {}
    PROVE  StartsUnderWay(s)' = {}
  <1>1. CASE StartFails(t) \/ StartRecords(t) \/ StopFails(t) \/ StopRecords(t)
    <2>1. PICK ok \in BOOLEAN : Result(t, ok)
      BY <1>1 DEF StartFails, StartRecords, StopFails, StopRecords
    <2>2. /\ calls'[t].step \in {"after", "restore", "pending", "idle"}
          /\ \A u \in Threads \ {t} : calls'[u] = calls[u]
      BY <2>1, ResultIs
    <2> QED
      BY <2>2, NoStartBegins
  <1>2. CASE StartSpawns(t) \/ StopKills(t)
    <2>1. PICK step \in {"record", "stopped"} : Goto(t, step)
      BY <1>2 DEF StartSpawns, StopKills
    <2>2. calls'[t].step = step /\ \A u \in Threads \ {t} : calls'[u] = calls[u]
      BY <2>1, GotoIs DEF Steps
    <2> QED
      BY <2>2, NoStartBegins
  <1> QED
    BY <1>1, <1>2 DEF Continue

LEMMA RequestStarts ==
    ASSUME TypeOK, NEW t \in Requests, NEW r \in Strategies,
           \/ StartRequest(t, r) \/ StopRequest(t, r)
           \/ ScheduledStart(t, r) \/ ScheduledStop(t, r) \/ DeleteRequest(t, r),
           NEW s \in Strategies, config[s].manual, StartsUnderWay(s) = {}
    PROVE  (StartsUnderWay(s) = {} \/ ~config[s].manual)'
  <1>1. t \in Threads
    BY ThreadsAre
  <1>2. CASE StartRequest(t, r)
    <2>1. CASE r = s
      <3>1. Set(s, [config[s] EXCEPT !.manual = FALSE])
        BY <1>2, <2>1 DEF StartRequest
      <3>2. [config[s] EXCEPT !.manual = FALSE].manual = FALSE
        BY DEF TypeOK, ConfigRow
      <3> QED
        BY <3>1, <3>2 DEF Set, TypeOK
    <2>2. CASE r # s
      <3>1. calls' = calls \/ Serve(t, "start", r, "return")
        BY <1>2 DEF StartRequest
      <3>2. CASE calls' = calls
        BY <1>1, <3>2, NoStartBegins
      <3>3. CASE Serve(t, "start", r, "return")
        <4>1. calls'[t].s = r /\ \A u \in Threads \ {t} : calls'[u] = calls[u]
          BY <1>1, <3>3, ServeIs DEF Steps, Purposes
        <4> QED
          BY <1>1, <2>2, <4>1 DEF StartsUnderWay, At, Threads
      <3> QED
        BY <3>1, <3>2, <3>3
    <2> QED
      BY <2>1, <2>2
  <1>3. CASE ScheduledStart(t, r)
    <2>1. r # s
      BY <1>3 DEF ScheduledStart
    <2>2. calls' = calls \/ Serve(t, "start", r, "return")
      BY <1>3 DEF ScheduledStart
    <2>3. CASE calls' = calls
      BY <1>1, <2>3, NoStartBegins
    <2>4. CASE Serve(t, "start", r, "return")
      <3>1. calls'[t].s = r /\ \A u \in Threads \ {t} : calls'[u] = calls[u]
        BY <1>1, <2>4, ServeIs DEF Steps, Purposes
      <3> QED
        BY <1>1, <2>1, <3>1 DEF StartsUnderWay, At, Threads
    <2> QED
      BY <2>2, <2>3, <2>4
  <1>4. CASE StopRequest(t, r) \/ ScheduledStop(t, r)
    <2>1. calls' = calls \/ \E purpose \in {"manual", "return"} : Serve(t, "stop", r, purpose)
      BY <1>4 DEF StopRequest, ScheduledStop
    <2>2. CASE calls' = calls
      BY <1>1, <2>2, NoStartBegins
    <2>3. ASSUME NEW purpose \in {"manual", "return"}, Serve(t, "stop", r, purpose)
          PROVE  StartsUnderWay(s)' = {}
      <3>1. calls'[t].step = "stop" /\ \A u \in Threads \ {t} : calls'[u] = calls[u]
        BY <1>1, <2>3, ServeIs DEF Steps, Purposes
      <3> QED
        BY <1>1, <3>1, NoStartBegins
    <2> QED
      BY <2>1, <2>2, <2>3
  <1>5. CASE DeleteRequest(t, r)
    <2>1. PICK step \in {"stop", "remove"} : Serve(t, step, r, "return")
      BY <1>5 DEF DeleteRequest
    <2>2. calls'[t].step = step /\ \A u \in Threads \ {t} : calls'[u] = calls[u]
      BY <1>1, <2>1, ServeIs DEF Steps, Purposes
    <2> QED
      BY <1>1, <2>2, NoStartBegins
  <1> QED
    BY <1>2, <1>3, <1>4, <1>5

LEMMA EnforcerStarts ==
    ASSUME TypeOK, ContinueEnforcer, NEW s \in Strategies, config[s].manual,
           StartsUnderWay(s) = {}
    PROVE  StartsUnderWay(s)' = {}
  <1>1. Enforcer \in Threads
    BY ThreadsAre
  <1>2. CASE Continue(Enforcer)
    BY <1>1, <1>2, ContinueStarts
  <1>3. CASE EnforcerRuns
    <2>1. PICK r : r = [Idle EXCEPT !.step = "enforce", !.todo = Listed]
      OBVIOUS
    <2>2. r \in CallRecord /\ r.step = "enforce"
      BY <2>1 DEF Idle, CallRecord, Steps, Purposes, Listed
    <2>3. calls' = [calls EXCEPT ![Enforcer] = r]
      BY <1>3, <2>1 DEF EnforcerRuns
    <2>4. calls'[Enforcer].step = "enforce" /\ \A u \in Threads \ {Enforcer} : calls'[u] = calls[u]
      BY <1>1, <2>2, <2>3, CallIs
    <2> QED
      BY <1>1, <2>4, NoStartBegins
  <1>4. CASE EnforcerGoesOn
    <2>1. calls'[Enforcer].step = "enforce" /\ \A u \in Threads \ {Enforcer} : calls'[u] = calls[u]
      BY <1>1, <1>4, LoopIs DEF EnforcerGoesOn, Steps
    <2> QED
      BY <1>1, <2>1, NoStartBegins
  <1>5. CASE EnforcerEnds
    <2>1. calls'[Enforcer].step = "idle" /\ \A u \in Threads \ {Enforcer} : calls'[u] = calls[u]
      BY <1>1, <1>5, ReturnIs DEF EnforcerEnds
    <2> QED
      BY <1>1, <2>1, NoStartBegins
  <1>6. ASSUME NEW r \in Strategies, EnforcerResumes(r)
        PROVE  StartsUnderWay(s)' = {}
    <2>1. r # s
      BY <1>6 DEF EnforcerResumes, Resumes
    <2>2. calls'[Enforcer].s = r /\ \A u \in Threads \ {Enforcer} : calls'[u] = calls[u]
      BY <1>1, <1>6, HandleIs DEF EnforcerResumes, Steps, Purposes
    <2> QED
      BY <2>1, <2>2 DEF StartsUnderWay, At, Threads
  <1>7. ASSUME NEW r \in Strategies, EnforcerClears(r) \/ EnforcerStops(r)
        PROVE  StartsUnderWay(s)' = {}
    <2>1. Skip(Enforcer, r) \/ Handle(Enforcer, r, "stop", "pause")
      BY <1>7 DEF EnforcerClears, EnforcerStops
    <2>2. CASE Skip(Enforcer, r)
      <3>1. /\ calls'[Enforcer].step = calls[Enforcer].step /\ calls'[Enforcer].s = calls[Enforcer].s
            /\ \A u \in Threads \ {Enforcer} : calls'[u] = calls[u]
        BY <1>1, <2>2, SkipIs
      <3> QED
        BY <1>1, <3>1, NoStartBegins
    <2>3. CASE Handle(Enforcer, r, "stop", "pause")
      <3>1. calls'[Enforcer].step = "stop" /\ \A u \in Threads \ {Enforcer} : calls'[u] = calls[u]
        BY <1>1, <2>3, HandleIs DEF Steps, Purposes
      <3> QED
        BY <1>1, <3>1, NoStartBegins
    <2> QED
      BY <2>1, <2>2, <2>3
  <1> QED
    BY <1>2, <1>3, <1>4, <1>5, <1>6, <1>7 DEF ContinueEnforcer

LEMMA RestorerMoves ==
    ASSUME TypeOK, ContinueRestorer \/ Login \/ CheckContracts,
           NEW s \in Strategies, StartsUnderWay(s) = {}
    PROVE  StartsUnderWay(s)' = {}
  <1>1. CASE Continue(Restorer)
    BY <1>1, ThreadsAre, ContinueStarts
  <1>2. CASE ~Continue(Restorer)
    <2>1. \A u \in Threads \ {Restorer} : calls'[u] = calls[u]
      BY <1>2 DEF ContinueRestorer, Login, CheckContracts, RestorePutsOff, RestoreWaits,
         RestoreGoesOn, RestoreEnds, PendingEnds, RestoreAdopts, RestoreRestarts,
         RestoreLeaves, PendingStarts, RestorationEnds, Return, Handle, Skip, Loop, TypeOK
    <2> QED
      BY <2>1, RestorerBegins
  <1> QED
    BY <1>1, <1>2

LEMMA RestLeavesStarts ==
    ASSUME NEW s \in Strategies, StartsUnderWay(s) = {}, calls' = calls \/ Restart
    PROVE  StartsUnderWay(s)' = {}
  <1>1. CASE calls' = calls
    BY <1>1 DEF StartsUnderWay, At
  <1>2. CASE Restart
    <2>1. \A u \in Starters : calls'[u].step = "idle"
      BY <1>2, IdleType, ThreadsAre DEF Restart, Starters, Threads
    <2> QED
      BY <2>1 DEF StartsUnderWay, Starters, At
  <1> QED
    BY <1>1, <1>2

\* After the user has stopped a strategy nothing begins to start it but his own
\* request and the restoration of what ran before: not its cron job, not the
\* enforcer, at whatever steps their threads are.
THEOREM StoppedStaysStopped == Circumstances = {} => (Spec => StoppedStays)
  <1> SUFFICES ASSUME Circumstances = {} PROVE Spec => StoppedStays
    OBVIOUS
  <1> DEFINE Stays == \A s \in Strategies :
                         config[s].manual /\ StartsUnderWay(s) = {}
                           => (StartsUnderWay(s) = {} \/ ~config[s].manual)'
  <1>1. Inv /\ [Next]_vars => [Stays]_vars
    <2> SUFFICES ASSUME Inv, Next, NEW s \in Strategies, config[s].manual,
                        StartsUnderWay(s) = {}
                 PROVE  (StartsUnderWay(s) = {} \/ ~config[s].manual)'
      OBVIOUS
    <2>1. TypeOK
      BY DEF Inv
    <2>2. ASSUME NEW t \in Requests, ContinueRequest(t)
          PROVE  StartsUnderWay(s)' = {}
      <3>1. t \in Threads
        BY ThreadsAre
      <3>2. CASE Continue(t)
        BY <2>1, <3>1, <3>2, ContinueStarts
      <3>3. CASE Deletes(t) \/ StopRequestEnds(t)
        <4>1. calls'[t].step = "idle" /\ \A u \in Threads \ {t} : calls'[u] = calls[u]
          BY <2>1, <3>1, <3>3, ReturnIs DEF Deletes, StopRequestEnds
        <4> QED
          BY <3>1, <4>1, NoStartBegins
      <3> QED
        BY <2>2, <3>2, <3>3 DEF ContinueRequest
    <2>3. ASSUME NEW t \in Requests, NEW r \in Strategies,
                 \/ StartRequest(t, r) \/ StopRequest(t, r)
                 \/ ScheduledStart(t, r) \/ ScheduledStop(t, r) \/ DeleteRequest(t, r)
          PROVE  (StartsUnderWay(s) = {} \/ ~config[s].manual)'
      BY <2>1, <2>3, RequestStarts
    <2>4. CASE ContinueEnforcer
      BY <2>1, <2>4, EnforcerStarts
    <2>5. CASE ContinueRestorer \/ Login \/ CheckContracts
      BY <2>1, <2>5, RestorerMoves
    <2>6. CASE \/ CleanupDeadProcesses \/ DayChanges \/ ContractsDownloaded \/ Restart
               \/ \E r \in Strategies : RefreshFlag(r)
               \/ \E p \in Pids : ProcessDies(p)
      <3>1. calls' = calls \/ Restart
        BY <2>6 DEF CleanupDeadProcesses, DayChanges, ContractsDownloaded, RefreshFlag, ProcessDies
      <3> QED
        BY <3>1, RestLeavesStarts
    <2> QED
      BY <2>2, <2>3, <2>4, <2>5, <2>6 DEF Next
  <1> QED
    BY <1>1, HostInvariant, PTL DEF Spec, StoppedStays

=============================================================================
