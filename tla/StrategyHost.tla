------------------------------ MODULE StrategyHost ------------------------------
(***************************************************************************)
(* The host of user strategies: blueprints/python_strategy.py.  A strategy *)
(* runs as a process of the operating system.  RUNNING_STRATEGIES says     *)
(* which processes the server tracks, STRATEGY_CONFIGS what it knows of    *)
(* each strategy, and the configuration file what it will know after a     *)
(* restart.  Requests, scheduler jobs and the restoration of strategies    *)
(* run as threads; PROCESS_LOCK covers the start and the stop of a process *)
(* but none of the decisions that lead to them.  Processes die on their    *)
(* own, and survive the server when it is killed.                          *)
(***************************************************************************)
EXTENDS Naturals, FiniteSets

CONSTANTS
    Strategies,
    Requests,           \* threads of requests and of the cron jobs of a strategy
    Enforcer,           \* the job thread of market_hours_enforcer
    Restorer,           \* the thread that restores strategies
    Pids,               \* process identifiers
    None,               \* Python's None, and an unlocked lock
    Circumstances       \* which of AllCircumstances may occur

AllCircumstances ==
    {"deletesRunning",      \* users delete strategies that run
     "lateContracts",       \* the server alone starts again before the contracts are ready
     "earlyCalls",          \* requests and jobs run before the restoration has ended
     "restartOvertaken",    \* a strategy is started while its restoration restarts it
     "killedMidway"}        \* the server is killed inside a start or a stop

Threads == Requests \cup {Enforcer, Restorer}

ASSUME HostAssumption ==
    /\ None \notin Threads \cup Pids \cup Strategies
    /\ Enforcer # Restorer /\ {Enforcer, Restorer} \cap Requests = {}
    /\ Circumstances \subseteq AllCircumstances

VARIABLES
    calls,          \* what each thread is doing
    lock,           \* holder of PROCESS_LOCK
    running,        \* RUNNING_STRATEGIES
    config,         \* STRATEGY_CONFIGS
    saved,          \* strategy_configs.json
    proc,           \* the processes: state, strategy, and whose child they are
    booted,         \* the restoration at the start of the server has ended
    dropped,        \* Popen objects nobody holds, kept by the subprocess module
    market,         \* closed today, off the strategies' hours, or open
    contracts       \* the master contracts are ready

environment == <<market, contracts>>
vars == <<calls, lock, running, config, saved, proc, dropped, booted, environment>>

Steps == {"idle",
          "start", "record",    \* start_strategy_process: before, after the spawn
          "stop", "stopped",    \* stop_strategy_process: before, after the kill
          "after",              \* the caller has a result to act on
          "remove",             \* delete_strategy holds the lock
          "enforce", "restore", "pending"}    \* the loops over all strategies
Purposes == {"return", "manual", "resume", "pause", "restore", "pending"}

\* `for' says what the thread does with the result of a start or stop.
CallRecord == [step : Steps, s : Strategies \cup {None}, for : Purposes,
               todo : SUBSET Strategies]
Tracked == [pid : Pids \cup {None}, adopted : BOOLEAN]
ConfigRow == [exists : BOOLEAN, running : BOOLEAN, pid : Pids \cup {None},
              waiting : BOOLEAN,    \* in an error state for want of the contracts
              manual : BOOLEAN, paused : BOOLEAN]
ProcessRow == [state : {"gone", "alive", "zombie"}, s : Strategies \cup {None},
               child : BOOLEAN]

Idle == [step |-> "idle", s |-> None, for |-> "return", todo |-> {}]
Untracked == [pid |-> None, adopted |-> FALSE]
NewConfig == [exists |-> TRUE, running |-> FALSE, pid |-> None, waiting |-> FALSE,
              manual |-> FALSE, paused |-> FALSE]
NoProcess == [state |-> "gone", s |-> None, child |-> FALSE]

TypeOK ==
    /\ calls \in [Threads -> CallRecord]
    /\ lock \in Threads \cup {None}
    /\ running \in [Strategies -> Tracked]
    /\ config \in [Strategies -> ConfigRow]
    /\ saved \in [Strategies -> ConfigRow]
    /\ proc \in [Pids -> ProcessRow]
    /\ dropped \subseteq Pids /\ booted \in BOOLEAN
    /\ market \in {"closed", "offHours", "open"} /\ contracts \in BOOLEAN

Init ==
    /\ calls = [t \in Threads |-> Idle]
    /\ lock = None
    /\ running = [s \in Strategies |-> Untracked]
    /\ config = [s \in Strategies |-> NewConfig]
    /\ saved = config
    /\ proc = [p \in Pids |-> NoProcess]
    /\ dropped = {} /\ booted = TRUE
    /\ market = "closed" /\ contracts = TRUE

-----------------------------------------------------------------------------
Trading == market # "closed"
Open == market = "open"

Alive(p) == p # None /\ proc[p].state = "alive"             \* check_process_status
PidExists(p) == p # None /\ proc[p].state # "gone"          \* psutil.pid_exists
IsTracked(s) == running[s].pid # None
IsRunning(s) == IsTracked(s) \/ Alive(config[s].pid)        \* _is_strategy_running

At(t, step) == calls[t].step = step
Goto(t, step) == calls' = [calls EXCEPT ![t].step = step]
Serve(t, step, s, purpose) ==
    calls' = [calls EXCEPT ![t] = [Idle EXCEPT !.step = step, !.s = s, !.for = purpose]]
Return(t) == calls' = [calls EXCEPT ![t] = Idle]
\* In a loop: turn to strategy s for a purpose, or go on without it.
Handle(t, s, step, purpose) ==
    calls' = [calls EXCEPT ![t].step = step, ![t].s = s, ![t].for = purpose,
                           ![t].todo = @ \ {s}]
Loop(t, step) ==
    calls' = [calls EXCEPT ![t] = [Idle EXCEPT !.step = step, !.todo = calls[t].todo]]
Skip(t, s) == calls' = [calls EXCEPT ![t].todo = @ \ {s}]
\* The caller acts on the result of a start or stop ("after"), or goes on without
\* a look at it: it returns, or turns to the next strategy of its loop.
ActsOn(purpose, ok) ==
    \/ purpose \in {"resume", "pause"}
    \/ purpose = "manual" /\ ok
    \/ purpose = "restore" /\ ~ok
Result(t, ok) ==
    LET purpose == calls[t].for
        next == IF purpose \in {"restore", "pending"} THEN purpose ELSE "idle"
    IN calls' = [calls EXCEPT ![t] =
                   IF ActsOn(purpose, ok) THEN [@ EXCEPT !.step = "after"]
                   ELSE [Idle EXCEPT !.step = next, !.todo = calls[t].todo]]

Set(s, row) == config' = [config EXCEPT ![s] = row]
Save == saved' = config'
Stopped(s) == [config[s] EXCEPT !.running = FALSE, !.pid = None]
Started(s, p) == [config[s] EXCEPT !.running = TRUE, !.pid = p, !.waiting = FALSE]

\* A process ends: its parent, the server, has to reap it.
Ended(p) == [proc EXCEPT ![p] = IF @.child THEN [@ EXCEPT !.state = "zombie"] ELSE NoProcess]
Reaped(P) == [p \in Pids |-> IF p \in P THEN NoProcess ELSE proc[p]]

Zombies == {p \in Pids : proc[p].state = "zombie"}
References == {config[s].pid : s \in Strategies} \cup {saved[s].pid : s \in Strategies}
              \cup {running[s].pid : s \in Strategies}
\* Bound: an identifier is used again once nothing refers to it.
FreePids == {p \in Pids : proc[p].state = "gone"} \ References

-----------------------------------------------------------------------------
(* start_strategy_process.  A refusal comes before the process is spawned; *)
(* Popen first reaps the children whose Popen objects were dropped.        *)

\* Variant: the test for a running strategy is made before the lock is taken only.
StartRefusedUntracked(s) ==
    ~config[s].exists \/ ~contracts

StartRefused(s) ==
    \/ IsTracked(s)
    \/ ~config[s].exists
    \/ ~contracts

Overtakes(t, s) ==
    /\ t # Restorer
    /\ calls[Restorer].s = s /\ calls[Restorer].for = "restore"
    /\ calls[Restorer].step \in {"start", "after"}

StartFails(t) ==
    LET s == calls[t].s IN
    /\ At(t, "start") /\ lock = None
    /\ StartRefused(s) \/ FreePids = {}
    /\ Result(t, FALSE)
    /\ UNCHANGED <<lock, running, config, saved, proc, dropped, booted, environment>>

StartSpawns(t) ==
    LET s == calls[t].s IN
    /\ At(t, "start") /\ lock = None
    /\ ~StartRefused(s) /\ FreePids # {}
    /\ Overtakes(t, s) => "restartOvertaken" \in Circumstances
    /\ LET p == CHOOSE q \in FreePids : TRUE IN
         /\ proc' = [Reaped(dropped \cap Zombies) EXCEPT
                       ![p] = [state |-> "alive", s |-> s, child |-> TRUE]]
         /\ running' = [running EXCEPT ![s] = [pid |-> p, adopted |-> FALSE]]
    /\ dropped' = dropped \ Zombies
    /\ lock' = t
    /\ Goto(t, "record")
    /\ UNCHANGED <<config, saved, booted, environment>>

\* Variant: the record of the process is stored in the place of its identifier.
StartRecordsRecord(t) ==
    LET s == calls[t].s IN
    /\ At(t, "record")
    /\ Set(s, Started(s, running[s])) /\ Save
    /\ lock' = None
    /\ Result(t, TRUE)
    /\ UNCHANGED <<running, proc, dropped, booted, environment>>

\* Variant: the process is not written to the configuration file.
StartRecordsUnsaved(t) ==
    LET s == calls[t].s IN
    /\ At(t, "record")
    /\ Set(s, Started(s, running[s].pid))
    /\ lock' = None
    /\ Result(t, TRUE)
    /\ UNCHANGED <<running, saved, proc, dropped, booted, environment>>

StartRecords(t) ==
    LET s == calls[t].s IN
    /\ At(t, "record")
    /\ Set(s, Started(s, running[s].pid)) /\ Save
    /\ lock' = None
    /\ Result(t, TRUE)
    /\ UNCHANGED <<running, proc, dropped, booted, environment>>

-----------------------------------------------------------------------------
(* stop_strategy_process.  The process is killed and waited for; one that  *)
(* is not tracked is looked up by the identifier in the configuration.     *)

StopTarget(s) == IF IsTracked(s) THEN running[s].pid ELSE config[s].pid

StopFails(t) ==
    LET s == calls[t].s IN
    /\ At(t, "stop") /\ lock = None
    /\ ~IsTracked(s) /\ ~(config[s].exists /\ Alive(config[s].pid))
    /\ Result(t, FALSE)
    /\ UNCHANGED <<lock, running, config, saved, proc, dropped, booted, environment>>

StopKills(t) ==
    LET s == calls[t].s IN
    /\ At(t, "stop") /\ lock = None
    /\ IsTracked(s) \/ (config[s].exists /\ Alive(config[s].pid))
    /\ proc' = IF IsTracked(s) THEN Reaped({StopTarget(s)}) ELSE Ended(StopTarget(s))
    /\ lock' = t
    /\ Goto(t, "stopped")
    /\ UNCHANGED <<running, config, saved, dropped, booted, environment>>

StopRecords(t) ==
    LET s == calls[t].s IN
    /\ At(t, "stopped")
    /\ running' = [running EXCEPT ![s] = Untracked]
    /\ Set(s, Stopped(s)) /\ Save
    /\ lock' = None
    /\ Result(t, TRUE)
    /\ UNCHANGED <<proc, dropped, booted, environment>>

-----------------------------------------------------------------------------
(* Requests and the cron jobs of a strategy.                               *)

\* Jobs run at the earliest a minute after the server was started.
Arrives(t) ==
    /\ At(t, "idle")
    /\ booted \/ "earlyCalls" \in Circumstances

\* The start route: the flag of a manual stop is cleared in any case; outside
\* the schedule the strategy is only armed.
StartRequest(t, s) ==
    /\ Arrives(t) /\ config[s].exists
    /\ Set(s, [config[s] EXCEPT !.manual = FALSE])
    /\ IF config[s].manual THEN Save ELSE UNCHANGED saved
    /\ IF Open THEN Serve(t, "start", s, "return") ELSE UNCHANGED calls
    /\ UNCHANGED <<lock, running, proc, dropped, booted, environment>>

StopRequest(t, s) ==
    /\ Arrives(t) /\ config[s].exists
    /\ IF config[s].running
       THEN Serve(t, "stop", s, "manual") /\ UNCHANGED <<config, saved>>
       ELSE Set(s, [config[s] EXCEPT !.manual = TRUE]) /\ Save /\ UNCHANGED calls
    /\ UNCHANGED <<lock, running, proc, dropped, booted, environment>>

\* Variant: a strategy the user has stopped is started on schedule all the same.
ScheduledStartAlways(t, s) ==
    /\ Arrives(t) /\ config[s].exists
    /\ Set(s, [config[s] EXCEPT !.paused = ~Trading])
    /\ IF Trading
       THEN Serve(t, "start", s, "return") /\ UNCHANGED saved
       ELSE Save /\ UNCHANGED calls
    /\ UNCHANGED <<lock, running, proc, dropped, booted, environment>>

\* scheduled_start_strategy
ScheduledStart(t, s) ==
    /\ Arrives(t) /\ config[s].exists
    /\ ~config[s].manual
    /\ Set(s, [config[s] EXCEPT !.paused = ~Trading])
    /\ IF Trading
       THEN Serve(t, "start", s, "return") /\ UNCHANGED saved
       ELSE Save /\ UNCHANGED calls
    /\ UNCHANGED <<lock, running, proc, dropped, booted, environment>>

\* scheduled_stop_strategy
ScheduledStop(t, s) ==
    /\ Arrives(t)
    /\ Serve(t, "stop", s, "return")
    /\ UNCHANGED <<lock, running, config, saved, proc, dropped, booted, environment>>

\* A strategy that runs is stopped first, by a call that takes the lock again.
DeleteRequest(t, s) ==
    LET runs == IsTracked(s) \/ config[s].running IN
    /\ Arrives(t) /\ config[s].exists /\ lock = None
    /\ runs => "deletesRunning" \in Circumstances
    /\ lock' = t
    /\ Serve(t, IF runs THEN "stop" ELSE "remove", s, "return")
    /\ UNCHANGED <<running, config, saved, proc, dropped, booted, environment>>

Deletes(t) ==
    LET s == calls[t].s IN
    /\ At(t, "remove")
    /\ Set(s, [NewConfig EXCEPT !.exists = FALSE]) /\ Save
    /\ lock' = None
    /\ Return(t)
    /\ UNCHANGED <<running, proc, dropped, booted, environment>>

\* The stop route, after the process was stopped.
StopRequestEnds(t) ==
    LET s == calls[t].s IN
    /\ At(t, "after")
    /\ IF config[s].exists
       THEN Set(s, [config[s] EXCEPT !.manual = TRUE]) /\ Save
       ELSE UNCHANGED <<config, saved>>
    /\ Return(t)
    /\ UNCHANGED <<lock, running, proc, dropped, booted, environment>>

-----------------------------------------------------------------------------
(* market_hours_enforcer; daily_trading_day_check stops in the same way.   *)

Listed == {s \in Strategies : config[s].exists}

EnforcerRuns ==
    /\ Arrives(Enforcer)
    /\ calls' = [calls EXCEPT ![Enforcer] = [Idle EXCEPT !.step = "enforce", !.todo = Listed]]
    /\ UNCHANGED <<lock, running, config, saved, proc, dropped, booted, environment>>

Resumes(s) ==
    /\ Open
    /\ config[s].paused /\ ~config[s].manual /\ ~IsRunning(s)

EnforcerResumes(s) ==
    /\ At(Enforcer, "enforce") /\ s \in calls[Enforcer].todo
    /\ Resumes(s)
    /\ Handle(Enforcer, s, "start", "resume")
    /\ UNCHANGED <<lock, running, config, saved, proc, dropped, booted, environment>>

\* Variant: pauses end without a look at whether the strategy resumes.
EnforcerClearsAll(s) ==
    /\ At(Enforcer, "enforce") /\ s \in calls[Enforcer].todo
    /\ Trading /\ (config[s].paused \/ ~Resumes(s))
    /\ Set(s, [config[s] EXCEPT !.paused = FALSE])
    /\ Skip(Enforcer, s)
    /\ UNCHANGED <<lock, running, saved, proc, dropped, booted, environment>>

EnforcerClears(s) ==
    /\ At(Enforcer, "enforce") /\ s \in calls[Enforcer].todo
    /\ Trading /\ ~Resumes(s)
    /\ Set(s, [config[s] EXCEPT !.paused = FALSE])
    /\ Skip(Enforcer, s)
    /\ UNCHANGED <<lock, running, saved, proc, dropped, booted, environment>>

EnforcerStops(s) ==
    /\ At(Enforcer, "enforce") /\ s \in calls[Enforcer].todo
    /\ ~Trading
    /\ IF IsRunning(s) THEN Handle(Enforcer, s, "stop", "pause") ELSE Skip(Enforcer, s)
    /\ UNCHANGED <<lock, running, config, saved, proc, dropped, booted, environment>>

\* The pause is cleared or set whatever came of the start or stop.
EnforcerGoesOn ==
    LET s == calls[Enforcer].s IN
    /\ At(Enforcer, "after")
    /\ IF config[s].exists
       THEN Set(s, [config[s] EXCEPT !.paused = calls[Enforcer].for = "pause"])
       ELSE UNCHANGED config
    /\ Loop(Enforcer, "enforce")
    /\ UNCHANGED <<lock, running, saved, proc, dropped, booted, environment>>

EnforcerEnds ==
    /\ At(Enforcer, "enforce") /\ calls[Enforcer].todo = {}
    /\ UNCHANGED config /\ Save
    /\ Return(Enforcer)
    /\ UNCHANGED <<lock, running, proc, dropped, booted, environment>>

-----------------------------------------------------------------------------
(* restore_strategy_states and check_and_start_pending_strategies.         *)

\* restore_strategies_after_login, once the contracts are downloaded
Login ==
    /\ At(Restorer, "idle") /\ contracts
    /\ calls' = [calls EXCEPT ![Restorer] = [Idle EXCEPT !.step = "restore", !.todo = Listed]]
    /\ UNCHANGED <<lock, running, config, saved, proc, dropped, booted, environment>>

\* The /check-contracts route
CheckContracts ==
    /\ Arrives(Restorer)
    /\ calls' = [calls EXCEPT ![Restorer] = [Idle EXCEPT !.step = "pending", !.todo = Listed]]
    /\ UNCHANGED <<lock, running, config, saved, proc, dropped, booted, environment>>

Restorable == contracts

\* After a login, strategies that waited for the contracts come next.
RestorationEnds ==
    /\ booted' = TRUE
    /\ calls' = [calls EXCEPT ![Restorer] =
                   IF booted THEN [Idle EXCEPT !.step = "pending", !.todo = Listed] ELSE Idle]

\* Without contracts every running strategy is put off, its process forgotten.
RestorePutsOff ==
    /\ At(Restorer, "restore")
    /\ ~Restorable
    /\ config' = [s \in Strategies |->
                    IF config[s].running THEN [Stopped(s) EXCEPT !.waiting = TRUE]
                                         ELSE config[s]]
    /\ Save
    /\ RestorationEnds
    /\ UNCHANGED <<lock, running, proc, dropped, environment>>

\* No broker is known before the first login: everything is left as it was.
RestoreWaits ==
    /\ At(Restorer, "restore")
    /\ ~Restorable /\ ~booted
    /\ booted' = TRUE
    /\ Return(Restorer)
    /\ UNCHANGED <<lock, running, config, saved, proc, dropped, environment>>

\* The process is alive: it is tracked again, by a psutil object.
RestoreAdopts(s) ==
    /\ At(Restorer, "restore") /\ s \in calls[Restorer].todo
    /\ Restorable
    /\ config[s].running /\ Alive(config[s].pid)
    /\ running' = [running EXCEPT ![s] = [pid |-> config[s].pid, adopted |-> TRUE]]
    /\ dropped' = IF IsTracked(s) /\ ~running[s].adopted
                  THEN dropped \cup {running[s].pid} ELSE dropped
    /\ Skip(Restorer, s)
    /\ UNCHANGED <<lock, config, saved, proc, booted, environment>>

RestoreRestarts(s) ==
    /\ At(Restorer, "restore") /\ s \in calls[Restorer].todo
    /\ Restorable
    /\ config[s].running /\ config[s].pid # None /\ ~Alive(config[s].pid)
    /\ (\E t \in Threads : At(t, "record") /\ calls[t].s = s) => "restartOvertaken" \in Circumstances
    /\ Handle(Restorer, s, "start", "restore")
    /\ UNCHANGED <<lock, running, config, saved, proc, dropped, booted, environment>>

RestoreLeaves(s) ==
    /\ At(Restorer, "restore") /\ s \in calls[Restorer].todo
    /\ Restorable
    /\ ~(config[s].running /\ config[s].pid # None)
    /\ Skip(Restorer, s)
    /\ UNCHANGED <<lock, running, config, saved, proc, dropped, booted, environment>>

\* A failed restart marks the strategy; what it says tells whether it waits for
\* the contracts.
RestoreGoesOn ==
    LET s == calls[Restorer].s IN
    /\ At(Restorer, "after")
    /\ IF config[s].exists
       THEN Set(s, [Stopped(s) EXCEPT !.waiting = ~contracts])
       ELSE UNCHANGED config
    /\ Loop(Restorer, "restore")
    /\ UNCHANGED <<lock, running, saved, proc, dropped, booted, environment>>

RestoreEnds ==
    /\ At(Restorer, "restore") /\ calls[Restorer].todo = {}
    /\ UNCHANGED config /\ Save
    /\ RestorationEnds
    /\ UNCHANGED <<lock, running, proc, dropped, environment>>

PendingStarts(s) ==
    /\ At(Restorer, "pending") /\ s \in calls[Restorer].todo
    /\ contracts
    /\ IF config[s].exists /\ config[s].waiting
       THEN /\ Set(s, [config[s] EXCEPT !.waiting = FALSE])
            /\ Handle(Restorer, s, "start", "pending")
       ELSE Skip(Restorer, s) /\ UNCHANGED config
    /\ UNCHANGED <<lock, running, saved, proc, dropped, booted, environment>>

PendingEnds ==
    /\ At(Restorer, "pending")
    /\ calls[Restorer].todo = {} \/ ~contracts
    /\ UNCHANGED config /\ Save
    /\ Return(Restorer)
    /\ UNCHANGED <<lock, running, proc, dropped, booted, environment>>

-----------------------------------------------------------------------------
(* cleanup_dead_processes and the refresh of the dashboard.                *)

\* Popen.poll sees a zombie as ended and reaps it; psutil's is_running does not.
TrackedDead(s) ==
    /\ IsTracked(s)
    /\ IF running[s].adopted THEN ~PidExists(running[s].pid) ELSE ~Alive(running[s].pid)

StaleFlag(s) ==
    config[s].running /\ ~IsTracked(s) /\ ~PidExists(config[s].pid)

CleanupDeadProcesses ==
    LET dead == {s \in Strategies : TrackedDead(s)} IN
    /\ lock = None
    /\ booted \/ "earlyCalls" \in Circumstances
    /\ running' = [s \in Strategies |-> IF s \in dead THEN Untracked ELSE running[s]]
    /\ proc' = Reaped({running[s].pid : s \in dead})
    /\ config' = [s \in Strategies |->
                    IF s \in dead \/ StaleFlag(s) THEN Stopped(s) ELSE config[s]]
    /\ IF config' # config THEN Save ELSE UNCHANGED saved
    /\ UNCHANGED <<calls, lock, dropped, booted, environment>>

\* index: the flag of a strategy follows the status of its process.
RefreshFlag(s) ==
    /\ config[s].pid # None /\ ~Alive(config[s].pid)
    /\ Set(s, Stopped(s)) /\ Save
    /\ UNCHANGED <<calls, lock, running, proc, dropped, booted, environment>>

-----------------------------------------------------------------------------
(* The environment.                                                        *)

ProcessDies(p) ==
    /\ Alive(p)
    /\ proc' = Ended(p)
    /\ UNCHANGED <<calls, lock, running, config, saved, dropped, booted, environment>>

DayChanges ==
    /\ market' \in {"closed", "offHours", "open"}
    /\ UNCHANGED <<calls, lock, running, config, saved, proc, dropped, booted, contracts>>

ContractsDownloaded ==
    /\ ~contracts
    /\ contracts' = TRUE
    /\ UNCHANGED <<calls, lock, running, config, saved, proc, dropped, booted, market>>

\* The server is killed and starts again: processes go on and zombies vanish,
\* or the whole machine starts again.  The restoration comes first.
Restart ==
    \E survivors \in {{p \in Pids : Alive(p)}, {}} :
        /\ "killedMidway" \in Circumstances \/ lock = None
        /\ contracts' \in BOOLEAN
        /\ contracts' \/ survivors = {} \/ "lateContracts" \in Circumstances
        /\ lock' = None
        /\ calls' = [t \in Threads |->
                       IF t = Restorer
                       THEN [Idle EXCEPT !.step = "restore", !.todo = {s \in Strategies : saved[s].exists}]
                       ELSE Idle]
        /\ running' = [s \in Strategies |-> Untracked]
        /\ config' = saved
        /\ proc' = [p \in Pids |-> IF p \in survivors THEN [proc[p] EXCEPT !.child = FALSE] ELSE NoProcess]
        /\ dropped' = {} /\ booted' = FALSE
        /\ UNCHANGED <<saved, market>>

-----------------------------------------------------------------------------
\* What threads do on their own once they have begun.
Continue(t) ==
    \/ StartFails(t) \/ StartSpawns(t) \/ StartRecords(t)
    \/ StopFails(t) \/ StopKills(t) \/ StopRecords(t)

ContinueRequest(t) ==
    \/ Continue(t)
    \/ Deletes(t) \/ StopRequestEnds(t)

ContinueEnforcer ==
    \/ Continue(Enforcer)
    \/ EnforcerRuns \/ EnforcerGoesOn \/ EnforcerEnds
    \/ \E s \in Strategies : EnforcerResumes(s) \/ EnforcerClears(s) \/ EnforcerStops(s)

ContinueRestorer ==
    \/ Continue(Restorer)
    \/ RestorePutsOff \/ RestoreWaits \/ RestoreGoesOn \/ RestoreEnds \/ PendingEnds
    \/ \E s \in Strategies :
         RestoreAdopts(s) \/ RestoreRestarts(s) \/ RestoreLeaves(s) \/ PendingStarts(s)

Next ==
    \/ \E t \in Requests :
         \/ ContinueRequest(t)
         \/ \E s \in Strategies :
              \/ StartRequest(t, s) \/ StopRequest(t, s)
              \/ ScheduledStart(t, s) \/ ScheduledStop(t, s) \/ DeleteRequest(t, s)
    \/ ContinueEnforcer \/ ContinueRestorer
    \/ Login \/ CheckContracts
    \/ CleanupDeadProcesses
    \/ \E s \in Strategies : RefreshFlag(s)
    \/ \E p \in Pids : ProcessDies(p)
    \/ DayChanges \/ ContractsDownloaded \/ Restart

Spec == Init /\ [][Next]_vars

\* Threads go on, and a lock that is free again and again is taken in the end.
\* The enforcer and the cleanup are interval jobs.  Nothing is assumed of users,
\* processes, the market and the server's restarts.
FairSpec ==
    /\ Spec
    /\ \A t \in Requests : SF_vars(ContinueRequest(t))
    /\ SF_vars(ContinueEnforcer) /\ SF_vars(ContinueRestorer)
    /\ SF_vars(CleanupDeadProcesses)

-----------------------------------------------------------------------------
(* Properties *)

\* A strategy never runs twice, whatever starts it: a request, its cron job,
\* the enforcer, or the restoration after the server was killed under it
\* (start_strategy_process refuses a strategy that is "already running").
OneProcess ==
    \A p, q \in Pids : Alive(p) /\ Alive(q) /\ proc[p].s = proc[q].s => p = q

\* A live process can be found again: between starts and stops it is the one in
\* the configuration file of its strategy, where a restart looks for it.
LiveIsSaved ==
    lock = None =>
        \A p \in Pids : Alive(p) =>
            LET s == proc[p].s IN
            saved[s].exists /\ saved[s].running /\ saved[s].pid = p

\* Nobody starts a strategy on his own after the user has stopped it: unless a
\* start was under way already, only the user's own start request, which takes
\* back the flag, or the restoration of what ran before may begin one.
StartsUnderWay(s) ==
    {t \in Requests \cup {Enforcer} : At(t, "start") /\ calls[t].s = s}
StoppedStays ==
    [][\A s \in Strategies :
         config[s].manual /\ StartsUnderWay(s) = {}
            => (StartsUnderWay(s) = {} \/ ~config[s].manual)']_vars

\* A thread that has taken PROCESS_LOCK gives it back: the call that took it
\* returns, and no other start, stop or cleanup waits for ever.
LockGivenBack == lock # None ~> lock = None

\* A strategy that was stopped for a holiday runs again when its exchange trades
\* within its schedule, unless that changes or the user stops it.  (A start that
\* fails ends the pause too, so a pass under way may have spoiled the chance.)
PausedResumes ==
    \A s \in Strategies :
        LET mayRun == Open /\ contracts /\ booted
                      /\ config[s].exists /\ ~config[s].manual
        IN (mayRun /\ config[s].paused /\ At(Enforcer, "idle")) ~> (~mayRun \/ IsRunning(s))
=============================================================================
