---------------------------- MODULE HistorifyJobs ----------------------------
(***************************************************************************)
(* Download jobs of Historify (services/historify_service.py): requests    *)
(* create, pause, resume, cancel, retry and delete jobs whose rows are in  *)
(* DuckDB (database/historify_db.py), and the threads of one executor work *)
(* through their items.  What a request and a worker tell each other goes  *)
(* through two dictionaries under _job_state_lock: whether the job is      *)
(* wanted, and an event that is clear while it is paused.                  *)
(*                                                                         *)
(* A request checks the job, then writes its row, then takes the lock, in  *)
(* steps of their own; so does a worker for each item.  A retry resets its *)
(* items and the status of the job in one step.  cancel_job calls          *)
(* _cleanup_job with the lock held, which takes it again: the request then *)
(* holds the lock for good.                                                *)
(***************************************************************************)
EXTENDS Integers, Sequences, FiniteSets, TLC

CONSTANTS
    Jobs,
    Items,              \* the items of each job, 1..n in the order of their ids
    Workers,            \* threads of _job_executor
    Callers,            \* request threads
    None,
    MaxQueue,           \* bound: jobs submitted and not yet taken
    MaxFaults           \* bound: restarts of the server and failed loads

ASSUME JobsAssumption ==
    Items \subseteq Nat /\ None \notin Jobs /\ MaxQueue \in Nat /\ MaxFaults \in Nat

VARIABLES
    status,             \* download_jobs.status
    items,              \* job_items.status
    running,            \* the jobs that _running_jobs says are wanted
    event,              \* _paused_jobs: "clear" while paused, "none" without an entry
    stuck,              \* _job_state_lock is held by a cancel_job that waits for it
    queue,              \* the executor's queue
    workers,
    callers,
    faults,
    since,              \* history: items begun since the job was paused
    doubled             \* history: jobs retried while they had a worker or another retry

vars == <<status, items, running, event, stuck, queue, workers, callers, faults,
          since, doubled>>

memory == <<running, event, stuck>>
history == <<since, doubled>>

ItemStatus == {"pending", "downloading", "success", "error"}
Gone == {"none", "deleted"}
JobStatus == Gone \cup {"pending", "running", "paused", "cancelled", "failed", "completed",
                       "completed_with_errors"}

\* event: "held" for the event in _paused_jobs, otherwise the state of one that is
\* no longer there.
WorkerSteps == {"idle", "load", "check", "wait", "begin", "item", "finish", "clean"}
Worker == [step : WorkerSteps, job : Jobs \cup {None}, todo : SUBSET Items, failed : BOOLEAN,
           event : {"held", "set", "clear"}]
Resting == [step |-> "idle", job |-> None, todo |-> {}, failed |-> FALSE, event |-> "held"]
Assigned(j) == [Resting EXCEPT !.step = "load", !.job = j]

CallerSteps == {"idle", "start", "pause", "resume", "cancel", "hang", "delete", "reset"}
Caller == [step : CallerSteps, job : Jobs \cup {None}, failed : SUBSET Items]
Ready == [step |-> "idle", job |-> None, failed |-> {}]
Asks(step, j, failed) == [step |-> step, job |-> j, failed |-> failed]

Init ==
    /\ status = [j \in Jobs |-> "none"]
    /\ items = [j \in Jobs |-> [i \in Items |-> "pending"]]
    /\ running = {} /\ event = [j \in Jobs |-> "none"] /\ stuck = FALSE
    /\ queue = <<>>
    /\ workers = [w \in Workers |-> Resting]
    /\ callers = [c \in Callers |-> Ready]
    /\ faults = 0
    /\ since = [j \in Jobs |-> 0] /\ doubled = {}

\* update_job_status: a row that is gone stays so.
Marked(j, s) == IF status[j] \in Gone THEN status ELSE [status EXCEPT ![j] = s]

\* The event of job j leaves _paused_jobs: who waits on it keeps it as it is.
Forsaken(ws, j) ==
    [w \in Workers |->
        IF ws[w].job = j /\ ws[w].step = "wait" /\ ws[w].event = "held"
        THEN [ws[w] EXCEPT !.event = event[j]] ELSE ws[w]]

WorkedOn(j) ==
    (\E n \in 1..Len(queue) : queue[n] = j) \/ \E w \in Workers : workers[w].job = j

\* A retry by caller c is not alone with the job.
Doubles(c, j) ==
    doubled' = IF \/ WorkedOn(j)
                  \/ \E d \in Callers \ {c} :
                        callers[d].job = j /\ callers[d].step \in {"reset", "start"}
               THEN doubled \cup {j} ELSE doubled

-----------------------------------------------------------------------------
(* Requests *)

Ask(c, j, step, failed) ==
    /\ callers[c].step = "idle"
    /\ callers' = [callers EXCEPT ![c] = Asks(step, j, failed)]

At(c, j, step) == callers[c].step = step /\ callers[c].job = j
Answered(c) == callers' = [callers EXCEPT ![c] = Ready]

\* create_and_start_job, up to the rows.
Create(c, j) ==
    /\ status[j] = "none"
    /\ Ask(c, j, "start", {})
    /\ status' = [status EXCEPT ![j] = "pending"]
    /\ UNCHANGED <<items, memory, queue, workers, faults, history>>

\* The job is entered as wanted and not paused, and submitted.
Start(c, j) ==
    /\ At(c, j, "start") /\ ~stuck /\ Len(queue) < MaxQueue
    /\ running' = running \cup {j}
    /\ event' = [event EXCEPT ![j] = "set"]
    /\ workers' = Forsaken(workers, j)
    /\ queue' = Append(queue, j)
    /\ Doubles(c, j)
    /\ since' = [since EXCEPT ![j] = 0]
    /\ Answered(c)
    /\ UNCHANGED <<status, items, stuck, faults>>

\* pause_job, resume_job, cancel_job and delete_job read the status first.
Request(c, j) ==
    /\ \/ status[j] = "running" /\ Ask(c, j, "pause", {})
       \/ status[j] = "paused" /\ Ask(c, j, "resume", {})
       \/ status[j] \in {"running", "paused"} /\ Ask(c, j, "cancel", {})
       \/ status[j] \notin Gone \cup {"running"} /\ Ask(c, j, "delete", {})
    /\ UNCHANGED <<status, items, memory, queue, workers, faults, history>>

Pause(c, j) ==
    /\ At(c, j, "pause") /\ ~stuck
    /\ IF event[j] = "set"
       THEN /\ event' = [event EXCEPT ![j] = "clear"]
            /\ status' = Marked(j, "paused")
            /\ since' = [since EXCEPT ![j] = 0]
       ELSE UNCHANGED <<event, status, since>>
    /\ Answered(c)
    /\ UNCHANGED <<items, running, stuck, queue, workers, faults, doubled>>

Resume(c, j) ==
    /\ At(c, j, "resume") /\ ~stuck
    /\ IF event[j] # "none"
       THEN /\ event' = [event EXCEPT ![j] = "set"]
            /\ status' = Marked(j, "running")
       ELSE UNCHANGED <<event, status>>
    /\ Answered(c)
    /\ UNCHANGED <<items, running, stuck, queue, workers, faults, history>>

CancelMarks(c, j) ==
    /\ At(c, j, "cancel")
    /\ status' = Marked(j, "cancelled")
    /\ callers' = [callers EXCEPT ![c].step = "hang"]
    /\ UNCHANGED <<items, memory, queue, workers, faults, history>>

\* The job is no longer wanted and its event is set; the lock is not given back.
CancelHangs(c, j) ==
    /\ At(c, j, "hang") /\ ~stuck
    /\ running' = running \ {j}
    /\ event' = IF event[j] = "none" THEN event ELSE [event EXCEPT ![j] = "set"]
    /\ stuck' = TRUE
    /\ UNCHANGED <<status, items, queue, workers, callers, faults, history>>

Delete(c, j) ==
    /\ At(c, j, "delete")
    /\ status' = Marked(j, "deleted")
    /\ Answered(c)
    /\ UNCHANGED <<items, memory, queue, workers, faults, history>>

FailedItems(j) == {i \in Items : items[j][i] = "error"}

\* retry_failed_items: whatever the status, unless it is running.
Retry(c, j) ==
    /\ status[j] \notin Gone \cup {"running"}
    /\ FailedItems(j) # {}
    /\ Ask(c, j, "reset", FailedItems(j))
    /\ UNCHANGED <<status, items, memory, queue, workers, faults, history>>

Reset(c, j) ==
    /\ At(c, j, "reset")
    /\ items' = IF status[j] \in Gone THEN items
                ELSE [items EXCEPT ![j] =
                         [i \in Items |-> IF i \in callers[c].failed THEN "pending" ELSE @[i]]]
    /\ status' = Marked(j, "pending")
    /\ callers' = [callers EXCEPT ![c].step = "start"]
    /\ Doubles(c, j)
    /\ UNCHANGED <<memory, queue, workers, faults, since>>

-----------------------------------------------------------------------------
(* _process_download_job *)

Works(w, step) == workers[w].step = step
Goes(w, step) == workers' = [workers EXCEPT ![w].step = step]

\* The executor hands out the oldest job; one that is deleted is left at once.
Takes(w) ==
    /\ Works(w, "idle") /\ queue # <<>>
    /\ queue' = Tail(queue)
    /\ workers' = IF status[Head(queue)] \in Gone THEN workers
                  ELSE [workers EXCEPT ![w] = Assigned(Head(queue))]
    /\ UNCHANGED <<status, items, memory, callers, faults, history>>

\* Variant: an item that was being downloaded is not taken up again.
UnfinishedPending(j) == {i \in Items : items[j][i] = "pending"}

Unfinished(j) == {i \in Items : items[j][i] \in {"pending", "downloading"}}

\* Variant: a job of which nothing is left is taken through its items all the same.
LoadsAlways(w) ==
    LET j == workers[w].job IN
    /\ Works(w, "load")
    /\ status' = Marked(j, "running")
    /\ workers' = [workers EXCEPT ![w] =
                      IF status[j] \in Gone THEN Resting
                      ELSE [@ EXCEPT !.step = "check", !.todo = Unfinished(j),
                                     !.failed = FailedItems(j) # {}]]
    /\ UNCHANGED <<items, memory, queue, callers, faults, history>>

Loads(w) ==
    LET j == workers[w].job IN
    /\ Works(w, "load")
    /\ status' = Marked(j, "running")
    /\ workers' = [workers EXCEPT ![w] =
                      IF status[j] \in Gone THEN Resting
                      ELSE [@ EXCEPT !.step = IF Unfinished(j) = {} THEN "finish" ELSE "check",
                                     !.todo = Unfinished(j),
                                     !.failed = FailedItems(j) # {}]]
    /\ UNCHANGED <<items, memory, queue, callers, faults, history>>

\* The items cannot be read, and the job is left as it is in memory; or anything
\* else fails, and it is cleaned up.
LoadFails(w) ==
    /\ Works(w, "load") /\ faults < MaxFaults
    /\ faults' = faults + 1
    /\ status' = Marked(workers[w].job, "failed")
    /\ \/ workers' = [workers EXCEPT ![w] = Resting]
       \/ Goes(w, "clean")
    /\ UNCHANGED <<items, memory, queue, callers, history>>

\* Before each item: is the job wanted, is it paused?
Checks(w) ==
    LET j == workers[w].job IN
    /\ Works(w, "check") /\ ~stuck
    /\ IF j \notin running
       THEN Goes(w, "clean") /\ status' = Marked(j, "cancelled")
       ELSE Goes(w, IF event[j] = "clear" THEN "wait" ELSE "begin") /\ UNCHANGED status
    /\ UNCHANGED <<items, memory, queue, callers, faults, history>>

\* The event the worker waits on.
Seen(w) == IF workers[w].event = "held" THEN event[workers[w].job] ELSE workers[w].event

\* Variant: a worker that waits goes on when it finds the job still wanted.
WaitsOnce(w) ==
    LET j == workers[w].job IN
    /\ Works(w, "wait") /\ ~stuck
    /\ IF j \notin running
       THEN Goes(w, "clean") /\ status' = Marked(j, "cancelled")
       ELSE Goes(w, "begin") /\ UNCHANGED status
    /\ UNCHANGED <<items, memory, queue, callers, faults, history>>

\* The loop waits, asks under the lock whether the job is still wanted, and then looks
\* at the event without the lock.
Waits(w) ==
    LET j == workers[w].job IN
    /\ Works(w, "wait")
    /\ \/ /\ ~stuck /\ j \notin running
          /\ workers' = [workers EXCEPT ![w].step = "clean", ![w].event = "held"]
          /\ status' = Marked(j, "cancelled")
       \/ /\ Seen(w) = "set"
          /\ workers' = [workers EXCEPT ![w].step = "begin", ![w].event = "held"]
          /\ UNCHANGED status
    /\ UNCHANGED <<items, memory, queue, callers, faults, history>>

NextItem(w) == CHOOSE i \in workers[w].todo : \A k \in workers[w].todo : i <= k

ItemIs(w, s) ==
    LET j == workers[w].job IN
    items' = IF status[j] \in Gone THEN items ELSE [items EXCEPT ![j][NextItem(w)] = s]

Begins(w) ==
    LET j == workers[w].job IN
    /\ Works(w, "begin")
    /\ ItemIs(w, "downloading")
    /\ Goes(w, "item")
    /\ since' = IF event[j] = "clear" /\ since[j] < 2 THEN [since EXCEPT ![j] = @ + 1] ELSE since
    /\ UNCHANGED <<status, memory, queue, callers, faults, doubled>>

\* Variant: a failed item is tried again at once.
EndsOnSuccess(w, ok) ==
    LET rest == IF ok THEN workers[w].todo \ {NextItem(w)} ELSE workers[w].todo IN
    /\ Works(w, "item")
    /\ ItemIs(w, IF ok THEN "success" ELSE "error")
    /\ workers' = [workers EXCEPT ![w].todo = rest,
                                  ![w].failed = @ \/ ~ok,
                                  ![w].step = IF rest = {} THEN "finish" ELSE "check"]
    /\ UNCHANGED <<status, memory, queue, callers, faults, history>>

\* The item has been downloaded (or needs not to be), or an error was met.
Ends(w, ok) ==
    LET rest == workers[w].todo \ {NextItem(w)} IN
    /\ Works(w, "item")
    /\ ItemIs(w, IF ok THEN "success" ELSE "error")
    /\ workers' = [workers EXCEPT ![w].todo = rest,
                                  ![w].failed = @ \/ ~ok,
                                  ![w].step = IF rest = {} THEN "finish" ELSE "check"]
    /\ UNCHANGED <<status, memory, queue, callers, faults, history>>

Finishes(w) ==
    /\ Works(w, "finish")
    /\ status' = Marked(workers[w].job,
                        IF workers[w].failed THEN "completed_with_errors" ELSE "completed")
    /\ Goes(w, "clean")
    /\ UNCHANGED <<items, memory, queue, callers, faults, history>>

\* _cleanup_job
Cleans(w) ==
    LET j == workers[w].job IN
    /\ Works(w, "clean") /\ ~stuck
    /\ running' = running \ {j}
    /\ event' = [event EXCEPT ![j] = "none"]
    /\ workers' = [Forsaken(workers, j) EXCEPT ![w] = Resting]
    /\ UNCHANGED <<status, items, stuck, queue, callers, faults, history>>

-----------------------------------------------------------------------------
\* The server is restarted: the rows stay as they are.  cleanup_zombie_jobs, which
\* would mark them failed, is called by nothing.
Restart ==
    /\ faults < MaxFaults
    /\ faults' = faults + 1
    /\ running' = {} /\ event' = [j \in Jobs |-> "none"] /\ stuck' = FALSE
    /\ queue' = <<>>
    /\ workers' = [w \in Workers |-> Resting]
    /\ callers' = [c \in Callers |-> Ready]
    /\ UNCHANGED <<status, items, history>>

Requests ==
    \E c \in Callers, j \in Jobs :
       \/ Create(c, j) \/ Start(c, j) \/ Request(c, j) \/ Pause(c, j) \/ Resume(c, j)
       \/ CancelMarks(c, j) \/ CancelHangs(c, j) \/ Delete(c, j)
       \/ Retry(c, j) \/ Reset(c, j)

Work(w) ==
    \/ Takes(w) \/ Loads(w) \/ LoadFails(w) \/ Checks(w) \/ Waits(w) \/ Begins(w)
    \/ Ends(w, TRUE) \/ Ends(w, FALSE) \/ Finishes(w) \/ Cleans(w)

Next == Requests \/ (\E w \in Workers : Work(w)) \/ Restart

\* The threads of the executor are scheduled, and downloads end by their timeouts.
Fairness == \A w \in Workers : WF_vars(Work(w))

Spec == Init /\ [][Next]_vars /\ Fairness

-----------------------------------------------------------------------------
(* What holds *)

\* The types of the variables; a worker at an item has one.
TypeOK ==
    /\ status \in [Jobs -> JobStatus]
    /\ items \in [Jobs -> [Items -> ItemStatus]]
    /\ running \subseteq Jobs /\ event \in [Jobs -> {"none", "set", "clear"}]
    /\ stuck \in BOOLEAN
    /\ queue \in Seq(Jobs) /\ Len(queue) <= MaxQueue
    /\ workers \in [Workers -> Worker] /\ callers \in [Callers -> Caller]
    /\ \A w \in Workers :
          workers[w].step \in {"check", "wait", "begin", "item"} => workers[w].todo # {}
    /\ faults \in 0..MaxFaults
    /\ since \in [Jobs -> 0..2] /\ doubled \subseteq Jobs

\* A job that is shown as completed has all its items, whatever was paused, resumed,
\* retried or interrupted by a restart before; unless a retry was let in while the
\* job still had a worker or another retry.
CompletedIsDone ==
    \A j \in Jobs \ doubled :
       status[j] = "completed" => \A i \in Items : items[j][i] = "success"

\* Once a job is paused at most the item its worker was about to begin is begun.
PauseHolds == \A j \in Jobs \ doubled : since[j] <= 1

\* A worker that a pause keeps.
Held(w) == Works(w, "wait") /\ workers[w].job \in running /\ Seen(w) # "set"

InHand(j) ==
    \/ \E n \in 1..Len(queue) : queue[n] = j
    \/ \E w \in Workers : workers[w].job = j /\ ~Works(w, "clean")

\* A job that was submitted gets to one of its ends, however often it is paused and
\* resumed or retried at the same time, unless the server is restarted or fails, a
\* cancellation has taken the lock for good, or a paused job keeps a thread of the
\* executor.
JobEnds ==
    \A j \in Jobs, f \in 0..MaxFaults :
       InHand(j) /\ faults = f ~>
          \/ status[j] \in Gone \cup {"cancelled", "failed", "completed", "completed_with_errors"}
          \/ faults # f \/ stuck \/ \E w \in Workers : Held(w)
=============================================================================
