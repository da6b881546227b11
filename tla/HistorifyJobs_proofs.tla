------------------------ MODULE HistorifyJobs_proofs ------------------------
(***************************************************************************)
(* For any jobs, items, workers and callers: a pause holds, and a job that *)
(* is shown as completed has all its items.                                *)
(***************************************************************************)
EXTENDS HistorifyJobs, SetInduction

-----------------------------------------------------------------------------
(* The invariant *)

On(w, j) == workers[w].job = j
Queued(j) == \E n \in 1..Len(queue) : queue[n] = j

\* A thread that rests has no job.
RestOK == \A w \in Workers : Works(w, "idle") <=> On(w, None)

\* The event a worker waits on is there, or the worker has kept it.
WaitsOK ==
    \A w \in Workers : Works(w, "wait") /\ workers[w].event = "held" =>
        workers[w].job \in Jobs /\ event[workers[w].job] # "none"

\* Nobody knows of a job that was not created.
UnknownOK ==
    \A j \in Jobs : status[j] = "none" =>
        ~Queued(j) /\ (\A w \in Workers : ~On(w, j)) /\ \A c \in Callers : callers[c].job # j

\* The job is in one place: the queue, a worker or a caller about to submit it.
Alone(j) ==
    /\ \A m, n \in 1..Len(queue) : queue[m] = j /\ queue[n] = j => m = n
    /\ Queued(j) => \A w \in Workers : ~On(w, j)
    /\ \A v, w \in Workers : On(v, j) /\ On(w, j) => v = w
    /\ \A c \in Callers : At(c, j, "start") =>
          /\ ~Queued(j) /\ \A w \in Workers : ~On(w, j)
          /\ \A d \in Callers : At(d, j, "start") => c = d
    /\ \A w \in Workers : On(w, j) => workers[w].event = "held"
AloneOK == \A j \in Jobs \ doubled : Alone(j)

\* After an item was begun in a pause none is about to be.
Paused(j) ==
    /\ since[j] <= 1
    /\ since[j] = 1 /\ event[j] = "clear" => \A w \in Workers : On(w, j) => ~Works(w, "begin")
PausedOK == \A j \in Jobs \ doubled : Paused(j)

\* What a worker has not to do is done, or it knows of the failure.
Sound(w, j) ==
    /\ \A i \in workers[w].todo : items[j][i] \in {"pending", "downloading"}
    /\ \A i \in Items \ workers[w].todo :
          items[j][i] = "success" \/ (items[j][i] = "error" /\ workers[w].failed)
    /\ Works(w, "finish") => workers[w].todo = {}
SoundOK ==
    \A j \in Jobs \ doubled : status[j] \notin Gone =>
        \A w \in Workers : On(w, j) /\ ~Works(w, "load") /\ ~Works(w, "clean") => Sound(w, j)

\* What a retry has found as failed is still failed when it is reset.
RetryOK ==
    \A j \in Jobs \ doubled : \A c \in Callers : At(c, j, "reset") =>
        callers[c].failed # {} /\ \A i \in callers[c].failed : items[j][i] = "error"

\* A job shown as completed is at its end.
Done(j) ==
    /\ \A i \in Items : items[j][i] = "success"
    /\ ~Queued(j) /\ \A w \in Workers : On(w, j) => Works(w, "clean")
    /\ \A c \in Callers : ~At(c, j, "start")
DoneOK == \A j \in Jobs \ doubled : status[j] = "completed" => Done(j)

Inv ==
    /\ TypeOK /\ RestOK /\ WaitsOK /\ UnknownOK /\ AloneOK
    /\ PausedOK /\ SoundOK /\ RetryOK /\ DoneOK

-----------------------------------------------------------------------------
(* What the steps write *)

LEMMA NextItemType ==
    ASSUME NEW w \in Workers, TypeOK, workers[w].todo # {}
    PROVE  NextItem(w) \in workers[w].todo /\ NextItem(w) \in Items
  <1>1. workers[w].todo \in SUBSET Items /\ workers[w].todo \in SUBSET Nat
    BY JobsAssumption DEF TypeOK, Worker
  <1> QED
    BY <1>1, Least DEF NextItem

LEMMA MarkedIs ==
    ASSUME TypeOK, NEW j \in Jobs, NEW s \in JobStatus
    PROVE  /\ Marked(j, s) \in [Jobs -> JobStatus]
           /\ \A k \in Jobs : Marked(j, s)[k] = IF k = j /\ status[j] \notin Gone THEN s ELSE status[k]
  BY DEF Marked, TypeOK

LEMMA AskIs ==
    ASSUME TypeOK, NEW c \in Callers, NEW j \in Jobs, NEW s \in CallerSteps,
           NEW f \in SUBSET Items, Ask(c, j, s, f)
    PROVE  /\ callers' \in [Callers -> Caller]
           /\ callers'[c] = Asks(s, j, f)
           /\ \A d \in Callers \ {c} : callers'[d] = callers[d]
  <1>1. Asks(s, j, f) \in Caller
    BY DEF Asks, Caller
  <1> QED
    BY <1>1 DEF Ask, TypeOK

LEMMA AnsweredIs ==
    ASSUME TypeOK, NEW c \in Callers, Answered(c)
    PROVE  /\ callers' \in [Callers -> Caller]
           /\ callers'[c] = Ready
           /\ \A d \in Callers \ {c} : callers'[d] = callers[d]
  <1>1. Ready \in Caller
    BY DEF Ready, Caller, CallerSteps
  <1> QED
    BY <1>1 DEF Answered, TypeOK

LEMMA CallerGoes ==
    ASSUME TypeOK, NEW c \in Callers, NEW s \in CallerSteps,
           callers' = [callers EXCEPT ![c].step = s]
    PROVE  /\ callers' \in [Callers -> Caller]
           /\ callers'[c].step = s /\ callers'[c].job = callers[c].job
           /\ \A d \in Callers \ {c} : callers'[d] = callers[d]
  BY DEF TypeOK, Caller

\* Worker w becomes r.
LEMMA WorkerIs ==
    ASSUME TypeOK, NEW w \in Workers, NEW r \in Worker, workers' = [workers EXCEPT ![w] = r]
    PROVE  /\ workers' \in [Workers -> Worker]
           /\ workers'[w] = r
           /\ \A v \in Workers \ {w} : workers'[v] = workers[v]
  BY DEF TypeOK

LEMMA RestingType == Resting \in Worker
  BY DEF Resting, Worker, WorkerSteps

LEMMA AssignedType ==
    ASSUME NEW j \in Jobs
    PROVE  /\ Assigned(j) \in Worker
           /\ Assigned(j).step = "load" /\ Assigned(j).job = j /\ Assigned(j).event = "held"
           /\ Assigned(j).todo = {}
  BY DEF Assigned, Resting, Worker, WorkerSteps

Now(x, s, T, f) == [x EXCEPT !.step = s, !.todo = T, !.failed = f]

LEMMA NowIs ==
    ASSUME NEW x \in Worker, NEW s \in WorkerSteps, NEW T \in SUBSET Items, NEW f \in BOOLEAN
    PROVE  /\ Now(x, s, T, f) \in Worker
           /\ Now(x, s, T, f).step = s /\ Now(x, s, T, f).todo = T /\ Now(x, s, T, f).failed = f
           /\ Now(x, s, T, f).job = x.job /\ Now(x, s, T, f).event = x.event
  BY DEF Now, Worker

LEMMA GoesIs ==
    ASSUME TypeOK, NEW w \in Workers, NEW s \in WorkerSteps, Goes(w, s)
    PROVE  /\ workers' \in [Workers -> Worker]
           /\ workers'[w].step = s /\ workers'[w].job = workers[w].job
           /\ workers'[w].todo = workers[w].todo /\ workers'[w].failed = workers[w].failed
           /\ workers'[w].event = workers[w].event
           /\ \A v \in Workers \ {w} : workers'[v] = workers[v]
  BY DEF Goes, TypeOK, Worker

LEMMA ForsakenIs ==
    ASSUME TypeOK, WaitsOK, NEW j \in Jobs
    PROVE  /\ Forsaken(workers, j) \in [Workers -> Worker]
           /\ \A v \in Workers :
                 /\ Forsaken(workers, j)[v].step = workers[v].step
                 /\ Forsaken(workers, j)[v].job = workers[v].job
                 /\ Forsaken(workers, j)[v].todo = workers[v].todo
                 /\ Forsaken(workers, j)[v].failed = workers[v].failed
                 /\ workers[v].job # j => Forsaken(workers, j)[v] = workers[v]
                 /\ workers[v].job = j /\ workers[v].step = "wait" =>
                       Forsaken(workers, j)[v].event # "held"
  <1>1. ASSUME NEW v \in Workers, workers[v].job = j, workers[v].step = "wait", workers[v].event = "held"
        PROVE  event[j] \in {"set", "clear"}
    BY <1>1 DEF WaitsOK, TypeOK, Works
  <1>2. ASSUME NEW v \in Workers, event[j] \in {"set", "clear"}
        PROVE  /\ [workers[v] EXCEPT !.event = event[j]] \in Worker
               /\ [workers[v] EXCEPT !.event = event[j]].step = workers[v].step
               /\ [workers[v] EXCEPT !.event = event[j]].job = workers[v].job
               /\ [workers[v] EXCEPT !.event = event[j]].todo = workers[v].todo
               /\ [workers[v] EXCEPT !.event = event[j]].failed = workers[v].failed
               /\ [workers[v] EXCEPT !.event = event[j]].event = event[j]
    BY <1>2 DEF TypeOK, Worker
  <1> QED
    BY <1>1, <1>2 DEF Forsaken, TypeOK

LEMMA ItemIsIs ==
    ASSUME TypeOK, NEW w \in Workers, NEW j \in Jobs, workers[w].job = j,
           workers[w].todo # {}, NEW s \in ItemStatus, ItemIs(w, s)
    PROVE  /\ items' \in [Jobs -> [Items -> ItemStatus]]
           /\ status[j] \in Gone => items' = items
           /\ \A k \in Jobs \ {j} : items'[k] = items[k]
           /\ \A i \in Items \ {NextItem(w)} : items'[j][i] = items[j][i]
           /\ status[j] \notin Gone => items'[j][NextItem(w)] = s
  BY NextItemType DEF ItemIs, TypeOK

-----------------------------------------------------------------------------
(* Requests *)

\* What most requests leave as it is.
Aside ==
    /\ UNCHANGED <<items, queue, workers, doubled>>
    /\ \A k \in Jobs : \/ status'[k] = status[k]
                       \/ status[k] \notin Gone /\ status'[k] \notin {"none", "completed"}
    /\ \A d \in Callers : \/ callers'[d] = callers[d]
                          \/ /\ callers'[d].step \notin {"start", "reset"}
                             /\ callers'[d].job \in Jobs => status[callers'[d].job] # "none"
    /\ \A k \in Jobs : \/ since'[k] = 0
                       \/ since'[k] = since[k] /\ event'[k] \in {event[k], "set"}
    /\ \A k \in Jobs : event[k] # "none" => event'[k] # "none"

LEMMA AsideStep ==
    ASSUME Inv, TypeOK', Aside
    PROVE  Inv'
  <1>1. RestOK'
    BY DEF Inv, RestOK, Aside, Works, On
  <1>2. WaitsOK'
    BY DEF Inv, WaitsOK, Aside, Works
  <1>3. UnknownOK'
    BY DEF Inv, UnknownOK, Aside, On, Queued
  <1>4. AloneOK'
    BY DEF Inv, AloneOK, Alone, Aside, On, Queued, At
  <1>5. PausedOK'
    BY DEF Inv, PausedOK, Paused, Aside, On, Works
  <1>6. SoundOK'
    BY DEF Inv, SoundOK, Sound, Aside, On, Works
  <1>7. RetryOK'
    BY DEF Inv, RetryOK, Aside, At
  <1>8. DoneOK'
    BY DEF Inv, DoneOK, Done, Aside, On, Queued, Works, At
  <1> QED
    BY <1>1, <1>2, <1>3, <1>4, <1>5, <1>6, <1>7, <1>8 DEF Inv

LEMMA RequestStep ==
    ASSUME Inv, NEW c \in Callers, NEW j \in Jobs, Request(c, j)
    PROVE  Inv'
  <1>1. PICK s \in {"pause", "resume", "cancel", "delete"} : Ask(c, j, s, {}) /\ status[j] # "none"
    BY DEF Request, Gone
  <1>2. /\ callers' \in [Callers -> Caller]
        /\ callers'[c] = Asks(s, j, {})
        /\ \A d \in Callers \ {c} : callers'[d] = callers[d]
    BY <1>1, AskIs DEF Inv, CallerSteps
  <1>3. TypeOK'
    BY <1>2 DEF Inv, TypeOK, Request, memory, history
  <1>4. Aside
    BY <1>1, <1>2 DEF Aside, Request, memory, history, Asks
  <1> QED
    BY <1>3, <1>4, AsideStep

LEMMA PauseStep ==
    ASSUME Inv, NEW c \in Callers, NEW j \in Jobs, Pause(c, j)
    PROVE  Inv'
  <1>1. /\ callers' \in [Callers -> Caller]
        /\ callers'[c] = Ready
        /\ \A d \in Callers \ {c} : callers'[d] = callers[d]
    BY AnsweredIs DEF Inv, Pause
  <1>2. /\ status' \in [Jobs -> JobStatus]
        /\ \A k \in Jobs : \/ status'[k] = status[k]
                           \/ status[k] \notin Gone /\ status'[k] \notin {"none", "completed"}
    <2>1. "paused" \in JobStatus
      BY DEF JobStatus
    <2>2. /\ Marked(j, "paused") \in [Jobs -> JobStatus]
          /\ \A k \in Jobs : Marked(j, "paused")[k] =
                IF k = j /\ status[j] \notin Gone THEN "paused" ELSE status[k]
      BY <2>1, MarkedIs DEF Inv
    <2> QED
      BY <2>2 DEF Inv, TypeOK, Pause
  <1>3. /\ event' \in [Jobs -> {"none", "set", "clear"}] /\ since' \in [Jobs -> 0..2]
        /\ \A k \in Jobs : \/ since'[k] = 0
                           \/ since'[k] = since[k] /\ event'[k] \in {event[k], "set"}
        /\ \A k \in Jobs : event[k] # "none" => event'[k] # "none"
    <2>1. CASE event[j] = "set"
      <3>1. /\ event' = [event EXCEPT ![j] = "clear"] /\ since' = [since EXCEPT ![j] = 0]
            /\ event \in [Jobs -> {"none", "set", "clear"}] /\ since \in [Jobs -> 0..2]
        BY <2>1 DEF Inv, TypeOK, Pause
      <3>2. 0 \in 0..2
        OBVIOUS
      <3> QED
        BY <3>1, <3>2
    <2>2. CASE event[j] # "set"
      BY <2>2 DEF Inv, TypeOK, Pause
    <2> QED
      BY <2>1, <2>2
  <1>4. TypeOK'
    BY <1>1, <1>2, <1>3 DEF Inv, TypeOK, Pause
  <1>5. Aside
    <2>1. Ready.job \notin Jobs /\ Ready.step = "idle"
      BY JobsAssumption DEF Ready
    <2> QED
      BY <1>1, <1>2, <1>3, <2>1 DEF Aside, Pause
  <1> QED
    BY <1>4, <1>5, AsideStep

LEMMA ResumeStep ==
    ASSUME Inv, NEW c \in Callers, NEW j \in Jobs, Resume(c, j)
    PROVE  Inv'
  <1>1. /\ callers' \in [Callers -> Caller]
        /\ callers'[c] = Ready
        /\ \A d \in Callers \ {c} : callers'[d] = callers[d]
    BY AnsweredIs DEF Inv, Resume
  <1>2. /\ status' \in [Jobs -> JobStatus]
        /\ \A k \in Jobs : \/ status'[k] = status[k]
                           \/ status[k] \notin Gone /\ status'[k] \notin {"none", "completed"}
    <2>1. "running" \in JobStatus
      BY DEF JobStatus
    <2>2. /\ Marked(j, "running") \in [Jobs -> JobStatus]
          /\ \A k \in Jobs : Marked(j, "running")[k] =
                IF k = j /\ status[j] \notin Gone THEN "running" ELSE status[k]
      BY <2>1, MarkedIs DEF Inv
    <2> QED
      BY <2>2 DEF Inv, TypeOK, Resume
  <1>3. /\ event' \in [Jobs -> {"none", "set", "clear"}]
        /\ \A k \in Jobs : event'[k] \in {event[k], "set"}
        /\ \A k \in Jobs : event[k] # "none" => event'[k] # "none"
    BY DEF Inv, TypeOK, Resume
  <1>4. TypeOK'
    BY <1>1, <1>2, <1>3 DEF Inv, TypeOK, Resume, history
  <1>5. Aside
    <2>1. Ready.job \notin Jobs /\ Ready.step = "idle"
      BY JobsAssumption DEF Ready
    <2> QED
      BY <1>1, <1>2, <1>3, <2>1 DEF Aside, Resume, history
  <1> QED
    BY <1>4, <1>5, AsideStep

LEMMA CancelMarksStep ==
    ASSUME Inv, NEW c \in Callers, NEW j \in Jobs, CancelMarks(c, j)
    PROVE  Inv'
  <1>1. /\ callers' \in [Callers -> Caller]
        /\ callers'[c].step = "hang" /\ callers'[c].job = j
        /\ \A d \in Callers \ {c} : callers'[d] = callers[d]
    BY CallerGoes DEF Inv, CancelMarks, CallerSteps, At
  <1>2. status[j] # "none"
    BY DEF Inv, UnknownOK, CancelMarks, At
  <1>3. /\ status' \in [Jobs -> JobStatus]
        /\ \A k \in Jobs : \/ status'[k] = status[k]
                           \/ status[k] \notin Gone /\ status'[k] \notin {"none", "completed"}
    <2>1. "cancelled" \in JobStatus
      BY DEF JobStatus
    <2>2. /\ Marked(j, "cancelled") \in [Jobs -> JobStatus]
          /\ \A k \in Jobs : Marked(j, "cancelled")[k] =
                IF k = j /\ status[j] \notin Gone THEN "cancelled" ELSE status[k]
      BY <2>1, MarkedIs DEF Inv
    <2> QED
      BY <2>2 DEF Inv, TypeOK, CancelMarks
  <1>4. TypeOK'
    BY <1>1, <1>3 DEF Inv, TypeOK, CancelMarks, memory, history
  <1>5. Aside
    BY <1>1, <1>2, <1>3 DEF Aside, CancelMarks, memory, history
  <1> QED
    BY <1>4, <1>5, AsideStep

LEMMA CancelHangsStep ==
    ASSUME Inv, NEW c \in Callers, NEW j \in Jobs, CancelHangs(c, j)
    PROVE  Inv'
  <1>1. /\ event' \in [Jobs -> {"none", "set", "clear"}]
        /\ \A k \in Jobs : event'[k] \in {event[k], "set"}
        /\ \A k \in Jobs : event[k] # "none" => event'[k] # "none"
    BY DEF Inv, TypeOK, CancelHangs
  <1>2. TypeOK'
    BY <1>1 DEF Inv, TypeOK, CancelHangs, history
  <1>3. Aside
    BY <1>1 DEF Aside, CancelHangs, history
  <1> QED
    BY <1>2, <1>3, AsideStep

LEMMA DeleteStep ==
    ASSUME Inv, NEW c \in Callers, NEW j \in Jobs, Delete(c, j)
    PROVE  Inv'
  <1>1. /\ callers' \in [Callers -> Caller]
        /\ callers'[c] = Ready
        /\ \A d \in Callers \ {c} : callers'[d] = callers[d]
    BY AnsweredIs DEF Inv, Delete
  <1>2. /\ status' \in [Jobs -> JobStatus]
        /\ \A k \in Jobs : \/ status'[k] = status[k]
                           \/ status[k] \notin Gone /\ status'[k] \notin {"none", "completed"}
    <2>1. "deleted" \in JobStatus
      BY DEF JobStatus, Gone
    <2>2. /\ Marked(j, "deleted") \in [Jobs -> JobStatus]
          /\ \A k \in Jobs : Marked(j, "deleted")[k] =
                IF k = j /\ status[j] \notin Gone THEN "deleted" ELSE status[k]
      BY <2>1, MarkedIs DEF Inv
    <2> QED
      BY <2>2 DEF Inv, TypeOK, Delete
  <1>3. TypeOK'
    BY <1>1, <1>2 DEF Inv, TypeOK, Delete, memory, history
  <1>4. Aside
    <2>1. Ready.job \notin Jobs /\ Ready.step = "idle"
      BY JobsAssumption DEF Ready
    <2> QED
      BY <1>1, <1>2, <2>1 DEF Aside, Delete, memory, history
  <1> QED
    BY <1>3, <1>4, AsideStep

LEMMA CreateStep ==
    ASSUME Inv, NEW c \in Callers, NEW j \in Jobs, Create(c, j)
    PROVE  Inv'
  <1>1. /\ callers' \in [Callers -> Caller]
        /\ callers'[c].step = "start" /\ callers'[c].job = j
        /\ \A d \in Callers \ {c} : callers'[d] = callers[d]
    <2>1. Ask(c, j, "start", {}) /\ {} \in SUBSET Items /\ "start" \in CallerSteps
      BY DEF Create, CallerSteps
    <2>2. /\ callers' \in [Callers -> Caller]
          /\ callers'[c] = Asks("start", j, {})
          /\ \A d \in Callers \ {c} : callers'[d] = callers[d]
      BY <2>1, AskIs DEF Inv
    <2> QED
      BY <2>2 DEF Asks
  <1>2. /\ status' \in [Jobs -> JobStatus] /\ status'[j] = "pending"
        /\ \A k \in Jobs \ {j} : status'[k] = status[k]
    BY DEF Inv, TypeOK, Create, JobStatus
  <1>3. /\ ~Queued(j) /\ \A w \in Workers : ~On(w, j)
        /\ \A d \in Callers : callers[d].job # j
    BY DEF Inv, UnknownOK, Create
  <1>4. /\ TypeOK /\ callers[c].step = "idle" /\ doubled' = doubled
        /\ UNCHANGED <<items, running, event, stuck, queue, workers, faults, since>>
    BY DEF Inv, Create, Ask, memory, history
  <1>5. TypeOK'
    BY <1>1, <1>2, <1>4 DEF TypeOK
  <1>6. RestOK' /\ WaitsOK' /\ PausedOK'
    BY <1>4 DEF Inv, RestOK, WaitsOK, PausedOK, Paused, Works, On
  <1>7. UnknownOK'
    BY <1>1, <1>2, <1>4 DEF Inv, UnknownOK, On, Queued
  <1>8. AloneOK'
    BY <1>1, <1>3, <1>4 DEF Inv, AloneOK, Alone, On, Queued, At
  <1>9. SoundOK'
    <2>1. \A w \in Workers : On(w, j)' = FALSE
      BY <1>3, <1>4 DEF On
    <2> QED
      BY <1>2, <1>4, <2>1 DEF Inv, SoundOK, Sound, On, Works
  <1>10. RetryOK'
    BY <1>1, <1>4 DEF Inv, RetryOK, At
  <1>11. DoneOK'
    BY <1>1, <1>2, <1>4 DEF Inv, DoneOK, Done, On, Queued, Works, At
  <1> QED
    BY <1>5, <1>6, <1>7, <1>8, <1>9, <1>10, <1>11 DEF Inv

LEMMA RetryStep ==
    ASSUME Inv, NEW c \in Callers, NEW j \in Jobs, Retry(c, j)
    PROVE  Inv'
  <1>1. /\ callers' \in [Callers -> Caller]
        /\ callers'[c] = Asks("reset", j, FailedItems(j))
        /\ \A d \in Callers \ {c} : callers'[d] = callers[d]
    <2>1. Ask(c, j, "reset", FailedItems(j)) /\ FailedItems(j) \in SUBSET Items
      BY DEF Retry, FailedItems
    <2> QED
      BY <2>1, AskIs DEF Inv, CallerSteps
  <1>2. /\ TypeOK /\ status[j] # "none" /\ FailedItems(j) # {}
        /\ UNCHANGED <<status, items, running, event, stuck, queue, workers, faults, since, doubled>>
    BY DEF Inv, Retry, Gone, memory, history
  <1>3. TypeOK'
    BY <1>1, <1>2 DEF TypeOK
  <1>4. RestOK' /\ WaitsOK' /\ PausedOK' /\ SoundOK'
    BY <1>2 DEF Inv, RestOK, WaitsOK, PausedOK, Paused, SoundOK, Sound, Works, On
  <1>5. UnknownOK'
    BY <1>1, <1>2 DEF Inv, UnknownOK, On, Queued, Asks
  <1>6. AloneOK'
    BY <1>1, <1>2 DEF Inv, AloneOK, Alone, On, Queued, At, Asks
  <1>7. RetryOK'
    BY <1>1, <1>2 DEF Inv, RetryOK, At, Asks, FailedItems
  <1>8. DoneOK'
    BY <1>1, <1>2 DEF Inv, DoneOK, Done, On, Queued, Works, At, Asks
  <1> QED
    BY <1>3, <1>4, <1>5, <1>6, <1>7, <1>8 DEF Inv

LEMMA ResetStep ==
    ASSUME Inv, NEW c \in Callers, NEW j \in Jobs, Reset(c, j)
    PROVE  Inv'
  <1>1. /\ callers' \in [Callers -> Caller]
        /\ callers[c].step = "reset" /\ callers[c].job = j
        /\ callers'[c].step = "start" /\ callers'[c].job = j
        /\ \A d \in Callers \ {c} : callers'[d] = callers[d]
    BY CallerGoes DEF Inv, Reset, CallerSteps, At
  <1>2. /\ status' \in [Jobs -> JobStatus]
        /\ status'[j] # "completed" \/ status[j] \in Gone
        /\ \A k \in Jobs : status'[k] = "none" <=> status[k] = "none"
        /\ status[j] \in Gone => status' = status
        /\ \A k \in Jobs \ {j} : status'[k] = status[k]
    <2>1. "pending" \in JobStatus
      BY DEF JobStatus
    <2>2. /\ Marked(j, "pending") \in [Jobs -> JobStatus]
          /\ \A k \in Jobs : Marked(j, "pending")[k] =
                IF k = j /\ status[j] \notin Gone THEN "pending" ELSE status[k]
      BY <2>1, MarkedIs DEF Inv
    <2>3. status[j] \in Gone => status' = status
      BY DEF Marked, Reset
    <2> QED
      BY <2>2, <2>3 DEF Reset, Gone
  <1>3. /\ items' \in [Jobs -> [Items -> ItemStatus]]
        /\ \A k \in Jobs \ {j} : items'[k] = items[k]
    BY DEF Inv, TypeOK, Reset, ItemStatus
  <1>4. /\ TypeOK
        /\ UNCHANGED <<running, event, stuck, queue, workers, faults, since>>
    BY DEF Inv, Reset, memory
  <1>5. /\ doubled' \subseteq Jobs /\ doubled \subseteq doubled'
        /\ j \notin doubled' =>
              /\ ~Queued(j) /\ \A w \in Workers : ~On(w, j)
              /\ \A d \in Callers \ {c} : ~At(d, j, "start") /\ ~At(d, j, "reset")
    BY <1>4 DEF Reset, Doubles, WorkedOn, Queued, On, At, TypeOK
  <1>6. TypeOK'
    BY <1>1, <1>2, <1>3, <1>4, <1>5 DEF TypeOK
  <1>7. RestOK' /\ WaitsOK' /\ PausedOK'
    BY <1>4, <1>5 DEF Inv, RestOK, WaitsOK, PausedOK, Paused, Works, On
  <1>8. UnknownOK'
    BY <1>1, <1>2, <1>4 DEF Inv, UnknownOK, On, Queued
  <1>9. AloneOK'
    BY <1>1, <1>4, <1>5 DEF Inv, AloneOK, Alone, On, Queued, At
  <1>10. SoundOK'
    BY <1>2, <1>3, <1>4, <1>5 DEF Inv, SoundOK, Sound, On, Works
  <1>11. RetryOK'
    BY <1>1, <1>3, <1>5 DEF Inv, RetryOK, At
  <1>12. DoneOK'
    BY <1>1, <1>2, <1>3, <1>4, <1>5 DEF Inv, DoneOK, Done, On, Queued, Works, At, Gone
  <1> QED
    BY <1>6, <1>7, <1>8, <1>9, <1>10, <1>11, <1>12 DEF Inv

LEMMA StartStep ==
    ASSUME Inv, NEW c \in Callers, NEW j \in Jobs, Start(c, j)
    PROVE  Inv'
  <1>1. /\ callers' \in [Callers -> Caller]
        /\ callers'[c] = Ready
        /\ \A d \in Callers \ {c} : callers'[d] = callers[d]
    BY AnsweredIs DEF Inv, Start
  <1>2. /\ workers' \in [Workers -> Worker]
        /\ \A v \in Workers :
              /\ workers'[v].step = workers[v].step /\ workers'[v].job = workers[v].job
              /\ workers'[v].todo = workers[v].todo /\ workers'[v].failed = workers[v].failed
              /\ workers[v].job # j => workers'[v] = workers[v]
              /\ workers[v].job = j /\ workers[v].step = "wait" => workers'[v].event # "held"
    BY ForsakenIs DEF Inv, Start
  <1>3. /\ TypeOK /\ callers[c].step = "start" /\ callers[c].job = j
        /\ UNCHANGED <<status, items, stuck, faults>>
        /\ event' \in [Jobs -> {"none", "set", "clear"}] /\ since' \in [Jobs -> 0..2]
        /\ event'[j] = "set" /\ since'[j] = 0
        /\ \A k \in Jobs \ {j} : event'[k] = event[k] /\ since'[k] = since[k]
        /\ running' \subseteq Jobs
    BY SMTT(30) DEF Inv, Start, At, TypeOK
  <1>4. /\ queue' \in Seq(Jobs) /\ Len(queue') <= MaxQueue /\ Len(queue') = Len(queue) + 1
        /\ Len(queue) \in Nat
        /\ queue'[Len(queue) + 1] = j
        /\ \A n \in 1..Len(queue) : queue'[n] = queue[n]
    BY JobsAssumption DEF Inv, Start, TypeOK
  <1>5. /\ doubled' \subseteq Jobs /\ doubled \subseteq doubled'
        /\ j \notin doubled' =>
              /\ ~Queued(j) /\ \A w \in Workers : ~On(w, j)
              /\ \A d \in Callers \ {c} : ~At(d, j, "start")
    BY <1>3 DEF Start, Doubles, WorkedOn, Queued, On, At, TypeOK
  <1>6. Ready.job \notin Jobs /\ Ready.step = "idle"
    BY JobsAssumption DEF Ready
  <1>7. TypeOK'
    <2>1. \A w \in Workers : workers'[w].step \in {"check", "wait", "begin", "item"} =>
                                 workers'[w].todo # {}
      BY <1>2, <1>3 DEF TypeOK
    <2>2. status' \in [Jobs -> JobStatus] /\ items' \in [Jobs -> [Items -> ItemStatus]]
             /\ stuck' \in BOOLEAN /\ faults' \in 0..MaxFaults
      BY <1>3 DEF TypeOK
    <2> QED
      BY <1>1, <1>2, <1>3, <1>4, <1>5, <2>1, <2>2 DEF TypeOK
  <1>8. RestOK' /\ WaitsOK'
    BY <1>2, <1>3 DEF Inv, RestOK, WaitsOK, Works, On
  <1>9. UnknownOK'
    BY <1>1, <1>2, <1>3, <1>4, <1>6 DEF Inv, UnknownOK, On, Queued
  <1>10. AloneOK'
    <2>1. \A k \in Jobs : Queued(k)' => Queued(k) \/ k = j
      BY <1>4 DEF Queued
    <2>2. ASSUME NEW k \in Jobs \ doubled', k # j
          PROVE  Alone(k)'
      BY <1>1, <1>2, <1>4, <1>5, <1>6, <2>1, <2>2 DEF Inv, AloneOK, Alone, On, At
    <2>3. ASSUME j \notin doubled'
          PROVE  Alone(j)'
      <3>1. \A n \in 1..Len(queue') : queue'[n] = j => n = Len(queue) + 1
        BY <1>4, <1>5, <2>3 DEF Queued
      <3>2. \A w \in Workers : ~On(w, j)'
        BY <1>2, <1>5, <2>3 DEF On
      <3>3. \A d \in Callers : ~At(d, j, "start")'
        BY <1>1, <1>5, <1>6, <2>3 DEF At
      <3> QED
        BY <3>1, <3>2, <3>3 DEF Alone
    <2> QED
      BY <2>2, <2>3 DEF AloneOK
  <1>11. PausedOK'
    BY <1>2, <1>3, <1>5 DEF Inv, PausedOK, Paused, Works, On
  <1>12. SoundOK'
    BY <1>2, <1>3, <1>5 DEF Inv, SoundOK, Sound, On, Works
  <1>13. RetryOK'
    BY <1>1, <1>3, <1>5, <1>6 DEF Inv, RetryOK, At
  <1>14. DoneOK'
    <2>1. \A k \in Jobs : Queued(k)' => Queued(k) \/ k = j
      BY <1>4 DEF Queued
    <2> QED
      BY <1>1, <1>2, <1>3, <1>5, <1>6, <2>1 DEF Inv, DoneOK, Done, On, Works, At
  <1> QED
    BY <1>7, <1>8, <1>9, <1>10, <1>11, <1>12, <1>13, <1>14 DEF Inv

-----------------------------------------------------------------------------
(* Workers *)

LEMMA HasJob ==
    ASSUME Inv, NEW w \in Workers, ~Works(w, "idle")
    PROVE  workers[w].job \in Jobs
  BY DEF Inv, RestOK, On, TypeOK, Worker

\* What a step of worker w on job j leaves as it is.
Steady(w, j) ==
    /\ UNCHANGED <<running, event, stuck, queue, callers, doubled>>
    /\ workers' \in [Workers -> Worker]
    /\ \A v \in Workers \ {w} : workers'[v] = workers[v]
    /\ workers[w].job = j
    /\ \/ workers'[w].job = j /\ workers'[w].step # "idle"
       \/ workers'[w] = Resting
    /\ workers'[w].event \in {workers[w].event, "held"}
    /\ workers'[w].step = "wait" => event[j] # "none"
    /\ \A k \in Jobs : status'[k] = "none" <=> status[k] = "none"

LEMMA SteadyStep ==
    ASSUME Inv, NEW w \in Workers, NEW j \in Jobs, Steady(w, j)
    PROVE  RestOK' /\ WaitsOK' /\ UnknownOK' /\ AloneOK'
  <1>1. Resting.job = None /\ Resting.step = "idle" /\ Resting.event = "held" /\ None \notin Jobs
    BY JobsAssumption DEF Resting
  <1>2. RestOK'
    BY <1>1 DEF Inv, RestOK, Steady, Works, On
  <1>3. WaitsOK'
    BY <1>1 DEF Inv, WaitsOK, Steady, Works
  <1>4. \A v \in Workers, k \in Jobs : On(v, k)' => On(v, k)
    BY <1>1 DEF Steady, On
  <1>5. UnknownOK'
    BY <1>4 DEF Inv, UnknownOK, Steady, Queued
  <1>6. AloneOK'
    <2>1. \A v \in Workers, k \in Jobs \ doubled : On(v, k)' => workers'[v].event = "held"
      BY <1>1, <1>4 DEF Inv, AloneOK, Alone, Steady, On
    <2> QED
      BY <1>4, <2>1 DEF Inv, AloneOK, Alone, Steady, Queued, At
  <1> QED
    BY <1>2, <1>3, <1>5, <1>6

\* Which jobs a write of the status of j by a worker concerns.
LEMMA WorkerMarks ==
    ASSUME Inv, NEW j \in Jobs, NEW s \in JobStatus \ Gone, status' = Marked(j, s)
    PROVE  /\ status' \in [Jobs -> JobStatus]
           /\ \A k \in Jobs : status'[k] = "none" <=> status[k] = "none"
           /\ \A k \in Jobs : status'[k] \in Gone <=> status[k] \in Gone
           /\ \A k \in Jobs \ {j} : status'[k] = status[k]
           /\ status[j] \notin Gone => status'[j] = s
  <1>1. /\ Marked(j, s) \in [Jobs -> JobStatus]
        /\ \A k \in Jobs : Marked(j, s)[k] = IF k = j /\ status[j] \notin Gone THEN s ELSE status[k]
    BY MarkedIs DEF Inv
  <1> QED
    BY <1>1 DEF Gone

LEMMA TakesStep ==
    ASSUME Inv, NEW w \in Workers, Takes(w)
    PROVE  Inv'
  <1>1. /\ TypeOK /\ workers[w].step = "idle" /\ queue # <<>>
        /\ UNCHANGED <<status, items, running, event, stuck, callers, faults, since, doubled>>
    BY DEF Inv, Takes, Works, memory, history
  <1>2. PICK j \in Jobs :
           /\ j = Head(queue) /\ queue[1] = j
           /\ queue' \in Seq(Jobs) /\ Len(queue) \in Nat \ {0} /\ Len(queue') = Len(queue) - 1
           /\ \A n \in 1..Len(queue') : queue'[n] = queue[n + 1]
    BY <1>1 DEF Takes, TypeOK
  <1>3. PICK r \in Worker :
           /\ r.step = "load" /\ r.job = j /\ r.event = "held" /\ j # None
           /\ workers' \in [Workers -> Worker]
           /\ \A v \in Workers \ {w} : workers'[v] = workers[v]
           /\ workers'[w] = workers[w] \/ (workers'[w] = r /\ status[j] \notin Gone)
    <2>1. \/ workers' = workers
          \/ workers' = [workers EXCEPT ![w] = Assigned(j)] /\ status[j] \notin Gone
      BY <1>2 DEF Takes
    <2>2. PICK r \in Worker :
             /\ r = Assigned(j) /\ r.step = "load" /\ r.job = j /\ r.event = "held" /\ j # None
      BY AssignedType, JobsAssumption
    <2> QED
      BY <1>1, <2>1, <2>2, WorkerIs DEF TypeOK
  <1>5. \A k \in Jobs : Queued(k)' => Queued(k)
    BY <1>2 DEF Queued
  <1>6. Queued(j) /\ (status[j] # "completed" \/ j \in doubled)
    BY <1>1, <1>2 DEF Inv, Queued, DoneOK, Done
  <1>7. Queued(j)
    BY <1>2 DEF Queued
  <1>8. TypeOK'
    <2>1. Len(queue') <= MaxQueue
      BY <1>1, <1>2, JobsAssumption DEF TypeOK
    <2>2. \A v \in Workers :
             workers'[v].step \in {"check", "wait", "begin", "item"} => workers'[v].todo # {}
      BY <1>1, <1>3 DEF TypeOK
    <2> QED
      BY <1>1, <1>2, <1>3, <2>1, <2>2 DEF TypeOK
  <1>9. RestOK'
    BY <1>1, <1>3 DEF Inv, RestOK, Works, On
  <1>10. WaitsOK'
    BY <1>1, <1>3 DEF Inv, WaitsOK, Works
  <1>11. UnknownOK'
    BY <1>1, <1>3, <1>5 DEF Inv, UnknownOK, On, Gone
  <1>12. workers[w].job = None
    BY <1>1 DEF Inv, RestOK, Works, On
  <1>13. AloneOK'
    <2>1. ASSUME NEW k \in Jobs \ doubled, k # j
          PROVE  Alone(k)'
      <3>1. \A v \in Workers : On(v, k)' => On(v, k) /\ workers'[v] = workers[v]
        BY <1>3, <2>1 DEF On
      <3> QED
        BY <1>1, <1>2, <1>5, <3>1, SMTT(30) DEF Inv, AloneOK, Alone, At
    <2>2. ASSUME j \notin doubled
          PROVE  Alone(j)'
      <3>1. ~Queued(j)'
        BY <1>2, <2>2 DEF Inv, AloneOK, Alone, Queued
      <3>2. \A v \in Workers : On(v, j)' => v = w /\ workers'[w] = r
        BY <1>2, <1>3, <1>7, <1>12, <2>2, JobsAssumption DEF Inv, AloneOK, Alone, On
      <3>3. \A c \in Callers : ~At(c, j, "start")'
        BY <1>1, <1>2, <1>7, <2>2 DEF Inv, AloneOK, Alone, At
      <3> QED
        BY <1>3, <3>1, <3>2, <3>3 DEF Alone, Queued
    <2> QED
      BY <1>1, <2>1, <2>2 DEF AloneOK
  <1>14. PausedOK'
    BY <1>1, <1>3 DEF Inv, PausedOK, Paused, Works, On
  <1>15. SoundOK'
    BY <1>1, <1>3 DEF Inv, SoundOK, Sound, Works, On
  <1>16. RetryOK'
    BY <1>1 DEF Inv, RetryOK, At
  <1>17. DoneOK'
    BY <1>1, <1>3, <1>5, <1>6 DEF Inv, DoneOK, Done, Works, On, At
  <1> QED
    BY <1>8, <1>9, <1>10, <1>11, <1>13, <1>14, <1>15, <1>16, <1>17 DEF Inv

LEMMA LoadsStep ==
    ASSUME Inv, NEW w \in Workers, Loads(w)
    PROVE  Inv'
  <1>1. PICK j \in Jobs :
           /\ TypeOK /\ workers[w].step = "load" /\ workers[w].job = j
           /\ UNCHANGED <<items, running, event, stuck, queue, callers, faults, since, doubled>>
    BY HasJob DEF Inv, Loads, Works, memory, history
  <1>2. /\ status' \in [Jobs -> JobStatus]
        /\ \A k \in Jobs : status'[k] = "none" <=> status[k] = "none"
        /\ \A k \in Jobs : status'[k] \in Gone <=> status[k] \in Gone
        /\ \A k \in Jobs \ {j} : status'[k] = status[k]
        /\ status[j] \notin Gone => status'[j] = "running"
    <2>1. "running" \in JobStatus \ Gone
      BY DEF JobStatus, Gone
    <2> QED
      BY <1>1, <2>1, WorkerMarks DEF Loads
  <1>3. PICK r \in Worker :
           /\ r.job = j /\ r.event = workers[w].event
           /\ r.step \in {"check", "finish"} /\ r.todo = Unfinished(j)
           /\ r.step = "finish" <=> Unfinished(j) = {}
           /\ r.failed <=> FailedItems(j) # {}
           /\ workers' = [workers EXCEPT ![w] = IF status[j] \in Gone THEN Resting ELSE r]
    <2>1. PICK s \in {"check", "finish"}, f \in BOOLEAN :
             /\ s = IF Unfinished(j) = {} THEN "finish" ELSE "check"
             /\ f <=> FailedItems(j) # {}
      OBVIOUS
    <2>2. PICK r : r = Now(workers[w], s, Unfinished(j), f)
      OBVIOUS
    <2>3. workers' = [workers EXCEPT ![w] = IF status[j] \in Gone THEN Resting ELSE r]
      BY <1>1, <2>1, <2>2 DEF Loads, Now
    <2>4. workers[w] \in Worker /\ s \in WorkerSteps /\ Unfinished(j) \in SUBSET Items
      BY <1>1 DEF TypeOK, WorkerSteps, Unfinished
    <2>5. /\ r \in Worker
          /\ r.step = s /\ r.todo = Unfinished(j) /\ r.failed = f
          /\ r.job = workers[w].job /\ r.event = workers[w].event
      BY <2>2, <2>4, NowIs
    <2> QED
      BY <1>1, <2>1, <2>3, <2>5
  <1>4. /\ workers' \in [Workers -> Worker]
        /\ \A v \in Workers \ {w} : workers'[v] = workers[v]
        /\ \/ workers'[w] = r /\ status[j] \notin Gone
           \/ workers'[w] = Resting /\ status[j] \in Gone
    BY <1>1, <1>3, RestingType, WorkerIs
  <1>5. Resting.step = "idle" /\ Resting.event = "held" /\ Resting.job \notin Jobs
    BY JobsAssumption DEF Resting
  <1>6. TypeOK'
    BY <1>1, <1>2, <1>3, <1>4, <1>5 DEF TypeOK
  <1>7. Steady(w, j)
    BY <1>1, <1>2, <1>3, <1>4, <1>5 DEF Steady
  <1>8. PausedOK'
    BY <1>1, <1>3, <1>4, <1>5 DEF Inv, PausedOK, Paused, Works, On
  <1>9. SoundOK'
    <2>1. ASSUME workers'[w] = r
          PROVE  Sound(w, j)'
      BY <1>1, <1>3, <2>1 DEF Sound, Works, Unfinished, FailedItems, TypeOK, ItemStatus
    <2> QED
      BY <1>1, <1>2, <1>3, <1>4, <1>5, <2>1 DEF Inv, SoundOK, Sound, Works, On
  <1>10. RetryOK'
    BY <1>1 DEF Inv, RetryOK, At
  <1>11. DoneOK'
    <2>1. status'[j] # "completed"
      BY <1>1, <1>2 DEF Gone
    <2> QED
      BY <1>1, <1>2, <1>3, <1>4, <1>5, <2>1 DEF Inv, DoneOK, Done, Works, On, At, Queued
  <1> QED
    BY <1>1, <1>6, <1>7, <1>8, <1>9, <1>10, <1>11, SteadyStep DEF Inv

\* Worker w goes from one step on job j to another and leaves the items as they are.
LEMMA MovesStep ==
    ASSUME Inv, NEW w \in Workers, NEW j \in Jobs, Steady(w, j), TypeOK',
           UNCHANGED <<items, since>>,
           \A k \in Jobs \ {j} : status'[k] = status[k],
           status'[j] \in Gone <=> status[j] \in Gone,
           \/ workers'[w].step \in {"idle", "clean"}
           \/ /\ workers[w].step \in {"check", "wait"} /\ workers'[w].step \in {"wait", "begin"}
              /\ workers'[w].todo = workers[w].todo /\ workers'[w].failed = workers[w].failed,
           workers'[w].step = "begin" /\ j \notin doubled => event[j] # "clear",
           status'[j] = "completed" /\ j \notin doubled =>
              workers'[w].step = "clean" /\ \A i \in Items : items[j][i] = "success"
    PROVE  Inv'
  <1>1. Resting.job = None /\ Resting.step = "idle" /\ None \notin Jobs
    BY JobsAssumption DEF Resting
  <1>2. \A v \in Workers, k \in Jobs : On(v, k)' => On(v, k)
    BY <1>1 DEF Steady, On
  <1>3. \A v \in Workers \ {w} : workers'[v] = workers[v]
    BY DEF Steady
  <1>4. \A k \in Jobs : On(w, k) => k = j
    BY DEF Steady, On
  <1>5. PausedOK'
    <2>1. ASSUME NEW k \in Jobs \ doubled
          PROVE  Paused(k)'
      BY <1>2, <1>3, <1>4, <2>1 DEF Inv, PausedOK, Paused, Steady, Works
    <2> QED
      BY <2>1 DEF PausedOK, Steady
  <1>6. SoundOK'
    <2>1. ASSUME NEW k \in Jobs \ doubled, status'[k] \notin Gone, NEW v \in Workers, On(v, k)',
                 ~Works(v, "load")', ~Works(v, "clean")'
          PROVE  Sound(v, k)'
      <3>1. CASE v = w
        <4>1. k = j /\ On(w, j) /\ workers'[w].step # "idle"
          BY <1>1, <1>2, <1>4, <2>1, <3>1 DEF On, Steady
        <4>2. Sound(w, j)
          BY <2>1, <3>1, <4>1 DEF Inv, SoundOK, Works
        <4> QED
          BY <2>1, <3>1, <4>1, <4>2 DEF Sound, Works
      <3>2. CASE v # w
        BY <1>2, <1>3, <2>1, <3>2 DEF Inv, SoundOK, Sound, Works
      <3> QED
        BY <3>1, <3>2
    <2> QED
      BY <2>1 DEF SoundOK, Steady
  <1>7. RetryOK'
    BY DEF Inv, RetryOK, Steady, At
  <1>8. DoneOK'
    <2>1. ASSUME NEW k \in Jobs \ doubled, k # j, status'[k] = "completed"
          PROVE  Done(k)'
      <3>1. Done(k)
        BY <2>1 DEF Inv, DoneOK
      <3> QED
        BY <1>2, <1>3, <1>4, <2>1, <3>1 DEF Done, Steady, Works, Queued, At
    <2>2. ASSUME j \notin doubled, status'[j] = "completed"
          PROVE  Done(j)'
      <3>1. Alone(j) /\ On(w, j)
        BY <2>2 DEF Inv, AloneOK, Steady, On
      <3> QED
        BY <1>2, <2>2, <3>1 DEF Alone, Done, Steady, Works, Queued, At
    <2> QED
      BY <2>1, <2>2 DEF DoneOK, Steady
  <1> QED
    BY <1>5, <1>6, <1>7, <1>8, SteadyStep DEF Inv

\* A job with a worker that has not yet finished it is not shown as completed.
LEMMA NotCompleted ==
    ASSUME Inv, NEW w \in Workers, NEW j \in Jobs \ doubled, On(w, j), ~Works(w, "clean")
    PROVE  status[j] # "completed"
  BY DEF Inv, DoneOK, Done

LEMMA LoadFailsStep ==
    ASSUME Inv, NEW w \in Workers, LoadFails(w)
    PROVE  Inv'
  <1>1. PICK j \in Jobs :
           /\ TypeOK /\ workers[w].step = "load" /\ workers[w].job = j
           /\ UNCHANGED <<items, running, event, stuck, queue, callers, since, doubled>>
    BY HasJob DEF Inv, LoadFails, Works, memory, history
  <1>2. /\ status' \in [Jobs -> JobStatus]
        /\ \A k \in Jobs : status'[k] = "none" <=> status[k] = "none"
        /\ \A k \in Jobs : status'[k] \in Gone <=> status[k] \in Gone
        /\ \A k \in Jobs \ {j} : status'[k] = status[k]
        /\ status[j] \notin Gone => status'[j] = "failed"
    <2>1. "failed" \in JobStatus \ Gone
      BY DEF JobStatus, Gone
    <2> QED
      BY <1>1, <2>1, WorkerMarks DEF LoadFails
  <1>3. /\ workers' \in [Workers -> Worker]
        /\ \A v \in Workers \ {w} : workers'[v] = workers[v]
        /\ \/ workers'[w] = Resting
           \/ /\ workers'[w].step = "clean" /\ workers'[w].job = j
              /\ workers'[w].event = workers[w].event
    <2>1. CASE workers' = [workers EXCEPT ![w] = Resting]
      BY <1>1, <2>1, RestingType, WorkerIs
    <2>2. CASE Goes(w, "clean")
      BY <1>1, <2>2, GoesIs DEF WorkerSteps
    <2> QED
      BY <2>1, <2>2 DEF LoadFails
  <1>4. Resting.step = "idle" /\ Resting.event = "held"
    BY DEF Resting
  <1>5. TypeOK'
    <2>1. faults' \in 0..MaxFaults
      BY <1>1, JobsAssumption DEF TypeOK, LoadFails
    <2> QED
      BY <1>1, <1>2, <1>3, <1>4, <2>1 DEF TypeOK
  <1>6. Steady(w, j)
    BY <1>1, <1>2, <1>3, <1>4 DEF Steady
  <1>7. status'[j] # "completed" \/ j \in doubled
    BY <1>1, <1>2, NotCompleted DEF On, Works, Gone
  <1> QED
    BY <1>1, <1>2, <1>3, <1>4, <1>5, <1>6, <1>7, MovesStep

LEMMA ChecksStep ==
    ASSUME Inv, NEW w \in Workers, Checks(w)
    PROVE  Inv'
  <1>1. PICK j \in Jobs :
           /\ TypeOK /\ workers[w].step = "check" /\ workers[w].job = j /\ workers[w].todo # {}
           /\ UNCHANGED <<items, running, event, stuck, queue, callers, faults, since, doubled>>
    BY HasJob DEF Inv, TypeOK, Checks, Works, memory, history
  <1>2. /\ status' \in [Jobs -> JobStatus]
        /\ \A k \in Jobs : status'[k] = "none" <=> status[k] = "none"
        /\ \A k \in Jobs : status'[k] \in Gone <=> status[k] \in Gone
        /\ \A k \in Jobs \ {j} : status'[k] = status[k]
        /\ status'[j] \in {status[j], "cancelled"}
    <2>1. "cancelled" \in JobStatus \ Gone
      BY DEF JobStatus, Gone
    <2>2. CASE status' = Marked(j, "cancelled")
      <3>1. status[j] \in Gone => status' = status
        BY <2>2 DEF Marked
      <3> QED
        BY <2>1, <2>2, <3>1, WorkerMarks
    <2>3. CASE UNCHANGED status
      BY <1>1, <2>3 DEF TypeOK
    <2> QED
      BY <1>1, <2>2, <2>3 DEF Checks
  <1>3. PICK s \in {"clean", "wait", "begin"} :
           Goes(w, s) /\ (s = "wait" <=> (event[j] = "clear" /\ j \in running))
           /\ (s = "begin" => event[j] # "clear")
    BY <1>1 DEF Checks
  <1>4. /\ workers' \in [Workers -> Worker]
        /\ workers'[w].step = s /\ workers'[w].job = j
        /\ workers'[w].todo = workers[w].todo /\ workers'[w].failed = workers[w].failed
        /\ workers'[w].event = workers[w].event
        /\ \A v \in Workers \ {w} : workers'[v] = workers[v]
    BY <1>1, <1>3, GoesIs DEF WorkerSteps
  <1>5. TypeOK'
    BY <1>1, <1>2, <1>4 DEF TypeOK
  <1>6. Steady(w, j)
    BY <1>1, <1>2, <1>3, <1>4 DEF Steady
  <1>7. status'[j] # "completed" \/ j \in doubled
    BY <1>1, <1>2, NotCompleted DEF On, Works
  <1> QED
    BY <1>1, <1>2, <1>3, <1>4, <1>5, <1>6, <1>7, MovesStep

LEMMA WaitsStep ==
    ASSUME Inv, NEW w \in Workers, Waits(w)
    PROVE  Inv'
  <1>1. PICK j \in Jobs :
           /\ TypeOK /\ workers[w].step = "wait" /\ workers[w].job = j /\ workers[w].todo # {}
           /\ UNCHANGED <<items, running, event, stuck, queue, callers, faults, since, doubled>>
    BY HasJob DEF Inv, TypeOK, Waits, Works, memory, history
  <1>2. PICK s \in {"clean", "begin"} :
           /\ workers' = [workers EXCEPT ![w].step = s, ![w].event = "held"]
           /\ s = "begin" => Seen(w) = "set"
           /\ status' = Marked(j, "cancelled") \/ UNCHANGED status
    BY <1>1 DEF Waits
  <1>3. /\ status' \in [Jobs -> JobStatus]
        /\ \A k \in Jobs : status'[k] = "none" <=> status[k] = "none"
        /\ \A k \in Jobs : status'[k] \in Gone <=> status[k] \in Gone
        /\ \A k \in Jobs \ {j} : status'[k] = status[k]
        /\ status'[j] \in {status[j], "cancelled"}
    <2>1. "cancelled" \in JobStatus \ Gone
      BY DEF JobStatus, Gone
    <2>2. CASE status' = Marked(j, "cancelled")
      <3>1. status[j] \in Gone => status' = status
        BY <2>2 DEF Marked
      <3> QED
        BY <2>1, <2>2, <3>1, WorkerMarks
    <2>3. CASE UNCHANGED status
      BY <1>1, <2>3 DEF TypeOK
    <2> QED
      BY <1>2, <2>2, <2>3
  <1>4. /\ workers' \in [Workers -> Worker]
        /\ workers'[w].step = s /\ workers'[w].job = j
        /\ workers'[w].todo = workers[w].todo /\ workers'[w].failed = workers[w].failed
        /\ workers'[w].event = "held"
        /\ \A v \in Workers \ {w} : workers'[v] = workers[v]
    BY <1>1, <1>2 DEF TypeOK, Worker, WorkerSteps
  <1>5. TypeOK'
    <2>1. \A v \in Workers : workers'[v].todo = workers[v].todo
      BY <1>4
    <2>2. \A v \in Workers :
             workers'[v].step \in {"check", "wait", "begin", "item"} => workers'[v].todo # {}
      BY <1>1, <1>4, <2>1 DEF TypeOK
    <2> QED
      BY <1>1, <1>3, <1>4, <2>2 DEF TypeOK
  <1>6. Steady(w, j)
    BY <1>1, <1>2, <1>3, <1>4 DEF Steady
  <1>7. status'[j] # "completed" \/ j \in doubled
    BY <1>1, <1>3, NotCompleted DEF On, Works
  <1>8. s = "begin" /\ j \notin doubled => event[j] # "clear"
    BY <1>1, <1>2 DEF Inv, AloneOK, Alone, On, Seen
  <1> QED
    BY <1>1, <1>2, <1>3, <1>4, <1>5, <1>6, <1>7, <1>8, MovesStep

LEMMA FinishesStep ==
    ASSUME Inv, NEW w \in Workers, Finishes(w)
    PROVE  Inv'
  <1>1. PICK j \in Jobs :
           /\ TypeOK /\ workers[w].step = "finish" /\ workers[w].job = j
           /\ UNCHANGED <<items, running, event, stuck, queue, callers, faults, since, doubled>>
    BY HasJob DEF Inv, Finishes, Works, memory, history
  <1>2. PICK s \in {"completed", "completed_with_errors"} :
           status' = Marked(j, s) /\ (s = "completed" => ~workers[w].failed)
    BY <1>1 DEF Finishes
  <1>3. /\ status' \in [Jobs -> JobStatus]
        /\ \A k \in Jobs : status'[k] = "none" <=> status[k] = "none"
        /\ \A k \in Jobs : status'[k] \in Gone <=> status[k] \in Gone
        /\ \A k \in Jobs \ {j} : status'[k] = status[k]
        /\ status[j] \notin Gone => status'[j] = s
    <2>1. s \in JobStatus \ Gone
      BY <1>2 DEF JobStatus, Gone
    <2> QED
      BY <1>2, <2>1, WorkerMarks
  <1>4. /\ workers' \in [Workers -> Worker]
        /\ workers'[w].step = "clean" /\ workers'[w].job = j
        /\ workers'[w].event = workers[w].event
        /\ \A v \in Workers \ {w} : workers'[v] = workers[v]
    BY <1>1, GoesIs DEF Finishes, WorkerSteps
  <1>5. TypeOK'
    <2>1. \A v \in Workers :
             workers'[v].step \in {"check", "wait", "begin", "item"} => workers'[v].todo # {}
      BY <1>1, <1>4, ZenonT(60) DEF TypeOK
    <2>2. workers' \in [Workers -> Worker]
      BY <1>4
    <2>3. /\ items' = items /\ running' = running /\ event' = event /\ stuck' = stuck
          /\ queue' = queue /\ callers' = callers /\ faults' = faults
          /\ since' = since /\ doubled' = doubled
      BY <1>1
    <2>4. TypeOK
      BY <1>1
    <2> QED
      BY <1>3, <2>1, <2>2, <2>3, <2>4, SMTT(60) DEF TypeOK
  <1>6. Steady(w, j)
    BY <1>1, <1>3, <1>4 DEF Steady
  <1>7. status'[j] = "completed" /\ j \notin doubled => \A i \in Items : items[j][i] = "success"
    <2>1. ASSUME status'[j] = "completed", j \notin doubled
          PROVE  \A i \in Items : items[j][i] = "success"
      <3>1. status[j] \notin Gone /\ ~workers[w].failed
        BY <1>2, <1>3, <2>1 DEF Gone
      <3>2. Sound(w, j)
        BY <1>1, <2>1, <3>1 DEF Inv, SoundOK, On, Works
      <3> QED
        BY <1>1, <3>1, <3>2 DEF Sound, Works
    <2> QED
      BY <2>1
  <1> QED
    BY <1>1, <1>3, <1>4, <1>5, <1>6, <1>7, MovesStep

\* What the write of an item by worker w on job j leaves as it is.
Writes(w, j, i) ==
    /\ Steady(w, j) /\ UNCHANGED status
    /\ workers[w].step \in {"begin", "item"}
    /\ \A k \in Jobs \ {j} : items'[k] = items[k]
    /\ \A n \in Items \ {i} : items'[j][n] = items[j][n]
    /\ status[j] \in Gone => items' = items

LEMMA WritesStep ==
    ASSUME Inv, NEW w \in Workers, NEW j \in Jobs, NEW i \in workers[w].todo, Writes(w, j, i),
           TypeOK', PausedOK',
           j \notin doubled /\ status[j] \notin Gone /\ Sound(w, j) => Sound(w, j)'
    PROVE  Inv'
  <1>1. Resting.job = None /\ Resting.step = "idle" /\ None \notin Jobs
    BY JobsAssumption DEF Resting
  <1>2. \A v \in Workers, k \in Jobs : On(v, k)' => On(v, k)
    BY <1>1 DEF Writes, Steady, On
  <1>3. /\ \A v \in Workers \ {w} : workers'[v] = workers[v]
        /\ UNCHANGED <<doubled, queue, callers, status>> /\ On(w, j)
        /\ \A k \in Jobs : On(w, k) => k = j
    BY DEF Writes, Steady, On
  <1>4. ASSUME j \notin doubled, status[j] \notin Gone
        PROVE  Sound(w, j)
    BY <1>3, <1>4 DEF Inv, SoundOK, Writes, Works
  <1>5. SoundOK'
    <2>1. ASSUME NEW k \in Jobs \ doubled, status[k] \notin Gone, NEW v \in Workers, On(v, k)',
                 ~Works(v, "load")', ~Works(v, "clean")'
          PROVE  Sound(v, k)'
      <3>1. CASE v = w
        BY <1>2, <1>3, <1>4, <2>1, <3>1
      <3>2. CASE v # w
        <4>1. On(v, k) /\ workers'[v] = workers[v]
          BY <1>2, <1>3, <2>1, <3>2
        <4>2. k # j
          BY <1>3, <2>1, <3>2, <4>1 DEF Inv, AloneOK, Alone
        <4> QED
          BY <2>1, <4>1, <4>2 DEF Inv, SoundOK, Sound, Works, Writes
      <3> QED
        BY <3>1, <3>2
    <2> QED
      BY <1>3, <2>1 DEF SoundOK
  <1>6. RetryOK'
    <2>1. ASSUME NEW k \in Jobs \ doubled, NEW c \in Callers, At(c, k, "reset"),
                 NEW n \in callers[c].failed
          PROVE  items'[k][n] = "error"
      <3>1. items[k][n] = "error" /\ n \in Items
        BY <2>1 DEF Inv, RetryOK, TypeOK, Caller
      <3>2. CASE k = j /\ status[j] \notin Gone
        <4>1. n # i
          BY <1>4, <2>1, <3>1, <3>2 DEF Sound
        <4> QED
          BY <3>1, <3>2, <4>1 DEF Writes
      <3>3. CASE k # j \/ status[j] \in Gone
        BY <3>1, <3>3 DEF Writes
      <3> QED
        BY <3>2, <3>3
    <2> QED
      BY <1>3, <2>1 DEF Inv, RetryOK, At
  <1>7. DoneOK'
    <2>1. ASSUME NEW k \in Jobs \ doubled, status[k] = "completed"
          PROVE  Done(k)'
      <3>1. Done(k) /\ k # j
        BY <1>3, <2>1 DEF Inv, DoneOK, Done, Works, Writes
      <3> QED
        BY <1>2, <1>3, <2>1, <3>1 DEF Done, Writes, Works, Queued, At
    <2> QED
      BY <1>3, <2>1 DEF DoneOK
  <1> QED
    BY <1>5, <1>6, <1>7, SteadyStep DEF Inv, Writes

LEMMA BeginsStep ==
    ASSUME Inv, NEW w \in Workers, Begins(w)
    PROVE  Inv'
  <1>1. PICK j \in Jobs :
           /\ TypeOK /\ workers[w].step = "begin" /\ workers[w].job = j /\ workers[w].todo # {}
           /\ UNCHANGED <<status, running, event, stuck, queue, callers, faults, doubled>>
    BY HasJob DEF Inv, TypeOK, Begins, Works, memory
  <1>2. PICK i \in Items : i = NextItem(w) /\ i \in workers[w].todo
    BY <1>1, NextItemType
  <1>3. /\ items' \in [Jobs -> [Items -> ItemStatus]]
        /\ status[j] \in Gone => items' = items
        /\ \A k \in Jobs \ {j} : items'[k] = items[k]
        /\ \A n \in Items \ {i} : items'[j][n] = items[j][n]
        /\ status[j] \notin Gone => items'[j][i] = "downloading"
    <2>1. "downloading" \in ItemStatus
      BY DEF ItemStatus
    <2> QED
      BY <1>1, <1>2, <2>1, ItemIsIs DEF Begins
  <1>4. /\ workers' \in [Workers -> Worker]
        /\ workers'[w].step = "item" /\ workers'[w].job = j
        /\ workers'[w].todo = workers[w].todo /\ workers'[w].failed = workers[w].failed
        /\ workers'[w].event = workers[w].event
        /\ \A v \in Workers \ {w} : workers'[v] = workers[v]
    BY <1>1, GoesIs DEF Begins, WorkerSteps
  <1>5. /\ since' \in [Jobs -> 0..2]
        /\ \A k \in Jobs \ {j} : since'[k] = since[k]
        /\ since'[j] = since[j] \/ (event[j] = "clear" /\ since'[j] = since[j] + 1)
    <2>1. CASE event[j] = "clear" /\ since[j] < 2
      <3>1. since' = [since EXCEPT ![j] = @ + 1]
        BY <1>1, <2>1 DEF Begins
      <3>2. since[j] + 1 \in 0..2
        BY <1>1, <2>1 DEF TypeOK
      <3> QED
        BY <1>1, <2>1, <3>1, <3>2 DEF TypeOK
    <2>2. CASE ~(event[j] = "clear" /\ since[j] < 2)
      BY <1>1, <2>2 DEF TypeOK, Begins
    <2> QED
      BY <2>1, <2>2
  <1>6. TypeOK'
    BY <1>1, <1>3, <1>4, <1>5, ZenonT(60) DEF TypeOK
  <1>7. Writes(w, j, i)
    BY <1>1, <1>3, <1>4 DEF Writes, Steady
  <1>8. PausedOK'
    <2>1. ASSUME NEW k \in Jobs \ doubled, k # j
          PROVE  Paused(k)'
      BY <1>1, <1>4, <1>5, <2>1 DEF Inv, PausedOK, Paused, On, Works
    <2>2. ASSUME j \notin doubled
          PROVE  Paused(j)'
      <3>1. \A v \in Workers : On(v, j)' => v = w
        BY <1>1, <1>4, <2>2 DEF Inv, AloneOK, Alone, On
      <3>2. since[j] \in 0..2 /\ since[j] <= 1 /\ (event[j] = "clear" => since[j] # 1)
        BY <1>1, <2>2 DEF Inv, TypeOK, PausedOK, Paused, On, Works
      <3>3. since'[j] <= 1
        BY <1>5, <3>2
      <3> QED
        BY <1>4, <3>1, <3>3 DEF Paused, Works
    <2> QED
      BY <1>1, <2>1, <2>2 DEF PausedOK
  <1>9. status[j] \notin Gone /\ Sound(w, j) => Sound(w, j)'
    <2>1. ASSUME status[j] \notin Gone, Sound(w, j)
          PROVE  Sound(w, j)'
      <3>1. \A n \in workers[w].todo : items'[j][n] \in {"pending", "downloading"}
        <4>1. workers[w].todo \subseteq Items
          BY <1>1 DEF TypeOK, Worker
        <4> QED
          BY <1>3, <2>1, <4>1 DEF Sound
      <3>2. \A n \in Items \ workers[w].todo : items'[j][n] = items[j][n]
        BY <1>2, <1>3
      <3> QED
        BY <1>4, <2>1, <3>1, <3>2 DEF Sound, Works
    <2> QED
      BY <2>1
  <1> QED
    BY <1>2, <1>6, <1>7, <1>8, <1>9, WritesStep

LEMMA EndsStep ==
    ASSUME Inv, NEW w \in Workers, NEW ok \in BOOLEAN, Ends(w, ok)
    PROVE  Inv'
  <1>1. PICK j \in Jobs :
           /\ TypeOK /\ workers[w].step = "item" /\ workers[w].job = j /\ workers[w].todo # {}
           /\ UNCHANGED <<status, running, event, stuck, queue, callers, faults, since, doubled>>
    BY HasJob DEF Inv, TypeOK, Ends, Works, memory, history
  <1>2. PICK i \in Items : i = NextItem(w) /\ i \in workers[w].todo
    BY <1>1, NextItemType
  <1>3. PICK s \in {"success", "error"} : (s = "error" <=> ~ok) /\ ItemIs(w, s)
    BY DEF Ends
  <1>4. /\ items' \in [Jobs -> [Items -> ItemStatus]]
        /\ status[j] \in Gone => items' = items
        /\ \A k \in Jobs \ {j} : items'[k] = items[k]
        /\ \A n \in Items \ {i} : items'[j][n] = items[j][n]
        /\ status[j] \notin Gone => items'[j][i] = s
    BY <1>1, <1>2, <1>3, ItemIsIs DEF ItemStatus
  <1>5. PICK rest \in SUBSET Items, f \in BOOLEAN, t \in {"finish", "check"} :
           /\ rest = workers[w].todo \ {i} /\ (f <=> workers[w].failed \/ ~ok)
           /\ t = "finish" <=> rest = {}
           /\ workers' = [workers EXCEPT ![w] =
                             [@ EXCEPT !.step = t, !.todo = rest, !.failed = f]]
    <2>1. workers[w] \in Worker /\ workers[w].todo \in SUBSET Items /\ workers[w].failed \in BOOLEAN
      BY <1>1 DEF TypeOK, Worker
    <2>2. PICK rest \in SUBSET Items : rest = workers[w].todo \ {i}
      BY <2>1
    <2>3. PICK f \in BOOLEAN : f = (workers[w].failed \/ ~ok)
      BY <2>1
    <2>4. PICK t \in {"finish", "check"} : t = IF rest = {} THEN "finish" ELSE "check"
      OBVIOUS
    <2>5. workers' = [workers EXCEPT ![w].todo = rest, ![w].failed = f, ![w].step = t]
      BY <1>2, <2>2, <2>3, <2>4 DEF Ends
    <2>6. workers' = [workers EXCEPT ![w] = [@ EXCEPT !.step = t, !.todo = rest, !.failed = f]]
      BY <1>1, <2>1, <2>5 DEF TypeOK, Worker
    <2> QED
      BY <2>2, <2>3, <2>4, <2>6
  <1>6. /\ workers' \in [Workers -> Worker]
        /\ workers'[w].step = t /\ workers'[w].job = j
        /\ workers'[w].todo = rest /\ workers'[w].failed = f
        /\ workers'[w].event = workers[w].event
        /\ \A v \in Workers \ {w} : workers'[v] = workers[v]
    <2>1. PICK r : r = Now(workers[w], t, rest, f)
      OBVIOUS
    <2>2. workers[w] \in Worker /\ t \in WorkerSteps
      BY <1>1 DEF TypeOK, WorkerSteps
    <2>3. /\ r \in Worker
          /\ r.step = t /\ r.todo = rest /\ r.failed = f
          /\ r.job = workers[w].job /\ r.event = workers[w].event
      BY <2>1, <2>2, NowIs
    <2>4. workers' = [workers EXCEPT ![w] = r]
      BY <1>5, <2>1 DEF Now
    <2> QED
      BY <1>1, <2>3, <2>4, WorkerIs
  <1>7. TypeOK'
    BY <1>1, <1>4, <1>5, <1>6 DEF TypeOK
  <1>8. Writes(w, j, i)
    BY <1>1, <1>4, <1>6 DEF Writes, Steady
  <1>9. PausedOK'
    BY <1>1, <1>6 DEF Inv, PausedOK, Paused, On, Works
  <1>10. status[j] \notin Gone /\ Sound(w, j) => Sound(w, j)'
    <2>1. ASSUME status[j] \notin Gone, Sound(w, j)
          PROVE  Sound(w, j)'
      <3>1. \A n \in rest : items'[j][n] \in {"pending", "downloading"}
        BY <1>4, <1>5, <2>1 DEF Sound
      <3>2. \A n \in Items \ rest : items'[j][n] = "success" \/ (items'[j][n] = "error" /\ f)
        BY <1>3, <1>4, <1>5, <2>1 DEF Sound
      <3> QED
        BY <1>5, <1>6, <3>1, <3>2 DEF Sound, Works
    <2> QED
      BY <2>1
  <1> QED
    BY <1>2, <1>7, <1>8, <1>9, <1>10, WritesStep

LEMMA CleansStep ==
    ASSUME Inv, NEW w \in Workers, Cleans(w)
    PROVE  Inv'
  <1>1. PICK j \in Jobs :
           /\ TypeOK /\ WaitsOK /\ workers[w].step = "clean" /\ workers[w].job = j
           /\ running' = running \ {j} /\ event' = [event EXCEPT ![j] = "none"]
           /\ workers' = [Forsaken(workers, j) EXCEPT ![w] = Resting]
           /\ UNCHANGED <<status, items, stuck, queue, callers, faults, since, doubled>>
    BY HasJob DEF Inv, Cleans, Works, history
  <1>2. PICK ws \in [Workers -> Worker] :
           /\ ws = Forsaken(workers, j)
           /\ \A v \in Workers :
                 /\ ws[v].step = workers[v].step /\ ws[v].job = workers[v].job
                 /\ ws[v].todo = workers[v].todo /\ ws[v].failed = workers[v].failed
                 /\ workers[v].job # j => ws[v] = workers[v]
                 /\ workers[v].job = j /\ workers[v].step = "wait" => ws[v].event # "held"
    BY <1>1, ForsakenIs
  <1>3. /\ workers' \in [Workers -> Worker] /\ workers'[w] = Resting
        /\ \A v \in Workers \ {w} : workers'[v] = ws[v]
    BY <1>1, <1>2, RestingType
  <1>4. Resting.job = None /\ Resting.step = "idle" /\ None \notin Jobs
    BY JobsAssumption DEF Resting
  <1>5. \A v \in Workers, k \in Jobs : On(v, k)' =>
           /\ On(v, k) /\ v # w
           /\ workers'[v].step = workers[v].step /\ workers'[v].todo = workers[v].todo
           /\ workers'[v].failed = workers[v].failed
           /\ k # j => workers'[v] = workers[v]
    BY <1>2, <1>3, <1>4 DEF On
  <1>6. TypeOK'
    <2>1. event' \in [Jobs -> {"none", "set", "clear"}] /\ running' \subseteq Jobs
      BY <1>1 DEF TypeOK
    <2>2. \A v \in Workers :
             workers'[v].step \in {"check", "wait", "begin", "item"} => workers'[v].todo # {}
      BY <1>1, <1>2, <1>3, <1>4 DEF TypeOK
    <2> QED
      BY <1>1, <1>3, <2>1, <2>2 DEF TypeOK
  <1>7. RestOK'
    BY <1>2, <1>3, <1>4 DEF Inv, RestOK, Works, On
  <1>8. WaitsOK'
    BY <1>1, <1>2, <1>3, <1>4, SMTT(30) DEF WaitsOK, Works, TypeOK
  <1>9. UnknownOK'
    BY <1>1, <1>5 DEF Inv, UnknownOK, Queued
  <1>10. AloneOK'
    <2>1. ASSUME NEW k \in Jobs \ doubled
          PROVE  Alone(k)'
      <3>1. Alone(k) /\ (Alone(j) \/ j \in doubled) /\ On(w, j)
        BY <1>1, <2>1 DEF Inv, AloneOK, On
      <3>2. \A v \in Workers : On(v, k)' => workers'[v].event = "held"
        BY <1>5, <2>1, <3>1 DEF Alone
      <3> QED
        BY <1>1, <1>5, <3>1, <3>2 DEF Alone, At, Queued
    <2> QED
      BY <1>1, <2>1 DEF AloneOK
  <1>11. PausedOK'
    <2>1. ASSUME NEW k \in Jobs \ doubled
          PROVE  Paused(k)'
      <3>1. Paused(k) /\ event'[k] \in {event[k], "none"} /\ since'[k] = since[k]
        BY <1>1, <2>1 DEF Inv, PausedOK, TypeOK
      <3> QED
        BY <1>5, <3>1 DEF Paused, Works
    <2> QED
      BY <1>1, <2>1 DEF PausedOK
  <1>12. SoundOK'
    BY <1>1, <1>5 DEF Inv, SoundOK, Sound, Works
  <1>13. RetryOK'
    BY <1>1 DEF Inv, RetryOK, At
  <1>14. DoneOK'
    BY <1>1, <1>5 DEF Inv, DoneOK, Done, Works, Queued, At
  <1> QED
    BY <1>6, <1>7, <1>8, <1>9, <1>10, <1>11, <1>12, <1>13, <1>14 DEF Inv

LEMMA RestartStep ==
    ASSUME Inv, Restart
    PROVE  Inv'
  <1>1. /\ TypeOK /\ faults' = faults + 1 /\ faults < MaxFaults
        /\ running' = {} /\ stuck' = FALSE /\ queue' = <<>>
        /\ event' \in [Jobs -> {"none", "set", "clear"}] /\ \A k \in Jobs : event'[k] = "none"
        /\ UNCHANGED <<status, items, since, doubled>>
    BY DEF Inv, Restart, history
  <1>2. Resting.step = "idle" /\ Resting.job = None /\ None \notin Jobs
    BY JobsAssumption DEF Resting
  <1>3. workers' \in [Workers -> Worker] /\ \A w \in Workers : workers'[w] = Resting
    BY RestingType DEF Restart
  <1>4. callers' \in [Callers -> Caller] /\ \A c \in Callers : callers'[c] = Ready
    BY DEF Restart, Ready, Caller, CallerSteps
  <1>5. Ready.step = "idle" /\ Ready.job \notin Jobs
    BY <1>2 DEF Ready
  <1>6. TypeOK'
    <2>1. faults' \in 0..MaxFaults
      BY <1>1, JobsAssumption DEF TypeOK
    <2>2. queue' \in Seq(Jobs) /\ Len(queue') <= MaxQueue
      BY <1>1, JobsAssumption
    <2> QED
      BY <1>1, <1>2, <1>3, <1>4, <2>1, <2>2 DEF TypeOK
  <1>7. RestOK' /\ WaitsOK'
    BY <1>2, <1>3 DEF RestOK, WaitsOK, Works, On
  <1>8. UnknownOK'
    BY <1>1, <1>2, <1>3, <1>4, <1>5 DEF UnknownOK, On, Queued
  <1>9. AloneOK'
    BY <1>1, <1>2, <1>3, <1>4, <1>5 DEF AloneOK, Alone, On, Queued, At
  <1>10. PausedOK' /\ SoundOK'
    BY <1>1, <1>2, <1>3 DEF Inv, PausedOK, Paused, SoundOK, On
  <1>11. RetryOK'
    BY <1>4, <1>5 DEF RetryOK, At
  <1>12. DoneOK'
    BY <1>1, <1>2, <1>3, <1>4, <1>5 DEF Inv, DoneOK, Done, On, Queued, At
  <1> QED
    BY <1>6, <1>7, <1>8, <1>9, <1>10, <1>11, <1>12 DEF Inv

-----------------------------------------------------------------------------
(* The theorems *)

LEMMA InitInv == Init => Inv
  <1> SUFFICES ASSUME Init
               PROVE  Inv
    OBVIOUS
  <1>1. Resting.step = "idle" /\ Resting.job = None /\ None \notin Jobs
    BY JobsAssumption DEF Resting
  <1>2. Ready.step = "idle" /\ Ready.job \notin Jobs
    BY <1>1 DEF Ready
  <1>3. /\ status \in [Jobs -> JobStatus] /\ \A j \in Jobs : status[j] = "none"
        /\ queue = <<>> /\ \A j \in Jobs : since[j] = 0
    BY DEF Init, JobStatus, Gone
  <1>4. workers \in [Workers -> Worker] /\ \A w \in Workers : workers[w] = Resting
    BY RestingType DEF Init
  <1>5. callers \in [Callers -> Caller] /\ \A c \in Callers : callers[c] = Ready
    BY DEF Init, Ready, Caller, CallerSteps
  <1>6. TypeOK
    <2>1. queue \in Seq(Jobs) /\ Len(queue) <= MaxQueue /\ 0 \in 0..MaxFaults
      BY <1>3, JobsAssumption
    <2>2. since \in [Jobs -> 0..2] /\ items \in [Jobs -> [Items -> ItemStatus]]
      BY DEF Init, ItemStatus
    <2>3. event \in [Jobs -> {"none", "set", "clear"}] /\ running \subseteq Jobs /\ doubled \subseteq Jobs
      BY DEF Init
    <2> QED
      BY <1>1, <1>3, <1>4, <1>5, <2>1, <2>2, <2>3 DEF Init, TypeOK
  <1>7. RestOK /\ WaitsOK
    BY <1>1, <1>4 DEF RestOK, WaitsOK, Works, On
  <1>8. UnknownOK
    BY <1>1, <1>2, <1>3, <1>4, <1>5 DEF UnknownOK, On, Queued
  <1>9. AloneOK
    BY <1>1, <1>2, <1>3, <1>4, <1>5 DEF AloneOK, Alone, On, Queued, At
  <1>10. PausedOK /\ SoundOK
    BY <1>1, <1>3, <1>4 DEF PausedOK, Paused, SoundOK, On, Gone
  <1>11. RetryOK /\ DoneOK
    BY <1>2, <1>3, <1>5 DEF RetryOK, DoneOK, At
  <1> QED
    BY <1>6, <1>7, <1>8, <1>9, <1>10, <1>11 DEF Inv

LEMMA NextInv == Inv /\ [Next]_vars => Inv'
  <1> SUFFICES ASSUME Inv, [Next]_vars
               PROVE  Inv'
    OBVIOUS
  <1>1. CASE Requests
    <2> SUFFICES ASSUME NEW c \in Callers, NEW j \in Jobs,
                        \/ Create(c, j) \/ Start(c, j) \/ Request(c, j) \/ Pause(c, j)
                        \/ Resume(c, j) \/ CancelMarks(c, j) \/ CancelHangs(c, j)
                        \/ Delete(c, j) \/ Retry(c, j) \/ Reset(c, j)
                 PROVE  Inv'
      BY <1>1 DEF Requests
    <2> QED
      BY CreateStep, StartStep, RequestStep, PauseStep, ResumeStep, CancelMarksStep,
         CancelHangsStep, DeleteStep, RetryStep, ResetStep
  <1>2. CASE \E w \in Workers : Work(w)
    <2> SUFFICES ASSUME NEW w \in Workers, Work(w)
                 PROVE  Inv'
      BY <1>2
    <2> QED
      BY TakesStep, LoadsStep, LoadFailsStep, ChecksStep, WaitsStep, BeginsStep, EndsStep,
         FinishesStep, CleansStep DEF Work
  <1>3. CASE Restart
    BY <1>3, RestartStep
  <1>4. CASE UNCHANGED vars
    BY <1>4 DEF vars, Inv, TypeOK, RestOK, WaitsOK, UnknownOK, AloneOK, Alone, PausedOK, Paused,
               SoundOK, Sound, RetryOK, DoneOK, Done, On, Queued, Works, At
  <1> QED
    BY <1>1, <1>2, <1>3, <1>4 DEF Next

LEMMA Always == Spec => []Inv
  BY InitInv, NextInv, PTL DEF Spec

\* The variables keep their types, and a worker that is about to take an item has one.
THEOREM JobsTypeCorrect == Spec => []TypeOK
  <1>1. Inv => TypeOK
    BY DEF Inv
  <1> QED
    BY Always, <1>1, PTL

\* Once pause_job has answered, its job begins at most the item its worker was about to.
THEOREM PausesHold == Spec => []PauseHolds
  <1>1. Inv => PauseHolds
    BY DEF Inv, PausedOK, Paused, PauseHolds
  <1> QED
    BY Always, <1>1, PTL

\* A job that is shown as completed has all its items.
THEOREM CompletedJobsAreDone == Spec => []CompletedIsDone
  <1>1. Inv => CompletedIsDone
    BY DEF Inv, DoneOK, Done, CompletedIsDone
  <1> QED
    BY Always, <1>1, PTL
=============================================================================
