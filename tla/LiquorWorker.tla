-------------------------- MODULE LiquorWorker --------------------------
(* The worker that synchronises the liquor prices.  A request, by HTTP or by the clock, *)
(* marks the one row of sync_status as running under a new run id and hands the id to   *)
(* the worker through a channel with one place; both under a mutex that the worker's     *)
(* end takes too.  The worker fetches, and completes or fails the run it holds.           *)
(*                                                                                       *)
(* A process is a client's handler or the worker, each at a label of its own.  Statements *)
(* of the database may fail, or be refused because their context was cancelled.          *)
EXTENDS Naturals, Sequences, SequencesExt

CONSTANTS
    Clients,        \* handlers of POST /api/platform/liquor/sync
    Worker,         \* the goroutine of Worker.Run
    None,           \* nobody
    Dates,          \* price dates of snapshots
    MaxRuns,        \* bound: runs begun
    MaxFaults       \* bound: statements of the worker that fail for no reason of its own

Processes == Clients \cup {Worker}

ASSUME WorkerAssumption ==
    /\ Worker \notin Clients
    /\ None \notin Processes
    /\ Dates \subseteq Nat \ {0}
    /\ MaxRuns \in Nat /\ MaxFaults \in Nat

VARIABLES
    state, run,     \* sync_status: state and run_id
    lastDate,       \* sync_status: last_price_date, 0 before the first success
    at,             \* where each process is
    mutex,          \* who holds Worker.mu
    stopped,        \* Worker.stopped
    requests,       \* the channel
    job,            \* the run the worker executes, 0 when none
    timer,          \* the automatic timer: waiting, or due and not yet received
    served,         \* a sync has succeeded since the timer was due
    cancelled,      \* the context of the worker and of the handlers has ended
    faults          \* statements that have failed

row == <<state, run, lastDate>>
vars == <<state, run, lastDate, at, mutex, stopped, requests, job, timer, served, cancelled, faults>>

States == {"idle", "running", "succeeded", "failed", "interrupted"}

Goto(p, label) == at' = [at EXCEPT ![p] = label]

\* A statement of the worker fails: by its context, or for a reason of the database.
Fault == faults < MaxFaults /\ faults' = faults + 1
Refused == (cancelled /\ UNCHANGED faults) \/ Fault

-----------------------------------------------------------------------------
\* Trigger, by a handler or, after the question of the clock, by the worker itself.
Wants(p) == at[p] = IF p = Worker THEN "due" ELSE "arrived"

\* A refused request is answered to a client; the worker goes on, unless the database failed.
AfterTrigger(p) == IF p = Worker THEN "select" ELSE "out"
AfterError(p)   == IF p = Worker THEN "leave" ELSE "out"
Rearmed(p)      == IF p = Worker THEN "waiting" ELSE timer

Lock(p) ==
    /\ Wants(p)
    /\ mutex = None
    /\ ~stopped
    /\ mutex' = p
    /\ Goto(p, "locked")
    /\ UNCHANGED <<row, stopped, requests, job, timer, served, cancelled, faults>>

\* A request that finds the worker stopped.
RefuseStopped(c) ==
    /\ at[c] = "arrived"
    /\ mutex = None
    /\ stopped
    /\ Goto(c, "out")
    /\ UNCHANGED <<row, mutex, stopped, requests, job, timer, served, cancelled, faults>>

RefuseRunning(p) ==
    /\ at[p] = "locked"
    /\ state = "running"
    /\ mutex' = None
    /\ timer' = Rearmed(p)
    /\ Goto(p, AfterTrigger(p))
    /\ UNCHANGED <<row, stopped, requests, job, served, cancelled, faults>>

\* A client may go away at any time; that is no fault of the database.
FailBegin(p) ==
    /\ at[p] = "locked"
    /\ IF p = Worker THEN Refused ELSE UNCHANGED faults
    /\ mutex' = None
    /\ Goto(p, AfterError(p))
    /\ UNCHANGED <<row, stopped, requests, job, timer, served, cancelled>>

\* Mutant: a run is begun whatever the state of the last one is.
BeginAnyway(p) ==
    /\ at[p] = "locked"
    /\ run < MaxRuns
    /\ state' = "running"
    /\ run' = run + 1
    /\ Goto(p, "begun")
    /\ UNCHANGED <<lastDate, mutex, stopped, requests, job, timer, served, cancelled, faults>>

Begin(p) ==
    /\ at[p] = "locked"
    /\ state # "running"
    /\ run < MaxRuns
    /\ state' = "running"
    /\ run' = run + 1
    /\ Goto(p, "begun")
    /\ UNCHANGED <<lastDate, mutex, stopped, requests, job, timer, served, cancelled, faults>>

Send(p) ==
    /\ at[p] = "begun"
    /\ Len(requests) < 1
    /\ requests' = Append(requests, run)
    /\ mutex' = None
    /\ timer' = Rearmed(p)
    /\ Goto(p, AfterTrigger(p))
    /\ UNCHANGED <<row, stopped, job, served, cancelled, faults>>

-----------------------------------------------------------------------------
\* The loop of Run: any branch of its select that is ready may be taken.
Receive ==
    /\ at[Worker] = "select"
    /\ requests # <<>>
    /\ job' = Head(requests)
    /\ requests' = Tail(requests)
    /\ Goto(Worker, "fetch")
    /\ UNCHANGED <<row, mutex, stopped, timer, served, cancelled, faults>>

\* The clock reaches nine or twenty-one o'clock.
TimerDue ==
    /\ timer = "waiting"
    /\ timer' = "due"
    /\ served' = FALSE
    /\ UNCHANGED <<row, at, mutex, stopped, requests, job, cancelled, faults>>

\* requestScheduled reads the status: a sync that runs or has succeeded since serves the slot.
Ask ==
    /\ at[Worker] = "select"
    /\ timer = "due"
    /\ IF state = "running" \/ served
       THEN timer' = "waiting" /\ UNCHANGED at
       ELSE Goto(Worker, "due") /\ UNCHANGED timer
    /\ UNCHANGED <<row, mutex, stopped, requests, job, served, cancelled, faults>>

FailAsk ==
    /\ at[Worker] = "select"
    /\ timer = "due"
    /\ Refused
    /\ Goto(Worker, "leave")
    /\ UNCHANGED <<row, mutex, stopped, requests, job, timer, served, cancelled>>

SeeCancelled ==
    /\ at[Worker] = "select"
    /\ cancelled
    /\ Goto(Worker, "leave")
    /\ UNCHANGED <<row, mutex, stopped, requests, job, timer, served, cancelled, faults>>

-----------------------------------------------------------------------------
\* execute: the source fails, the time is up or the context ends.
FailFetch ==
    /\ at[Worker] = "fetch"
    /\ Goto(Worker, "failing")
    /\ UNCHANGED <<row, mutex, stopped, requests, job, timer, served, cancelled, faults>>

\* Complete, a transaction of the job's context: it refuses a snapshot that is older than
\* the last one and a run that is not the row's, and then the run is to be failed.
Complete(date) ==
    /\ at[Worker] = "fetch"
    /\ ~cancelled
    /\ IF date >= lastDate /\ state = "running" /\ run = job
       THEN /\ state' = "succeeded"
            /\ lastDate' = date
            /\ served' = TRUE
            /\ job' = 0
            /\ Goto(Worker, "select")
       ELSE /\ Goto(Worker, "failing")
            /\ UNCHANGED <<state, lastDate, served, job>>
    /\ UNCHANGED <<run, mutex, stopped, requests, timer, cancelled, faults>>

\* Fail, with a context of its own that outlives the cancellation.
Fail ==
    /\ at[Worker] = "failing"
    /\ state = "running" /\ run = job
    /\ state' = "failed"
    /\ job' = 0
    /\ Goto(Worker, "select")
    /\ UNCHANGED <<run, lastDate, mutex, stopped, requests, timer, served, cancelled, faults>>

\* The failure cannot be stored, or the run is not the row's any more: Run ends.
FailFail ==
    /\ at[Worker] = "failing"
    /\ state = "running" /\ run = job => Fault
    /\ state # "running" \/ run # job => UNCHANGED faults
    /\ job' = 0
    /\ Goto(Worker, "leave")
    /\ UNCHANGED <<row, mutex, stopped, requests, timer, served, cancelled>>

-----------------------------------------------------------------------------
\* Mutant: the end of the worker does not wait for the request that is under way.
LeaveAtOnce ==
    /\ at[Worker] = "leave"
    /\ stopped' = TRUE
    /\ Goto(Worker, "recover")
    /\ UNCHANGED <<row, mutex, requests, job, timer, served, cancelled, faults>>

\* The deferred end of Run: no request is accepted from now on.
Leave ==
    /\ at[Worker] = "leave"
    /\ mutex = None
    /\ stopped' = TRUE
    /\ Goto(Worker, "recover")
    /\ UNCHANGED <<row, mutex, requests, job, timer, served, cancelled, faults>>

Recovered == IF state = "running" THEN "interrupted" ELSE state

RecoverAtEnd ==
    /\ at[Worker] = "recover"
    /\ state' = Recovered
    /\ Goto(Worker, "returned")
    /\ UNCHANGED <<run, lastDate, mutex, stopped, requests, job, timer, served, cancelled, faults>>

FailRecover ==
    /\ at[Worker] = "recover"
    /\ Fault
    /\ Goto(Worker, "broken")
    /\ UNCHANGED <<row, mutex, stopped, requests, job, timer, served, cancelled>>

-----------------------------------------------------------------------------
At(label) == [p \in Processes |-> IF p = Worker THEN label ELSE "out"]

\* NewWorker, or nothing in memory at all.
Renew(label) ==
    /\ at' = At(label)
    /\ mutex' = None
    /\ stopped' = FALSE
    /\ requests' = <<>>
    /\ job' = 0
    /\ timer' = "waiting"
    /\ served' = FALSE
    /\ cancelled' = FALSE

TriggerStep(p) ==
    RefuseRunning(p) \/ FailBegin(p) \/ Begin(p) \/ Send(p)

WorkerStep ==
    \/ Lock(Worker) \/ TriggerStep(Worker)
    \/ Receive \/ Ask \/ FailAsk \/ SeeCancelled
    \/ FailFetch \/ (\E date \in Dates : Complete(date)) \/ Fail \/ FailFail
    \/ Leave \/ RecoverAtEnd \/ FailRecover
=============================================================================
