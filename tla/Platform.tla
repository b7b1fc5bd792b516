---------------------------- MODULE Platform ----------------------------
(* The process of the platform service around the liquor worker: Serve starts the web   *)
(* server and the workers, and when the context ends or one of them does, it cancels     *)
(* them all, waits for the handlers for a while and for the workers, and returns; then   *)
(* the database is closed.  The process may also be killed; the container is started     *)
(* again, and New recovers the row that a run left behind before anything is served.      *)
EXTENDS LiquorWorker

VARIABLES
    phase,          \* of the process
    web,            \* the web server: open, shutting down, or closed
    others          \* the ledger's workers have returned

all == <<vars, phase, web, others>>
process == <<phase, web, others>>

Handlers == {c \in Clients : at[c] # "out"}
WorkerEnded == at[Worker] \in {"returned", "broken"}

-----------------------------------------------------------------------------
\* A handler starts while the server accepts requests, and goes on after it does not:
\* it may come to the mutex at any time before the process ends.
Request(c) ==
    /\ web = "open"
    /\ at[c] = "out"
    /\ Goto(c, "arrived")
    /\ UNCHANGED <<row, mutex, stopped, requests, job, timer, served, cancelled, faults, process>>

Handle(c) == (Lock(c) \/ RefuseStopped(c) \/ TriggerStep(c)) /\ UNCHANGED process

Step(A) == phase \in {"serving", "draining", "waiting"} /\ A /\ UNCHANGED process
Work == Step(WorkerStep)

Clock == phase = "serving" /\ TimerDue /\ UNCHANGED process

\* The first of the channels Serve selects on: a signal, the listener, the liquor worker.
\* The ledger's workers return when the context ends, and not before.
Cancel ==
    /\ phase = "serving"
    /\ phase' = "draining"
    /\ cancelled' = TRUE
    /\ web' = "draining"
    /\ UNCHANGED <<row, at, mutex, stopped, requests, job, timer, served, faults, others>>

OthersReturn ==
    /\ cancelled /\ ~others
    /\ others' = TRUE
    /\ UNCHANGED <<vars, phase, web>>

\* Shutdown returns when no handler is left, or after ten seconds whatever they do.
Shutdown ==
    /\ phase = "draining"
    /\ phase' = "waiting"
    /\ web' = "closed"
    /\ UNCHANGED <<vars, others>>

\* Serve returns when every worker has.
Return ==
    /\ phase = "waiting"
    /\ WorkerEnded /\ others
    /\ phase' = "returned"
    /\ UNCHANGED <<vars, web, others>>

\* Close waits for the connections that handlers still use.
Close ==
    /\ phase = "returned"
    /\ Handlers = {}
    /\ phase' = "down"
    /\ UNCHANGED <<vars, web, others>>

\* The process is killed: what it held in memory is gone.
Crash ==
    /\ phase # "down"
    /\ phase' = "down"
    /\ Renew("none")
    /\ web' = "closed"
    /\ others' = TRUE
    /\ UNCHANGED <<row, faults>>

\* Mutant: what a killed process left behind is taken up by nobody.
StartAsIs ==
    /\ phase = "down"
    /\ Renew("select")
    /\ phase' = "serving"
    /\ web' = "open"
    /\ others' = FALSE
    /\ UNCHANGED <<row, faults>>

\* New recovers; Serve starts the server and the workers.
Start ==
    /\ phase = "down"
    /\ state' = Recovered
    /\ Renew("select")
    /\ phase' = "serving"
    /\ web' = "open"
    /\ others' = FALSE
    /\ UNCHANGED <<run, lastDate, faults>>

FailStart ==
    /\ phase = "down"
    /\ Fault
    /\ UNCHANGED <<row, at, mutex, stopped, requests, job, timer, served, cancelled, process>>

Init ==
    /\ state = "idle" /\ run = 0 /\ lastDate = 0
    /\ at = At("none") /\ mutex = None /\ stopped = FALSE
    /\ requests = <<>> /\ job = 0
    /\ timer = "waiting" /\ served = FALSE
    /\ cancelled = FALSE /\ faults = 0
    /\ phase = "down" /\ web = "closed" /\ others = TRUE

Next ==
    \/ Work \/ Clock
    \/ \E c \in Clients : Request(c) \/ Handle(c)
    \/ Cancel \/ OthersReturn \/ Shutdown \/ Return \/ Close \/ Crash \/ Start \/ FailStart

Spec == Init /\ [][Next]_all

\* Goroutines that can go on do; a mutex is not withheld from one that waits for it, and a
\* select that comes round takes each of its branches (Go's sync.Mutex and select).  The
\* end of a worker is noticed, Shutdown has a timeout, and the container is started again.
\* Signals, requests, crashes and the clock need not happen, and a fetch, which has a
\* timeout, ends with or without a snapshot.
Fairness ==
    /\ WF_all(Work)
    /\ SF_all(Step(Leave \/ Lock(Worker)))
    /\ SF_all(Step(Receive)) /\ SF_all(Step(SeeCancelled))
    /\ \A c \in Clients : WF_all(Handle(c))
    /\ WF_all(Cancel /\ WorkerEnded)
    /\ WF_all(OthersReturn) /\ WF_all(Shutdown) /\ WF_all(Return) /\ WF_all(Close)
    /\ WF_all(Start)

FairSpec == Spec /\ Fairness

-----------------------------------------------------------------------------
\* Types: the row, the labels and the phases are what the code can hold; a channel with one
\* place never holds two runs.
TypeOK ==
    /\ state \in States
    /\ run \in 0 .. MaxRuns /\ job \in 0 .. MaxRuns
    /\ lastDate \in Dates \cup {0}
    /\ \A c \in Clients : at[c] \in {"out", "arrived", "locked", "begun"}
    /\ at[Worker] \in {"none", "select", "due", "locked", "begun", "fetch", "failing",
                       "leave", "recover", "returned", "broken"}
    /\ mutex \in Processes \cup {None}
    /\ Len(requests) <= 1
    /\ timer \in {"waiting", "due"}
    /\ phase \in {"serving", "draining", "waiting", "returned", "down"}

\* A run that the row calls running is somewhere: begun and about to be sent, in the channel
\* of a worker that will come to it, with the worker, or about to be recovered by the
\* worker's end.  A worker that has returned leaves none behind, and no handler that is
\* still under way begins another; only if the recovery fails is it left to the next start.
RunIsSomewhere ==
    state = "running" /\ phase # "down" =>
        /\ at[Worker] # "returned"
        /\ \/ \E p \in Processes : at[p] = "begun"
           \/ requests = <<run>>
           \/ job = run
           \/ at[Worker] \in {"leave", "recover", "broken"}

\* A worker never finds that the run it holds is not the row's: the service does not end
\* because two requests, or a request and a recovery, have crossed.
RunStaysOurs ==
    at[Worker] \in {"fetch", "failing"} /\ phase # "down" => state = "running" /\ run = job

\* Every run ends: it succeeds, fails or is interrupted, be the process stopped or killed.
RunsEnd == state = "running" ~> state # "running"

\* A process whose context has ended ends, and the service is started again.
ShutdownEnds == cancelled ~> phase = "down"
=============================================================================
