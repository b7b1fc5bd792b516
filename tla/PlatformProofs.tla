--------------------------- MODULE PlatformProofs ---------------------------
(***************************************************************************)
(* Proofs about Platform, and with it about LiquorWorker, for any handlers, *)
(* dates and bounds.  Where the run of the row is depends on what the       *)
(* mutex, the channel and the worker's end exclude, so IInv says of every   *)
(* label what its process holds and what the row says meanwhile.            *)
(***************************************************************************)
EXTENDS Platform, TLAPS

Holding == {"locked", "begun"}
WithJob == {"fetch", "failing"}
Ended   == {"recover", "returned", "broken"}
Labels  == Holding \cup WithJob \cup Ended \cup {"none", "out", "arrived", "select", "due", "leave"}

\* The types TypeOK leaves to the reader.
Types ==
    /\ TypeOK
    /\ at \in [Processes -> Labels]
    /\ requests \in Seq(0 .. MaxRuns)
    /\ stopped \in BOOLEAN /\ served \in BOOLEAN /\ cancelled \in BOOLEAN
    /\ others \in BOOLEAN
    /\ faults \in 0 .. MaxFaults

\* Worker.mu is held exactly between its Lock and its Unlock, and the worker's
\* end, which takes it too, leaves nobody inside.
MutexHeld ==
    /\ \A p \in Processes : at[p] \in Holding <=> mutex = p
    /\ stopped <=> at[Worker] \in Ended
    /\ stopped => mutex = None

\* A process that is down has no handlers and no worker, and takes no request.
DownIsEmpty ==
    /\ web = "open" <=> phase = "serving"
    /\ at[Worker] = "none" => phase = "down"
    /\ phase = "returned" => at[Worker] \in {"returned", "broken"}
    /\ phase = "down" => /\ \A c \in Clients : at[c] = "out"
                         /\ at[Worker] \in {"none", "returned", "broken"}

\* The channel holds the run of the row, and the row says it is running until
\* the end of the worker has recovered it.
QueueHeld ==
    requests # <<>> =>
        requests = <<run>> /\ (state = "running" \/ at[Worker] = "returned")

\* Between Begin and the send the run is nowhere else.
BegunHeld ==
    \A p \in Processes : at[p] = "begun" =>
        state = "running" /\ requests = <<>> /\ at[Worker] \notin WithJob

\* The worker executes the run of the row, and nothing waits behind it.
JobHeld ==
    at[Worker] \in WithJob => state = "running" /\ run = job /\ requests = <<>>

IInv == Types /\ MutexHeld /\ DownIsEmpty /\ QueueHeld /\ BegunHeld /\ JobHeld /\ RunIsSomewhere

-----------------------------------------------------------------------------
\* A channel with one place, and a run sent through it.
LEMMA OnePlace ==
    ASSUME NEW S, NEW r \in S
    PROVE  /\ Append(<<>>, r) = <<r>> /\ <<r>> \in Seq(S)
           /\ Head(<<r>>) = r /\ Tail(<<r>>) = <<>> /\ Len(<<r>>) = 1
           /\ <<>> \in Seq(S) /\ Len(<<>>) = 0
OBVIOUS

\* Nothing is in memory before the first start.
LEMMA InitIInv == Init => IInv
<1> SUFFICES ASSUME Init PROVE IInv
  OBVIOUS
<1> USE WorkerAssumption DEF WorkerAssumption, Init, At, Processes, Holding, WithJob, Ended
<1>1. requests \in Seq(0 .. MaxRuns) /\ Len(requests) = 0 /\ 0 \in 0 .. MaxRuns
  BY OnePlace
<1>2. Types
  <2>1. at \in [Processes -> Labels] /\ at[Worker] = "none" /\ \A c \in Clients : at[c] = "out"
    BY DEF Labels
  <2>2. TypeOK
    BY <1>1, <2>1 DEF TypeOK, States
  <2>3. faults \in 0 .. MaxFaults
    OBVIOUS
  <2> QED BY <1>1, <2>1, <2>2, <2>3 DEF Types
<1>3. MutexHeld /\ DownIsEmpty
  BY DEF MutexHeld, DownIsEmpty
<1>4. QueueHeld /\ BegunHeld /\ JobHeld /\ RunIsSomewhere
  BY DEF QueueHeld, BegunHeld, JobHeld, RunIsSomewhere
<1> QED BY <1>2, <1>3, <1>4 DEF IInv

-----------------------------------------------------------------------------
\* A request by anybody goes through the mutex, and begins a run only when the row
\* holds none.
LEMMA TriggerInv ==
    ASSUME IInv, NEW p \in Processes, UNCHANGED process,
           p = Worker => phase \in {"serving", "draining", "waiting"},
           Lock(p) \/ TriggerStep(p)
    PROVE  IInv'
<1> USE WorkerAssumption
    DEF WorkerAssumption, IInv, Types, TypeOK, Processes, Holding, WithJob, Ended, Labels,
        MutexHeld, DownIsEmpty, QueueHeld, BegunHeld, JobHeld, RunIsSomewhere,
        process, row, Goto
<1>1. CASE Lock(p)
  BY <1>1 DEF Lock, Wants
<1>2. CASE RefuseRunning(p)
  BY <1>2 DEF RefuseRunning, AfterTrigger, Rearmed
<1>3. CASE FailBegin(p)
  BY <1>3 DEF FailBegin, AfterError, Refused, Fault
<1>4. CASE Begin(p)
  BY <1>4 DEF Begin, States
<1>5. CASE Send(p)
  <2>1. requests = <<>>
    BY <1>5 DEF Send
  <2>2. /\ requests' = <<run>> /\ requests' # <<>>
        /\ requests' \in Seq(0 .. MaxRuns) /\ Len(requests') = 1
    BY <1>5, <2>1, OnePlace DEF Send
  <2> QED BY <1>5, <2>2 DEF Send, AfterTrigger, Rearmed
<1> QED BY <1>1, <1>2, <1>3, <1>4, <1>5 DEF TriggerStep

\* A handler that has come, or has been refused, holds nothing.
LEMMA ArrivalInv ==
    ASSUME IInv, NEW c \in Clients,
           Request(c) \/ (RefuseStopped(c) /\ UNCHANGED process)
    PROVE  IInv'
<1> USE WorkerAssumption
    DEF WorkerAssumption, IInv, Types, TypeOK, Processes, Holding, WithJob, Ended, Labels,
        MutexHeld, DownIsEmpty, QueueHeld, BegunHeld, JobHeld, RunIsSomewhere,
        process, row, Goto
<1>1. CASE Request(c)
  BY <1>1 DEF Request
<1>2. CASE RefuseStopped(c) /\ UNCHANGED process
  BY <1>2 DEF RefuseStopped
<1> QED BY <1>1, <1>2

-----------------------------------------------------------------------------
\* What the worker does between two requests: it takes up, completes or fails a run,
\* asks for the slot of the clock, and ends.
LEMMA WorkerInv ==
    ASSUME IInv, UNCHANGED process, phase \in {"serving", "draining", "waiting"},
           \/ Receive \/ Ask \/ FailAsk \/ SeeCancelled
           \/ FailFetch \/ (\E date \in Dates : Complete(date)) \/ Fail \/ FailFail
           \/ Leave \/ RecoverAtEnd \/ FailRecover
    PROVE  IInv'
<1> USE WorkerAssumption
    DEF WorkerAssumption, IInv, Types, TypeOK, Processes, Holding, WithJob, Ended, Labels,
        MutexHeld, DownIsEmpty, QueueHeld, BegunHeld, JobHeld, RunIsSomewhere,
        process, row, Goto
<1>1. CASE Receive
  <2>1. requests = <<run>>
    BY <1>1 DEF Receive
  <2>2. job' = run /\ requests' = <<>> /\ requests' \in Seq(0 .. MaxRuns) /\ Len(requests') = 0
    BY <1>1, <2>1, OnePlace DEF Receive
  <2> QED BY <1>1, <2>2 DEF Receive
<1>2. CASE Ask
  BY <1>2 DEF Ask
<1>9. CASE FailAsk
  BY <1>9 DEF FailAsk, Refused, Fault
<1>10. CASE SeeCancelled
  BY <1>10 DEF SeeCancelled
<1>11. CASE FailFetch
  BY <1>11 DEF FailFetch
<1>3. ASSUME NEW date \in Dates, Complete(date) PROVE IInv'
  <2>1. CASE date >= lastDate
    BY <1>3, <2>1 DEF Complete, States
  <2>2. CASE ~(date >= lastDate)
    BY <1>3, <2>2 DEF Complete
  <2> QED BY <2>1, <2>2
<1>4. CASE Fail
  BY <1>4 DEF Fail, States
<1>5. CASE FailFail
  BY <1>5 DEF FailFail, Fault
<1>6. CASE Leave
  BY <1>6 DEF Leave
<1>7. CASE RecoverAtEnd
  BY <1>7 DEF RecoverAtEnd, Recovered, States
<1>8. CASE FailRecover
  BY <1>8 DEF FailRecover, Fault
<1> QED BY <1>1, <1>2, <1>3, <1>4, <1>5, <1>6, <1>7, <1>8, <1>9, <1>10, <1>11

-----------------------------------------------------------------------------
\* The clock, the end of the context, and the end of the service behind it, leave the
\* run where it is.
LEMMA ProcessInv ==
    ASSUME IInv, Clock \/ Cancel \/ OthersReturn \/ Shutdown \/ Return \/ Close
    PROVE  IInv'
<1> USE WorkerAssumption
    DEF WorkerAssumption, IInv, Types, TypeOK, Processes, Holding, WithJob, Ended, Labels,
        MutexHeld, DownIsEmpty, QueueHeld, BegunHeld, JobHeld, RunIsSomewhere,
        process, row, vars
<1>1. CASE Clock
  BY <1>1 DEF Clock, TimerDue
<1>2. CASE Cancel
  BY <1>2 DEF Cancel
<1>3. CASE OthersReturn
  BY <1>3 DEF OthersReturn
<1>6. CASE Shutdown
  BY <1>6 DEF Shutdown
<1>4. CASE Return
  BY <1>4 DEF Return, WorkerEnded
<1>5. CASE Close
  <2>1. \A c \in Clients : at[c] = "out"
    BY <1>5 DEF Close, Handlers
  <2>2. at[Worker] \in {"none", "returned", "broken"}
    BY <1>5 DEF Close
  <2> QED BY <1>5, <2>1, <2>2 DEF Close
<1> QED BY <1>1, <1>2, <1>3, <1>4, <1>5, <1>6

\* A kill forgets what was in memory; a start recovers what the row says of it.
LEMMA RestartInv ==
    ASSUME IInv, Crash \/ Start \/ FailStart
    PROVE  IInv'
<1> USE WorkerAssumption DEF WorkerAssumption, Processes
<1>1. 0 \in 0 .. MaxRuns /\ <<>> \in Seq(0 .. MaxRuns) /\ Len(<<>>) = 0
  BY OnePlace
<1>2. ASSUME NEW label \in {"none", "select"}, Renew(label), UNCHANGED <<run, lastDate, faults>>,
             state' \in {state, Recovered}, others' \in BOOLEAN, phase' \in {"serving", "down"}
      PROVE  Types'
  <2>1. /\ at' \in [Processes -> Labels] /\ at'[Worker] = label
        /\ \A c \in Clients : at'[c] = "out"
    BY <1>2 DEF Renew, At, Labels, Ended
  <2>2. TypeOK'
    BY <1>1, <1>2, <2>1 DEF Renew, IInv, Types, TypeOK, States, Recovered
  <2> QED BY <1>1, <1>2, <2>1, <2>2 DEF Renew, IInv, Types
<1>3. ASSUME NEW label \in {"none", "select"}, Renew(label), label = "none" <=> phase' = "down",
             web' = "open" <=> phase' = "serving", phase' # "returned"
      PROVE  MutexHeld' /\ DownIsEmpty' /\ QueueHeld' /\ BegunHeld' /\ JobHeld'
  <2>1. at'[Worker] = label /\ \A c \in Clients : at'[c] = "out"
    BY <1>3 DEF Renew, At
  <2> QED BY <1>3, <2>1 DEF Renew, MutexHeld, DownIsEmpty, QueueHeld, BegunHeld, JobHeld,
             Holding, WithJob, Ended
<1>5. CASE Crash
  BY <1>2, <1>3, <1>5 DEF Crash, IInv, RunIsSomewhere, row
<1>6. CASE Start
  BY <1>2, <1>3, <1>6 DEF Start, IInv, RunIsSomewhere, Recovered
<1>4. CASE FailStart
  BY <1>4 DEF FailStart, Fault, row, process, IInv, Types, TypeOK, MutexHeld, DownIsEmpty,
     QueueHeld, BegunHeld, JobHeld, RunIsSomewhere
<1> QED BY <1>4, <1>5, <1>6

-----------------------------------------------------------------------------
\* Every step of the platform preserves the invariant.
LEMMA NextIInv == IInv /\ [Next]_all => IInv'
<1> SUFFICES ASSUME IInv, [Next]_all PROVE IInv'
  OBVIOUS
<1>1. CASE UNCHANGED all
  BY <1>1 DEF all, vars, row, IInv, Types, TypeOK, MutexHeld, DownIsEmpty, QueueHeld,
     BegunHeld, JobHeld, RunIsSomewhere
<1>2. CASE Work
  BY <1>2, WorkerAssumption, TriggerInv, WorkerInv DEF Work, Step, WorkerStep, Processes
<1>3. ASSUME NEW c \in Clients, Request(c) \/ Handle(c) PROVE IInv'
  BY <1>3, WorkerAssumption, TriggerInv, ArrivalInv DEF Handle, Processes, WorkerAssumption
<1> QED BY <1>1, <1>2, <1>3, ProcessInv, RestartInv DEF Next

\* The invariant holds throughout.
LEMMA IInvAlways == Spec => []IInv
BY InitIInv, NextIInv, PTL DEF Spec

-----------------------------------------------------------------------------
(***************************************************************************)
(* Results.                                                                *)
(***************************************************************************)
\* The row, the channel with its one place, the labels and the phases are what the
\* code can hold, whatever requests, stops, kills and failed statements follow.
THEOREM Typing == Spec => []TypeOK
<1>1. IInv => TypeOK
  BY DEF IInv, Types
<1> QED BY <1>1, IInvAlways, PTL

\* A run the row calls running is about to be sent, in the channel, with the worker or
\* about to be recovered: no interleaving of a request with the worker's end leaves a
\* running row that nobody will ever settle (Worker.Run, Trigger, stop).
THEOREM RunningIsSomewhere == Spec => []RunIsSomewhere
<1>1. IInv => RunIsSomewhere
  BY DEF IInv
<1> QED BY <1>1, IInvAlways, PTL

\* The run the worker executes is the row's, from the fetch to its end: Complete and
\* Fail never find the row taken over by another request.
THEOREM WorkerKeepsItsRun == Spec => []RunStaysOurs
<1>1. IInv => RunStaysOurs
  BY DEF IInv, JobHeld, WithJob, RunStaysOurs
<1> QED BY <1>1, IInvAlways, PTL

\* Worker.mu excludes: two processes are never between Lock and Unlock at once, and
\* none is once the worker has stopped.
THEOREM MutexExcludes ==
    Spec => [](\A p, q \in Processes :
                   at[p] \in Holding /\ at[q] \in Holding => p = q /\ ~stopped)
<1>1. IInv => \A p, q \in Processes :
                  at[p] \in Holding /\ at[q] \in Holding => p = q /\ ~stopped
  BY WorkerAssumption DEF IInv, MutexHeld, WorkerAssumption
<1> QED BY <1>1, IInvAlways, PTL
=============================================================================
