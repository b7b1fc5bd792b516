--------------------------- MODULE CrawlScheduler ---------------------------
(***************************************************************************)
(* The crawl scheduler of weibospider/scheduler.py: every job is a thread  *)
(* that runs one program (a manual request or a timer callback) over four  *)
(* kinds of crawl.  Weibo tweets and comments have a lock per kind, taken  *)
(* without blocking, and share the blocking _crawl_lock; the two Xueqiu    *)
(* kinds share one reentrant lock.  The running and cancelled flags are    *)
(* plain attributes that any thread reads and writes without a lock.       *)
(*                                                                         *)
(* A thread of the model is an HTTP handler together with the thread it    *)
(* starts, or one timer callback; it becomes idle and may run again.       *)
(***************************************************************************)
EXTENDS Naturals

CONSTANTS
    Threads,      \* handlers with their crawl thread, and timer callbacks
    NoThread,     \* the owner of a free lock
    NoKind,       \* the job of an idle thread, and of one that no cancel has met
    NoProgram,    \* the program of an idle thread
    ProgramsOf    \* [Threads -> SUBSET Programs]: what each thread may run

Weibo  == {"tweet", "comment"}
Xueqiu == {"xq", "xq_comment"}
Kinds  == Weibo \cup Xueqiu
Locks  == Weibo \cup {"xq"}

Pipelines   == {"xq_incremental", "sched_xq"}   \* posts, then comments, in one hold of _xq_lock
WeiboManual == {"sync"}                         \* manual_crawl and manual_incremental
XqManual    == {"xq_full", "xq_incremental", "xq_comments"}
Programs    == WeiboManual \cup XqManual \cup {"sched_tweet", "sched_comment", "sched_xq"}

ASSUME SchedulerAssumption ==
    /\ NoThread \notin Threads
    /\ NoKind \notin Kinds
    /\ NoProgram \notin Programs
    /\ ProgramsOf \in [Threads -> SUBSET Programs]

VARIABLES
    at,          \* [Threads -> Labels]: the next statement of the thread
    program,     \* [Threads -> Programs or NoProgram]: what it was started for
    job,         \* [Threads -> Kinds or NoKind]: the job method it is in
    lock,        \* [Locks -> owner]: _tweet_lock, _comment_lock, _xq_lock
    xqDepth,     \* how often the owner of _xq_lock has acquired it
    crawlLock,   \* owner of _crawl_lock
    running,     \* [Kinds -> BOOLEAN]: the _..._running flags
    cancelled,   \* [Kinds -> BOOLEAN]: the _..._cancelled flags
    doomed       \* history, [Threads -> Kinds or NoKind]: the job an accepted cancel met

schedulerVars == <<at, program, job, lock, xqDepth, crawlLock, running, cancelled, doomed>>
locks == <<lock, xqDepth, crawlLock>>

\* idle; checked: a manual start passed its check of the running flags;
\* enter: at the try-acquire; wait: at the blocking _crawl_lock; clear: about
\* to reset the cancelled flag; poll, fetch: in the crawl function; decide: the
\* pipeline's test between posts and comments; unlock: leaving _crawl_lock;
\* exit, release: the two statements of the finally block.
Labels == {"idle", "checked", "enter", "wait", "clear", "poll", "fetch",
           "decide", "unlock", "exit", "release"}

LockOf(k) == IF k \in Xueqiu THEN "xq" ELSE k

FirstJob(p) ==
    CASE p \in {"sync", "sched_tweet"}               -> "tweet"
      [] p = "sched_comment"                         -> "comment"
      [] p \in {"xq_full"} \cup Pipelines            -> "xq"
      [] p = "xq_comments"                           -> "xq_comment"

\* The comment job called from inside the posts job of the same thread.
Nested(t) == job[t] = "xq_comment" /\ program[t] \in Pipelines

\* The kinds a program goes through.
JobsOf(p) ==
    CASE p = "sync"          -> Weibo
      [] p \in Pipelines     -> Xueqiu
      [] OTHER               -> {FirstJob(p)}

SchedulerInit ==
    /\ at = [t \in Threads |-> "idle"]
    /\ program = [t \in Threads |-> NoProgram]
    /\ job = [t \in Threads |-> NoKind]
    /\ lock = [l \in Locks |-> NoThread]
    /\ xqDepth = 0
    /\ crawlLock = NoThread
    /\ running = [k \in Kinds |-> FALSE]
    /\ cancelled = [k \in Kinds |-> FALSE]
    /\ doomed = [t \in Threads |-> NoKind]

Goto(t, label) == at' = [at EXCEPT ![t] = label]

(***************************************************************************)
(* Requests and timers.                                                    *)
(***************************************************************************)

\* The kinds whose running flag rejects a manual start of program p.
Conflicts(p) == IF p \in WeiboManual THEN Weibo ELSE Xueqiu

\* The flags the manual start of program p resets before it spawns its thread.
ResetBy(p) ==
    CASE p \in WeiboManual                     -> Weibo
      [] p \in {"xq_full", "xq_incremental"}   -> {"xq"}
      [] p = "xq_comments"                     -> {"xq_comment"}

\* First half of a manual start: the running flags are read, nothing is locked.
CheckManual(t, p) ==
    /\ at[t] = "idle"
    /\ p \in ProgramsOf[t] \cap (WeiboManual \cup XqManual)
    /\ \A k \in Conflicts(p) : ~running[k]
    /\ program' = [program EXCEPT ![t] = p]
    /\ job' = [job EXCEPT ![t] = FirstJob(p)]
    /\ Goto(t, "checked")
    /\ UNCHANGED <<locks, running, cancelled, doomed>>

\* Second half: the cancelled flags are reset and the thread is started.
StartManual(t) ==
    /\ at[t] = "checked"
    /\ cancelled' = [k \in Kinds |-> cancelled[k] /\ k \notin ResetBy(program[t])]
    /\ Goto(t, "enter")
    /\ UNCHANGED <<program, job, locks, running, doomed>>

\* A timer fires inside the schedule window (one instance per timer).
StartScheduled(t, p) ==
    /\ at[t] = "idle"
    /\ p \in ProgramsOf[t] \ (WeiboManual \cup XqManual)
    /\ program' = [program EXCEPT ![t] = p]
    /\ job' = [job EXCEPT ![t] = FirstJob(p)]
    /\ Goto(t, "enter")
    /\ UNCHANGED <<locks, running, cancelled, doomed>>

\* The thread is past the statement that resets its flags for this job.
Committed(t) ==
    \/ at[t] \in {"poll", "fetch", "decide", "unlock", "exit", "release"}
    \/ at[t] \in {"enter", "clear"} /\ Nested(t)

\* A manual start that resets a flag of this thread has passed its check and not yet reset it.
Raced(t) ==
    \E u \in Threads : at[u] = "checked" /\ ResetBy(program[u]) \cap JobsOf(program[t]) # {}

\* History: the threads a cancel meets.  It is lost on a job that has yet to forget earlier
\* cancels, and may be on one that a manual start races.
Met == [t \in Threads |-> IF Committed(t) /\ ~Raced(t) THEN job[t] ELSE doomed[t]]

\* Mutant: one flag is forgotten.
CancelButComments ==
    /\ \E k \in Kinds : running[k]
    /\ cancelled' = [k \in Kinds |-> cancelled[k] \/ k # "comment"]
    /\ doomed' = Met
    /\ UNCHANGED <<at, program, job, locks, running>>

\* cancel(): accepted only while some running flag is set; sets every flag.
Cancel ==
    /\ \E k \in Kinds : running[k]
    /\ cancelled' = [k \in Kinds |-> TRUE]
    /\ doomed' = Met
    /\ UNCHANGED <<at, program, job, locks, running>>

(***************************************************************************)
(* The job methods.                                                        *)
(***************************************************************************)

CanAcquire(t, k) == lock[LockOf(k)] = NoThread \/ (k \in Xueqiu /\ lock["xq"] = t)

\* What follows the end of a job method: the next one of a sync, the rest of
\* the posts job of a pipeline, or the end of the thread.
Return(t) ==
    LET resume == (program[t] = "sync" /\ job[t] = "tweet") \/ Nested(t) IN
    /\ job' = [job EXCEPT ![t] = IF ~resume THEN NoKind
                                 ELSE IF Nested(t) THEN "xq" ELSE "comment"]
    /\ Goto(t, IF ~resume THEN "idle" ELSE IF Nested(t) THEN "exit" ELSE "enter")
    /\ program' = [program EXCEPT ![t] = IF resume THEN @ ELSE NoProgram]
    /\ doomed' = [doomed EXCEPT ![t] = IF resume THEN @ ELSE NoKind]

\* Mutant: the finally block also runs for a skipped job.
SkipJobClearing(t) ==
    /\ at[t] = "enter"
    /\ ~CanAcquire(t, job[t])
    /\ Return(t)
    /\ running' = [running EXCEPT ![job[t]] = FALSE]
    /\ UNCHANGED <<locks, cancelled>>

\* acquire(blocking=False) fails: the job is skipped.
SkipJob(t) ==
    /\ at[t] = "enter"
    /\ ~CanAcquire(t, job[t])
    /\ Return(t)
    /\ UNCHANGED <<locks, running, cancelled>>

\* acquire(blocking=False) succeeds; an Xueqiu job sets its running flag at
\* once, a weibo job only after it has _crawl_lock.
EnterJob(t) ==
    LET k == job[t] IN
    /\ at[t] = "enter"
    /\ CanAcquire(t, k)
    /\ lock' = [lock EXCEPT ![LockOf(k)] = t]
    /\ xqDepth' = IF k \in Xueqiu THEN xqDepth + 1 ELSE xqDepth
    /\ running' = IF k \in Xueqiu THEN [running EXCEPT ![k] = TRUE] ELSE running
    /\ Goto(t, IF k \in Xueqiu THEN "clear" ELSE "wait")
    /\ UNCHANGED <<program, job, crawlLock, cancelled, doomed>>

\* Mutant: no serial lock.
TakeNoLock(t) ==
    /\ at[t] = "wait"
    /\ running' = [running EXCEPT ![job[t]] = TRUE]
    /\ Goto(t, "clear")
    /\ UNCHANGED <<program, job, locks, cancelled, doomed>>

TakeCrawlLock(t) ==
    /\ at[t] = "wait"
    /\ crawlLock = NoThread
    /\ crawlLock' = t
    /\ running' = [running EXCEPT ![job[t]] = TRUE]
    /\ Goto(t, "clear")
    /\ UNCHANGED <<program, job, lock, xqDepth, cancelled, doomed>>

\* The job forgets earlier cancels; the posts job forgets both Xueqiu flags,
\* and the comment job nested in it is called with reset_cancel=False.
ClearedBy(t) ==
    CASE job[t] = "xq" -> Xueqiu
      [] Nested(t)     -> {}
      [] OTHER         -> {job[t]}

ClearCancelled(t) ==
    /\ at[t] = "clear"
    /\ cancelled' = [k \in Kinds |-> cancelled[k] /\ k \notin ClearedBy(t)]
    /\ Goto(t, "poll")
    /\ UNCHANGED <<program, job, locks, running, doomed>>

\* Where a job goes when its crawl function returns or raises.
AfterCrawl(t, outcome) ==
    CASE job[t] \in Weibo -> "unlock"
      [] job[t] = "xq" /\ program[t] \in Pipelines /\ outcome = "completed" -> "decide"
      [] OTHER -> "exit"

\* The crawl functions look at their cancelled flag before every user, page or
\* post, and while a spider process runs.
PollCancelled(t) ==
    /\ at[t] = "poll"
    /\ Goto(t, IF cancelled[job[t]] THEN AfterCrawl(t, "cancelled") ELSE "fetch")
    /\ UNCHANGED <<program, job, locks, running, cancelled, doomed>>

\* One more user, page or post; or the end of the crawl, complete or failed.
FetchMore(t) ==
    /\ at[t] = "fetch"
    /\ Goto(t, "poll")
    /\ UNCHANGED <<program, job, locks, running, cancelled, doomed>>

EndCrawl(t, outcome) ==
    /\ at[t] = "fetch"
    /\ Goto(t, AfterCrawl(t, outcome))
    /\ UNCHANGED <<program, job, locks, running, cancelled, doomed>>

\* The pipeline goes on to comments only if it was not cancelled meanwhile.
DecideComments(t) ==
    /\ at[t] = "decide"
    /\ IF cancelled["xq"]
       THEN job' = job /\ Goto(t, "exit")
       ELSE job' = [job EXCEPT ![t] = "xq_comment"] /\ Goto(t, "enter")
    /\ UNCHANGED <<program, locks, running, cancelled, doomed>>

\* Mutant: _crawl_lock is kept.
KeepCrawlLock(t) ==
    /\ at[t] = "unlock"
    /\ Goto(t, "exit")
    /\ UNCHANGED <<program, job, locks, running, cancelled, doomed>>

LeaveCrawlLock(t) ==
    /\ at[t] = "unlock"
    /\ crawlLock' = NoThread
    /\ Goto(t, "exit")
    /\ UNCHANGED <<program, job, lock, xqDepth, running, cancelled, doomed>>

ClearRunning(t) ==
    /\ at[t] = "exit"
    /\ running' = [running EXCEPT ![job[t]] = FALSE]
    /\ Goto(t, "release")
    /\ UNCHANGED <<program, job, locks, cancelled, doomed>>

\* Mutant: a lock that does not count, freed by the nested job.
ReleaseAtOnce(t) ==
    /\ at[t] = "release"
    /\ xqDepth' = IF job[t] \in Xueqiu THEN 0 ELSE xqDepth
    /\ lock' = [lock EXCEPT ![LockOf(job[t])] = NoThread]
    /\ Return(t)
    /\ UNCHANGED <<crawlLock, running, cancelled>>

ReleaseLock(t) ==
    /\ at[t] = "release"
    /\ xqDepth' = IF job[t] \in Xueqiu THEN xqDepth - 1 ELSE xqDepth
    /\ lock' = IF job[t] \in Xueqiu /\ xqDepth > 1
               THEN lock ELSE [lock EXCEPT ![LockOf(job[t])] = NoThread]
    /\ Return(t)
    /\ UNCHANGED <<crawlLock, running, cancelled>>

Step(t) ==
    \/ StartManual(t)
    \/ SkipJob(t)
    \/ EnterJob(t)
    \/ TakeCrawlLock(t)
    \/ ClearCancelled(t)
    \/ PollCancelled(t)
    \/ \E outcome \in {"completed", "failed"} : EndCrawl(t, outcome)
    \/ DecideComments(t)
    \/ LeaveCrawlLock(t)
    \/ ClearRunning(t)
    \/ ReleaseLock(t)

Request(t) == \E p \in Programs : CheckManual(t, p) \/ StartScheduled(t, p)

SchedulerNext ==
    \/ Cancel
    \/ \E t \in Threads : Request(t) \/ Step(t) \/ FetchMore(t)

SchedulerSpec == SchedulerInit /\ [][SchedulerNext]_schedulerVars

\* A started thread keeps running; its crawl function returns (every request
\* and subprocess ends, and the pages are finite); a thread blocked on
\* _crawl_lock gets it, since jobs restart only by timers and requests.
SchedulerFairness ==
    \A t \in Threads :
        /\ WF_schedulerVars(Step(t))
        /\ SF_schedulerVars(TakeCrawlLock(t))
        /\ SF_schedulerVars(\E outcome \in {"completed", "failed"} : EndCrawl(t, outcome))

SchedulerFairSpec == SchedulerSpec /\ SchedulerFairness

-----------------------------------------------------------------------------
(***************************************************************************)
(* Properties.                                                             *)
(***************************************************************************)

SchedulerTypeOK ==
    /\ at \in [Threads -> Labels]
    /\ program \in [Threads -> Programs \cup {NoProgram}]
    /\ job \in [Threads -> Kinds \cup {NoKind}]
    /\ lock \in [Locks -> Threads \cup {NoThread}]
    /\ xqDepth \in 0..2
    /\ crawlLock \in Threads \cup {NoThread}
    /\ running \in [Kinds -> BOOLEAN]
    /\ cancelled \in [Kinds -> BOOLEAN]
    /\ doomed \in [Threads -> Kinds \cup {NoKind}]

\* The thread is inside a weibo crawl, where it reads or writes the posts.
InWeiboCrawl(t) ==
    job[t] \in Weibo /\ at[t] \in {"clear", "poll", "fetch", "unlock"}

\* The thread is inside the Xueqiu posts or comment job.
InXueqiuJob(t) ==
    /\ job[t] \in Xueqiu
    /\ at[t] \notin {"idle", "checked"}
    /\ at[t] = "enter" => Nested(t)

\* The thread is between setting and clearing the running flag of kind k.
Shows(t, k) ==
    \/ job[t] = k /\ at[t] \in {"clear", "poll", "fetch", "decide", "unlock", "exit"}
    \/ k = "xq" /\ Nested(t) /\ at[t] \in {"enter", "clear", "poll", "fetch", "exit", "release"}

\* Tweets and comments are never crawled at the same time, whichever requests
\* and timers started them: a comment crawl that selects its posts sees every
\* post of the tweet crawls before it (the purpose of _crawl_lock).
OneWeiboCrawl ==
    \A t, u \in Threads : InWeiboCrawl(t) /\ InWeiboCrawl(u) => t = u

\* From the start of a posts job to the end of the comment job nested in it no
\* other Xueqiu job runs, although the inner job releases the same lock.
OneXueqiuPipeline ==
    \A t, u \in Threads : InXueqiuJob(t) /\ InXueqiuJob(u) => t = u

\* A running flag is set exactly while some thread is in that job: the status
\* page is right, and no skipped or failed job clears the flag of another.
RunningIsTruth ==
    \A k \in Kinds : running[k] <=> \E t \in Threads : Shows(t, k)

\* A job that a cancel meets after it has forgotten earlier ones makes no further request, and
\* the comments of an Xueqiu pipeline cancelled in its posts phase are not fetched.  Manual starts
\* reset flags without a lock, but none that is checked after the cancel undoes it: the job is
\* seen to run until its end.  One that was checked before may (Raced), and a job that waits for
\* _crawl_lock, or is at its own reset, forgets the cancel.
CancelStopsJob ==
    [][\A t \in Threads :
         doomed[t] # NoKind /\ (doomed[t] = job[t] \/ doomed[t] \in Xueqiu)
           => ~(at[t] = "poll" /\ at'[t] = "fetch")]_schedulerVars

\* A thread that has accepted a cancel fetches nothing more in any later phase.
\* The code breaks this: the comment phase of a sync resets the flag.
CancelStopsSync ==
    [][\A t \in Threads :
         doomed[t] # NoKind => ~(at[t] = "poll" /\ at'[t] = "fetch")]_schedulerVars

\* Every started thread ends, whatever it waits for: no lock is leaked on a
\* skipped, cancelled or failed path, and the locks are taken in one order.
JobsTerminate ==
    \A t \in Threads : at[t] # "idle" ~> at[t] = "idle"

=============================================================================
