---------------------------- MODULE CrawlerProofs ----------------------------
(*****************************************************************************)
(* Proofs about the crawler, for the jobs of CrawlScheduler and for the two  *)
(* crawls of Xueqiu that run in them, XueqiuTimeline and XueqiuComments.     *)
(* Each of the three is proved by itself: they share no variable.            *)
(*****************************************************************************)
EXTENDS CrawlScheduler, XueqiuTimeline, XueqiuComments,
        FiniteSetTheorems, WellFoundedInduction, TLAPS

-----------------------------------------------------------------------------
(*****************************************************************************)
(* The jobs, for any threads and programs.                                   *)
(*                                                                           *)
(* The safety invariants are not inductive: what a thread may do next        *)
(* depends on which locks its program counter says it holds, so IInv ties    *)
(* the two together, lock by lock.                                           *)
(*****************************************************************************)

\* Between entering a job and releasing its lock.
InJob == {"clear", "poll", "fetch", "decide", "unlock", "exit", "release"}

\* Which job a thread can be in at a statement.
JobShape ==
    \A t \in Threads :
        /\ job[t] = NoKind <=> at[t] = "idle"
        /\ at[t] = "checked" => ~Nested(t)
        /\ at[t] = "decide" => job[t] = "xq" /\ program[t] \in Pipelines
        /\ at[t] \in {"wait", "unlock"} => job[t] \in Weibo

\* _crawl_lock is held through a weibo crawl.
CrawlOwner ==
    \A t \in Threads : InWeiboCrawl(t) => crawlLock = t

\* _tweet_lock and _comment_lock are held from the entry of their job to its end.
WeiboOwner ==
    \A t \in Threads : \A k \in Weibo :
        lock[k] = t <=> job[t] = k /\ at[t] \in InJob \cup {"wait"}

\* _xq_lock is held exactly inside the Xueqiu jobs, twice inside a nested one.
XqOwner ==
    /\ \A t \in Threads : lock["xq"] = t <=> InXueqiuJob(t)
    /\ lock["xq"] = NoThread => xqDepth = 0
    /\ \A t \in Threads :
         lock["xq"] = t => xqDepth = IF Nested(t) /\ at[t] # "enter" THEN 2 ELSE 1

IInv == SchedulerTypeOK /\ JobShape /\ CrawlOwner /\ WeiboOwner /\ XqOwner

-----------------------------------------------------------------------------
\* A program starts with one of the four jobs, never with a nested one.
LEMMA FirstJobKind ==
    ASSUME NEW p \in Programs
    PROVE  /\ FirstJob(p) \in Kinds
           /\ p \in Pipelines => FirstJob(p) = "xq"
BY DEF Programs, FirstJob, Kinds, Weibo, Xueqiu, Pipelines, WeiboManual, XqManual

\* The invariant holds before any request.
LEMMA InitIInv == SchedulerInit => IInv
<1> SUFFICES ASSUME SchedulerInit PROVE IInv
  OBVIOUS
<1> USE SchedulerAssumption DEF SchedulerInit
<1>1. SchedulerTypeOK
  BY DEF SchedulerTypeOK, Labels
<1>2. JobShape /\ CrawlOwner /\ WeiboOwner /\ XqOwner
  BY DEF JobShape, CrawlOwner, WeiboOwner, XqOwner, InWeiboCrawl, InXueqiuJob,
         InJob, Locks, Weibo, Nested
<1> QED BY <1>1, <1>2 DEF IInv

-----------------------------------------------------------------------------
\* Every step keeps the variables in their types; the depth of _xq_lock stays
\* at most 2 because only a nested job acquires it again.
LEMMA SchedulerTypeStep == IInv /\ [SchedulerNext]_schedulerVars => SchedulerTypeOK'
<1> SUFFICES ASSUME IInv, [SchedulerNext]_schedulerVars PROVE SchedulerTypeOK'
  OBVIOUS
<1> USE SchedulerAssumption DEF IInv, SchedulerTypeOK, locks
<1>1. CASE UNCHANGED schedulerVars
  BY <1>1 DEF schedulerVars
<1>2. CASE Cancel
  BY <1>2 DEF Cancel, Met, Kinds
<1>3. ASSUME NEW t \in Threads, NEW p \in Programs, CheckManual(t, p) \/ StartScheduled(t, p)
      PROVE  SchedulerTypeOK'
  BY <1>3, FirstJobKind DEF CheckManual, StartScheduled, Goto, Labels
<1>4. ASSUME NEW t \in Threads, StartManual(t) PROVE SchedulerTypeOK'
  BY <1>4 DEF StartManual, Goto, Labels
<1>5. ASSUME NEW t \in Threads, SkipJob(t) PROVE SchedulerTypeOK'
  BY <1>5 DEF SkipJob, Return, Goto, Labels, Kinds, Weibo, Xueqiu
<1>6. ASSUME NEW t \in Threads, EnterJob(t) PROVE SchedulerTypeOK'
  <2>1. job[t] \in Xueqiu => xqDepth \in 0..1
    BY <1>6 DEF EnterJob, CanAcquire, LockOf, XqOwner, JobShape
  <2>2. xqDepth' \in 0..2
    BY <1>6, <2>1 DEF EnterJob
  <2>3. lock' \in [Locks -> Threads \cup {NoThread}]
    BY <1>6 DEF EnterJob
  <2> QED BY <1>6, <2>2, <2>3 DEF EnterJob, Goto, Labels
<1>7. ASSUME NEW t \in Threads, TakeCrawlLock(t) PROVE SchedulerTypeOK'
  BY <1>7 DEF TakeCrawlLock, Goto, Labels
<1>8. ASSUME NEW t \in Threads, ClearCancelled(t) PROVE SchedulerTypeOK'
  BY <1>8 DEF ClearCancelled, Goto, Labels
<1>9. ASSUME NEW t \in Threads,
             PollCancelled(t) \/ FetchMore(t) \/ (\E o \in {"completed", "failed"} : EndCrawl(t, o))
      PROVE  SchedulerTypeOK'
  <2>1. \A o : AfterCrawl(t, o) \in Labels
    BY DEF AfterCrawl, Labels
  <2> QED BY <1>9, <2>1 DEF PollCancelled, FetchMore, EndCrawl, Goto, Labels
<1>10. ASSUME NEW t \in Threads, DecideComments(t) PROVE SchedulerTypeOK'
  BY <1>10 DEF DecideComments, Goto, Labels, Kinds, Xueqiu
<1>11. ASSUME NEW t \in Threads, LeaveCrawlLock(t) \/ ClearRunning(t) PROVE SchedulerTypeOK'
  BY <1>11 DEF LeaveCrawlLock, ClearRunning, Goto, Labels
<1>12. ASSUME NEW t \in Threads, ReleaseLock(t) PROVE SchedulerTypeOK'
  <2>1. job[t] \in Xueqiu => xqDepth \in 1..2
    BY <1>12 DEF ReleaseLock, XqOwner, InXueqiuJob
  <2>2. xqDepth' \in 0..2
    BY <1>12, <2>1 DEF ReleaseLock
  <2>3. lock' \in [Locks -> Threads \cup {NoThread}]
    BY <1>12 DEF ReleaseLock
  <2> QED BY <1>12, <2>2, <2>3 DEF ReleaseLock, Return, Goto, Labels, Kinds, Weibo, Xueqiu
<1> QED BY <1>1, <1>2, <1>3, <1>4, <1>5, <1>6, <1>7, <1>8, <1>9, <1>10, <1>11, <1>12
       DEF SchedulerNext, Step, Request

-----------------------------------------------------------------------------
\* No step takes a thread to a statement its job does not have.
LEMMA JobShapeStep == IInv /\ [SchedulerNext]_schedulerVars => JobShape'
<1> SUFFICES ASSUME IInv, [SchedulerNext]_schedulerVars PROVE JobShape'
  OBVIOUS
<1> USE SchedulerAssumption DEF IInv, SchedulerTypeOK, locks, JobShape, Nested, Weibo, Xueqiu, Kinds
<1>1. CASE UNCHANGED schedulerVars \/ Cancel
  BY <1>1 DEF schedulerVars, Cancel
<1>3. ASSUME NEW t \in Threads, NEW p \in Programs, CheckManual(t, p) \/ StartScheduled(t, p)
      PROVE  JobShape'
  BY <1>3, FirstJobKind DEF CheckManual, StartScheduled, Goto
<1>4. ASSUME NEW t \in Threads, StartManual(t) PROVE JobShape'
  BY <1>4 DEF StartManual, Goto
<1>5. ASSUME NEW t \in Threads, SkipJob(t) PROVE JobShape'
  BY <1>5 DEF SkipJob, Return, Goto
<1>6. ASSUME NEW t \in Threads, EnterJob(t) PROVE JobShape'
  BY <1>6 DEF EnterJob, Goto
<1>7. ASSUME NEW t \in Threads, TakeCrawlLock(t) \/ ClearCancelled(t) PROVE JobShape'
  BY <1>7 DEF TakeCrawlLock, ClearCancelled, Goto
<1>9. ASSUME NEW t \in Threads,
             PollCancelled(t) \/ FetchMore(t) \/ (\E o \in {"completed", "failed"} : EndCrawl(t, o))
      PROVE  JobShape'
  BY <1>9 DEF PollCancelled, FetchMore, EndCrawl, AfterCrawl, Goto
<1>10. ASSUME NEW t \in Threads, DecideComments(t) PROVE JobShape'
  BY <1>10 DEF DecideComments, Goto
<1>11. ASSUME NEW t \in Threads, LeaveCrawlLock(t) \/ ClearRunning(t) PROVE JobShape'
  BY <1>11 DEF LeaveCrawlLock, ClearRunning, Goto
<1>12. ASSUME NEW t \in Threads, ReleaseLock(t) PROVE JobShape'
  BY <1>12 DEF ReleaseLock, Return, Goto
<1> QED BY <1>1, <1>3, <1>4, <1>5, <1>6, <1>7, <1>9, <1>10, <1>11, <1>12
       DEF SchedulerNext, Step, Request

\* Only the holder of _crawl_lock enters or leaves a weibo crawl.
LEMMA CrawlOwnerStep == IInv /\ [SchedulerNext]_schedulerVars => CrawlOwner'
<1> SUFFICES ASSUME IInv, [SchedulerNext]_schedulerVars PROVE CrawlOwner'
  OBVIOUS
<1> USE SchedulerAssumption DEF IInv, SchedulerTypeOK, locks, CrawlOwner, InWeiboCrawl, JobShape, Weibo, Xueqiu, Kinds
<1>1. CASE UNCHANGED schedulerVars \/ Cancel
  BY <1>1 DEF schedulerVars, Cancel
<1>3. ASSUME NEW t \in Threads, NEW p \in Programs, CheckManual(t, p) \/ StartScheduled(t, p)
      PROVE  CrawlOwner'
  BY <1>3, FirstJobKind DEF CheckManual, StartScheduled, Goto
<1>4. ASSUME NEW t \in Threads, StartManual(t) PROVE CrawlOwner'
  BY <1>4 DEF StartManual, Goto
<1>5. ASSUME NEW t \in Threads, SkipJob(t) PROVE CrawlOwner'
  BY <1>5 DEF SkipJob, Return, Goto
<1>6. ASSUME NEW t \in Threads, EnterJob(t) PROVE CrawlOwner'
  BY <1>6 DEF EnterJob, Goto
<1>7. ASSUME NEW t \in Threads, TakeCrawlLock(t) \/ ClearCancelled(t) PROVE CrawlOwner'
  BY <1>7 DEF TakeCrawlLock, ClearCancelled, Goto
<1>9. ASSUME NEW t \in Threads,
             PollCancelled(t) \/ FetchMore(t) \/ (\E o \in {"completed", "failed"} : EndCrawl(t, o))
      PROVE  CrawlOwner'
  BY <1>9 DEF PollCancelled, FetchMore, EndCrawl, AfterCrawl, Goto
<1>10. ASSUME NEW t \in Threads, DecideComments(t) PROVE CrawlOwner'
  BY <1>10 DEF DecideComments, Goto
<1>11. ASSUME NEW t \in Threads, LeaveCrawlLock(t) \/ ClearRunning(t) PROVE CrawlOwner'
  BY <1>11 DEF LeaveCrawlLock, ClearRunning, Goto
<1>12. ASSUME NEW t \in Threads, ReleaseLock(t) PROVE CrawlOwner'
  BY <1>12 DEF ReleaseLock, Return, Goto
<1> QED BY <1>1, <1>3, <1>4, <1>5, <1>6, <1>7, <1>9, <1>10, <1>11, <1>12
       DEF SchedulerNext, Step, Request

\* The two non-blocking weibo locks change hands only at the ends of a job.
LEMMA WeiboOwnerStep == IInv /\ [SchedulerNext]_schedulerVars => WeiboOwner'
<1> SUFFICES ASSUME IInv, [SchedulerNext]_schedulerVars PROVE WeiboOwner'
  OBVIOUS
<1> USE SchedulerAssumption DEF IInv, SchedulerTypeOK, locks, WeiboOwner, InJob, JobShape, Weibo, Xueqiu, Kinds, Locks, Nested
<1>1. CASE UNCHANGED schedulerVars \/ Cancel
  BY <1>1 DEF schedulerVars, Cancel
<1>3. ASSUME NEW t \in Threads, NEW p \in Programs, CheckManual(t, p) \/ StartScheduled(t, p)
      PROVE  WeiboOwner'
  BY <1>3, FirstJobKind DEF CheckManual, StartScheduled, Goto
<1>4. ASSUME NEW t \in Threads, StartManual(t) PROVE WeiboOwner'
  BY <1>4 DEF StartManual, Goto
<1>5. ASSUME NEW t \in Threads, SkipJob(t) PROVE WeiboOwner'
  BY <1>5 DEF SkipJob, Return, Goto, LockOf, CanAcquire
<1>6. ASSUME NEW t \in Threads, EnterJob(t) PROVE WeiboOwner'
  BY <1>6 DEF EnterJob, Goto, LockOf, CanAcquire
<1>7. ASSUME NEW t \in Threads, TakeCrawlLock(t) \/ ClearCancelled(t) PROVE WeiboOwner'
  BY <1>7 DEF TakeCrawlLock, ClearCancelled, Goto
<1>9. ASSUME NEW t \in Threads,
             PollCancelled(t) \/ FetchMore(t) \/ (\E o \in {"completed", "failed"} : EndCrawl(t, o))
      PROVE  WeiboOwner'
  BY <1>9 DEF PollCancelled, FetchMore, EndCrawl, AfterCrawl, Goto
<1>10. ASSUME NEW t \in Threads, DecideComments(t) PROVE WeiboOwner'
  BY <1>10 DEF DecideComments, Goto
<1>11. ASSUME NEW t \in Threads, LeaveCrawlLock(t) \/ ClearRunning(t) PROVE WeiboOwner'
  BY <1>11 DEF LeaveCrawlLock, ClearRunning, Goto
<1>12. ASSUME NEW t \in Threads, ReleaseLock(t) PROVE WeiboOwner'
  BY <1>12 DEF ReleaseLock, Return, Goto, LockOf
<1> QED BY <1>1, <1>3, <1>4, <1>5, <1>6, <1>7, <1>9, <1>10, <1>11, <1>12
       DEF SchedulerNext, Step, Request

\* The nested comment job leaves _xq_lock with the posts job that called it.
LEMMA XqOwnerStep == IInv /\ [SchedulerNext]_schedulerVars => XqOwner'
<1> SUFFICES ASSUME IInv, [SchedulerNext]_schedulerVars PROVE XqOwner'
  OBVIOUS
<1> USE SchedulerAssumption DEF IInv, SchedulerTypeOK, locks, XqOwner, InXueqiuJob, JobShape, Weibo, Xueqiu, Kinds, Locks, Nested
<1>1. CASE UNCHANGED schedulerVars \/ Cancel
  BY <1>1 DEF schedulerVars, Cancel
<1>3. ASSUME NEW t \in Threads, NEW p \in Programs, CheckManual(t, p) \/ StartScheduled(t, p)
      PROVE  XqOwner'
  BY <1>3, FirstJobKind DEF CheckManual, StartScheduled, Goto
<1>4. ASSUME NEW t \in Threads, StartManual(t) PROVE XqOwner'
  BY <1>4 DEF StartManual, Goto
<1>5. ASSUME NEW t \in Threads, SkipJob(t) PROVE XqOwner'
  BY <1>5 DEF SkipJob, Return, Goto, LockOf, CanAcquire
<1>6. ASSUME NEW t \in Threads, EnterJob(t) PROVE XqOwner'
  BY <1>6 DEF EnterJob, Goto, LockOf, CanAcquire
<1>7. ASSUME NEW t \in Threads, TakeCrawlLock(t) \/ ClearCancelled(t) PROVE XqOwner'
  BY <1>7 DEF TakeCrawlLock, ClearCancelled, Goto
<1>9. ASSUME NEW t \in Threads,
             PollCancelled(t) \/ FetchMore(t) \/ (\E o \in {"completed", "failed"} : EndCrawl(t, o))
      PROVE  XqOwner'
  BY <1>9 DEF PollCancelled, FetchMore, EndCrawl, AfterCrawl, Goto
<1>10. ASSUME NEW t \in Threads, DecideComments(t) PROVE XqOwner'
  BY <1>10 DEF DecideComments, Goto
<1>11. ASSUME NEW t \in Threads, LeaveCrawlLock(t) \/ ClearRunning(t) PROVE XqOwner'
  BY <1>11 DEF LeaveCrawlLock, ClearRunning, Goto
<1>12. ASSUME NEW t \in Threads, ReleaseLock(t) PROVE XqOwner'
  BY <1>12 DEF ReleaseLock, Return, Goto, LockOf
<1> QED BY <1>1, <1>3, <1>4, <1>5, <1>6, <1>7, <1>9, <1>10, <1>11, <1>12
       DEF SchedulerNext, Step, Request

\* IInv holds in every reachable state.
THEOREM Invariance == SchedulerSpec => []IInv
<1>1. IInv /\ [SchedulerNext]_schedulerVars => IInv'
  BY SchedulerTypeStep, JobShapeStep, CrawlOwnerStep, WeiboOwnerStep, XqOwnerStep DEF IInv
<1> QED BY InitIInv, <1>1, PTL DEF SchedulerSpec

\* The state variables keep their types; _xq_lock is never acquired a third time.
THEOREM SchedulerTyping == SchedulerSpec => []SchedulerTypeOK
<1>1. IInv => SchedulerTypeOK
  BY DEF IInv
<1> QED BY Invariance, <1>1, PTL

\* Two threads are never inside weibo crawls at once, whatever jobs they run:
\* each of them would be the owner of _crawl_lock.
THEOREM WeiboCrawlsAreSerial == SchedulerSpec => []OneWeiboCrawl
<1>1. IInv => OneWeiboCrawl
  BY DEF IInv, CrawlOwner, OneWeiboCrawl
<1> QED BY Invariance, <1>1, PTL

\* A pipeline keeps the Xueqiu crawls to itself from its posts to the end of its
\* comments, although the comment job releases the lock it runs under.
THEOREM XueqiuPipelineIsExclusive == SchedulerSpec => []OneXueqiuPipeline
<1>1. IInv => OneXueqiuPipeline
  BY DEF IInv, XqOwner, OneXueqiuPipeline
<1> QED BY Invariance, <1>1, PTL

-----------------------------------------------------------------------------
\* Whoever shows a running flag owns the lock of that kind.
LEMMA ShownByOwner ==
    ASSUME IInv, NEW t \in Threads, NEW k \in Kinds, Shows(t, k)
    PROVE  lock[LockOf(k)] = t /\ (k \in Xueqiu => InXueqiuJob(t))
BY DEF IInv, Shows, WeiboOwner, XqOwner, JobShape, InXueqiuJob, InJob, LockOf,
       Nested, Kinds, Weibo, Xueqiu

\* The running flags follow the threads: the statement that changes a flag is
\* executed by the owner of the lock of its kind.
LEMMA RunningStep == IInv /\ RunningIsTruth /\ [SchedulerNext]_schedulerVars => RunningIsTruth'
<1> SUFFICES ASSUME IInv, RunningIsTruth, [SchedulerNext]_schedulerVars, NEW k \in Kinds
             PROVE  running'[k] <=> \E t \in Threads : Shows(t, k)'
  BY DEF RunningIsTruth
<1>a. running[k] <=> \E t \in Threads : Shows(t, k)
  BY DEF RunningIsTruth
<1>u. \A t, u \in Threads : Shows(t, k) /\ Shows(u, k) => t = u
  BY ShownByOwner
<1>t. SchedulerTypeOK /\ JobShape /\ XqOwner /\ WeiboOwner
  BY DEF IInv
<1> USE DEF Shows, Nested
<1>1. CASE UNCHANGED schedulerVars \/ Cancel
  BY <1>1, <1>a DEF schedulerVars, Cancel, locks
<1> HIDE DEF Shows, Nested
<1> DEFINE Others(t) == \A u \in Threads \ {t} :
                           at'[u] = at[u] /\ job'[u] = job[u] /\ program'[u] = program[u]
           Goal == running'[k] <=> \E u \in Threads : Shows(u, k)'
<1>2. ASSUME NEW t \in Threads, Others(t), running'[k] = running[k], Shows(t, k)' <=> Shows(t, k)
      PROVE  Goal
  BY <1>2, <1>a DEF Shows, Nested
<1>3. ASSUME NEW t \in Threads, Others(t), running'[k] = FALSE, Shows(t, k), ~Shows(t, k)'
      PROVE  Goal
  BY <1>3, <1>a, <1>u DEF Shows, Nested
<1>4. ASSUME NEW t \in Threads, running'[k] = TRUE, Shows(t, k)'
      PROVE  Goal
  BY <1>4
<1> USE <1>t DEF SchedulerTypeOK, JobShape, Kinds, Weibo, Xueqiu, locks
<1>5. ASSUME NEW t \in Threads, NEW p \in Programs, CheckManual(t, p) \/ StartScheduled(t, p) PROVE Goal
  <2>1. Others(t)
    BY <1>5 DEF CheckManual, StartScheduled, Goto
  <2>2. running'[k] = running[k] /\ (Shows(t, k)' <=> Shows(t, k))
    BY <1>5, FirstJobKind DEF CheckManual, StartScheduled, Goto, Shows, Nested
  <2> QED BY <2>1, <2>2, <1>2
<1>6. ASSUME NEW t \in Threads, StartManual(t) PROVE Goal
  <2>1. Others(t)
    BY <1>6 DEF StartManual, Goto
  <2>2. running'[k] = running[k] /\ (Shows(t, k)' <=> Shows(t, k))
    BY <1>6, FirstJobKind DEF StartManual, Goto, Shows, Nested
  <2> QED BY <2>1, <2>2, <1>2
<1>7. ASSUME NEW t \in Threads, SkipJob(t) PROVE Goal
  <2>1. Others(t)
    BY <1>7 DEF SkipJob, Return, XqOwner, InXueqiuJob, CanAcquire, LockOf, Goto
  <2>2. running'[k] = running[k] /\ (Shows(t, k)' <=> Shows(t, k))
    BY <1>7, FirstJobKind DEF SkipJob, Return, XqOwner, InXueqiuJob, CanAcquire, LockOf, Goto, Shows, Nested
  <2> QED BY <2>1, <2>2, <1>2
<1>8. ASSUME NEW t \in Threads, EnterJob(t) PROVE Goal
  <2>1. Others(t)
    BY <1>8 DEF EnterJob, Goto
  <2>2. CASE k = job[t] /\ k \in Xueqiu
    <3>1. running'[k] = TRUE /\ Shows(t, k)'
      BY <1>8, <2>2 DEF EnterJob, Goto, Shows
    <3> QED BY <3>1, <1>4
  <2>3. CASE ~(k = job[t] /\ k \in Xueqiu)
    <3>1. running'[k] = running[k] /\ (Shows(t, k)' <=> Shows(t, k))
      BY <1>8, <2>3 DEF EnterJob, Goto, Shows, Nested
    <3> QED BY <2>1, <3>1, <1>2
  <2> QED BY <2>2, <2>3
<1>9. ASSUME NEW t \in Threads, TakeCrawlLock(t) PROVE Goal
  <2>1. Others(t)
    BY <1>9 DEF TakeCrawlLock, Goto
  <2>2. CASE k = job[t]
    BY <1>9, <2>2, <1>4 DEF TakeCrawlLock, Goto, Shows, Nested
  <2>3. CASE k # job[t]
    <3>1. running'[k] = running[k] /\ (Shows(t, k)' <=> Shows(t, k))
      BY <1>9, <2>3 DEF TakeCrawlLock, Goto, Shows, Nested
    <3> QED BY <2>1, <3>1, <1>2
  <2> QED BY <2>2, <2>3
<1>10. ASSUME NEW t \in Threads, ClearCancelled(t) PROVE Goal
  <2>1. Others(t)
    BY <1>10 DEF ClearCancelled, Goto
  <2>2. running'[k] = running[k] /\ (Shows(t, k)' <=> Shows(t, k))
    BY <1>10, FirstJobKind DEF ClearCancelled, Goto, Shows, Nested
  <2> QED BY <2>1, <2>2, <1>2
<1>11. ASSUME NEW t \in Threads, PollCancelled(t) \/ FetchMore(t) \/ (\E o \in {"completed", "failed"} : EndCrawl(t, o)) PROVE Goal
  <2>1. Others(t)
    BY <1>11 DEF PollCancelled, FetchMore, EndCrawl, AfterCrawl, Goto
  <2>2. running'[k] = running[k] /\ (Shows(t, k)' <=> Shows(t, k))
    BY <1>11, FirstJobKind DEF PollCancelled, FetchMore, EndCrawl, AfterCrawl, Goto, Shows, Nested
  <2> QED BY <2>1, <2>2, <1>2
<1>12. ASSUME NEW t \in Threads, DecideComments(t) PROVE Goal
  <2>1. Others(t)
    BY <1>12 DEF DecideComments, Goto
  <2>2. running'[k] = running[k] /\ (Shows(t, k)' <=> Shows(t, k))
    BY <1>12, FirstJobKind DEF DecideComments, Goto, Shows, Nested
  <2> QED BY <2>1, <2>2, <1>2
<1>13. ASSUME NEW t \in Threads, LeaveCrawlLock(t) PROVE Goal
  <2>1. Others(t)
    BY <1>13 DEF LeaveCrawlLock, Goto
  <2>2. running'[k] = running[k] /\ (Shows(t, k)' <=> Shows(t, k))
    BY <1>13, FirstJobKind DEF LeaveCrawlLock, Goto, Shows, Nested
  <2> QED BY <2>1, <2>2, <1>2
<1>14. ASSUME NEW t \in Threads, ClearRunning(t) PROVE Goal
  <2>1. Others(t)
    BY <1>14 DEF ClearRunning, Goto
  <2>2. CASE k = job[t]
    BY <1>14, <2>1, <2>2, <1>3 DEF ClearRunning, Goto, Shows, Nested
  <2>3. CASE k # job[t]
    <3>1. running'[k] = running[k] /\ (Shows(t, k)' <=> Shows(t, k))
      BY <1>14, <2>3 DEF ClearRunning, Goto, Shows, Nested
    <3> QED BY <2>1, <3>1, <1>2
  <2> QED BY <2>2, <2>3
<1>15. ASSUME NEW t \in Threads, ReleaseLock(t) PROVE Goal
  <2>1. Others(t)
    BY <1>15 DEF ReleaseLock, Return, Goto
  <2>2. running'[k] = running[k] /\ (Shows(t, k)' <=> Shows(t, k))
    BY <1>15, FirstJobKind DEF ReleaseLock, Return, Goto, Shows, Nested
  <2> QED BY <2>1, <2>2, <1>2
<1> QED BY <1>1, <1>5, <1>6, <1>7, <1>8, <1>9, <1>10, <1>11, <1>12, <1>13, <1>14, <1>15
       DEF SchedulerNext, Step, Request

\* A flag is set exactly while a thread is in that job: no skipped, failed or
\* cancelled job clears the flag of another, or leaves its own behind.
THEOREM RunningFlagsAreTrue == SchedulerSpec => []RunningIsTruth
<1>1. SchedulerInit => RunningIsTruth
  BY DEF SchedulerInit, RunningIsTruth, Shows, Nested, Kinds, Weibo, Xueqiu, Pipelines
<1> QED BY <1>1, RunningStep, Invariance, PTL DEF SchedulerSpec

-----------------------------------------------------------------------------
\* A started thread is in a job of its program.
JobMatches ==
    \A t \in Threads : at[t] # "idle" =>
        program[t] \in Programs /\ job[t] \in JobsOf(program[t])

\* A thread that a cancel met keeps its place in its program.
DoomShape ==
    \A t \in Threads : doomed[t] # NoKind =>
        /\ at[t] \notin {"idle", "checked"}
        /\ doomed[t] \in Weibo =>
             \/ job[t] = doomed[t] /\ Committed(t)
             \/ job[t] = "comment" /\ doomed[t] = "tweet"
        /\ doomed[t] \in Xueqiu => job[t] \in Xueqiu /\ Committed(t)

\* A cancel is still to be heeded by the job it met, or by the comments of its pipeline.
Heeding(t) ==
    /\ doomed[t] # NoKind
    /\ doomed[t] = job[t] \/ doomed[t] \in Xueqiu
    /\ at[t] # "release" \/ Nested(t)

\* The flags it is read from.
Flags(t) == IF job[t] \in Weibo THEN {job[t]} ELSE JobsOf(program[t])

\* They stay set, and no manual start is about to reset them: none passes its check before
\* the job has cleared its running flag.
DoomHolds ==
    \A t \in Threads : Heeding(t) =>
        /\ \A k \in Flags(t) : cancelled[k]
        /\ \A u \in Threads : at[u] = "checked" => ResetBy(program[u]) \cap Flags(t) = {}

\* Only a thread with a manual program is between check and start.
CheckedManual ==
    \A t \in Threads : at[t] = "checked" => program[t] \in WeiboManual \cup XqManual

CInv == IInv /\ RunningIsTruth /\ JobMatches /\ CheckedManual /\ DoomShape /\ DoomHolds

\* A thread stays within the kinds of its program.
LEMMA JobMatchesStep == IInv /\ JobMatches /\ [SchedulerNext]_schedulerVars => JobMatches'
<1> SUFFICES ASSUME IInv, JobMatches, [SchedulerNext]_schedulerVars PROVE JobMatches'
  OBVIOUS
<1> USE SchedulerAssumption DEF IInv, SchedulerTypeOK, JobShape, locks, JobMatches
<1>1. CASE UNCHANGED schedulerVars \/ Cancel
  BY <1>1 DEF schedulerVars, Cancel
<1>2. ASSUME NEW t \in Threads, NEW p \in Programs, CheckManual(t, p) \/ StartScheduled(t, p)
      PROVE  JobMatches'
  <2>1. FirstJob(p) \in JobsOf(p)
    BY DEF FirstJob, JobsOf, Programs, Weibo, Xueqiu, Pipelines, WeiboManual, XqManual
  <2> QED BY <1>2, <2>1 DEF CheckManual, StartScheduled, Goto
<1>3. ASSUME NEW t \in Threads, SkipJob(t) \/ ReleaseLock(t) PROVE JobMatches'
  BY <1>3 DEF SkipJob, ReleaseLock, Return, Goto, JobsOf, Nested, Weibo, Xueqiu, Pipelines
<1>4. ASSUME NEW t \in Threads, DecideComments(t) PROVE JobMatches'
  BY <1>4 DEF DecideComments, Goto, JobsOf, Xueqiu, Pipelines
<1>5. ASSUME NEW t \in Threads,
             \/ StartManual(t) \/ EnterJob(t) \/ TakeCrawlLock(t) \/ ClearCancelled(t)
             \/ LeaveCrawlLock(t) \/ ClearRunning(t)
      PROVE  JobMatches'
  BY <1>5 DEF StartManual, EnterJob, TakeCrawlLock, ClearCancelled, LeaveCrawlLock,
              ClearRunning, Goto
<1>6. ASSUME NEW t \in Threads,
             PollCancelled(t) \/ FetchMore(t) \/ (\E o \in {"completed", "failed"} : EndCrawl(t, o))
      PROVE  JobMatches'
  BY <1>6 DEF PollCancelled, FetchMore, EndCrawl, Goto
<1> QED BY <1>1, <1>2, <1>3, <1>4, <1>5, <1>6 DEF SchedulerNext, Step, Request

\* The kinds of a program are kinds.
LEMMA JobsOfKinds == \A p \in Programs : JobsOf(p) \subseteq Kinds
BY DEF Programs, JobsOf, FirstJob, Kinds, Weibo, Xueqiu, Pipelines, WeiboManual, XqManual

\* Between check and start there are manual programs only.
LEMMA CheckedManualStep ==
    IInv /\ CheckedManual /\ [SchedulerNext]_schedulerVars => CheckedManual'
<1> SUFFICES ASSUME IInv, CheckedManual, [SchedulerNext]_schedulerVars PROVE CheckedManual'
  OBVIOUS
<1> USE SchedulerAssumption DEF IInv, SchedulerTypeOK, locks, CheckedManual
<1>1. CASE UNCHANGED schedulerVars \/ Cancel
  BY <1>1 DEF schedulerVars, Cancel
<1>2. ASSUME NEW t \in Threads, NEW p \in Programs, CheckManual(t, p) \/ StartScheduled(t, p)
      PROVE  CheckedManual'
  BY <1>2 DEF CheckManual, StartScheduled, Goto
<1>3. ASSUME NEW t \in Threads, SkipJob(t) \/ ReleaseLock(t) PROVE CheckedManual'
  BY <1>3 DEF SkipJob, ReleaseLock, Return, Goto
<1>4. ASSUME NEW t \in Threads,
             \/ StartManual(t) \/ EnterJob(t) \/ TakeCrawlLock(t) \/ ClearCancelled(t)
             \/ LeaveCrawlLock(t) \/ ClearRunning(t) \/ DecideComments(t)
      PROVE  CheckedManual'
  BY <1>4 DEF StartManual, EnterJob, TakeCrawlLock, ClearCancelled, LeaveCrawlLock,
              ClearRunning, DecideComments, Goto
<1>5. ASSUME NEW t \in Threads,
             PollCancelled(t) \/ FetchMore(t) \/ (\E o \in {"completed", "failed"} : EndCrawl(t, o))
      PROVE  CheckedManual'
  <2>1. \A o : AfterCrawl(t, o) # "checked"
    BY DEF AfterCrawl
  <2> QED BY <1>5, <2>1 DEF PollCancelled, FetchMore, EndCrawl, Goto
<1> QED BY <1>1, <1>2, <1>3, <1>4, <1>5 DEF SchedulerNext, Step, Request

\* A thread that heeds a cancel shows a running flag of its kind of crawl.
LEMMA HeedingShows ==
    ASSUME CInv, NEW t \in Threads, Heeding(t)
    PROVE  /\ job[t] \in Kinds /\ Committed(t)
           /\ job[t] \in Weibo => running[job[t]] /\ Flags(t) \subseteq Weibo
           /\ job[t] \in Xueqiu => (\E k \in Xueqiu : running[k]) /\ Flags(t) \subseteq Xueqiu
<1> USE SchedulerAssumption DEF CInv, IInv, SchedulerTypeOK, Kinds, Weibo, Xueqiu
<1>1. job[t] \in Kinds /\ Committed(t)
  BY DEF Heeding, DoomShape
<1>2. \E k \in Kinds : Shows(t, k) /\ (k = job[t] \/ (k = "xq" /\ job[t] \in Xueqiu))
  <2>1. CASE Nested(t)
    BY <1>1, <2>1 DEF Committed, Shows, JobShape, Nested
  <2>2. CASE ~Nested(t)
    BY <1>1, <2>2 DEF Committed, Shows, Heeding
  <2> QED BY <2>1, <2>2
<1>3. (job[t] \in Weibo => running[job[t]]) /\ (job[t] \in Xueqiu => \E k \in Xueqiu : running[k])
  BY <1>1, <1>2 DEF RunningIsTruth
<1>4. job[t] \in Xueqiu => JobsOf(program[t]) \subseteq Xueqiu
  BY <1>1 DEF JobMatches, Committed, JobsOf, FirstJob, Programs, Pipelines, WeiboManual, XqManual
<1> QED BY <1>1, <1>3, <1>4 DEF Flags

\* The place of a doomed thread.
LEMMA DoomShapeStep == CInv /\ [SchedulerNext]_schedulerVars => DoomShape'
<1> SUFFICES ASSUME CInv, [SchedulerNext]_schedulerVars PROVE DoomShape'
  OBVIOUS
<1> USE SchedulerAssumption
    DEF CInv, IInv, SchedulerTypeOK, JobShape, locks, JobMatches, DoomShape, Committed, Nested, Kinds, Weibo, Xueqiu
<1>1. CASE UNCHANGED schedulerVars
  BY <1>1 DEF schedulerVars
<1>2. CASE Cancel
  BY <1>2 DEF Cancel, Met
<1>3. ASSUME NEW t \in Threads, NEW p \in Programs, CheckManual(t, p) \/ StartScheduled(t, p)
      PROVE  DoomShape'
  BY <1>3 DEF CheckManual, StartScheduled, Goto
<1>4. ASSUME NEW t \in Threads, StartManual(t) PROVE DoomShape'
  BY <1>4 DEF StartManual, Goto
<1>5. ASSUME NEW t \in Threads, SkipJob(t) \/ ReleaseLock(t) PROVE DoomShape'
  BY <1>5 DEF SkipJob, ReleaseLock, Return, Goto, CanAcquire, LockOf, XqOwner, InXueqiuJob
<1>6. ASSUME NEW t \in Threads, EnterJob(t) \/ TakeCrawlLock(t) \/ ClearCancelled(t) PROVE DoomShape'
  BY <1>6 DEF EnterJob, TakeCrawlLock, ClearCancelled, Goto
<1>8. ASSUME NEW t \in Threads,
             PollCancelled(t) \/ FetchMore(t) \/ (\E o \in {"completed", "failed"} : EndCrawl(t, o))
      PROVE  DoomShape'
  BY <1>8 DEF PollCancelled, FetchMore, EndCrawl, AfterCrawl, Goto
<1>9. ASSUME NEW t \in Threads, DecideComments(t) PROVE DoomShape'
  BY <1>9 DEF DecideComments, Goto
<1>10. ASSUME NEW t \in Threads, LeaveCrawlLock(t) \/ ClearRunning(t) PROVE DoomShape'
  BY <1>10 DEF LeaveCrawlLock, ClearRunning, Goto
<1> QED BY <1>1, <1>2, <1>3, <1>4, <1>5, <1>6, <1>8, <1>9, <1>10
       DEF SchedulerNext, Step, Request

\* The flags a cancel set outlive every reset while they are heeded: a job resets those of kinds
\* whose lock it holds, and a manual start those it has seen not running.
LEMMA DoomStep == CInv /\ [SchedulerNext]_schedulerVars => DoomHolds'
<1> SUFFICES ASSUME CInv, [SchedulerNext]_schedulerVars, NEW t \in Threads, Heeding(t)'
             PROVE  /\ \A k \in Flags(t)' : cancelled'[k]
                    /\ \A u \in Threads : at'[u] = "checked" => ResetBy(program[u])' \cap Flags(t)' = {}
  BY DEF DoomHolds
<1> DEFINE Goal == /\ \A k \in Flags(t)' : cancelled'[k]
                   /\ \A u \in Threads : at'[u] = "checked" => ResetBy(program[u])' \cap Flags(t)' = {}
<1>t. /\ CInv /\ SchedulerTypeOK /\ JobShape /\ DoomShape /\ DoomHolds
      /\ SchedulerTypeOK'
  BY SchedulerTypeStep DEF CInv, IInv
\* Steps that leave the flags and the threads between check and start.
<1>a. ASSUME Heeding(t), Flags(t)' = Flags(t), cancelled' = cancelled,
             \A u \in Threads : at'[u] = "checked" => at[u] = "checked" /\ program'[u] = program[u]
      PROVE  Goal
  BY <1>t, <1>a DEF DoomHolds
<1>1. CASE UNCHANGED schedulerVars
  BY <1>1, <1>a DEF schedulerVars, Heeding, Nested, Flags
<1>2. CASE Cancel
  <2>1. UNCHANGED <<at, program, job>> /\ Flags(t)' = Flags(t)
    BY <1>2 DEF Cancel, Flags
  <2>2. Flags(t) \subseteq Kinds
    <3>1. at[t] # "idle"
      BY <1>t, <1>2 DEF Cancel, Met, Heeding, DoomShape, Committed
    <3> QED BY <1>t, <3>1, JobsOfKinds DEF Flags, CInv, JobMatches, Kinds
  <2>3. \A k \in Flags(t)' : cancelled'[k]
    BY <1>2, <2>1, <2>2 DEF Cancel
  <2>4. ASSUME NEW u \in Threads, at[u] = "checked" PROVE ResetBy(program[u]) \cap Flags(t) = {}
    <3>1. CASE Committed(t) /\ ~Raced(t)
      <4>1. Flags(t) \subseteq JobsOf(program[t])
        BY <1>t, <3>1 DEF Flags, CInv, JobMatches, Committed
      <4> QED BY <3>1, <4>1, <2>4 DEF Raced
    <3>2. CASE ~(Committed(t) /\ ~Raced(t))
      <4>1. doomed'[t] = doomed[t]
        BY <1>2, <3>2 DEF Cancel, Met
      <4>2. Heeding(t)
        BY <2>1, <4>1 DEF Heeding, Nested
      <4> QED BY <1>t, <2>4, <4>2 DEF DoomHolds
    <3> QED BY <3>1, <3>2
  <2> QED BY <2>1, <2>3, <2>4
<1>3. ASSUME NEW v \in Threads, NEW p \in Programs, CheckManual(v, p) PROVE Goal
  <2>1. /\ UNCHANGED <<cancelled, doomed>> /\ at[v] = "idle" /\ at'[v] = "checked"
        /\ \A u \in Threads \ {v} : at'[u] = at[u] /\ program'[u] = program[u] /\ job'[u] = job[u]
        /\ program'[v] = p /\ p \in WeiboManual \cup XqManual /\ \A k \in Conflicts(p) : ~running[k]
    BY <1>3, <1>t DEF CheckManual, Goto, SchedulerTypeOK
  <2>2. t # v
    BY <1>t, <2>1 DEF Heeding, DoomShape
  <2>3. Heeding(t) /\ Flags(t)' = Flags(t)
    BY <2>1, <2>2 DEF Heeding, Nested, Flags
  <2>4. ResetBy(p) \cap Flags(t) = {}
    BY <1>t, <2>1, <2>3, HeedingShows DEF Conflicts, ResetBy, WeiboManual, XqManual, Kinds, Weibo, Xueqiu
  <2> QED BY <1>t, <2>1, <2>3, <2>4 DEF DoomHolds
<1>4. ASSUME NEW v \in Threads, NEW p \in Programs, StartScheduled(v, p) PROVE Goal
  <2>1. /\ UNCHANGED <<cancelled, doomed>> /\ at[v] = "idle" /\ at'[v] = "enter"
        /\ \A u \in Threads \ {v} : at'[u] = at[u] /\ program'[u] = program[u] /\ job'[u] = job[u]
    BY <1>4, <1>t DEF StartScheduled, Goto, SchedulerTypeOK
  <2>2. t # v
    BY <1>t, <2>1 DEF Heeding, DoomShape
  <2>3. Heeding(t) /\ Flags(t)' = Flags(t)
    BY <2>1, <2>2 DEF Heeding, Nested, Flags
  <2> QED BY <2>1, <2>3, <1>a
<1>5. ASSUME NEW v \in Threads, StartManual(v) PROVE Goal
  <2>1. /\ UNCHANGED <<program, job, doomed>> /\ at[v] = "checked" /\ at'[v] = "enter"
        /\ \A u \in Threads \ {v} : at'[u] = at[u]
        /\ cancelled' = [k \in Kinds |-> cancelled[k] /\ k \notin ResetBy(program[v])]
    BY <1>5, <1>t DEF StartManual, Goto, SchedulerTypeOK
  <2>2. t # v
    BY <1>t, <2>1 DEF Heeding, DoomShape
  <2>3. Heeding(t) /\ Flags(t)' = Flags(t)
    BY <2>1, <2>2 DEF Heeding, Nested, Flags
  <2>4. /\ \A k \in Flags(t) : cancelled[k]
        /\ \A u \in Threads : at[u] = "checked" => ResetBy(program[u]) \cap Flags(t) = {}
    BY <1>t, <2>3 DEF DoomHolds
  <2>5. Flags(t) \subseteq Kinds
    BY <1>t, <2>3, HeedingShows DEF Kinds
  <2>6. \A k \in Flags(t) : cancelled'[k]
    BY <2>1, <2>4, <2>5
  <2> QED BY <2>1, <2>3, <2>4, <2>6
<1>6. ASSUME NEW v \in Threads, SkipJob(v) \/ ReleaseLock(v) PROVE Goal
  <2>1. /\ cancelled' = cancelled
        /\ \A u \in Threads \ {v} : at'[u] = at[u] /\ program'[u] = program[u] /\ job'[u] = job[u]
                                    /\ doomed'[u] = doomed[u]
        /\ at'[v] # "checked"
    BY <1>6, <1>t DEF SkipJob, ReleaseLock, Return, Goto, SchedulerTypeOK
  <2>2. CASE t # v
    <3>1. Heeding(t) /\ Flags(t)' = Flags(t)
      BY <2>1, <2>2 DEF Heeding, Nested, Flags
    <3> QED BY <2>1, <3>1, <1>a
  <2>3. CASE t = v /\ Nested(v)
    <3>1. /\ job[t] = "xq_comment" /\ job'[t] = "xq" /\ program'[t] = program[t] /\ doomed'[t] = doomed[t]
      BY <1>6, <2>3, <1>t DEF SkipJob, ReleaseLock, Return, Goto, SchedulerTypeOK, Nested
    <3>2. doomed[t] # "xq" => doomed[t] # job'[t]
      BY <3>1
    <3>3. Heeding(t) /\ Flags(t)' = Flags(t)
      BY <2>3, <3>1 DEF Heeding, Flags, Weibo, Xueqiu
    <3> QED BY <2>1, <2>3, <3>1, <3>3, <1>a
  <2>4. CASE t = v /\ ~Nested(v)
    <3>1. program[t] = "sync" /\ job[t] = "tweet" /\ job'[t] = "comment" /\ doomed'[t] = doomed[t]
          /\ doomed[t] # NoKind
      BY <1>6, <2>4, <1>t, SchedulerAssumption
         DEF SkipJob, ReleaseLock, Return, Goto, SchedulerTypeOK, Heeding
    <3>2. doomed[t] = "comment" \/ doomed[t] \in Xueqiu
      BY <3>1 DEF Heeding
    <3> QED BY <1>t, <3>1, <3>2 DEF DoomShape, Weibo, Xueqiu
  <2> QED BY <2>2, <2>3, <2>4
<1>7. ASSUME NEW v \in Threads, EnterJob(v) \/ TakeCrawlLock(v) \/ LeaveCrawlLock(v) PROVE Goal
  <2>1. /\ UNCHANGED <<cancelled, program, job, doomed>>
        /\ \A u \in Threads \ {v} : at'[u] = at[u]
        /\ at[v] \in {"enter", "wait", "unlock"} /\ at'[v] \notin {"checked", "release"}
    BY <1>7, <1>t DEF EnterJob, TakeCrawlLock, LeaveCrawlLock, Goto, SchedulerTypeOK
  <2>2. Heeding(t) /\ Flags(t)' = Flags(t)
    BY <2>1 DEF Heeding, Nested, Flags
  <2> QED BY <2>1, <2>2, <1>a
<1>8. ASSUME NEW v \in Threads, ClearCancelled(v) PROVE Goal
  <2>1. /\ UNCHANGED <<program, job, doomed>> /\ at[v] = "clear" /\ at'[v] = "poll"
        /\ \A u \in Threads \ {v} : at'[u] = at[u]
        /\ cancelled' = [k \in Kinds |-> cancelled[k] /\ k \notin ClearedBy(v)]
    BY <1>8, <1>t DEF ClearCancelled, Goto, SchedulerTypeOK
  <2>2. Heeding(t) /\ Flags(t)' = Flags(t)
    BY <2>1 DEF Heeding, Nested, Flags
  <2>3. /\ job[t] \in Kinds /\ Committed(t) /\ Flags(t) \subseteq Kinds
        /\ job[t] \in Weibo => Flags(t) \subseteq {job[t]}
        /\ job[t] \in Xueqiu => Flags(t) \subseteq Xueqiu
    BY <1>t, <2>2, HeedingShows DEF Kinds, Flags
  <2>4. ASSUME NEW k \in ClearedBy(v), k \in Flags(t) PROVE FALSE
    <3>1. LockOf(k) = LockOf(job[t]) /\ LockOf(k) = LockOf(job[v])
      BY <2>3, <2>4, <1>t, <2>1 DEF LockOf, ClearedBy, Kinds, Weibo, Xueqiu, SchedulerTypeOK, Nested
    <3>2. job[v] \in Kinds
      BY <1>t, <2>1 DEF SchedulerTypeOK, JobShape
    <3>3. t = v
      BY <1>t, <2>1, <2>3, <3>1, <3>2
         DEF CInv, IInv, XqOwner, WeiboOwner, InXueqiuJob, InJob, LockOf, Committed, Nested, Kinds, Weibo, Xueqiu
    <3> QED BY <2>1, <2>3, <2>4, <3>3 DEF ClearedBy, Committed
  <2>5. \A k \in Flags(t) : cancelled'[k]
    BY <1>t, <2>1, <2>2, <2>3, <2>4 DEF DoomHolds
  <2> QED BY <1>t, <2>1, <2>2, <2>5 DEF DoomHolds
<1>9. ASSUME NEW v \in Threads,
             PollCancelled(v) \/ FetchMore(v) \/ (\E o \in {"completed", "failed"} : EndCrawl(v, o))
      PROVE  Goal
  <2>1. \A o : AfterCrawl(v, o) \notin {"checked", "release"}
    BY DEF AfterCrawl
  <2>2. /\ UNCHANGED <<cancelled, program, job, doomed>>
        /\ \A u \in Threads \ {v} : at'[u] = at[u]
        /\ at[v] \in {"poll", "fetch"} /\ at'[v] # "checked"
    BY <1>9, <2>1, <1>t DEF PollCancelled, FetchMore, EndCrawl, Goto, SchedulerTypeOK
  <2>3. Heeding(t) /\ Flags(t)' = Flags(t)
    BY <2>2 DEF Heeding, Nested, Flags
  <2> QED BY <2>2, <2>3, <1>a
<1>10. ASSUME NEW v \in Threads, DecideComments(v) PROVE Goal
  <2>1. /\ UNCHANGED <<cancelled, program, doomed>>
        /\ \A u \in Threads \ {v} : at'[u] = at[u] /\ job'[u] = job[u]
        /\ at[v] = "decide" /\ at'[v] # "checked" /\ job[v] = "xq" /\ job'[v] \in Xueqiu
    BY <1>10, <1>t DEF DecideComments, Goto, SchedulerTypeOK, JobShape, Xueqiu
  <2>2. Flags(t)' = Flags(t)
    BY <2>1 DEF Flags, Weibo, Xueqiu
  <2>3. Heeding(t)
    <3>1. CASE t = v
      BY <1>t, <2>1, <3>1 DEF Heeding, DoomShape, Weibo, Xueqiu, Kinds, SchedulerTypeOK
    <3>2. CASE t # v
      BY <2>1, <3>2 DEF Heeding, Nested
    <3> QED BY <3>1, <3>2
  <2> QED BY <2>1, <2>2, <2>3, <1>a
<1>11. ASSUME NEW v \in Threads, ClearRunning(v) PROVE Goal
  <2>1. /\ UNCHANGED <<cancelled, program, job, doomed>>
        /\ \A u \in Threads \ {v} : at'[u] = at[u]
        /\ at[v] = "exit" /\ at'[v] = "release"
    BY <1>11, <1>t DEF ClearRunning, Goto, SchedulerTypeOK
  <2>2. Heeding(t) /\ Flags(t)' = Flags(t)
    BY <2>1 DEF Heeding, Nested, Flags
  <2> QED BY <2>1, <2>2, <1>a
<1> QED BY <1>1, <1>2, <1>3, <1>4, <1>5, <1>6, <1>7, <1>8, <1>9, <1>10, <1>11
       DEF SchedulerNext, Step, Request

\* A job that an accepted cancel meets after its own reset of the flag makes no further request,
\* whatever requests and timers do from then on: the manual starts, which reset flags without a
\* lock, are rejected until the job has ended.  The theorem says nothing of a job that waits for
\* _crawl_lock or is at its reset when the cancel comes, which forgets it, nor of one that a
\* manual start races that passed its check before the cancel (Committed, Raced).
THEOREM CancelIsHeeded == SchedulerSpec => CancelStopsJob
<1>1. SchedulerInit => CInv
  <2>1. SchedulerInit => RunningIsTruth
    BY DEF SchedulerInit, RunningIsTruth, Shows, Nested, Kinds, Weibo, Xueqiu, Pipelines
  <2>2. SchedulerInit => JobMatches /\ CheckedManual /\ DoomShape /\ DoomHolds
    BY DEF SchedulerInit, JobMatches, CheckedManual, DoomShape, DoomHolds, Heeding
  <2> QED BY InitIInv, <2>1, <2>2 DEF CInv
<1>2. CInv /\ [SchedulerNext]_schedulerVars => CInv'
  BY SchedulerTypeStep, JobShapeStep, CrawlOwnerStep, WeiboOwnerStep, XqOwnerStep,
     RunningStep, JobMatchesStep, CheckedManualStep, DoomShapeStep, DoomStep DEF CInv, IInv
<1>3. ASSUME CInv, [SchedulerNext]_schedulerVars, NEW t \in Threads,
             doomed[t] # NoKind, doomed[t] = job[t] \/ doomed[t] \in Xueqiu,
             at[t] = "poll", at'[t] = "fetch"
      PROVE  FALSE
  <2>1. cancelled[job[t]]
    <3>1. Heeding(t) /\ job[t] \in Flags(t)
      BY <1>3 DEF Heeding, Flags, CInv, JobMatches
    <3> QED BY <1>3, <3>1 DEF CInv, DoomHolds
  <2>2. PollCancelled(t)
    <3> USE <1>3 DEF CInv, IInv, SchedulerTypeOK, JobShape, Goto
    <3>1. at' # at
      OBVIOUS
    <3>2. ~Cancel /\ ~(\E u \in Threads : Request(u))
      BY DEF Cancel, Request, CheckManual, StartScheduled
    <3>3. \A u \in Threads :
             ~(\/ StartManual(u) \/ SkipJob(u) \/ EnterJob(u) \/ TakeCrawlLock(u)
               \/ ClearCancelled(u) \/ DecideComments(u) \/ LeaveCrawlLock(u)
               \/ ClearRunning(u) \/ ReleaseLock(u) \/ FetchMore(u)
               \/ \E o \in {"completed", "failed"} : EndCrawl(u, o))
      BY DEF StartManual, SkipJob, EnterJob, TakeCrawlLock, ClearCancelled, DecideComments,
             LeaveCrawlLock, ClearRunning, ReleaseLock, Return, FetchMore, EndCrawl
    <3>4. \A u \in Threads \ {t} : ~PollCancelled(u)
      BY DEF PollCancelled
    <3> QED BY <3>1, <3>2, <3>3, <3>4 DEF SchedulerNext, Step, schedulerVars
  <2> QED BY <1>3, <2>1, <2>2 DEF PollCancelled, AfterCrawl, Goto, CInv, IInv, SchedulerTypeOK
<1>4. CInv /\ [SchedulerNext]_schedulerVars =>
        [\A t \in Threads :
           doomed[t] # NoKind /\ (doomed[t] = job[t] \/ doomed[t] \in Xueqiu)
             => ~(at[t] = "poll" /\ at'[t] = "fetch")]_schedulerVars
  BY <1>3
<1> QED BY <1>1, <1>2, <1>4, PTL DEF SchedulerSpec, CancelStopsJob

-----------------------------------------------------------------------------
(*****************************************************************************)
(* The timeline: the variables keep their types, and no post is missed below *)
(* the checkpoint, for any number of posts, pages of any size and any        *)
(* schedule of posts, removals and failing crawls.                           *)
(*                                                                           *)
(* A crawl remembers a page number while the timeline moves under it. The    *)
(* invariant says what a page number is worth: of the posts that stand on    *)
(* the pages read so far, those no newer than something already stored are   *)
(* stored, or about to be, or below the checkpoint. A new post pushes the    *)
(* others down, off the pages read, and is newer than all that is stored.    *)
(*****************************************************************************)

\* A post a crawl has to account for: above the first checkpoint, and pinned or
\* no newer than a post that is stored or being stored.
Due(p) ==
    /\ p \in Visible
    /\ Latest(Legacy) < p
    /\ p = Pinned \/ \E q \in stored \cup batch : p <= q

Safe(p) == p \in stored \cup slipped \cup unlisted \cup batch \/ p <= stop

\* The due posts on the pages read so far are safe.
ReadIsSafe ==
    pc # "idle" =>
      \A p \in Ids : Due(p) /\ Rank(p, Visible) < PagesRead * PageSize => Safe(p)

\* When no page follows, all due posts are.
FinalIsSafe ==
    pc = "store" /\ final => \A p \in Ids : Due(p) => Safe(p)

BatchIsStoring == pc # "store" => batch = {}

Reading == pc # "idle" => page >= 1

StopBelowCheckpoint == pc # "idle" => stop <= checkpoint

FirstCrawl == checkpoint = Unset => stored = Legacy /\ pc = "idle"

TInv ==
    /\ TimelineTypeOK
    /\ Published0 <= published
    /\ checkpoint <= published
    /\ BatchIsStoring
    /\ Reading
    /\ StopBelowCheckpoint
    /\ FirstCrawl
    /\ ReadIsSafe
    /\ FinalIsSafe
    /\ NoGap

-----------------------------------------------------------------------------
(***************************************************************************)
(* Least and greatest elements; division.                                  *)
(***************************************************************************)

\* The order of the natural numbers.
Smaller == {ss \in Nat \X Nat : ss[1] < ss[2]}

\* The natural numbers are well-ordered.
LEMMA SmallerWellFounded == IsWellFoundedOn(Smaller, Nat)
  BY NatLessThanWellFounded, Zenon DEF OpToRel, Smaller

\* A set of natural numbers has a least element.
LEMMA LeastOf ==
    ASSUME NEW S \in SUBSET Nat, S # {}
    PROVE  \E n \in S : \A k \in S : n <= k
<1>1. PICK n \in S : \A k \in S : <<k, n>> \notin Smaller
  BY SmallerWellFounded, WFMin
<1>2. \A k \in S : ~(k < n)
  BY <1>1 DEF Smaller
<1>3. n \in Nat /\ \A k \in S : k \in Nat
  OBVIOUS
<1> QED BY <1>2, <1>3

\* A bounded set of posts has a greatest element.
LEMMA GreatestOf ==
    ASSUME NEW S \in SUBSET Ids, S # {}
    PROVE  \E n \in S : \A k \in S : k <= n
<1> DEFINE T == {m \in 0..MaxPost : MaxPost - m \in S}
<1> USE TimelineAssumption
<1>1. ASSUME NEW k \in S PROVE MaxPost - k \in T
  <2>1. k \in 1..MaxPost /\ MaxPost \in Nat
    BY DEF Ids
  <2>2. MaxPost - k \in 0..MaxPost /\ MaxPost - (MaxPost - k) = k
    BY <2>1
  <2> QED BY <2>2
<1>2. T \in SUBSET Nat /\ T # {}
  BY <1>1
<1>3. PICK m \in T : \A k \in T : m <= k
  BY <1>2, LeastOf
<1>4. MaxPost - m \in S /\ m \in Nat
  BY <1>3
<1>5. ASSUME NEW k \in S PROVE k <= MaxPost - m
  <2>1. MaxPost - k \in T /\ k \in Nat
    BY <1>1 DEF Ids
  <2>2. m <= MaxPost - k
    BY <1>3, <2>1
  <2> QED BY <2>1, <2>2, <1>4
<1> QED BY <1>4, <1>5

\* Latest picks the greatest post, and is 0 when there is none.
LEMMA LatestIs ==
    ASSUME NEW S \in SUBSET Ids
    PROVE  /\ S = {} => Latest(S) = 0
           /\ S # {} => Latest(S) \in S
           /\ \A k \in S : k <= Latest(S)
           /\ Latest(S) \in 0..MaxPost
<1> USE TimelineAssumption
<1>1. CASE S = {}
  BY <1>1 DEF Latest
<1>2. CASE S # {}
  <2>1. PICK n \in S : \A k \in S : k <= n
    BY <1>2, GreatestOf
  <2>2. Latest(S) \in S /\ \A k \in S : k <= Latest(S)
    BY <1>2, <2>1 DEF Latest
  <2>3. Latest(S) \in Ids
    BY <2>2
  <2>4. Ids \subseteq 0..MaxPost
    BY DEF Ids
  <2> QED BY <1>2, <2>2, <2>3, <2>4
<1> QED BY <1>1, <1>2

\* The post at the head of what remains of a page is one of its posts.
LEMMA HeadIs == ASSUME NEW S \in SUBSET Ids, S # {} PROVE Head(S) \in S
  BY LatestIs DEF Head

\* What a quotient says about the number divided.
LEMMA Quotient ==
    ASSUME NEW r \in Nat, NEW P \in Nat \ {0}, NEW n \in Nat
    PROVE  r \div P = n <=> (n * P <= r /\ r < n * P + P)
<1> DEFINE q == r \div P
<1>1. q \in Nat /\ q * P <= r /\ r < q * P + P
  OBVIOUS
<1>2. CASE q < n
  <2>1. n * P = q * P + P + (n - q - 1) * P
    BY <1>1
  <2>2. (n - q - 1) * P >= 0
    BY <1>1, <1>2
  <2> QED BY <1>1, <1>2, <2>1, <2>2
<1>3. CASE n < q
  <2>1. q * P = n * P + P + (q - n - 1) * P
    BY <1>1
  <2>2. (q - n - 1) * P >= 0
    BY <1>1, <1>3
  <2> QED BY <1>1, <1>3, <2>1, <2>2
<1> QED BY <1>1, <1>2, <1>3

-----------------------------------------------------------------------------
(***************************************************************************)
(* Ranks and pages.                                                        *)
(***************************************************************************)

Above(p, V) == {q \in V : q > p \/ q = Pinned}

\* There are finitely many posts.
LEMMA FiniteIds ==
    ASSUME NEW V \in SUBSET Ids
    PROVE  IsFiniteSet(V) /\ Cardinality(V) \in Nat
<1>1. IsFiniteSet(Ids)
  BY FS_Interval, TimelineAssumption DEF Ids
<1>2. IsFiniteSet(V)
  BY <1>1, FS_Subset
<1> QED BY <1>2, FS_CardinalityType

\* A rank is a number, counts the posts above, and is 0 for the pinned post.
LEMMA RankIs ==
    ASSUME NEW V \in SUBSET Ids, NEW p
    PROVE  /\ Rank(p, V) \in Nat
           /\ p = Pinned => Rank(p, V) = 0
           /\ p # Pinned => Rank(p, V) = Cardinality(Above(p, V))
           /\ Above(p, V) \in SUBSET Ids
<1>1. Above(p, V) \in SUBSET Ids
  BY DEF Above
<1>2. Cardinality(Above(p, V)) \in Nat
  BY <1>1, FiniteIds
<1> QED BY <1>1, <1>2 DEF Rank, Above

\* More posts, higher ranks.
LEMMA RankGrows ==
    ASSUME NEW W \in SUBSET Ids, NEW V \in SUBSET W, NEW p
    PROVE  Rank(p, V) <= Rank(p, W)
<1>1. V \in SUBSET Ids
  OBVIOUS
<1>2. Above(p, V) \in SUBSET Above(p, W)
  BY DEF Above
<1>3. IsFiniteSet(Above(p, W))
  BY RankIs, FiniteIds
<1>4. Cardinality(Above(p, V)) <= Cardinality(Above(p, W))
  BY <1>2, <1>3, FS_Subset
<1>5. Rank(p, V) \in Nat /\ (p # Pinned => Rank(p, V) = Cardinality(Above(p, V)))
  BY <1>1, RankIs
<1>6. Rank(p, W) \in Nat /\ (p # Pinned => Rank(p, W) = Cardinality(Above(p, W)))
  BY RankIs
<1>7. p = Pinned => Rank(p, V) = 0
  BY <1>1, RankIs
<1> QED BY <1>4, <1>5, <1>6, <1>7

\* A newer post ranks no lower, but for the pinned one.
LEMMA RankOrder ==
    ASSUME NEW V \in SUBSET Ids, NEW p \in Ids, NEW q \in Ids, p # Pinned, p <= q
    PROVE  Rank(q, V) <= Rank(p, V)
<1>1. ASSUME NEW x \in V, x > q PROVE x > p
  <2>1. x \in Nat /\ p \in Nat /\ q \in Nat
    BY DEF Ids
  <2> QED BY <1>1, <2>1
<1>2. Above(q, V) \in SUBSET Above(p, V)
  BY <1>1 DEF Above
<1>3. IsFiniteSet(Above(p, V))
  BY RankIs, FiniteIds
<1>4. Cardinality(Above(q, V)) <= Cardinality(Above(p, V))
  BY <1>2, <1>3, FS_Subset
<1> QED BY <1>4, RankIs

\* Ranks stay below the number of posts.
LEMMA RankBelow ==
    ASSUME NEW V \in SUBSET Ids, NEW p \in V
    PROVE  Rank(p, V) < Cardinality(V)
<1>1. IsFiniteSet(V) /\ Cardinality(V) \in Nat
  BY FiniteIds
<1>2. IsFiniteSet(V \ {p}) /\ Cardinality(V \ {p}) = Cardinality(V) - 1
  BY <1>1, FS_RemoveElement
<1>3. CASE p # Pinned
  <2>1. Above(p, V) \in SUBSET (V \ {p})
    BY <1>3 DEF Above, Ids
  <2>2. Cardinality(Above(p, V)) <= Cardinality(V \ {p})
    BY <1>2, <2>1, FS_Subset
  <2> QED BY <1>1, <1>2, <1>3, <2>2, RankIs
<1>4. CASE p = Pinned
  <2>1. Cardinality(V) # 0
    BY <1>1, FS_EmptySet
  <2> QED BY <1>1, <1>4, <2>1, RankIs
<1> QED BY <1>3, <1>4

\* When a post ranks k or lower, some post ranks k, or 1 if the pinned post takes
\* the top: ranks have no holes below the first two.
LEMMA RankMet ==
    ASSUME NEW V \in SUBSET Ids, NEW p \in V, NEW k \in Nat, Rank(p, V) >= k
    PROVE  \E q \in V : Rank(q, V) >= k /\ (Rank(q, V) = k \/ Rank(q, V) <= 1)
<1> DEFINE T == {q \in V \ {Pinned} : Rank(q, V) >= k}
<1>1. CASE p = Pinned
  BY <1>1, RankIs
<1>2. CASE p # Pinned
  <2>1. T \in SUBSET Ids /\ T # {}
    BY <1>2
  <2>2. PICK q \in T : \A x \in T : x <= q
    BY <2>1, GreatestOf
  <2> DEFINE U == {x \in V \ {Pinned} : x > q}
  <2>3. Above(q, V) \in SUBSET Ids /\ IsFiniteSet(Above(q, V))
    BY RankIs, FiniteIds
  <2>4. CASE U = {}
    <3>1. Above(q, V) \subseteq {Pinned}
      BY <2>4 DEF Above
    <3>2. Cardinality(Above(q, V)) <= 1
      <4>1. Above(q, V) \in SUBSET {Pinned}
        BY <3>1
      <4>2. IsFiniteSet({Pinned}) /\ Cardinality({Pinned}) = 1
        BY FS_Singleton
      <4> QED BY <4>1, <4>2, FS_Subset
    <3> QED BY <3>2, RankIs
  <2>5. CASE U # {}
    <3>1. U \in SUBSET Nat
      <4>1. Ids \subseteq Nat
        BY DEF Ids
      <4> QED BY <4>1
    <3>2. PICK x \in U : \A y \in U : x <= y
      BY <2>5, <3>1, LeastOf
    <3>3. Above(q, V) = Above(x, V) \cup {x} /\ x \notin Above(x, V)
      <4>1. q \in Nat /\ \A y \in V : y \in Nat
        BY DEF Ids
      <4>2. x \in V /\ x # Pinned /\ x > q /\ ~(x > x)
        BY <3>2, <4>1
      <4>3. ASSUME NEW y \in V PROVE (y > q /\ y # Pinned) <=> (y # Pinned /\ (y > x \/ y = x))
        <5>1. y # Pinned /\ y > q => x <= y
          BY <3>2
        <5> QED BY <4>1, <4>2, <5>1
      <4> QED BY <4>2, <4>3 DEF Above
    <3>4. Cardinality(Above(q, V)) = Cardinality(Above(x, V)) + 1
      <4>1. IsFiniteSet(Above(x, V))
        BY RankIs, FiniteIds
      <4> QED BY <3>3, <4>1, FS_AddElement
    <3>5. x \notin T
      BY <2>2, <3>2 DEF Ids
    <3>6. Rank(x, V) < k
      BY <3>2, <3>5, RankIs
    <3> QED BY <3>2, <3>4, <3>6, RankIs
  <2> QED BY <2>4, <2>5
<1> QED BY <1>1, <1>2

\* Which posts a page shows.
LEMMA PageIs ==
    ASSUME Visible \in SUBSET Ids, NEW n \in Nat \ {0}, NEW p \in Visible
    PROVE  p \in PostsOn(n) <=> /\ (n - 1) * PageSize <= Rank(p, Visible)
                                /\ Rank(p, Visible) < n * PageSize
<1> USE TimelineAssumption
<1>1. Rank(p, Visible) \in Nat
  BY RankIs
<1>0. n - 1 \in Nat /\ PageSize \in Nat \ {0}
  OBVIOUS
<1>2. Rank(p, Visible) \div PageSize = n - 1
        <=> (n - 1) * PageSize <= Rank(p, Visible) /\ Rank(p, Visible) < (n - 1) * PageSize + PageSize
  BY <1>1, <1>0, Quotient
<1>3. (n - 1) * PageSize + PageSize = n * PageSize
  OBVIOUS
<1> QED BY <1>2, <1>3 DEF PostsOn

\* Nothing stands on an empty page, nor on the pages after it.
LEMMA NothingBelow ==
    ASSUME Visible \in SUBSET Ids, NEW n \in Nat \ {0}, PostsOn(n) = {}, NEW p \in Visible
    PROVE  Rank(p, Visible) < (n - 1) * PageSize
<1> USE TimelineAssumption
<1> DEFINE k == (n - 1) * PageSize
<1>1. k \in Nat /\ n * PageSize = k + PageSize /\ PageSize >= 2
  OBVIOUS
<1>2. Rank(p, Visible) \in Nat
  BY RankIs
<1> SUFFICES ASSUME Rank(p, Visible) >= k PROVE FALSE
  BY <1>1, <1>2
<1>3. PICK q \in Visible : /\ Rank(q, Visible) >= k
                           /\ Rank(q, Visible) = k \/ Rank(q, Visible) <= 1
  BY <1>1, RankMet
<1>4. Rank(q, Visible) \in Nat
  BY RankIs
<1>5. q \in PostsOn(n)
  <2>1. Rank(q, Visible) < n * PageSize
    BY <1>1, <1>3, <1>4
  <2> QED BY <1>3, <2>1, PageIs
<1> QED BY <1>5

\* Nothing stands below the last page.
LEMMA LastPage ==
    ASSUME Visible \in SUBSET Ids, NEW n \in Nat, n >= MaxPage, NEW p \in Visible
    PROVE  Rank(p, Visible) < n * PageSize
<1> USE TimelineAssumption
<1> DEFINE c == Cardinality(Visible)
           m == (c + PageSize - 1) \div PageSize
<1>1. c \in Nat /\ Rank(p, Visible) \in Nat /\ Rank(p, Visible) < c
  BY FiniteIds, RankIs, RankBelow
<1>2. m \in Nat /\ c + PageSize - 1 < m * PageSize + PageSize
  BY <1>1
<1>3. n >= m
  BY DEF MaxPage
<1>4. n * PageSize = m * PageSize + (n - m) * PageSize
  BY <1>2
<1>5. (n - m) * PageSize >= 0
  BY <1>2, <1>3
<1>6. m * PageSize \in Nat /\ n * PageSize \in Nat /\ (n - m) * PageSize \in Int
  BY <1>2
<1> HIDE DEF c, m
<1> QED BY <1>1, <1>2, <1>4, <1>5, <1>6

-----------------------------------------------------------------------------
(***************************************************************************)
(* Every step keeps the invariant.                                         *)
(***************************************************************************)

\* The sets of posts of a state.
LEMMA Typed ==
    ASSUME TimelineTypeOK
    PROVE  /\ published \in Nat /\ published <= MaxPost /\ MaxPost \in Nat
           /\ Visible \in SUBSET Ids /\ stored \in SUBSET Ids /\ batch \in SUBSET Ids
           /\ Latest(Legacy) \in 0..MaxPost
<1> USE TimelineAssumption
<1>1. published \in Nat /\ published <= MaxPost /\ MaxPost \in Nat
  BY DEF TimelineTypeOK
<1>2. 1..published \subseteq Ids
  BY <1>1 DEF Ids
<1>3. Visible \in SUBSET Ids /\ stored \in SUBSET Ids /\ batch \in SUBSET Ids
  BY <1>2 DEF TimelineTypeOK, Visible
<1>4. Legacy \in SUBSET Ids
  <2>1. 1..Published0 \subseteq Ids
    BY DEF Ids
  <2> QED BY <2>1
<1> QED BY <1>1, <1>3, <1>4, LatestIs

\* The program starts in the invariant.
LEMMA InitTInv == TimelineInit => TInv
<1> SUFFICES ASSUME TimelineInit PROVE TInv
  OBVIOUS
<1> USE TimelineAssumption
<1>0. /\ Published0 \in 0..MaxPost /\ MaxPost \in Nat /\ PageLimit \in Nat /\ MaxFaults \in Nat
      /\ -1 \in -1..MaxPost /\ -1 <= Published0
  OBVIOUS
<1>1. TimelineTypeOK
  <2>1. 0 \in 0..MaxPost /\ 0 \in 0..PageLimit /\ 0 \in 0..MaxFaults
    BY <1>0
  <2> QED BY <1>0, <2>1 DEF TimelineInit, TimelineTypeOK, Unset
<1>2. Latest(Legacy) \in 0..MaxPost
  BY <1>1, Typed
<1>3. NoGap
  <2> SUFFICES ASSUME NEW p \in Visible, Latest(Legacy) < p, p <= checkpoint PROVE FALSE
    BY DEF NoGap
  <2>1. p \in Ids /\ checkpoint = -1
    BY <1>1, Typed DEF TimelineInit, Unset
  <2> QED BY <1>2, <2>1 DEF Ids
<1> QED BY <1>0, <1>1, <1>3 DEF TimelineInit, TInv, BatchIsStoring, Reading, StopBelowCheckpoint, FirstCrawl,
                          ReadIsSafe, FinalIsSafe, Unset

\* A step keeps the types.
LEMMA NextTypeOK == TimelineTypeOK /\ [TimelineNext]_timelineVars => TimelineTypeOK'
<1> SUFFICES ASSUME TimelineTypeOK, [TimelineNext]_timelineVars PROVE TimelineTypeOK'
  OBVIOUS
<1> USE TimelineAssumption
<1>0. /\ published \in Nat /\ published <= MaxPost /\ MaxPost \in Nat
      /\ Latest(stored) \in 0..MaxPost
  BY Typed, LatestIs
<1>1. CASE Publish
  <2>1. 1..published \subseteq 1..published'
    BY <1>0, <1>1 DEF Publish
  <2> QED BY <1>0, <1>1, <2>1 DEF TimelineTypeOK, Publish
<1>2. ASSUME NEW r \in Visible, Remove(r) PROVE TimelineTypeOK'
  BY <1>2 DEF TimelineTypeOK, Remove, Visible
<1>3. ASSUME NEW mode \in {"full", "incremental"}, StartCrawl(mode) PROVE TimelineTypeOK'
  <2>1. checkpoint' \in 0..MaxPost
    BY <1>0, <1>3 DEF TimelineTypeOK, StartCrawl, Unset
  <2>2. stop' \in 0..MaxPost
    BY <1>0, <1>3, <2>1 DEF StartCrawl
  <2> QED BY <1>3, <2>1, <2>2 DEF TimelineTypeOK, StartCrawl, source, Unset
<1>4. ASSUME NEW counted \in BOOLEAN, FetchPage(counted) PROVE TimelineTypeOK'
  <2>1. batch' \subseteq Visible
    BY <1>4 DEF FetchPage, PostsOn
  <2>2. IsFinal(PostsOn(page), counted) \in BOOLEAN
    BY DEF IsFinal
  <2>3. faults' \in 0..MaxFaults
    BY <1>4 DEF TimelineTypeOK, FetchPage
  <2>4. unlisted' \subseteq 1..published
    BY <1>4 DEF TimelineTypeOK, FetchPage, Visible
  <2> QED BY <1>4, <2>1, <2>2, <2>3, <2>4 DEF TimelineTypeOK, FetchPage, source, Visible
<1>5. CASE FetchEmptyPage \/ FinishCrawl
  <2>1. checkpoint' \in Unset..MaxPost
    BY <1>0, <1>5 DEF FetchEmptyPage, FinishCrawl, Complete, Unset
  <2> QED BY <1>5, <2>1 DEF TimelineTypeOK, FetchEmptyPage, FinishCrawl, Complete, source
<1>6. CASE StorePost
  <2>1. Head(batch) \in batch
    BY <1>6, Typed, HeadIs DEF StorePost
  <2> QED BY <1>6, <2>1 DEF TimelineTypeOK, StorePost, source
<1>7. CASE NextPage
  BY <1>7 DEF TimelineTypeOK, NextPage, source
<1>8. CASE HitPageLimit
  BY <1>8 DEF TimelineTypeOK, HitPageLimit, source
<1>9. CASE BreakOff
  BY <1>9 DEF TimelineTypeOK, BreakOff, source
<1>10. CASE UNCHANGED timelineVars
  BY <1>10 DEF TimelineTypeOK, timelineVars
<1> QED BY <1>1, <1>2, <1>3, <1>4, <1>5, <1>6, <1>7, <1>8, <1>9, <1>10 DEF TimelineNext, Crawl

\* A new post is newer than all that is stored: no crawl has to account for it.
LEMMA PublishTInv == TInv /\ Publish => TInv'
<1> SUFFICES ASSUME TInv, Publish PROVE TInv'
  OBVIOUS
<1> USE TimelineAssumption
<1>1. TimelineTypeOK' /\ TimelineTypeOK
  BY NextTypeOK DEF TInv, TimelineNext
<1>2. Visible \in SUBSET Visible' /\ Visible' \in SUBSET Ids
  <2>1. 1..published \subseteq 1..published' /\ 1..published' \subseteq Ids /\ removed' = removed
    BY <1>1, Typed DEF Publish, Ids
  <2> QED BY <2>1 DEF Visible
<1>3. ASSUME NEW p \in Visible', p # published + 1 PROVE p \in Visible
  BY <1>1, <1>3, Typed DEF Visible, Publish
<1>4. ASSUME NEW p \in Ids, Due(p)' PROVE Due(p)
  <2>1. p # published + 1
    <3>1. p # Pinned => \E q \in stored \cup batch : p <= q
      BY <1>4 DEF Due, Publish
    <3>2. \A q \in stored \cup batch : q \in 1..published
      BY <1>1 DEF TimelineTypeOK
    <3>3. Pinned <= published /\ published \in Nat /\ Pinned \in Nat /\ p \in Nat
      BY <1>1, Typed DEF TInv, Ids
    <3> QED BY <3>1, <3>2, <3>3
  <2> QED BY <1>3, <1>4, <2>1 DEF Due, Publish
<1>5. ReadIsSafe'
  <2> SUFFICES ASSUME pc # "idle", NEW p \in Ids, Due(p)',
                      Rank(p, Visible') < PagesRead * PageSize
               PROVE  Safe(p)'
    BY DEF ReadIsSafe, Publish, PagesRead
  <2>1. Rank(p, Visible) <= Rank(p, Visible') /\ Rank(p, Visible) \in Nat
        /\ Rank(p, Visible') \in Nat
    BY <1>1, <1>2, Typed, RankGrows, RankIs
  <2>2. PagesRead * PageSize \in Int
    <3>1. PagesRead \in Int
      BY <1>1 DEF PagesRead, TimelineTypeOK
    <3> QED BY <3>1
  <2>3. Safe(p)
    BY <1>4, <2>1, <2>2 DEF TInv, ReadIsSafe
  <2> QED BY <2>3 DEF Safe, Publish
<1>6. FinalIsSafe'
  <2> SUFFICES ASSUME pc = "store", final, NEW p \in Ids, Due(p)' PROVE Safe(p)'
    BY DEF FinalIsSafe, Publish
  <2>1. Safe(p)
    BY <1>4 DEF TInv, FinalIsSafe
  <2> QED BY <2>1 DEF Safe, Publish
<1>7. NoGap'
  <2> SUFFICES ASSUME NEW p \in Visible', Latest(Legacy) < p, p <= checkpoint
               PROVE  p \in stored \cup slipped \cup unlisted
    BY DEF NoGap, Publish
  <2>1. p # published + 1
    <3>1. checkpoint <= published /\ published \in Nat /\ checkpoint \in Int /\ p \in Nat
      BY <1>1, <1>2, Typed DEF TInv, TimelineTypeOK, Ids, Unset
    <3> QED BY <3>1
  <2> QED BY <1>3, <2>1 DEF TInv, NoGap
<1>8. Published0 <= published' /\ checkpoint' <= published'
  BY <1>1, Typed DEF TInv, TimelineTypeOK, Publish, Unset
<1> QED BY <1>1, <1>5, <1>6, <1>7, <1>8
        DEF TInv, Publish, BatchIsStoring, Reading, StopBelowCheckpoint, FirstCrawl

\* A removal records the posts that slip onto a page already read.
LEMMA RemoveTInv == ASSUME TInv, NEW r \in Visible, Remove(r) PROVE TInv'
<1>1. TimelineTypeOK' /\ TimelineTypeOK
  BY NextTypeOK DEF TInv, TimelineNext
<1>2. /\ Visible' = Visible \ {r} /\ Visible' \in SUBSET Visible
      /\ slipped \subseteq slipped' /\ PagesRead' = PagesRead
      /\ UNCHANGED <<published, stored, checkpoint, pc, stop, page, batch, final, unlisted>>
  BY DEF Remove, Visible, PagesRead
<1>3. ASSUME NEW p \in Ids, Due(p)' PROVE Due(p)
  BY <1>2, <1>3 DEF Due
<1>4. ASSUME NEW p, Safe(p) PROVE Safe(p)'
  BY <1>2, <1>4 DEF Safe
<1>5. ReadIsSafe'
  <2> SUFFICES ASSUME pc # "idle", NEW p \in Ids, Due(p)',
                      Rank(p, Visible \ {r}) < PagesRead * PageSize
               PROVE  Safe(p)'
    BY <1>2 DEF ReadIsSafe
  <2>1. CASE Rank(p, Visible) < PagesRead * PageSize
    BY <1>3, <1>4, <2>1 DEF TInv, ReadIsSafe
  <2>2. CASE ~(Rank(p, Visible) < PagesRead * PageSize)
    <3>1. PagesRead * PageSize \in Int /\ Rank(p, Visible) \in Nat
      <4>1. PagesRead \in Int /\ PageSize \in Int
        BY <1>1, TimelineAssumption DEF PagesRead, TimelineTypeOK
      <4>2. PagesRead * PageSize \in Int
        BY <4>1
      <4>3. Rank(p, Visible) \in Nat
        BY <1>1, Typed, RankIs
      <4> QED BY <4>2, <4>3
    <3>2. Rank(p, Visible) >= PagesRead * PageSize
      BY <2>2, <3>1
    <3>3. p \in Visible \ {r}
      BY <1>2 DEF Due
    <3>4. p \in slipped'
      BY <3>2, <3>3 DEF Remove
    <3> QED BY <3>4 DEF Safe
  <2> QED BY <2>1, <2>2
<1>6. FinalIsSafe'
  BY <1>2, <1>3, <1>4 DEF TInv, FinalIsSafe
<1>7. NoGap'
  BY <1>2 DEF TInv, NoGap
<1> QED BY <1>1, <1>2, <1>5, <1>6, <1>7 DEF TInv, BatchIsStoring, Reading, StopBelowCheckpoint, FirstCrawl

\* A crawl that starts has read no page, and stops at the checkpoint if it stops early.
LEMMA StartTInv ==
    ASSUME TInv, NEW mode \in {"full", "incremental"}, StartCrawl(mode)
    PROVE  TInv'
<1> USE TimelineAssumption
<1>1. TimelineTypeOK' /\ TimelineTypeOK
  BY NextTypeOK DEF TInv, TimelineNext
<1>2. /\ pc' = "page" /\ PagesRead' = 0 /\ Visible' = Visible /\ stored' = stored
      /\ batch' = {} /\ UNCHANGED <<slipped, unlisted, published>> /\ page' = 1
  BY DEF StartCrawl, source, PagesRead, Visible, TInv, BatchIsStoring
<1>3. Latest(stored) \in 0..MaxPost /\ Latest(stored) <= published
  <2>1. stored # {} => Latest(stored) \in 1..published
    BY <1>1, Typed, LatestIs DEF TimelineTypeOK
  <2> QED BY <1>1, <2>1, Typed, LatestIs
<1>4. checkpoint' # Unset /\ checkpoint' <= published' /\ stop' <= checkpoint'
  BY <1>1, <1>2, <1>3 DEF StartCrawl, TInv, TimelineTypeOK, Unset
<1>5. ReadIsSafe'
  <2>1. ASSUME NEW p \in Ids PROVE ~(Rank(p, Visible') < PagesRead' * PageSize)
    <3>1. Rank(p, Visible') \in Nat
      BY <1>1, <1>2, Typed, RankIs
    <3>2. PagesRead' * PageSize = 0
      BY <1>2
    <3> QED BY <3>1, <3>2
  <2> QED BY <2>1 DEF ReadIsSafe
<1>6. NoGap'
  <2>1. CASE checkpoint = Unset
    <3>1. stored = Legacy
      BY <2>1 DEF TInv, FirstCrawl
    <3>2. checkpoint' = Latest(Legacy)
      BY <2>1, <3>1 DEF StartCrawl
    <3>3. ASSUME NEW p \in Visible', Latest(Legacy) < p PROVE ~(p <= checkpoint')
      <4>1. p \in Nat /\ Latest(Legacy) \in Nat
        BY <1>1, <1>2, Typed DEF Ids
      <4> QED BY <3>2, <3>3, <4>1
    <3> QED BY <3>3 DEF NoGap
  <2>2. CASE checkpoint # Unset
    <3>1. checkpoint' = checkpoint
      BY <2>2 DEF StartCrawl
    <3> QED BY <1>2, <3>1 DEF TInv, NoGap
  <2> QED BY <2>1, <2>2
<1> QED BY <1>1, <1>2, <1>4, <1>5, <1>6
        DEF TInv, BatchIsStoring, Reading, StopBelowCheckpoint, FirstCrawl, FinalIsSafe

\* The page being read: a due post at a rank the page covers is on the page, and
\* one of a lower rank was due before.
LEMMA FetchReads == ASSUME TInv, NEW counted \in BOOLEAN, FetchPage(counted) PROVE ReadIsSafe'
<1> USE TimelineAssumption
<1>1. TimelineTypeOK' /\ TimelineTypeOK
  BY NextTypeOK DEF TInv, TimelineNext, Crawl
<1>2. /\ pc = "page" /\ pc' = "store" /\ PagesRead = page - 1 /\ PagesRead' = page
      /\ Visible' = Visible /\ batch = {}
      /\ UNCHANGED <<stored, slipped, stop, checkpoint, published>>
      /\ unlisted \subseteq unlisted'
      /\ batch' = {p \in PostsOn(page) : stop # 0 => p > stop}
  BY DEF FetchPage, source, PagesRead, Visible, TInv, BatchIsStoring
<1>3. page \in Nat \ {0}
  BY <1>1, <1>2 DEF TInv, TimelineTypeOK, Reading
<1> SUFFICES ASSUME NEW p \in Ids, Due(p)', Rank(p, Visible) < page * PageSize PROVE Safe(p)'
  BY <1>2 DEF ReadIsSafe
<1>4. p \in Visible /\ Rank(p, Visible) \in Nat /\ Visible \in SUBSET Ids
  BY <1>1, <1>2, Typed, RankIs DEF Due
<1>5. CASE (page - 1) * PageSize <= Rank(p, Visible)
  <2>1. p \in PostsOn(page)
    BY <1>3, <1>4, <1>5, PageIs
  <2>2. p \in batch' \/ p <= stop
    BY <1>1, <1>2, <2>1 DEF TimelineTypeOK, Ids
  <2> QED BY <1>2, <2>2 DEF Safe
<1>6. CASE ~((page - 1) * PageSize <= Rank(p, Visible))
  <2>1. (page - 1) * PageSize \in Nat
    BY <1>3
  <2>2. Rank(p, Visible) < (page - 1) * PageSize
    BY <1>4, <1>6, <2>1
  <2>3. Due(p)
    <3>1. p # Pinned => \A q \in batch' : ~(p <= q)
      <4> SUFFICES ASSUME p # Pinned, NEW q \in batch', p <= q PROVE FALSE
        OBVIOUS
      <4>1. q \in PostsOn(page) /\ q \in Visible
        BY <1>2 DEF PostsOn
      <4>2. (page - 1) * PageSize <= Rank(q, Visible) /\ Rank(q, Visible) \in Nat
        BY <1>3, <1>4, <4>1, PageIs, RankIs
      <4>3. Rank(q, Visible) <= Rank(p, Visible)
        BY <1>4, <4>1, RankOrder
      <4> QED BY <1>4, <2>1, <2>2, <4>2, <4>3
    <3> QED BY <1>2, <3>1 DEF Due
  <2>4. Safe(p)
    BY <1>2, <2>2, <2>3 DEF TInv, ReadIsSafe
  <2> QED BY <1>2, <2>4 DEF Safe
<1> QED BY <1>5, <1>6

\* When the foot of the page has reached the checkpoint, or this is the last page,
\* the posts of the pages that were not read need no reading: a page has room for
\* another post beside the pinned one, so that its foot is the oldest of its posts.
LEMMA FetchFinal == ASSUME TInv, NEW counted \in BOOLEAN, FetchPage(counted) PROVE FinalIsSafe'
<1> USE TimelineAssumption
<1>1. TimelineTypeOK' /\ TimelineTypeOK
  BY NextTypeOK DEF TInv, TimelineNext, Crawl
<1>2. /\ PagesRead' = page /\ Visible' = Visible /\ pc' = "store" /\ stop' = stop
      /\ final' = IsFinal(PostsOn(page), counted) /\ PostsOn(page) # {}
  BY DEF FetchPage, source, PagesRead, Visible
<1>3. page \in Nat \ {0} /\ Visible \in SUBSET Ids /\ PostsOn(page) \subseteq Visible
  BY <1>1, Typed DEF TInv, TimelineTypeOK, Reading, FetchPage, PostsOn
<1> SUFFICES ASSUME IsFinal(PostsOn(page), counted), NEW p \in Ids, Due(p)' PROVE Safe(p)'
  BY <1>2 DEF FinalIsSafe
<1>4. p \in Visible /\ Rank(p, Visible) \in Nat /\ page * PageSize \in Nat
  <2>1. p \in Visible
    BY <1>2 DEF Due
  <2>2. Rank(p, Visible) \in Nat
    BY <1>3, RankIs
  <2>3. page * PageSize \in Nat
    BY <1>3
  <2> QED BY <2>1, <2>2, <2>3
<1>5. CASE Rank(p, Visible) < page * PageSize
  BY <1>2, <1>5, FetchReads DEF ReadIsSafe
<1>6. CASE Rank(p, Visible) >= page * PageSize /\ ~counted /\ p > stop
  <2>1. p \in unlisted'
    BY <1>4, <1>6 DEF FetchPage
  <2> QED BY <2>1 DEF Safe
<1>7. CASE p <= stop
  BY <1>2, <1>7 DEF Safe
<1>8. CASE Rank(p, Visible) >= page * PageSize /\ counted
  <2>1. ~(page >= MaxPage)
    BY <1>3, <1>4, <1>8, LastPage
  <2>2. Foot(PostsOn(page)) <= stop
    BY <1>8, <2>1 DEF IsFinal
  <2>3. p # Pinned
    <3>1. page * PageSize >= 1
      BY <1>3
    <3> QED BY <1>3, <1>4, <1>8, <3>1, RankIs
  <2>4. PostsOn(page) # {Pinned}
    <3> SUFFICES ASSUME PostsOn(page) = {Pinned} PROVE FALSE
      OBVIOUS
    <3>1. Pinned \in Visible /\ Rank(Pinned, Visible) = 0
      BY <1>3, RankIs
    <3>2. (page - 1) * PageSize <= 0 /\ (page - 1) * PageSize \in Nat
      <4>1. (page - 1) * PageSize \in Nat
        BY <1>3
      <4>2. Pinned \in PostsOn(page)
        OBVIOUS
      <4>3. (page - 1) * PageSize <= Rank(Pinned, Visible)
        BY <1>3, <3>1, <4>2, PageIs
      <4> QED BY <3>1, <4>1, <4>3
    <3> DEFINE T == Visible \ {Pinned}
    <3>3. PICK m \in T : \A q \in T : q <= m
      <4>1. T \in SUBSET Ids /\ T # {}
        BY <1>3, <1>4, <2>3
      <4> QED BY <4>1, GreatestOf
    <3>4. Above(m, Visible) \in SUBSET {Pinned}
      <4>1. \A q \in Visible : q \in Nat
        BY <1>3 DEF Ids
      <4>2. \A q \in T : ~(q > m)
        BY <3>3, <4>1
      <4> QED BY <4>2 DEF Above
    <3>5. Rank(m, Visible) <= 1 /\ Rank(m, Visible) \in Nat
      <4>1. IsFiniteSet({Pinned}) /\ Cardinality({Pinned}) = 1
        BY FS_Singleton
      <4>2. Cardinality(Above(m, Visible)) <= 1
        BY <3>4, <4>1, FS_Subset
      <4> QED BY <1>3, <3>3, <4>2, RankIs
    <3>6. page * PageSize = (page - 1) * PageSize + PageSize /\ PageSize >= 2
      BY <1>3
    <3>7. m \in PostsOn(page)
      BY <1>3, <3>2, <3>3, <3>5, <3>6, PageIs
    <3> QED BY <3>3, <3>7
  <2>5. PICK f \in PostsOn(page) \ {Pinned} : f <= stop
    <3> DEFINE T == PostsOn(page) \ {Pinned}
    <3>1. T \in SUBSET Nat /\ T # {}
      <4>1. Ids \subseteq Nat
        BY DEF Ids
      <4> QED BY <1>2, <1>3, <2>4, <4>1
    <3>2. \E n \in T : \A k \in T : n <= k
      BY <3>1, LeastOf
    <3>3. Foot(PostsOn(page)) \in T
      BY <2>4, <3>2 DEF Foot
    <3> QED BY <2>2, <3>3
  <2>6. f \in Ids /\ Rank(f, Visible) < page * PageSize /\ Rank(f, Visible) \in Nat
    BY <1>3, <2>5, PageIs, RankIs
  <2>7. p <= stop
    <3>1. CASE p <= f
      BY <1>1, <2>5, <2>6, <3>1 DEF TimelineTypeOK, Ids
    <3>2. CASE f <= p
      <4>1. Rank(p, Visible) <= Rank(f, Visible)
        BY <1>3, <2>5, <2>6, <3>2, RankOrder
      <4> QED BY <1>4, <1>8, <2>6, <4>1
    <3> QED BY <2>6, <3>1, <3>2 DEF Ids
  <2> QED BY <1>2, <2>7 DEF Safe
<1>9. p \in Nat /\ stop \in Nat
  BY <1>1 DEF TimelineTypeOK, Ids
<1> QED BY <1>4, <1>5, <1>6, <1>7, <1>8, <1>9

\* A page that is read.
LEMMA FetchTInv == ASSUME TInv, NEW counted \in BOOLEAN, FetchPage(counted) PROVE TInv'
<1>1. TimelineTypeOK'
  BY NextTypeOK DEF TInv, TimelineNext, Crawl
<1>2. /\ pc = "page" /\ pc' = "store" /\ Visible' = Visible
      /\ UNCHANGED <<stored, slipped, stop, page, checkpoint, published>>
      /\ unlisted \subseteq unlisted'
  BY DEF FetchPage, source, Visible
<1> QED BY <1>1, <1>2, FetchReads, FetchFinal
        DEF TInv, BatchIsStoring, Reading, StopBelowCheckpoint, FirstCrawl, NoGap, Unset

\* When all due posts are safe, the newest stored post is a sound checkpoint.
LEMMA CompleteTInv ==
    ASSUME TInv, Complete, UNCHANGED <<source, stored>>, TimelineTypeOK',
           pc # "idle", batch = {}, \A p \in Ids : Due(p) => Safe(p)
    PROVE  TInv'
<1> USE TimelineAssumption
<1>1. /\ pc' = "idle" /\ checkpoint' = Latest(stored) /\ Visible' = Visible
      /\ UNCHANGED <<stored, slipped, unlisted, published, batch>> /\ batch' = {}
  BY DEF Complete, source, Visible
<1>2. TimelineTypeOK /\ Visible \in SUBSET Ids /\ stored \in SUBSET Ids
  BY Typed DEF TInv
<1>3. checkpoint' \in Nat /\ checkpoint' <= published'
  <2>1. stored # {} => Latest(stored) \in 1..published
    BY <1>2, LatestIs DEF TimelineTypeOK
  <2> QED BY <1>1, <1>2, <2>1, Typed, LatestIs
<1>4. NoGap'
  <2> SUFFICES ASSUME NEW p \in Visible, Latest(Legacy) < p, p <= Latest(stored)
               PROVE  p \in stored \cup slipped \cup unlisted
    BY <1>1 DEF NoGap
  <2>1. p \in Nat \ {0} /\ p \in Ids
    BY <1>2 DEF Ids
  <2>2. Latest(stored) \in stored
    BY <1>2, <2>1, LatestIs
  <2>3. Safe(p)
    BY <2>1, <2>2 DEF Due
  <2>4. CASE p <= stop
    <3>1. p <= checkpoint
      BY <1>2, <2>1, <2>4 DEF TInv, StopBelowCheckpoint, TimelineTypeOK, Unset
    <3> QED BY <3>1 DEF TInv, NoGap
  <2> QED BY <2>3, <2>4 DEF Safe
<1> QED BY <1>1, <1>3, <1>4 DEF TInv, BatchIsStoring, Reading, StopBelowCheckpoint, FirstCrawl,
                                ReadIsSafe, FinalIsSafe, Unset

\* An empty page: nothing is left below.
LEMMA EmptyTInv == ASSUME TInv, FetchEmptyPage PROVE TInv'
<1>1. TimelineTypeOK' /\ TimelineTypeOK
  BY NextTypeOK DEF TInv, TimelineNext, Crawl
<1>2. pc = "page" /\ PagesRead = page - 1 /\ PostsOn(page) = {} /\ batch = {}
  BY DEF FetchEmptyPage, PagesRead, TInv, BatchIsStoring
<1>3. page \in Nat \ {0}
  BY <1>1, <1>2 DEF TInv, TimelineTypeOK, Reading
<1>4. ASSUME NEW p \in Ids, Due(p) PROVE Safe(p)
  <2>1. Rank(p, Visible) < (page - 1) * PageSize
    BY <1>1, <1>2, <1>3, <1>4, Typed, NothingBelow DEF Due
  <2> QED BY <1>2, <1>4, <2>1 DEF TInv, ReadIsSafe
<1> QED BY <1>1, <1>2, <1>4, CompleteTInv DEF FetchEmptyPage

\* A crawl that has stored its last page.
LEMMA FinishTInv == ASSUME TInv, FinishCrawl PROVE TInv'
<1>1. TimelineTypeOK'
  BY NextTypeOK DEF TInv, TimelineNext, Crawl
<1>2. pc = "store" /\ final /\ batch = {}
  BY DEF FinishCrawl
<1>3. \A p \in Ids : Due(p) => Safe(p)
  BY <1>2 DEF TInv, FinalIsSafe
<1> QED BY <1>1, <1>2, <1>3, CompleteTInv DEF FinishCrawl

\* A post moves from the page to the table.
LEMMA StoreTInv == ASSUME TInv, StorePost PROVE TInv'
<1>1. TimelineTypeOK' /\ TimelineTypeOK
  BY NextTypeOK DEF TInv, TimelineNext, Crawl
<1>2. /\ pc = "store" /\ Visible' = Visible /\ PagesRead' = PagesRead /\ stored \subseteq stored'
      /\ stored' \cup batch' = stored \cup batch
      /\ UNCHANGED <<pc, slipped, unlisted, stop, page, checkpoint, published, final>>
  <2>1. Head(batch) \in batch
    BY <1>1, Typed, HeadIs DEF StorePost
  <2> QED BY <2>1 DEF StorePost, source, Visible, PagesRead
<1>3. \A p : Due(p)' = Due(p) /\ Safe(p)' = Safe(p)
  BY <1>2 DEF Due, Safe
<1>4. ReadIsSafe' /\ FinalIsSafe'
  BY <1>2, <1>3 DEF TInv, ReadIsSafe, FinalIsSafe
<1>5. checkpoint # Unset
  BY <1>2 DEF TInv, FirstCrawl
<1> QED BY <1>1, <1>2, <1>4, <1>5
        DEF TInv, BatchIsStoring, Reading, StopBelowCheckpoint, FirstCrawl, NoGap

\* The next page is asked for.
LEMMA NextPageTInv == ASSUME TInv, NextPage PROVE TInv'
<1>1. TimelineTypeOK' /\ TimelineTypeOK
  BY NextTypeOK DEF TInv, TimelineNext, Crawl
<1>2. /\ pc = "store" /\ pc' = "page" /\ batch = {} /\ Visible' = Visible
      /\ page' = page + 1 /\ page \in Nat
      /\ UNCHANGED <<stored, slipped, unlisted, stop, checkpoint, published, batch>>
  BY <1>1 DEF NextPage, source, Visible, TimelineTypeOK
<1>3. PagesRead' = PagesRead
  BY <1>1, <1>2 DEF NextPage, PagesRead, TimelineTypeOK
<1>4. \A p : Due(p)' = Due(p) /\ Safe(p)' = Safe(p)
  BY <1>2 DEF Due, Safe
<1>5. ReadIsSafe'
  BY <1>2, <1>3, <1>4 DEF TInv, ReadIsSafe
<1> QED BY <1>1, <1>2, <1>5
        DEF TInv, BatchIsStoring, Reading, StopBelowCheckpoint, FirstCrawl, FinalIsSafe, NoGap, Unset

\* A crawl that ends before its time leaves the checkpoint.
LEMMA EndTInv == ASSUME TInv, HitPageLimit \/ BreakOff PROVE TInv'
<1>1. TimelineTypeOK'
  BY NextTypeOK DEF TInv, TimelineNext, Crawl
<1>2. /\ pc' = "idle" /\ batch' = {} /\ Visible' = Visible
      /\ UNCHANGED <<stored, slipped, unlisted, checkpoint, published>>
  BY DEF HitPageLimit, BreakOff, source, Visible
<1> QED BY <1>1, <1>2
        DEF TInv, BatchIsStoring, Reading, StopBelowCheckpoint, FirstCrawl, ReadIsSafe, FinalIsSafe, NoGap

\* Every step keeps the invariant.
LEMMA NextTInv == TInv /\ [TimelineNext]_timelineVars => TInv'
<1> SUFFICES ASSUME TInv, [TimelineNext]_timelineVars PROVE TInv'
  OBVIOUS
<1>1. CASE UNCHANGED timelineVars
  BY <1>1 DEF timelineVars, TInv, TimelineTypeOK, BatchIsStoring, Reading, StopBelowCheckpoint, FirstCrawl, ReadIsSafe,
              FinalIsSafe, NoGap, Due, Safe, Visible, PagesRead
<1> QED BY <1>1, PublishTInv, RemoveTInv, StartTInv, FetchTInv, EmptyTInv, FinishTInv, StoreTInv,
           NextPageTInv, EndTInv
        DEF TimelineNext, Crawl

-----------------------------------------------------------------------------
(***************************************************************************)
(* Theorems.                                                               *)
(***************************************************************************)

\* The variables of the crawl keep their types: what a page shows and what is
\* stored are posts that were published.
THEOREM TimelineTyping == TimelineSpec => []TimelineTypeOK
<1>1. TInv => TimelineTypeOK
  BY DEF TInv
<1> QED BY <1>1, InitTInv, NextTInv, PTL DEF TimelineSpec

\* Whatever crawls broke off, met the page limit or were overtaken by new posts,
\* no post between the first checkpoint and this one is missing, unless it was
\* taken down, a removal moved it out of a crawl's sight, or it stood below a page
\* whose answer had no maxPage.
THEOREM NothingIsMissed == TimelineSpec => []NoGap
<1>1. TInv => NoGap
  BY DEF TInv
<1> QED BY <1>1, InitTInv, NextTInv, PTL DEF TimelineSpec

-----------------------------------------------------------------------------
(*****************************************************************************)
(* The archive of comments, for any posts, requests and faults.              *)
(*                                                                           *)
(* The type invariant carries the shape of a run (its current post is one of *)
(* its targets, which are stored posts); the two properties of the queue are *)
(* inductive by themselves, and the one of the archive follows from the      *)
(* steps alone.                                                              *)
(*****************************************************************************)

-----------------------------------------------------------------------------
(***************************************************************************)
(* The states of a run.                                                    *)
(***************************************************************************)

\* What CommentsTypeOK says of the run, against the posts that are stored.
RunOK(r, posts) ==
    /\ r \in Run
    /\ r.todo \subseteq posts
    /\ r.pc \in {"write", "insert"} => r.post \in r.todo
    /\ r.pc = "insert" => r.items /\ r.mode # "incremental"

\* What CommentsTypeOK says of a refresh of a single post.
WebOK(r, posts) == r \in Refresh /\ (r.pc # "idle" => r.post \in posts)

\* No crawl at work.
LEMMA RestingOK == ASSUME NEW posts PROVE RunOK(Resting, posts)
  BY DEF RunOK, Resting, Run, Modes

\* No request at work.
LEMMA NoRefreshOK == ASSUME NEW posts PROVE WebOK(NoRefresh, posts)
  BY DEF WebOK, NoRefresh, Refresh

\* A run that starts has stored posts for targets (StartRun).
LEMMA StartOK ==
  ASSUME NEW posts, posts \subseteq Posts, NEW mode \in Modes, NEW todo, todo \subseteq posts
  PROVE  RunOK([Resting EXCEPT !.pc = IF mode = "incremental" THEN "queue" ELSE "post",
                               !.mode = mode, !.todo = todo], posts)
  BY DEF RunOK, Resting, Run, Modes

\* Going to the first or the next target (QueueTargets).
LEMMA ToPostOK ==
  ASSUME NEW posts, NEW r, RunOK(r, posts)
  PROVE  RunOK([r EXCEPT !.pc = "post"], posts)
  BY DEF RunOK, Run

\* Holding the answer for one of the targets (FetchComments).
LEMMA FetchOK ==
  ASSUME NEW posts, NEW r, RunOK(r, posts), NEW p \in r.todo, NEW some \in BOOLEAN
  PROVE  RunOK([r EXCEPT !.pc = "write", !.post = p, !.items = some], posts)
  <1>1. r \in Run /\ p \in Posts
    BY DEF RunOK, Run
  <1>. QED
    BY <1>1 DEF RunOK, Run

\* The old comments are gone (DeleteComments).
LEMMA DeletedOK ==
  ASSUME NEW posts, NEW r, RunOK(r, posts), r.pc = "write", r.items, r.mode # "incremental"
  PROVE  RunOK([r EXCEPT !.pc = "insert"], posts)
  BY DEF RunOK, Run

\* A post is done with or passed over.
LEMMA SkippedOK ==
  ASSUME NEW posts, RunOK(run, posts), NEW p
  PROVE  RunOK(Skipped(p), posts)
  <1>1. RunOK([run EXCEPT !.pc = "post", !.todo = @ \ {p}, !.post = NoPost, !.items = FALSE], posts)
    BY DEF RunOK, Run
  <1>. QED
    BY <1>1, RestingOK DEF Skipped

\* More posts are stored.
LEMMA MorePosts ==
  ASSUME NEW posts, NEW more, posts \subseteq more,
         NEW r, RunOK(r, posts)
  PROVE  RunOK(r, more)
  BY DEF RunOK

-----------------------------------------------------------------------------
(***************************************************************************)
(* Types.                                                                  *)
(***************************************************************************)

\* The tables hold stored posts only.
TablesOK ==
    /\ tweets \subseteq Posts
    /\ trashed \subseteq tweets
    /\ recent \subseteq tweets
    /\ queue \subseteq tweets
    /\ kept \subseteq tweets
    /\ fetched \subseteq tweets
    /\ owed \subseteq tweets
    /\ archived \subseteq tweets
    /\ failures \in 0..MaxFailures

\* The requests.
WebsOK == web \in [Web -> Refresh] /\ \A w \in Web : WebOK(web[w], tweets)

\* CommentsTypeOK in the three parts that the steps disturb.
LEMMA TypeParts == CommentsTypeOK <=> TablesOK /\ RunOK(run, tweets) /\ WebsOK
  BY DEF CommentsTypeOK, TablesOK, RunOK, WebsOK, WebOK, Replaces

\* The state in which the program starts.
LEMMA InitType == CommentsInit => CommentsTypeOK
  <1>. SUFFICES ASSUME CommentsInit PROVE CommentsTypeOK
    OBVIOUS
  <1>1. TablesOK
    BY CommentsAssumption DEF CommentsInit, TablesOK
  <1>2. RunOK(run, tweets)
    BY RestingOK DEF CommentsInit
  <1>3. WebsOK
    BY NoRefreshOK DEF CommentsInit, WebsOK, WebOK
  <1>. QED
    BY <1>1, <1>2, <1>3, TypeParts

\* A step that counts a fault stays within the bound.
LEMMA FaultType == failures \in 0..MaxFailures /\ Fault => failures' \in 0..MaxFailures
  BY CommentsAssumption DEF Fault

\* One request moves on; the others stay.
LEMMA WebMoves ==
  ASSUME WebsOK, NEW w \in Web, NEW r, WebOK(r, tweets),
         web' = [web EXCEPT ![w] = r], tweets' = tweets
  PROVE  WebsOK'
  <1>1. web' \in [Web -> Refresh]
    BY DEF WebsOK, WebOK
  <1>2. ASSUME NEW v \in Web PROVE WebOK(web'[v], tweets)
    BY DEF WebsOK
  <1>. QED
    BY <1>1, <1>2 DEF WebsOK, WebOK

\* Every step keeps the types.
LEMMA CommentsTypeStep == CommentsTypeOK /\ [CommentsNext]_commentVars => CommentsTypeOK'
  <1>. SUFFICES ASSUME CommentsTypeOK, [CommentsNext]_commentVars PROVE CommentsTypeOK'
    OBVIOUS
  <1>1. TablesOK /\ RunOK(run, tweets) /\ WebsOK
    BY TypeParts
  <1>2. SUFFICES TablesOK' /\ RunOK(run', tweets') /\ WebsOK'
    BY TypeParts DEF CommentsTypeOK, TablesOK, RunOK, WebsOK, WebOK, Replaces
  <1>3. ASSUME NEW p \in Posts, NEW isRecent \in BOOLEAN, InsertPost(p, isRecent)
        PROVE  TablesOK' /\ RunOK(run', tweets') /\ WebsOK'
    <2>1. TablesOK' /\ tweets \subseteq tweets'
      BY <1>1, <1>3 DEF InsertPost, TablesOK
    <2>2. RunOK(run', tweets')
      BY <1>1, <1>3, <2>1, MorePosts DEF InsertPost
    <2>3. WebsOK'
      BY <1>1, <1>3, <2>1 DEF InsertPost, WebsOK, WebOK
    <2>. QED
      BY <2>1, <2>2, <2>3
  <1>4. ASSUME NEW p \in Posts, Age(p) \/ Trash(p) \/ Restore(p)
        PROVE  TablesOK' /\ RunOK(run', tweets') /\ WebsOK'
    BY <1>1, <1>4 DEF Age, Trash, Restore, TablesOK, WebsOK
  <1>5. ASSUME NEW mode \in Modes, NEW marked \in SUBSET tweets, StartRun(mode, marked)
        PROVE  TablesOK' /\ RunOK(run', tweets') /\ WebsOK'
    <2>1. Targets(mode, marked) \subseteq tweets
      BY <1>1 DEF Targets, Modes, TablesOK
    <2>2. RunOK(run', tweets)
      <3>1. run' = [Resting EXCEPT !.pc = IF mode = "incremental" THEN "queue" ELSE "post",
                                   !.mode = mode, !.todo = Targets(mode, marked)]
        BY <1>5 DEF StartRun
      <3>2. tweets \subseteq Posts
        BY <1>1 DEF TablesOK
      <3>3. RunOK([Resting EXCEPT !.pc = IF mode = "incremental" THEN "queue" ELSE "post",
                                  !.mode = mode, !.todo = Targets(mode, marked)], tweets)
        BY <2>1, <3>2, StartOK, Zenon
      <3>. QED
        BY <3>1, <3>3
    <2>. QED
      BY <1>1, <1>5, <2>2 DEF StartRun, tables, TablesOK, WebsOK
  <1>6. CASE QueueTargets
    <2>1. RunOK(run', tweets) /\ run.todo \subseteq tweets
      BY <1>1, <1>6, ToPostOK DEF QueueTargets, RunOK
    <2>. QED
      BY <1>1, <1>6, <2>1 DEF QueueTargets, TablesOK, WebsOK
  <1>7. ASSUME NEW p \in Posts, NEW some \in BOOLEAN, FetchComments(p, some)
        PROVE  TablesOK' /\ RunOK(run', tweets') /\ WebsOK'
    <2>1. RunOK(run', tweets)
      <3>1. p \in run.todo /\ run' = [run EXCEPT !.pc = "write", !.post = p, !.items = some]
        BY <1>7 DEF FetchComments
      <3>2. RunOK([run EXCEPT !.pc = "write", !.post = p, !.items = some], tweets)
        BY <1>1, <3>1, FetchOK, Zenon
      <3>. QED
        BY <3>1, <3>2
    <2>. QED
      BY <1>1, <1>7, <2>1 DEF FetchComments, tables, TablesOK, WebsOK
  <1>8. CASE DeleteComments
    <2>1. RunOK(run', tweets)
      BY <1>1, <1>8, DeletedOK DEF DeleteComments, Replaces
    <2>. QED
      BY <1>1, <1>8, <2>1 DEF DeleteComments, TablesOK, WebsOK
  <1>9. CASE StoreComments
    <2>1. run.post \in tweets
      BY <1>1, <1>9 DEF StoreComments, RunOK
    <2>2. RunOK(run', tweets)
      BY <1>1, <1>9, SkippedOK DEF StoreComments
    <2>. QED
      BY <1>1, <1>9, <2>1, <2>2 DEF StoreComments, TablesOK, WebsOK
  <1>10. ASSUME NEW p \in Posts, FailFetch(p)
         PROVE  TablesOK' /\ RunOK(run', tweets') /\ WebsOK'
    <2>1. RunOK(run', tweets) /\ failures' \in 0..MaxFailures
      BY <1>1, <1>10, SkippedOK, FaultType DEF FailFetch, TablesOK
    <2>. QED
      BY <1>1, <1>10, <2>1 DEF FailFetch, tables, TablesOK, WebsOK
  <1>11. CASE FailWrite
    <2>1. RunOK(run', tweets) /\ failures' \in 0..MaxFailures
      BY <1>1, <1>11, SkippedOK, FaultType DEF FailWrite, TablesOK
    <2>. QED
      BY <1>1, <1>11, <2>1 DEF FailWrite, tables, TablesOK, WebsOK
  <1>12. CASE BreakOffRun
    <2>1. RunOK(run', tweets) /\ failures' \in 0..MaxFailures
      BY <1>1, <1>12, RestingOK, FaultType DEF BreakOffRun, TablesOK
    <2>. QED
      BY <1>1, <1>12, <2>1 DEF BreakOffRun, tables, TablesOK, WebsOK
  <1>13. ASSUME NEW w \in Web, NEW p \in Posts, FetchSingle(w, p)
         PROVE  TablesOK' /\ RunOK(run', tweets') /\ WebsOK'
    <2>1. WebOK([pc |-> "write", post |-> p], tweets)
      BY <1>13 DEF FetchSingle, WebOK, Refresh
    <2>2. WebsOK'
      BY <1>1, <1>13, <2>1, WebMoves DEF FetchSingle, tables
    <2>. QED
      BY <1>1, <1>13, <2>2 DEF FetchSingle, tables, TablesOK
  <1>14. ASSUME NEW w \in Web, DeleteSingle(w)
         PROVE  TablesOK' /\ RunOK(run', tweets') /\ WebsOK'
    <2>1. WebOK(web[w], tweets)
      BY <1>1 DEF WebsOK
    <2>2. WebOK([web[w] EXCEPT !.pc = "insert"], tweets)
      BY <1>14, <2>1 DEF DeleteSingle, WebOK, Refresh
    <2>3. WebsOK'
      BY <1>1, <1>14, <2>2, WebMoves DEF DeleteSingle
    <2>. QED
      BY <1>1, <1>14, <2>3 DEF DeleteSingle, TablesOK
  <1>15. ASSUME NEW w \in Web, InsertSingle(w)
         PROVE  TablesOK' /\ RunOK(run', tweets') /\ WebsOK'
    <2>1. web[w].post \in tweets
      BY <1>1, <1>15 DEF InsertSingle, WebsOK, WebOK
    <2>2. WebsOK'
      BY <1>1, <1>15, NoRefreshOK, WebMoves DEF InsertSingle
    <2>. QED
      BY <1>1, <1>15, <2>1, <2>2 DEF InsertSingle, TablesOK
  <1>16. ASSUME NEW w \in Web, FailSingle(w)
         PROVE  TablesOK' /\ RunOK(run', tweets') /\ WebsOK'
    <2>1. WebsOK' /\ failures' \in 0..MaxFailures
      BY <1>1, <1>16, NoRefreshOK, WebMoves, FaultType DEF FailSingle, tables, TablesOK
    <2>. QED
      BY <1>1, <1>16, <2>1 DEF FailSingle, tables, TablesOK
  <1>17. CASE Crash
    <2>1. RunOK(run', tweets) /\ failures' \in 0..MaxFailures
      BY <1>1, <1>17, RestingOK, FaultType DEF Crash, TablesOK
    <2>2. WebsOK'
      BY <1>17, NoRefreshOK DEF Crash, tables, WebsOK, WebOK
    <2>. QED
      BY <1>1, <1>17, <2>1, <2>2 DEF Crash, tables, TablesOK
  <1>18. CASE UNCHANGED commentVars
    BY <1>1, <1>18 DEF commentVars, TablesOK, WebsOK
  <1>. QED
    BY <1>3, <1>4, <1>5, <1>6, <1>7, <1>8, <1>9, <1>10, <1>11, <1>12, <1>13, <1>14,
       <1>15, <1>16, <1>17, <1>18 DEF CommentsNext, CrawlStep, SingleStep

\* The types of the archive, its queue, the run and the requests, always.
THEOREM CommentsTyping == CommentsSpec => []CommentsTypeOK
  <1>. QED
    BY InitType, CommentsTypeStep, PTL DEF CommentsSpec

-----------------------------------------------------------------------------
(***************************************************************************)
(* The queue.                                                              *)
(***************************************************************************)

\* What a step may do to the queue, the posts and their fetches: a post and its
\* row come together; rows are added; or one row is taken off, of a post whose
\* comments are stored in the same step.
QueueStep ==
    \/ \E p \in Posts : /\ tweets' = tweets \cup {p} /\ queue' = queue \cup {p}
                        /\ fetched' = fetched /\ owed' = owed
    \/ \E S \in SUBSET Posts : /\ queue' = queue \cup S /\ owed' = owed \cup S
                               /\ tweets' = tweets /\ fetched' = fetched
    \/ \E p \in Posts : /\ queue' = queue \ {p} /\ owed' = owed \ {p}
                        /\ tweets' = tweets /\ fetched' = fetched \cup {p}
    \/ /\ tweets' = tweets /\ queue' = queue /\ owed' = owed
       /\ fetched \subseteq fetched'

\* Every step of the specification is one of these.
LEMMA StepsOfQueue == CommentsTypeOK /\ [CommentsNext]_commentVars => QueueStep
  <1>. SUFFICES ASSUME CommentsTypeOK, [CommentsNext]_commentVars PROVE QueueStep
    OBVIOUS
  <1>1. ASSUME NEW p \in Posts, NEW isRecent \in BOOLEAN, InsertPost(p, isRecent)
        PROVE  QueueStep
    BY <1>1 DEF InsertPost, QueueStep
  <1>2. CASE QueueTargets
    <2>1. run.todo \in SUBSET Posts
      BY DEF CommentsTypeOK
    <2>. QED
      BY <1>2, <2>1 DEF QueueTargets, QueueStep
  <1>3. CASE StoreComments
    <2>1. run.post \in Posts
      BY <1>3 DEF StoreComments, CommentsTypeOK
    <2>. QED
      BY <1>3, <2>1 DEF StoreComments, QueueStep
  <1>4. ASSUME NEW w \in Web, InsertSingle(w) PROVE QueueStep
    BY <1>4 DEF InsertSingle, QueueStep
  <1>5. CASE UNCHANGED <<tweets, queue, fetched, owed>>
    BY <1>5 DEF QueueStep
  <1>6. ASSUME NEW p \in Posts, Age(p) \/ Trash(p) \/ Restore(p) \/ FailFetch(p) \/ (\E some \in BOOLEAN : FetchComments(p, some))
        PROVE  QueueStep
    <2>1. CASE Age(p) \/ Trash(p) \/ Restore(p)
      BY <1>5, <2>1 DEF Age, Trash, Restore
    <2>2. CASE FailFetch(p)
      BY <1>5, <2>2 DEF FailFetch, tables
    <2>3. ASSUME NEW some \in BOOLEAN, FetchComments(p, some) PROVE QueueStep
      BY <1>5, <2>3 DEF FetchComments, tables
    <2>. QED
      BY <1>6, <2>1, <2>2, <2>3
  <1>7. ASSUME NEW mode \in Modes, NEW marked \in SUBSET tweets, StartRun(mode, marked)
        PROVE  QueueStep
    BY <1>5, <1>7 DEF StartRun, tables
  <1>8. CASE DeleteComments \/ FailWrite \/ BreakOffRun \/ Crash
    BY <1>5, <1>8 DEF DeleteComments, FailWrite, BreakOffRun, Crash, tables
  <1>9. ASSUME NEW w \in Web,
               DeleteSingle(w) \/ FailSingle(w) \/ (\E p \in Posts : FetchSingle(w, p))
        PROVE  QueueStep
    BY <1>5, <1>9 DEF DeleteSingle, FailSingle, FetchSingle, tables
  <1>10. CASE UNCHANGED commentVars
    BY <1>5, <1>10 DEF commentVars
  <1>. QED
    BY <1>1, <1>2, <1>3, <1>4, <1>6, <1>7, <1>8, <1>9, <1>10 DEF CommentsNext, CrawlStep, SingleStep

\* No new post is forgotten before its first complete fetch: insert_tweet puts
\* it on the queue in its own transaction, and only the transaction that stores
\* its comments takes it off.
THEOREM NewPostsAreQueued == CommentsSpec => []QueuedUntilFetched
  <1>1. CommentsInit => QueuedUntilFetched
    BY DEF CommentsInit, QueuedUntilFetched
  <1>2. QueuedUntilFetched /\ QueueStep => QueuedUntilFetched'
    BY DEF QueuedUntilFetched, QueueStep
  <1>. QED
    BY <1>1, <1>2, CommentsTyping, StepsOfQueue, PTL DEF CommentsSpec

\* No target of an incremental run is forgotten when the run fails, is
\* cancelled or dies: it is on the queue until some run has stored its comments.
THEOREM TargetsStayQueued == CommentsSpec => []OwedStayQueued
  <1>1. CommentsInit => OwedStayQueued
    BY DEF CommentsInit, OwedStayQueued
  <1>2. OwedStayQueued /\ QueueStep => OwedStayQueued'
    BY DEF OwedStayQueued, QueueStep
  <1>. QED
    BY <1>1, <1>2, CommentsTyping, StepsOfQueue, PTL DEF CommentsSpec

\* The posts a replacer is halfway with are its own.
LEMMA HalfwayOf ==
  ASSUME NEW p
  PROVE  p \in Halfway <=> \/ run.pc = "insert" /\ p = run.post
                           \/ \E w \in Web : web[w].pc = "insert" /\ p = web[w].post
  BY DEF Halfway, HalfwayRun, HalfwaySingle

\* A step leaves the archive of p, and whoever is halfway with p.
LEMMA LeftAlone ==
  ASSUME ArchiveKept, NEW p, p \in archived, p \in kept => p \in kept',
         run.pc = "insert" /\ p = run.post => run'.pc = "insert" /\ p = run'.post,
         \A w \in Web : web[w].pc = "insert" /\ p = web[w].post
                            => web'[w].pc = "insert" /\ p = web'[w].post
  PROVE  p \in kept' \cup Halfway'
  <1>1. CASE p \in kept
    BY <1>1
  <1>2. CASE p \in Halfway
    BY <1>2, HalfwayOf DEF Halfway, HalfwayRun, HalfwaySingle
  <1>. QED
    BY <1>1, <1>2 DEF ArchiveKept

\* A post whose comments were archived has comments, or a replacement that goes on to store
\* some: _crawl_xueqiu_comments outside incremental mode and _crawl_single_xueqiu_comments, for
\* any number of requests beside the crawl and any interleaving of their transactions.  Only a
\* write that fails or a crash between the two transactions of a replacement empties the
\* archive (archived).
THEOREM ArchiveIsKept == CommentsSpec => []ArchiveKept
  <1>1. CommentsInit => ArchiveKept
    BY DEF CommentsInit, ArchiveKept
  <1>2. CommentsTypeOK /\ ArchiveKept /\ [CommentsNext]_commentVars => ArchiveKept'
    <2>. SUFFICES ASSUME CommentsTypeOK, ArchiveKept, [CommentsNext]_commentVars,
                         NEW p \in archived'
                  PROVE  p \in kept' \cup Halfway'
      BY DEF ArchiveKept
    <2>1. CASE UNCHANGED <<kept, archived, run, web>>
      BY <2>1, LeftAlone
    <2>2. CASE UNCHANGED <<kept, archived, web>> /\ run.pc # "insert"
      BY <2>2, LeftAlone
    <2>3. CASE DeleteComments
      <3>1. run.pc = "write" /\ archived' = archived /\ kept' = kept \ {run.post} /\ web' = web
        BY <2>3 DEF DeleteComments
      <3>2. run'.pc = "insert" /\ run'.post = run.post
        BY <2>3 DEF DeleteComments, CommentsTypeOK, Run
      <3>3. CASE p = run.post
        BY <3>2, <3>3 DEF Halfway, HalfwayRun
      <3>4. CASE p # run.post
        BY <3>1, <3>4, LeftAlone
      <3>. QED
        BY <3>3, <3>4
    <2>4. CASE StoreComments
      <3>1. /\ kept' = IF run.items THEN kept \cup {run.post} ELSE kept
            /\ archived' = IF run.items THEN archived \cup {run.post} ELSE archived
            /\ web' = web /\ (run.pc = "insert" => run.items)
        BY <2>4 DEF StoreComments, CommentsTypeOK, Replaces
      <3>2. CASE p \in kept'
        BY <3>2
      <3>3. CASE p \notin kept'
        <4>1. p \in archived /\ ~(run.pc = "insert" /\ p = run.post)
          BY <3>1, <3>3
        <4>. QED
          BY <3>1, <4>1, LeftAlone
      <3>. QED
        BY <3>2, <3>3
    <2>5. CASE FailWrite
      <3>1. archived' = archived \ (HalfwayRun \ kept) /\ kept' = kept /\ web' = web
        BY <2>5 DEF FailWrite
      <3>2. CASE p \in kept
        BY <3>1, <3>2
      <3>3. CASE p \notin kept
        <4>1. p \in archived /\ ~(run.pc = "insert" /\ p = run.post)
          BY <3>1, <3>3 DEF HalfwayRun
        <4>. QED
          BY <3>1, <4>1, LeftAlone
      <3>. QED
        BY <3>2, <3>3
    <2>6. ASSUME NEW w \in Web, DeleteSingle(w) PROVE p \in kept' \cup Halfway'
      <3>1. /\ web[w].pc = "write" /\ archived' = archived /\ kept' = kept \ {web[w].post} /\ run' = run
            /\ web' = [web EXCEPT ![w].pc = "insert"]
        BY <2>6 DEF DeleteSingle
      <3>2. web'[w].pc = "insert" /\ web'[w].post = web[w].post
        BY <3>1 DEF CommentsTypeOK, Refresh
      <3>3. CASE p = web[w].post
        BY <3>2, <3>3 DEF Halfway, HalfwaySingle
      <3>4. CASE p # web[w].post
        <4>1. \A v \in Web : web[v].pc = "insert" => web'[v] = web[v]
          BY <3>1 DEF CommentsTypeOK
        <4>. QED
          BY <3>1, <3>4, <4>1, LeftAlone
      <3>. QED
        BY <3>3, <3>4
    <2>7. ASSUME NEW w \in Web, InsertSingle(w) PROVE p \in kept' \cup Halfway'
      <3>1. /\ web[w].pc = "insert" /\ archived' = archived \cup {web[w].post}
            /\ kept' = kept \cup {web[w].post} /\ run' = run
            /\ web' = [web EXCEPT ![w] = NoRefresh]
        BY <2>7 DEF InsertSingle
      <3>2. CASE p = web[w].post
        BY <3>1, <3>2
      <3>3. CASE p # web[w].post
        <4>1. \A v \in Web : p = web[v].post => web'[v] = web[v]
          BY <3>1, <3>3 DEF CommentsTypeOK
        <4>. QED
          BY <3>1, <3>3, <4>1, LeftAlone
      <3>. QED
        BY <3>2, <3>3
    <2>8. ASSUME NEW w \in Web, FailSingle(w) PROVE p \in kept' \cup Halfway'
      <3>1. /\ archived' = archived \ (HalfwaySingle(w) \ kept) /\ kept' = kept /\ run' = run
            /\ web' = [web EXCEPT ![w] = NoRefresh]
        BY <2>8 DEF FailSingle
      <3>2. CASE p \in kept
        BY <3>1, <3>2
      <3>3. CASE p \notin kept
        <4>1. p \in archived /\ ~(web[w].pc = "insert" /\ p = web[w].post)
          BY <3>1, <3>3 DEF HalfwaySingle
        <4>2. \A v \in Web : v # w => web'[v] = web[v]
          BY <3>1 DEF CommentsTypeOK
        <4>. QED
          BY <3>1, <4>1, <4>2, LeftAlone
      <3>. QED
        BY <3>2, <3>3
    <2>9. CASE Crash
      <3>1. archived' = archived \ (Halfway \ kept) /\ kept' = kept
        BY <2>9 DEF Crash
      <3>. QED
        BY <3>1 DEF ArchiveKept
    <2>10. ASSUME NEW q \in Posts,
                  \/ \E isRecent \in BOOLEAN : InsertPost(q, isRecent)
                  \/ Age(q) \/ Trash(q) \/ Restore(q)
           PROVE  p \in kept' \cup Halfway'
      BY <2>1, <2>10 DEF InsertPost, Age, Trash, Restore
    <2>11. ASSUME NEW q \in Posts, FailFetch(q) \/ \E some \in BOOLEAN : FetchComments(q, some)
           PROVE  p \in kept' \cup Halfway'
      <3>1. CASE FailFetch(q)
        BY <2>2, <3>1 DEF FailFetch, tables
      <3>2. ASSUME NEW some \in BOOLEAN, FetchComments(q, some) PROVE p \in kept' \cup Halfway'
        BY <2>2, <3>2 DEF FetchComments, tables
      <3>. QED
        BY <2>11, <3>1, <3>2
    <2>12. ASSUME NEW mode \in Modes, NEW marked \in SUBSET tweets, StartRun(mode, marked)
           PROVE  p \in kept' \cup Halfway'
      BY <2>2, <2>12 DEF StartRun, tables
    <2>13. CASE QueueTargets \/ BreakOffRun
      BY <2>2, <2>13 DEF QueueTargets, BreakOffRun, tables
    <2>14. ASSUME NEW w \in Web, NEW q \in Posts, FetchSingle(w, q)
           PROVE  p \in kept' \cup Halfway'
      <3>1. UNCHANGED <<kept, archived, run>> /\ web[w].pc = "idle"
            /\ web' = [web EXCEPT ![w] = [pc |-> "write", post |-> q]]
        BY <2>14 DEF FetchSingle, tables
      <3>2. \A v \in Web : web[v].pc = "insert" => web'[v] = web[v]
        BY <3>1 DEF CommentsTypeOK
      <3>. QED
        BY <3>1, <3>2, LeftAlone
    <2>15. CASE UNCHANGED commentVars
      BY <2>1, <2>15 DEF commentVars
    <2>. QED
      BY <2>3, <2>4, <2>5, <2>6, <2>7, <2>8, <2>9, <2>10, <2>11, <2>12, <2>13, <2>14, <2>15
         DEF CommentsNext, CrawlStep, SingleStep
  <1>. QED
    BY <1>1, <1>2, CommentsTyping, PTL DEF CommentsSpec
=============================================================================
