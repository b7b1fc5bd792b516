-------------------------- MODULE MCCrawlScheduler --------------------------
(***************************************************************************)
(* Model values for CrawlScheduler: two HTTP handlers that may each start  *)
(* a sync or an Xueqiu crawl, and the timers.                              *)
(***************************************************************************)
EXTENDS CrawlScheduler

CONSTANTS web1, web2, timer1

MCThreads == {web1, web2, timer1}

MCPrograms ==
    [t \in MCThreads |->
        CASE t = web1   -> {"sync", "xq_comments"}
          [] t = web2   -> {"sync", "xq_full"}
          [] t = timer1 -> {"sched_xq"}]
=============================================================================
