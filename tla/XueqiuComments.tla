--------------------------- MODULE XueqiuComments ---------------------------
(***************************************************************************)
(* The archive of Xueqiu comments and its durable queue: the comment crawl *)
(* _crawl_xueqiu_comments and the refresh of a single post in              *)
(* weibospider/app.py, over the transactions of weibospider/db.py.         *)
(*                                                                         *)
(* A new post enters tweets and xueqiu_comment_queue in one transaction.   *)
(* An incremental run queues all its targets before it fetches the first,  *)
(* and the transaction that stores the comments of a post takes it off the *)
(* queue.  A refresh that replaces comments deletes the old ones in a      *)
(* transaction of its own.  One crawl runs at a time (OneXueqiuPipeline of *)
(* CrawlScheduler); refreshes of single posts run beside it.               *)
(***************************************************************************)
EXTENDS Naturals

CONSTANTS
    Posts,       \* Xueqiu posts that may be stored
    NoPost,
    Web,         \* request threads that refresh the comments of one post
    MaxFailures  \* bound: fetches, writes and runs that fail, cancels, crashes

ASSUME CommentsAssumption ==
    /\ NoPost \notin Posts
    /\ MaxFailures \in Nat

VARIABLES
    tweets,    \* the tweets table
    trashed,   \* stored posts with tweets.deleted=1
    recent,    \* stored posts created in the last 48 hours
    queue,     \* xueqiu_comment_queue
    kept,      \* posts with at least one archived comment
    run,       \* the comment crawl
    web,       \* [Web -> refresh of a single post]
    failures,
    fetched,   \* history: posts whose comments were stored, once at least
    owed,      \* history: posts an incremental run took on, not stored since
    archived   \* history: posts whose comments were archived, and that no replacement
               \* has emptied that broke off between its two transactions

commentVars == <<tweets, trashed, recent, queue, kept, run, web, failures, fetched, owed, archived>>
tables == <<tweets, trashed, recent, queue, kept, fetched, owed, archived>>

Modes == {"ps", "all", "incremental"}

\* idle; queue: about to queue the targets; post: before the next target;
\* write: the comments of .post are complete, to be stored; insert: the old
\* comments are deleted.
Run == [pc    : {"idle", "queue", "post", "write", "insert"},
        mode  : Modes,
        todo  : SUBSET Posts,
        post  : Posts \cup {NoPost},
        items : BOOLEAN]          \* the answer held comments

Refresh == [pc : {"idle", "write", "insert"}, post : Posts \cup {NoPost}]

Resting == [pc |-> "idle", mode |-> "all", todo |-> {}, post |-> NoPost, items |-> FALSE]
NoRefresh == [pc |-> "idle", post |-> NoPost]

CommentsInit ==
    /\ tweets = {}
    /\ trashed = {}
    /\ recent = {}
    /\ queue = {}
    /\ kept = {}
    /\ run = Resting
    /\ web = [w \in Web |-> NoRefresh]
    /\ failures = 0
    /\ fetched = {}
    /\ owed = {}
    /\ archived = {}

Fault == failures < MaxFailures /\ failures' = failures + 1

\* The posts whose old comments are deleted and whose new ones are not yet stored.
HalfwayRun == IF run.pc = "insert" THEN {run.post} ELSE {}
HalfwaySingle(w) == IF web[w].pc = "insert" THEN {web[w].post} ELSE {}
Halfway == HalfwayRun \cup UNION {HalfwaySingle(w) : w \in Web}

-----------------------------------------------------------------------------
(***************************************************************************)
(* Posts.                                                                  *)
(***************************************************************************)

\* Mutant: the row of the queue is left to a later transaction.
InsertPostAlone(p, isRecent) ==
    /\ run.pc = "idle"
    /\ p \in Posts \ tweets
    /\ tweets' = tweets \cup {p}
    /\ recent' = IF isRecent THEN recent \cup {p} ELSE recent
    /\ UNCHANGED <<trashed, queue, kept, run, web, failures, fetched, owed, archived>>

\* insert_tweet of the post crawl, when the source id is new.
InsertPost(p, isRecent) ==
    /\ run.pc = "idle"
    /\ p \in Posts \ tweets
    /\ tweets' = tweets \cup {p}
    /\ recent' = IF isRecent THEN recent \cup {p} ELSE recent
    /\ queue' = queue \cup {p}
    /\ UNCHANGED <<trashed, kept, run, web, failures, fetched, owed, archived>>

\* 48 hours pass.
Age(p) ==
    /\ p \in recent
    /\ recent' = recent \ {p}
    /\ UNCHANGED <<tweets, trashed, queue, kept, run, web, failures, fetched, owed, archived>>

\* batch_delete and restore_tweets move a post to the trash and back.
Trash(p) ==
    /\ p \in tweets \ trashed
    /\ trashed' = trashed \cup {p}
    /\ UNCHANGED <<tweets, recent, queue, kept, run, web, failures, fetched, owed, archived>>

Restore(p) ==
    /\ p \in trashed
    /\ trashed' = trashed \ {p}
    /\ UNCHANGED <<tweets, recent, queue, kept, run, web, failures, fetched, owed, archived>>

-----------------------------------------------------------------------------
(***************************************************************************)
(* The comment crawl.                                                      *)
(***************************************************************************)

\* Mutant: the queue is not part of an incremental run.
TargetsInWindow(mode, marked) ==
    CASE mode = "incremental" -> recent \ trashed
      [] mode = "all"         -> tweets \ trashed
      [] mode = "ps"          -> marked \ trashed

\* get_xueqiu_tweets_for_comment_crawl; the posts marked as pictures may be any.
Targets(mode, marked) ==
    CASE mode = "incremental" -> (recent \cup (queue \cap tweets)) \ trashed
      [] mode = "all"         -> tweets \ trashed
      [] mode = "ps"          -> marked \ trashed

StartRun(mode, marked) ==
    /\ run.pc = "idle"
    /\ Targets(mode, marked) # {}
    /\ run' = [Resting EXCEPT !.pc = IF mode = "incremental" THEN "queue" ELSE "post",
                              !.mode = mode,
                              !.todo = Targets(mode, marked)]
    /\ UNCHANGED <<tables, web, failures>>

\* Mutant: only a failed fetch puts a post on the queue.
QueueNothing ==
    /\ run.pc = "queue"
    /\ owed' = owed \cup run.todo
    /\ run' = [run EXCEPT !.pc = "post"]
    /\ UNCHANGED <<tweets, trashed, recent, queue, kept, web, failures, fetched, archived>>

\* queue_xueqiu_comments
QueueTargets ==
    /\ run.pc = "queue"
    /\ queue' = queue \cup run.todo
    /\ owed' = owed \cup run.todo
    /\ run' = [run EXCEPT !.pc = "post"]
    /\ UNCHANGED <<tweets, trashed, recent, kept, web, failures, fetched, archived>>

\* On to the next target, or the end of the run.
Skipped(p) ==
    IF run.todo = {p} THEN Resting
    ELSE [run EXCEPT !.pc = "post", !.todo = @ \ {p}, !.post = NoPost, !.items = FALSE]

\* All comment pages and replies of a post have arrived (the code goes through
\* the targets by creation time; any order is allowed here).
FetchComments(p, some) ==
    /\ run.pc = "post"
    /\ p \in run.todo
    /\ run' = [run EXCEPT !.pc = "write", !.post = p, !.items = some]
    /\ UNCHANGED <<tables, web, failures>>

\* A page of comments fails: the post is passed over, its row stays.
FailFetch(p) ==
    /\ run.pc = "post"
    /\ p \in run.todo
    /\ Fault
    /\ run' = Skipped(p)
    /\ UNCHANGED <<tables, web>>

\* Mutant: an incremental run replaces too, whatever the answer held.
ReplacesAlways == TRUE

\* The run replaces the archived comments of its post.
Replaces == run.items /\ run.mode # "incremental"

\* delete_xueqiu_comments, a transaction of its own.
DeleteComments ==
    /\ run.pc = "write"
    /\ Replaces
    /\ kept' = kept \ {run.post}
    /\ run' = [run EXCEPT !.pc = "insert"]
    /\ UNCHANGED <<tweets, trashed, recent, queue, fetched, owed, archived, web, failures>>

\* batch_insert_comments: the comments and the end of the queue row.
StoreComments ==
    /\ run.pc = "insert" \/ (run.pc = "write" /\ ~Replaces)
    /\ kept' = IF run.items THEN kept \cup {run.post} ELSE kept
    /\ archived' = IF run.items THEN archived \cup {run.post} ELSE archived
    /\ queue' = queue \ {run.post}
    /\ fetched' = fetched \cup {run.post}
    /\ owed' = owed \ {run.post}
    /\ run' = Skipped(run.post)
    /\ UNCHANGED <<tweets, trashed, recent, web, failures>>

\* Either write fails: the run goes on with the next post.
FailWrite ==
    /\ run.pc \in {"write", "insert"}
    /\ Fault
    /\ run' = Skipped(run.post)
    /\ archived' = archived \ (HalfwayRun \ kept)
    /\ UNCHANGED <<tweets, trashed, recent, queue, kept, fetched, owed, web>>

\* A cancel, polled before a post and after its fetch; or the targets could
\* not be queued.
BreakOffRun ==
    /\ run.pc \in {"queue", "post", "write"}
    /\ Fault
    /\ run' = Resting
    /\ UNCHANGED <<tables, web>>

-----------------------------------------------------------------------------
(***************************************************************************)
(* _crawl_single_xueqiu_comments, which takes no lock and leaves the queue.*)
(***************************************************************************)

\* A complete answer with comments; any other ends the request at once.
FetchSingle(w, p) ==
    /\ web[w].pc = "idle"
    /\ p \in tweets
    /\ web' = [web EXCEPT ![w] = [pc |-> "write", post |-> p]]
    /\ UNCHANGED <<tables, run, failures>>

DeleteSingle(w) ==
    /\ web[w].pc = "write"
    /\ kept' = kept \ {web[w].post}
    /\ web' = [web EXCEPT ![w].pc = "insert"]
    /\ UNCHANGED <<tweets, trashed, recent, queue, fetched, owed, archived, run, failures>>

InsertSingle(w) ==
    /\ web[w].pc = "insert"
    /\ kept' = kept \cup {web[w].post}
    /\ fetched' = fetched \cup {web[w].post}
    /\ archived' = archived \cup {web[w].post}
    /\ web' = [web EXCEPT ![w] = NoRefresh]
    /\ UNCHANGED <<tweets, trashed, recent, queue, owed, run, failures>>

FailSingle(w) ==
    /\ web[w].pc # "idle"
    /\ Fault
    /\ web' = [web EXCEPT ![w] = NoRefresh]
    /\ archived' = archived \ (HalfwaySingle(w) \ kept)
    /\ UNCHANGED <<tweets, trashed, recent, queue, kept, fetched, owed, run>>

\* The process dies and starts again; the tables stay.
Crash ==
    /\ Fault
    /\ run' = Resting
    /\ web' = [w \in Web |-> NoRefresh]
    /\ archived' = archived \ (Halfway \ kept)
    /\ UNCHANGED <<tweets, trashed, recent, queue, kept, fetched, owed>>

-----------------------------------------------------------------------------
CrawlStep ==
    \/ QueueTargets
    \/ \E p \in Posts, some \in BOOLEAN : FetchComments(p, some)
    \/ DeleteComments
    \/ StoreComments

SingleStep(w) == DeleteSingle(w) \/ InsertSingle(w)

CommentsNext ==
    \/ \E p \in Posts, isRecent \in BOOLEAN : InsertPost(p, isRecent)
    \/ \E p \in Posts : Age(p) \/ Trash(p) \/ Restore(p)
    \/ \E mode \in Modes, marked \in SUBSET tweets : StartRun(mode, marked)
    \/ CrawlStep
    \/ \E p \in Posts : FailFetch(p)
    \/ FailWrite
    \/ BreakOffRun
    \/ \E w \in Web : (\E p \in Posts : FetchSingle(w, p)) \/ SingleStep(w) \/ FailSingle(w)
    \/ Crash

CommentsSpec == CommentsInit /\ [][CommentsNext]_commentVars

\* A run that meets no fault goes on to its end, and the daily incremental run
\* starts again and again: not every day finds a manual crawl running.
CommentsFairness ==
    /\ WF_commentVars(CrawlStep)
    /\ SF_commentVars(StartRun("incremental", {}))

CommentsFairSpec == CommentsSpec /\ CommentsFairness

-----------------------------------------------------------------------------
(***************************************************************************)
(* Properties.                                                             *)
(***************************************************************************)

CommentsTypeOK ==
    /\ tweets \subseteq Posts
    /\ trashed \subseteq tweets
    /\ recent \subseteq tweets
    /\ queue \subseteq tweets
    /\ kept \subseteq tweets
    /\ run \in Run
    /\ run.todo \subseteq tweets
    /\ run.pc \in {"write", "insert"} => run.post \in run.todo
    /\ run.pc = "insert" => Replaces
    /\ web \in [Web -> Refresh]
    /\ \A w \in Web : web[w].pc # "idle" => web[w].post \in tweets
    /\ failures \in 0..MaxFailures
    /\ fetched \subseteq tweets
    /\ owed \subseteq tweets
    /\ archived \subseteq tweets

\* A stored post is on the queue until its comments have been stored once: no
\* failure, cancel or restart between its insertion and its first complete
\* fetch makes the crawl forget it, however old it has become.
QueuedUntilFetched == tweets \subseteq queue \cup fetched

\* A post that an incremental run took on and did not finish stays eligible for
\* the next one, also when it has left the 48-hour window meanwhile.
OwedStayQueued == owed \subseteq queue

\* A post whose comments were archived has comments: what deletes them, a crawl or a request
\* beside it, goes on to store others.  Failed fetches, empty answers, incremental runs, cancels
\* and replacements that overlap never empty the archive; only a write that fails, or a process
\* that dies, between the two transactions of one replacement does (archived).
ArchiveKept == archived \subseteq kept \cup Halfway

\* Every post on the queue is fetched and leaves it in the end, whatever single
\* runs failed before, unless the user puts it in the trash.
QueueDrains == \A p \in Posts : p \in queue ~> (p \notin queue \/ p \in trashed)

=============================================================================
