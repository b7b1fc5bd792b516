--------------------------- MODULE XueqiuTimeline ---------------------------
(***************************************************************************)
(* The Xueqiu post crawl, _crawl_xueqiu of weibospider/app.py.  The source *)
(* timeline lists an author's posts, newest first, cut into pages that     *)
(* shift whenever a post is published or removed; a pinned post stands at  *)
(* the top of page 1.  A crawl reads page after page and stores the posts  *)
(* one transaction each; an incremental crawl goes down to the checkpoint, *)
(* which moves only when a crawl has gone all the way.                     *)
(*                                                                         *)
(* Posts are numbered in the order of publication, as their source ids.    *)
(* One crawl runs at a time (OneXueqiuPipeline of CrawlScheduler).         *)
(***************************************************************************)
EXTENDS Integers, FiniteSets

CONSTANTS
    Legacy,        \* the posts stored before the first crawl with a checkpoint
    Published0,    \* posts 1..Published0 are on the timeline at the start
    Pinned,        \* the pinned post, 0 if there is none
    PageSize,      \* posts on a page of the timeline
    PageLimit,     \* page_limit, max_pages or 3000
    MaxPost,       \* bound: posts ever published
    MaxRemovals,   \* bound: posts the author removes
    MaxFaults      \* bound: crawls that fail, are cancelled or die, answers without maxPage

ASSUME TimelineAssumption ==
    /\ {MaxPost, MaxRemovals, MaxFaults} \subseteq Nat
    /\ PageSize \in Nat \ {0, 1}  \* a page has room for more than the pinned post
    /\ PageLimit \in Nat \ {0}
    /\ Published0 \in 0..MaxPost
    /\ Legacy \subseteq 1..Published0
    /\ Pinned \in 0..Published0

VARIABLES
    published,   \* the source: posts 1..published have appeared
    removed,     \* the source: posts the author took down
    stored,      \* the tweets table: Xueqiu posts of this author
    checkpoint,  \* xq_timeline_checkpoint_<user>: Unset, or a post, or 0 for ''
    pc,          \* the next statement of the crawl
    stop,        \* stop_id, 0 for a crawl that does not stop early
    page,        \* the page to read, or being stored
    batch,       \* the posts of this page still to be stored
    final,       \* no page follows this one: stopped, or page >= maxPage
    faults,      \* crawls that did not complete, answers without maxPage
    slipped,     \* history: posts a removal moved onto a page already read
    unlisted     \* history: posts below a page whose answer had no maxPage

timelineVars == <<published, removed, stored, checkpoint, pc, stop, page, batch,
          final, faults, slipped, unlisted>>
source == <<published, removed, slipped>>

Unset == -1
Ids == 1..MaxPost

\* The greatest of a set of posts, 0 when it is empty (get_latest_xueqiu_id).
Latest(S) == IF S = {} THEN 0 ELSE CHOOSE p \in S : \A q \in S : q <= p

-----------------------------------------------------------------------------
(***************************************************************************)
(* The source timeline.                                                    *)
(***************************************************************************)

Visible == 1..published \ removed

\* How many posts of V stand above p.
Rank(p, V) ==
    IF p = Pinned THEN 0 ELSE Cardinality({q \in V : q > p \/ q = Pinned})

PostsOn(n) == {p \in Visible : Rank(p, Visible) \div PageSize = n - 1}

MaxPage == (Cardinality(Visible) + PageSize - 1) \div PageSize

\* The post at the foot of a page.
Foot(S) == IF S = {Pinned} THEN Pinned
           ELSE CHOOSE p \in S \ {Pinned} : \A q \in S \ {Pinned} : p <= q

\* The post at the head of what remains of a page.
Head(S) == IF Pinned \in S THEN Pinned ELSE Latest(S)

-----------------------------------------------------------------------------
TimelineInit ==
    /\ published = Published0
    /\ removed = {}
    /\ stored = Legacy
    /\ checkpoint = Unset
    /\ pc = "idle"
    /\ stop = 0
    /\ page = 0
    /\ batch = {}
    /\ final = FALSE
    /\ faults = 0
    /\ slipped = {}
    /\ unlisted = {}

\* The author publishes a post: everything below moves down by one.
Publish ==
    /\ published < MaxPost
    /\ published' = published + 1
    /\ UNCHANGED <<removed, stored, checkpoint, pc, stop, page, batch, final, faults, slipped,
                   unlisted>>

PagesRead == CASE pc = "page" -> page - 1 [] pc = "store" -> page [] OTHER -> 0

\* The author removes a post: everything below moves up by one, and the first
\* post of the next page comes to stand on a page the crawl has already read.
Remove(r) ==
    /\ Cardinality(removed) < MaxRemovals
    /\ r \in Visible
    /\ removed' = removed \cup {r}
    /\ slipped' = slipped \cup
          {p \in Visible \ {r} : /\ Rank(p, Visible) >= PagesRead * PageSize
                                 /\ Rank(p, Visible \ {r}) < PagesRead * PageSize}
    /\ UNCHANGED <<published, stored, checkpoint, pc, stop, page, batch, final, faults, unlisted>>

\* Mutant: an incremental crawl that goes down to the newest stored post.
StartCrawlAtLatest(mode) ==
    /\ pc = "idle"
    /\ checkpoint' = IF checkpoint = Unset THEN Latest(stored) ELSE checkpoint
    /\ stop' = IF mode = "incremental" THEN Latest(stored) ELSE 0
    /\ page' = 1
    /\ pc' = "page"
    /\ UNCHANGED <<source, stored, batch, final, faults, unlisted>>

\* A crawl starts; the first one ever saves the newest stored post.
StartCrawl(mode) ==
    /\ pc = "idle"
    /\ checkpoint' = IF checkpoint = Unset THEN Latest(stored) ELSE checkpoint
    /\ stop' = IF mode = "incremental" THEN checkpoint' ELSE 0
    /\ page' = 1
    /\ pc' = "page"
    /\ UNCHANGED <<source, stored, batch, final, faults, unlisted>>

\* The crawl has gone all the way down.
Complete ==
    /\ checkpoint' = Latest(stored)
    /\ pc' = "idle"
    /\ UNCHANGED <<stop, page, batch, final, faults, unlisted>>

\* Mutant: an old post anywhere on the page ends the crawl.
IsFinalAtOldPost(posts, counted) ==
    \/ stop # 0 /\ \E p \in posts : p <= stop
    \/ counted => page >= MaxPage

\* The foot of the page has reached the checkpoint, or this is the last page; an
\* answer that does not count the pages makes its own page the last.
IsFinal(posts, counted) ==
    \/ stop # 0 /\ Foot(posts) <= stop
    \/ counted => page >= MaxPage

\* One page is read: an empty one ends the crawl; posts at or below the
\* checkpoint are passed over.  counted: the answer has a maxPage.
FetchPage(counted) ==
    /\ pc = "page"
    /\ PostsOn(page) # {}
    /\ ~counted => faults < MaxFaults
    /\ batch' = {p \in PostsOn(page) : stop # 0 => p > stop}
    /\ final' = IsFinal(PostsOn(page), counted)
    /\ pc' = "store"
    /\ faults' = IF counted THEN faults ELSE faults + 1
    /\ unlisted' = IF counted THEN unlisted
                   ELSE unlisted \cup {p \in Visible : p > stop /\ Rank(p, Visible) >= page * PageSize}
    /\ UNCHANGED <<source, stored, checkpoint, stop, page>>

FetchEmptyPage ==
    /\ pc = "page"
    /\ PostsOn(page) = {}
    /\ Complete
    /\ UNCHANGED <<source, stored>>

\* insert_tweet, one transaction for each post, from the head of the page.
StorePost ==
    /\ pc = "store"
    /\ batch # {}
    /\ stored' = stored \cup {Head(batch)}
    /\ batch' = batch \ {Head(batch)}
    /\ UNCHANGED <<source, checkpoint, pc, stop, page, final, faults, unlisted>>

FinishCrawl ==
    /\ pc = "store" /\ batch = {} /\ final
    /\ Complete
    /\ UNCHANGED <<source, stored>>

NextPage ==
    /\ pc = "store" /\ batch = {} /\ ~final
    /\ page < PageLimit
    /\ page' = page + 1
    /\ pc' = "page"
    /\ UNCHANGED <<source, stored, checkpoint, stop, batch, final, faults, unlisted>>

\* The page limit: 'failed', the checkpoint stays.
HitPageLimit ==
    /\ pc = "store" /\ batch = {} /\ ~final
    /\ page >= PageLimit
    /\ pc' = "idle"
    /\ UNCHANGED <<source, stored, checkpoint, stop, page, batch, final, faults, unlisted>>

\* The request fails twice, the answer is not a timeline, a post cannot be
\* stored, the user cancels, or the process dies: nothing else is written.
BreakOff ==
    /\ pc # "idle"
    /\ faults < MaxFaults
    /\ faults' = faults + 1
    /\ pc' = "idle"
    /\ batch' = {}
    /\ UNCHANGED <<source, stored, checkpoint, stop, page, final, unlisted>>

Crawl ==
    \/ \E counted \in BOOLEAN : FetchPage(counted)
    \/ FetchEmptyPage \/ StorePost \/ FinishCrawl \/ NextPage \/ HitPageLimit

TimelineNext ==
    \/ Publish
    \/ \E r \in Visible : Remove(r)
    \/ \E mode \in {"full", "incremental"} : StartCrawl(mode)
    \/ Crawl
    \/ BreakOff

TimelineSpec == TimelineInit /\ [][TimelineNext]_timelineVars

\* A crawl that does not break off runs to its end, and the daily incremental
\* crawl starts again and again: not every day finds a manual crawl running.
TimelineFairness == WF_timelineVars(Crawl) /\ SF_timelineVars(StartCrawl("incremental"))

TimelineFairSpec == TimelineSpec /\ TimelineFairness

-----------------------------------------------------------------------------
(***************************************************************************)
(* Properties.                                                             *)
(***************************************************************************)

TimelineTypeOK ==
    /\ published \in 0..MaxPost
    /\ removed \subseteq 1..published
    /\ stored \subseteq 1..published
    /\ checkpoint \in Unset..MaxPost
    /\ pc \in {"idle", "page", "store"}
    /\ stop \in 0..MaxPost
    /\ page \in 0..PageLimit
    /\ batch \subseteq 1..published
    /\ final \in BOOLEAN
    /\ faults \in 0..MaxFaults
    /\ slipped \subseteq 1..published
    /\ unlisted \subseteq 1..published

\* Below the checkpoint, where no later incremental crawl will look, every post
\* above the first checkpoint is stored, save those a removal moved out of a
\* crawl's sight: a page that was not read is a crawl that failed.
NoPageDropped ==
    \A p \in Visible : Latest(Legacy) < p /\ p <= checkpoint => p \in stored \cup slipped

\* No gap below the checkpoint, whatever crawls broke off or were overtaken by new
\* posts: every post between the first checkpoint and this one is stored, if it is
\* still on the timeline, no removal moved it out of a crawl's sight, and it was
\* not below a page whose answer had no maxPage.
NoGap ==
    \A p \in Visible :
        Latest(Legacy) < p /\ p <= checkpoint => p \in stored \cup slipped \cup unlisted

\* Every post above the first checkpoint is stored in the end, or taken down, or
\* moved out of sight, or not listed, although earlier crawls failed on any page.
EventuallyStored ==
    \A p \in Ids : (p > Latest(Legacy) /\ p <= published)
                     ~> (p \in stored \cup removed \cup slipped \cup unlisted)

=============================================================================
