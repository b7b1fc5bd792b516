# WeiboSpider, specified in TLA+

This directory holds TLA+ specifications of WeiboSpider: a Flask and Scrapy
service that archives Weibo and Xueqiu posts with their comments (`src/weibospider`),
a Go backend with an investment ledger, liquor prices and a tax calculator
(`src/backend`), and a Vue frontend (`src/frontend`). TLC checks the modules on
small instances; TLAPS proves the main results for every instance.
`PROJECT.json` lists the runs, the lines of the code behind every definition, the
mutants that show each property to be able to fail, the hazards and the theorems.

    tlasany M.tla                                   parse
    tlc -workers 2 -config Weekly.cfg MCWeeklyJobs.tla
    tlapm WeeklyJobsProofs.tla

## Contents

| module | what it is |
| --- | --- |
| `CrawlScheduler` | the crawl jobs, their locks, flags and cancellation (`scheduler.py`) |
| `XueqiuTimeline` | the checkpointed crawl of a timeline that moves (`_crawl_xueqiu`) |
| `XueqiuComments` | the durable queue and the archive of comments (`_crawl_xueqiu_comments`) |
| `CrawlerProofs` | the safety properties of the three, proved: locks and cancels, no gap below the checkpoint, queue and archive |
| `WeeklyJobs` | the weekly asset worker of the ledger (`weekly.go`) |
| `WeeklyJobsProofs` | its invariants and action properties, proved |
| `StockJournal` | the stock journal and the dividend worker (`stock_*.go`) |
| `StockJournalProofs` | its types and all its properties, proved |
| `OnceOnly` | abstractly, what commands with keys promise to clients who repeat them |
| `LedgerCommands` | the commands of the ledger, receipts, audit, deletion, import, portfolios; implements `OnceOnly` |
| `BenchmarkSync` | the worker and the store of benchmark closes (`benchmark_*.go`) |
| `LedgerProofs` | the two, proved: the invariants of the commands and the refinement of `OnceOnly`; late closes, gaps and curves without a hole |
| `AccountReturns` | projection and returns of an account (`analysis_basis.go`, `returns.go`, `return_trend.go`, `annual_returns.go`) |
| `PortfolioReturns` | the joint analysis of several accounts (`portfolio_analysis.go`); extends `AccountReturns` |
| `ReturnsProofs` | the two, proved: curve, split intervals, summary, contributions, table of years |
| `TaxReport` | statements, matching and reports of the tax calculator (`modules/tax`) |
| `TaxReportProofs` | its types and all its properties, proved |
| `SumTheorems` | sums over finite sets and induction over their subsets, for the proofs about the journal, the tax and the returns |
| `LiquorWorker` | the worker of liquor prices and its one-place channel (`modules/liquor`) |
| `Platform` | the process around that worker: serve, stop, crash, start (`internal/app`); extends `LiquorWorker` |
| `PlatformProofs` | the invariants of `Platform` and `LiquorWorker`, proved |
| `MC...` | values of the constants for TLC, one module for each specification |

## Inventory

What the system consists of, the state each part keeps, what it does with it, with
whom it interacts, what is hard about it, and what makes it correct.

### The crawler (Python, one process, threads)

**Crawl scheduler** (`weibospider/scheduler.py`). State: per kind of crawl (Weibo posts,
Weibo comments, Xueqiu posts, Xueqiu comments) a running flag, a cancelled flag and
the last result; locks `_tweet_lock`, `_comment_lock`, `_crawl_lock` and the
reentrant `_xq_lock`. Operations: manual starts, timer callbacks, the job methods,
`cancel`, `status`. HTTP threads call it, it calls the crawl functions of `app.py`,
which poll the flags. Hard: flags are read and written without a lock; manual
starts check and act in different threads; jobs nest; a sync is two jobs. Correct:
crawls of one source never overlap, flags tell the truth, a cancel that was
accepted is heeded, every job ends.

**Xueqiu timeline crawl** (`_crawl_xueqiu`). State: `tweets`, the checkpoint per user in
`config`. Reads pages that shift while it reads, stores post by post, moves the
checkpoint when it has gone all the way. Hard: failures between pages, a pinned
post, a page limit, publications and removals meanwhile. Correct: nothing below
the checkpoint is missing, and everything is stored in the end.

**Xueqiu comment sync** (`_crawl_xueqiu_comments`, `_crawl_single_xueqiu_comments`).
State: `xueqiu_comment_queue`, `comments`. Operations: insertion of posts queues
them, an incremental run queues its targets, a stored fetch takes a post off the
queue, a refresh deletes and inserts in two transactions. Hard: crashes between the
transactions, the 48-hour window, refreshes by request beside the run. Correct:
a post is never forgotten, archived comments are not lost to a failed fetch.

**Weibo spiders** (`spiders/`, `_crawl_tweets`, `_crawl_comments`). A Scrapy process per user;
posts until `stop_after_id`, retries of invalid and empty pages, comments of recent
posts to a file that is loaded afterwards. Hard: a page that fails for good in
the middle leaves a gap that later incremental crawls do not see.

**Database and search** (`db.py`, `search.py`). SQLite tables; a full-text index with companion
rows, updated in the transaction of the row it indexes; favourites, marks,
notes; the trash. Correct: index rows exist exactly for what search may show.

**HTTP API, cookie state** (`app.py`, `keepalive.py`). Starts and cancels crawls, edits,
exports. `cookie expired` is derived from the last results, and cleared when a
new cookie is saved. Hard: an old job that ends after the new cookie was saved.

### The ledger (Go, one process, one SQLite writer)

**Commands and receipts** (`account_records.go`, `receipt_integrity.go`, `account_delete.go`,
`import_store.go`, `mcp_commands.go`). Each write carries an idempotency key and, mostly,
an expected version; the receipt, the audit row and the change commit together.
Hard: lost answers and retries, deletion and reuse of an id. Correct: a command is
applied once, and a repeated one is answered alike or refused.

**Weekly asset jobs** (`weekly.go`). State: `weekly_jobs` rows (status, source, attempts,
lease, next attempt), timeline records, an in-memory `recovered` flag. A worker
ticks: expires and recovers rows, inserts the missing ones, claims, reads inputs,
asks quotes over the network, completes or fails. Hard: crash between any two
transactions, midnight, changes and deletion of the account meanwhile. Correct: at
most one record per account and Saturday, never backdated, on current data.

**Stock journal and dividends** (`stock_store.go`, `stock_math.go`, `stock_dividends.go`).
State: openings, cash anchor, entries (the journal), the projection into
`current_holdings`, the dividend cache. Commands create, replace and void entries at any
date; every commit reconciles automatic dividends and replays everything. A worker
fetches announcements and rates. Hard: corrections of the past, announcements
that are revised, a worker that reads before it waits. Correct: the projection is
the replay, no history is impossible, a dividend is paid right and once.

**Portfolios** (`portfolios.go`, `portfolio_members.go`, `portfolio_analysis.go`). State: a row per portfolio
with its accounts. Deleting an account removes it from them; a start repairs databases in which
that had not been done. The analysis joins the members' days and keeps nothing. Hard:
deletions beside edits; two passes over the same records. Correct: no portfolio names a
dead account, and the parts add up to the whole.

**Returns** (`analysis_basis.go`, `returns.go`, `return_trend.go`, `annual_returns.go`, `xirr_*.go`). No state:
every answer is computed from the records in force. Hard: the summary, the curve, the
table of years, the list of accounts and the portfolio are computed by different code from the same
days, with rules for carries, voided sources, flows on a boundary and empty accounts. Correct:
they agree.

**Benchmark worker** (`benchmark_worker.go`, `benchmark_store.go`). State: closes, covered windows and
the time of the last success of each index; in memory the failures within a slot. At 8 and at 20
o'clock it fetches the last 45 days again and then what no window covers. Hard: closes that appear
late, ticks that outlast their slot, restarts, readers between two transactions. Correct: a
covered day without a close is a holiday.

**Quotes, exchange rates, valuation**: stateless fetch and parse; `recordValuation` writes. **HTTP and MCP
servers**: decoding and validation in front of the commands.

### Other parts

**Liquor worker** (`modules/liquor`). State: one row of `sync_status`, a mutex, a channel with one place, a
flag that the worker has stopped. Requests and a timer begin runs, the worker executes them; its end and
the next start recover a run that was left. Hard: a request beside the worker's end, failing
statements, kills. Correct: a run that is called running is executed or recovered.

**Application** (`internal/app`). Starts the server and the workers, cancels all when one ends, waits
for handlers and workers, closes the database. Correct: it ends, and starts again.

**Tax calculator** (`modules/tax`). State: imported statements. Reports merge them, match closings with openings
first in, first out over the accounts of a user, and carry opening fees along. Hard: overlapping files, fees of
lots that another account closes, filters. Correct: fees add up, details add up to rows.

**Database files** (`internal/database`): migrations, an ownership lock, backup by hard link. **Frontend**: `LedgerReadCache` shares
requests in flight and is cleared by writes; the rest is rendering. **Deployment
scripts**: shell.

## Plan

In the order of how much rests on each part and how hard it is to test.

| | module | about | state |
| --- | --- | --- | --- |
| 1 | `CrawlScheduler` | threads, locks, flags, cancel | modelled, proved |
| 2 | `WeeklyJobs` | job rows, crash, midnight, stale inputs | modelled, proved |
| 3 | `XueqiuTimeline` | checkpoint against a moving source | modelled, proved |
| 4 | `XueqiuComments` | durable queue, archive | modelled, proved |
| 5 | `StockJournal` | replay, projection, dividends | one security modelled, proved |
| 6 | `OnceOnly`, `LedgerCommands` | commands are performed once; deletion, import, membership | modelled, proved, with the refinement |
| 7 | `LiquorWorker`, `Platform` | trigger, run, recover, stop, crash | modelled, proved |
| 8 | `BenchmarkSync` | coverage, slots, late closes, readers | modelled, proved |
| 9 | `AccountReturns`, `PortfolioReturns` | five ways to the same numbers | modelled but for XIRR and annualized rates, proved |
| 10 | `TaxReport` | matching and fees against reference definitions | modelled, proved |
| 11 | `LedgerReadCache` | shared requests, writes, aborts; abstractly a read returns a value no older than the last clear | candidate |
| 12 | `WeiboTimeline`, `SearchIndex`, `Backup` | retries and gaps; companion rows and the trash; publication by link | candidates |

`XueqiuTimeline` and `XueqiuComments` take from `CrawlScheduler` that their crawls exclude one
another (`OneXueqiuPipeline`, proved). `WeeklyJobs` reads
`current_holdings` and `StockJournal` writes it; `LedgerCommands` has every writer of that row (commands, MCP writes, the dividend worker) over
its version, so that the detail of each stays in its own module.

## How the modules correspond to the code

`Init`, `Next`, `Spec` and `TypeOK` carry the name of the module (`SchedulerInit`, `TimelineInit`, `CommentsInit`, `BenchmarkInit`) in the three
modules of the crawler, whose theorems share a module, and in `BenchmarkSync`, whose theorems share one with those about `LedgerCommands`. In all modules an SQLite transaction is one step; what happens between two
transactions, two requests to a source or two statements of a thread that another
thread can see is a step of its own. Every definition that stands for code has its
lines in `PROJECT.json` under `map`.

**`CrawlScheduler`.** A thread is an HTTP handler with the thread it starts, or a timer
callback. `at` names the statement a thread is at; `CheckManual` and `StartManual` are the
two halves of a manual start (the flags are read without a lock); `EnterJob`,
`TakeCrawlLock`, `ClearCancelled`, `PollCancelled`, `FetchMore`, `EndCrawl`, `DecideComments`,
`LeaveCrawlLock`, `ClearRunning` and `ReleaseLock` are the statements of the job methods in
their order, with `SkipJob` for a lock that is taken. What a crawl fetches is
abstract; it polls its flag before each user, page or post. `doomed` is a history variable:
which job of a thread a cancel has met (`Met`). A cancel meets the jobs that are past their reset of the flag
and that no manual start races (`Raced`: it was checked before and is about to reset the flag once more); the code loses the
others. Left out: the last results, the log of schedules, the job of the weekly log cleanup.

**`XueqiuTimeline`.** Posts are numbered by publication. `PostsOn(n)` is what the source
shows on page n at that moment, a pinned post first; the crawl reads it (`FetchPage`), stores
it from the head (`StorePost`), and moves the checkpoint when it reaches the old one or the
last page (`FinishCrawl`, `FetchEmptyPage`). An answer may lack `maxPage` (`counted`): its page is then the last
one (`IsFinal`). `BreakOff` stands for every failure, cancel or crash,
none of which writes anything. `slipped` and `unlisted` are history variables: posts that a removal by the
author has moved onto a page the crawl has read already, which no crawl of this
kind can see, and posts below a page whose answer had no `maxPage`.

**`XueqiuComments`.** `InsertPost` is the transaction of `insert_tweet`; `StartRun` selects the targets
of a mode, `QueueTargets` queues them in one transaction, `FetchComments` has a complete answer,
`DeleteComments` and `StoreComments` are the two transactions that archive it. `FetchSingle`,
`DeleteSingle` and `InsertSingle` are the refresh of one post by a request, which takes no lock.
`Trash` and `Restore` are the trash of the user. How many comments a post has is reduced to
some or none. `archived` is a history variable: the posts whose comments were stored once, without those that lost them because a
failed write (`FailWrite`, `FailSingle`) or a crash ended a replacement between its two transactions (`Halfway`).

**`WeeklyJobs`.** `job` is the table `weekly_jobs`, `records` the timeline records written by weekly jobs.
`Tick` is the transaction that expires, recovers and inserts rows, `Claim` the one that claims,
`ReadInputs`, `QuotesArrive`, `CompleteHoldings`, `CompleteCarry` and `Fail` the execution, `Trouble` any
failure on its way, `FailLost` a failure that cannot be stored. The clock moves between any two
steps, `DateAt` and `OpenAt` say which Beijing date and whether the Saturday window is open at an
instant. A valuation is the version of the holdings it was computed from. Users create
and delete accounts, change holdings, and write or void the record a carry may copy.

**`StockJournal`.** One account with one security and one announced dividend, whose source may revise
date and amount and list a split before the record date. `book` is the journal, `snapshot` the row of `current_holdings`, `cache` the row of
`stock_dividend_cache`, `worker` what the dividend worker has read before its requests. `Held`,
`NeverOversold`, `CashAfter`, `NeverOverdrawn` are `replayStocks` and `stockCash` as sums over the entries
up to one; `Reconcile` is `reconcileStockDividends`; `Save` is what every commit ends with. Prices are 1,
fees 0, a rate is known or not. A command with a stale version or a key that was used changes
nothing, so that the model has only the others.

**`OnceOnly` and `LedgerCommands`.** A row is its version. `audit` is `audit_log`, whose rows carry what was done and the key
of the command, `receipts` is `idempotency_receipts`. Each command is one action: `Begin` is the lookup that finds no receipt,
`Commit` is `appendAudit`, `saveReceipt` and the answer. `Replay` is a key that is found: the receipt is held against the state
(`Proven`, the `validate...Receipt` functions) and given again. `McpLookup` and `McpCommit` are the two transactions around the network call of an
MCP write, of which the second checks account and version. `DeleteAccount` removes all rows of an account and takes it out of the portfolios (`Removal`); `Open` is the
repair at startup. `Init` is any database an earlier version of the program may have left. `Once` maps the audit to what was
written and the receipts to the keys that stand for a command; in the abstraction only `Perform` writes for a client, and an `Answers` row
must follow the version that client saw. A command that is refused is no step.

**`BenchmarkSync`.** Time is counted in slots; day d has the slots 2d-1 and 2d. `tick` is what the goroutine is at: its range and the windows
that are still to be fetched. `FetchWindow` is the request (its answer is what the source has published at that moment), `SaveWindow` the
transaction, with the time of the saving; `FailTick` any error, at a window or at the question for gaps, or one an index before this has left behind: the
loop over the indices shares `err`, so that an index with nothing to refresh is then asked for no gaps. `Missing` is the pass over
`benchmark_coverage`. The reader's steps are the queries of `Fetch`. Days may pass without a refresh, as many as the calendar has. The
rest is history: `refreshed` is the last slot whose refresh went through, `steady` says that none was missed for more than `MaxOutage` days so far, and
the reader's `leapt` that since its second query a window was saved that lies beyond all others with uncovered days between (`Leaps`).

**`AccountReturns` and `PortfolioReturns`.** The only state is the records in force, of each account by date; `Write`, `Void`, `Revise` and the
weekly job's `Carry` change them. A record that is revised may move to another day, where its sequence places it (`Sorted`). Days are functions from dates. `RawDays` groups the records by date, `Balances` goes through them day by day
(`projectTWREstimates`), and `Projected` is what `analysisBasis` makes of both; `Until` cuts it. `ReturnsOf` is `calculateMoneyReturns` and `calculateReturns`:
`OpeningDay` is the day that opens, `Chain` the loop that makes the curve with `Extend` as one turn of it, `CurvePoint` what it
appends, `IntervalReturns` the sums over the whole interval. `Annual` is `annualBasisReturns`, `LatestAssets` the summary. `Member` and `Normalized` are `normalizePortfolioMember`,
`Joint` and `JointDates` are `portfolioSlice` with its dates, and `Contribution` is `portfolioContribution`. Rates are exact fractions, as in the code, or the reason why there is none;
amounts are converted with the rounding of `ConvertMoney`.

**`TaxReport`.** The only state is the statements. `Import` refuses a file by its digest, so that equal rows in another layout are held twice. `Merged` is `mergeRecords`, `Calculation` the loop of `Calculate`: `Open` and `Close` work on
lots, `Match` shares amounts and fees; `Counted` is one turn of that loop and `Progress` the loop up to
each row. A book keeps its lots in the order in which they were opened, so that a set of lots and the order of their openings (`Before`) stand for
the slice. `Valid` is what `validate` admits, an assumption on the rows that can be imported. `Deferred` is `applyDeferredFees`, `Summary`, `Total` and
`Details` are what a report shows under a filter. The code works with exact rationals; amounts and fees here are whole multiples of their quantities so that shares are integers.

**`LiquorWorker` and `Platform`.** Processes are handlers and the worker. `Lock`, `Begin`, `Send` are `Trigger` under its mutex, `Receive`,
`Ask`, `SeeCancelled` the branches of the worker's select, `Complete`, `Fail` its transactions, `Leave` and `RecoverAtEnd` the deferred end of `Run`. A
statement may fail for its own reasons (`Fault`, bounded) or because its context has ended (`Refused`); those with a context of their own only for
their own. `Platform` adds the process: `Request` is a handler that is accepted, and may come to the mutex when the server
accepts no more and the worker has stopped (`RefuseStopped`); `Cancel` is the first of the channels `Serve` selects on, `Shutdown`, `Return` and `Close` the way
down, `Crash` a kill at any moment, `Start` the container's next start with the recovery of `New`.

## Runs

| run | distinct states | what is asked |
| --- | --- | --- |
| `Scheduler` | 63,119 | syncs and Xueqiu jobs by hand and by timer: `OneWeiboCrawl`, `OneXueqiuPipeline`, `RunningIsTruth`, `CancelStopsJob`, `JobsTerminate` |
| `Weekly` | 40,812 | one account, two Saturdays: `OneRecordPerSlot`, `NoBackdating`, `FreshBasis`, `JobsSettle` |
| `Timeline` | 72,231 | `NoGap`, `EventuallyStored` |
| `Comments` | 504,451 | `QueuedUntilFetched`, `OwedStayQueued`, `ArchiveKept`, `QueueDrains` |
| `Stock` | 529,009 | `HoldingsAreReplay`, `NeverNegative`, `PaysRecordDate`, `SplitSkipped`, `WorkerYields` |
| `Ledger` | 274,089 | `ImplementsOnceOnly`, `MembersLive`, `DeletedGone`, `ReceiptsStand` |
| `Tax` | 16,881 | `FeesAddUp`, `DeferredIsCarried`, `FirstInFirstOut`, `DetailsAddUp` |
| `Returns` | 31,037 | `CurveIsPrefix`, `IntervalsCompose`, `SummaryAgrees`, `ContributionsAddUp`, `AnnualIsCustom` |
| `Platform` | 49,862 | `RunIsSomewhere`, `RunStaysOurs`, `RunsEnd`, `ShutdownEnds` |
| `Benchmark` | 938,892 | `MissingIsComplement`, `NoCloseLost`, `CurveHasNoHole` |
| `Stock_paid_twice` | until the violation | `PaidOnce`, which does not hold |
| `Returns_no_end` | until the violation | `FlowsAreABasis`, which does not hold |

For every property of a passing run `PROJECT.json` names a mutant: an operator of the module, marked as such in its comment,
that changes the code's behaviour as a plausible slip would and makes TLC find the property violated.

**Bounds, and why they are enough.**

- *Scheduler*: three threads, two of them handlers that may start a sync or an Xueqiu job, and one for the timers, so
  that two manual starts race and a third job waits; each thread starts again without end.
- *Weekly*: eight instants. Four lie in the window of the first Saturday, so that three attempts with both delays fit; the
  second Saturday's window is one instant, so that jobs can be late. A second account makes the instance too large for
  liveness; accounts share nothing but the batch, and the proofs are for any set of accounts.
- *Timeline*: five posts on pages of two with a limit of two pages, so that a crawl may meet the limit, a page may
  shift by one or two while it is read, and a gap may open in the middle; the old post 2 is pinned and was stored with a
  gap below it. Two failures and one removal are the least that let a failed crawl follow another; an answer without `maxPage` counts as a
  failure.
- *Comments*: two posts, so that one waits while the other is fetched, one request beside the run, so that two replacements of the same
  archive overlap, two faults, so that one that breaks off follows another.
- *Stock*: two entries by users beside the automatic one, dates 1 (record date), 2 (ex-date and first payment date) and
  3 (revised payment date), four commits: enough for an entry, a credit, a correction of the past and a second
  sync. There is no deadlock check: with the calendar and the versions used up there is no step left, which is the
  bound and not the system.
- *Ledger*: three keys, so that a key can be repeated after two other commands have changed its thing; two accounts, one
  portfolio with either or both, one record by hand and one by import, two spreadsheets, one MCP write in flight. Commands
  are sent up to version 2; deletions, repairs and the worker go beyond.
- *Tax*: statements of one or two rows out of ten, two statements with at most four rows: all pairs that overlap, rows of one
  date in several files, a file twice and its rows in another layout, a closing over two lots, a lot closed in two parts, both sides of a book, funds, two
  accounts in one pool, two years.
- *Returns*: four records of two accounts (three in the violating run), on five days of which two end a year, two Saturdays, amounts that include an empty
  account, a withdrawal beyond the balance, a statement with a flow and a conversion that rounds.
- *Platform*: two handlers, because the channel has one place and the mutex admits one; three runs, so that one can
  follow a failed and a recovered one; two faults, so that the recovery can fail as well as the statement before it.
- *Benchmark*: an index over seven days of which three have a close, from the evening of the third. The code's 45 days refreshed, 30 days before the first
  asset and windows of two or five years become 2, 2 and 3, so that a service without an asset at first has a backfill of several windows. A close is late
  by a day, an outage within `steady` lasts a day: together they just fit the days refreshed, so that one day less or an off-by-one shows. Longer
  outages happen as well: a tick, an outage of more than the days refreshed and another tick fit, and the reader's queries fall anywhere between.

Symmetry is used only in runs without liveness: over entry ids (`Stock`), and keys and accounts (`Ledger`).

**Fairness.**

- *Scheduler*: a started thread keeps running (weak fairness of its steps); strong fairness of `EndCrawl`, since a crawl has
  finitely many users, pages and posts and every request has a timeout; strong fairness of `TakeCrawlLock`, since jobs
  start by timers that are minutes apart and not in a loop.
- *Weekly*: the clock runs, a process that stops is started again (the container restarts it), a network call ends by its
  deadline, and `Run` ticks again after every tick; `Tick` needs the strong form because crashes disable it again and again.
- *Timeline* and *Comments*: a crawl that does not fail goes on, and the daily incremental crawl starts infinitely often although
  manual crawls come between; failures are bounded by `MaxFaults` and `MaxFailures`, which stands for "not every crawl fails".
- *Platform*: goroutines that can go on do. Strong fairness of the worker's waits at the mutex and of the branches of its
  select: a waiter of Go's `sync.Mutex` is handed the lock once it has starved, and `select` chooses among ready branches at random. The end of a
  worker is noticed by `Serve`, `Shutdown` has a timeout of ten seconds, and the container starts the service again. Requests, signals, kills and the
  clock need not happen.

## What does not hold

Two runs end in a violation:

- **A dividend may be credited twice** (`Stock_paid_twice`). A dividend entered by hand on the revised payment date makes
  the reconciliation skip the event, but the automatic entry credited before stays
  (`stock_dividends.go:330`).
- **A portfolio of a member without a known last day is not analysed** (`Returns_no_end`). A member whose only flow lies on the
  day of a weekly carry that has lost its source has days but no last one; the analysis takes the year of an empty date and panics
  (`portfolio_analysis.go:371`).

Six more definitions state what a document or a comment says and do not hold either. No run lists them; adding one to the
`.cfg` named shows its counterexample.

- **A cancel does not stop a sync** (`CancelStopsSync` of `CrawlScheduler`, `PROPERTY` in `Scheduler.cfg`). The comment phase resets its
  flag when it begins (`scheduler.py:355`), so a cancel during the tweet phase ends that phase only. `CancelStopsJob` states what does
  hold, and is proved: a cancel that meets a job after its reset ends that job, and no manual start that is checked later revives it. Three
  kinds of cancel are lost on a job and exempt: those while it waits for `_crawl_lock` without a flag, those between its flag and its reset,
  and those that race a manual start that was checked before them.
- **A revised payment date locks the journal** (`AlwaysSettles` of `StockJournal`, `INVARIANT` in `Stock.cfg`). The cached rate is for the
  old date; the check at `stock_dividends.go:342` then refuses every command and every sync, and the worker does not fetch the rate
  again.
- **A repeated rename may be answered as corrupt data** (`RetryAnswered` of `LedgerCommands`, `INVARIANT` in `Ledger.cfg`). The receipts of
  the creation and of the renaming of an account are held against the present row (`receipt_integrity.go:124`, `:217`), so that after a
  later rename the same key gets `ErrCorrupt`. `ReceiptsStand` is what holds for all other commands.
- **A slow backfill may postpone the close of the day** (`CloseNotPostponed` of `BenchmarkSync`, `INVARIANT` in `Benchmark.cfg`). A window
  is saved with the time of the saving (`benchmark_worker.go:166`), so that a backfill that runs into the next slot
  makes that slot appear refreshed. `NoCloseLost` shows that the close comes with a later slot.
- **A curve may go over a gap** (`CurveIsCovered` of `BenchmarkSync`, `INVARIANT` in `Benchmark.cfg`). The reader asks for the last covered
  day, for gaps up to it and for the closes in queries of their own (`benchmark_store.go:63-80`); the worker saves the last 45 days before
  it fills the gap an outage has left (`benchmark_worker.go:98-111`). Saved between the reader's last two queries, that window is in the
  curve and the gap before it is bridged, where `ledger-api.md` says 502. `CurveHasNoHole` states what does hold: only a window that leaps
  ahead does this, and none leaps unless an outage was longer than the days refreshed.
- **A crawl may complete without its last pages** (`NoPageDropped` of `XueqiuTimeline`, `INVARIANT` in `Timeline.cfg`). `data.get('maxPage')
  or page` (`app.py:918`) takes the page of an answer without `maxPage` for the last one, and the checkpoint passes what was not read, where
  the specification of the daily sync says that incomplete paging is a failure. `NoGap` and `EventuallyStored` hold for all other posts.

## What is proved

Every safety property of the passing runs is a theorem,
for any value of the constants that meets the named assumptions of the module: any number of threads and programs, any
calendar and delays, any set of posts, accounts, keys, entries, records, trading days and requests, any statements, any rates, any bound. The assumptions are what the code's
constants satisfy, and TLC evaluates them in every run. Some came out of the proofs:

- *`PageSize` is at least 2* (`TimelineAssumption`). With one post to a page, an old pinned post is alone on the first one, its foot is below the checkpoint,
  and the checkpoint moves over what lies on the next pages. The source shows more posts on a page.
- *`MaxOutage` is at least 1, and with `Lag` within the days refreshed* (`BenchmarkAssumption`). It bounds no behaviour: it is the outage that `steady`
  tells from a longer one, and the 45 days allow for 45 less the days a close may be late. At least 1, as a tick that began before midnight may end after it.
- *There are finitely many entries* (`JournalAssumption`) and *accounts* (`LedgerAssumption`), as in any database; sums and portfolios are over them.
- *The ranges readers ask for are pairs of days* (`BenchmarkAssumption`).
- *A fund is never sold short, a trade has a quantity, and the trades of a pool are in one currency* (`StatementsAssumption`): `validate` refuses
  anything else, and `poolKey` contains the currency. Without the first the net profit of a row, which has no place for short funds,
  would not be the sum of its details. *Years follow dates* (`CalendarAssumption`, `YearsAssumption`), as in any calendar.
- *Rates are positive, and there are finitely many accounts* (`RatesAssumption`): `portfolio_analysis.go:308` refuses a rate that is not.

Likewise `NonEmpty` of the ledger needed the check at `portfolios.go:48` as the range of the inputs: a portfolio is created and edited with at least one account.

**`CrawlerProofs`: the jobs.** `OneWeiboCrawl` is not inductive: that two threads are not both in a crawl follows
from who holds the locks. `IInv` adds `JobShape` (which job a thread may be in at a statement),
`CrawlOwner` (a thread in a Weibo crawl owns `_crawl_lock`), `WeiboOwner` (the lock of a kind is held
from the entry of its job to its end) and `XqOwner` (`_xq_lock` is held exactly inside the Xueqiu jobs,
twice inside a nested one). From it follow `OneWeiboCrawl` and `OneXueqiuPipeline`, since a lock has one owner;
`RunningIsTruth` is inductive relative to `IInv`. For `CancelStopsJob`, `CInv` adds `JobMatches` and `DoomHolds`:
after a cancel has met a job the flag stays set until its thread leaves it; a
manual start that could reset it would have to be checked while the job's running flag is set (`RunningIsTruth`), or be checked before (`Raced`).

**`CrawlerProofs`: the timeline.** A crawl remembers a page number while the timeline moves under it, so `TInv` says what a page number is worth.
A post is *due* when it is pinned or no newer than something that is stored or being stored; `ReadIsSafe`: the due posts that stand on the
pages read so far are stored, or in the batch, or slipped, or below the old checkpoint; `FinalIsSafe`: when no page follows, all due posts are.
A publication pushes posts down, off the pages read, and is newer than all that is stored; a removal lets posts slip. Where a post stands is
its rank, the number of posts shown before it; the proof needs that ranks are distinct and fill 0, 1, 2, ... (counting by `Cardinality`). When the crawl
finishes, everything due is safe, so the new checkpoint has no gap below: `NoGap`. What an answer without `maxPage` did not list counts as safe too.

**`CrawlerProofs`: the comments.** The type invariant carries the shape of a run (its current post is one of its targets, and those are
stored). `QueuedUntilFetched` and `OwedStayQueued` are inductive with it, and so is `ArchiveKept`: two replacements of a post may overlap in any order, and each that has deleted
its comments is halfway until it stores others or breaks off.

**`WeeklyJobsProofs`.** `WInv` adds to the types what a claim still holds about its row (`WorkShape`) and what a row says of
its account and its attempts (`RowShape`): only rows of live accounts exist, a running row has counted its attempt,
a failed one waits at least its delay. A completion finds its row running with its own attempt, hence unposted:
`OneRecordPerSlot`. The action properties follow from the invariant and each action's guards.

**`StockJournalProofs`.** `SInv` says that the automatic id holds an automatic dividend or nothing, that only an existing entry was
edited, and that a known announcement has a payment date. Every step leaves the journal alone, saves holdings before
it, or is a `Commit`: an edit by a user, or none, reconciled with the announcement (`Steps`). `Reconcile`
touches the automatic entry only, and not one that was edited nor one a split blocks. `WorkerYields` and
`SplitSkipped` follow. The other properties are about sums over entries. `JInv` adds the types, `Proper` (no entry of users is of the future or
automatic) and the two invariants themselves. That no day is short of shares (`NeverNegative`) although `Replays` looks only at sales, and in an
order that puts automatic dividends first, takes the last sale of any set of entries that is closed under what comes before (`NeverShort`); for cash
that days after today cannot fall short either, since users enter nothing for the future and a dividend only adds. `PaysRecordDate`: the entitlement
depends on entries of users only, so that it is the same before and after `Reconcile` (`SameEntitled`).

**`LedgerProofs`: the commands.** The commands fall into four classes (`GoodStep`): those that advance the versions of some things, the deletion of a portfolio,
of an account, and the repair at the start; that each command is in one is one lemma per command, that a step of each class keeps `LInv` is proved once. `LInv`
adds to the types and `DeletedGone`: `Below` (no audit row is ahead of its thing, unless that will never be written again), `MembersKnown` (portfolios list live
accounts, or dead ones that the repair is to take out before anything is served), `NonEmpty`, `RowsKnown` and `ReceiptsKnown` (what a receipt still says of the thing its command
wrote). The same steps are steps of `OnceOnly` or stutter, which is the refinement.

**`PlatformProofs`.** `RunIsSomewhere` is not inductive: `IInv` says of every label what its process holds and what the row says meanwhile: the mutex is held exactly
between its `Lock` and `Unlock`, and by nobody once the worker has stopped (`MutexHeld`); the channel holds the run of the row (`QueueHeld`); between begin and send
the run is nowhere else (`BegunHeld`); the worker executes the run of the row with nothing behind it (`JobHeld`); a process that is down has no threads (`DownIsEmpty`).

**`LedgerProofs`: the closes.** `NoCloseLost` is true of every moment only because a refresh asks again for all days whose closes may have been late at the refresh before.
`BInv`, for behaviours that are `steady` so far: a refresh is not long ago (`Clock`), a close that is lost appeared after the last refresh (`LostIsYoung`) or, while a refresh is under way, lies in a window that is
still to come (`LostIsPlanned`), and what has been fetched lacks young closes only (`FetchedWhole`). `CInv` says that windows, ranges and plans are finite in number, not empty and of the past,
and reach to the last refresh. `Missing` is a fold over the windows in order; `Passed` is what it keeps with every window: the gaps so far are the uncovered days before the cursor, and no
window passed reaches to the cursor (`MissingIs`). `RInv` is what a reader knows between its queries: what day was covered last, then that no day before it is uncovered, then that the days up to the last close it has
read are covered unless a window has leapt (`leapt`), though windows are saved meanwhile; and while `steady`, that the last covered day is not long ago and only young closes are lacking.

**`TaxReportProofs`.** A state is a list of statements and every report is computed from its rows, so that an invariant of the steps would say nothing: what is proved by
induction is the loop of `Calculate`, row by row. `Good` says what it has found when it has counted the rows P: lots, matches and unmatched rests are of trades in P, and told apart by them
(`Shape`); the fee of an opening is with the matches that closed it and with its lot, that of a closing with the matches it made and with what it lacked (`FeesTravel`); the lot of an opening is
what is left of it when the units opened before it are closed first (`Unclosed`), never more closed than opened (`Covered`); and a closing has closed the units that were next (`Served`). One lemma
for each part and kind of row shows that a row keeps it (`CountedIsGood`). The heart is that what `Taken` leaves of each lot, which looks at one lot after the other, is what the count of units says (`ClosingFinds`, `CloseUnclosed`).
Then:

- `FirstInFirstOut` is `Served` for all rows.
- The rows up to a date come before all others, so that the loop has been where it would be on those rows alone (`PrefixCalculation`), and later rows leave the matches of earlier ones alone (`PrefixMatches`).
  With `FeesTravel`, summed over the openings of an account (`FeesOfOpenings`), this is `DeferredIsCarried`: `applyDeferredFees` subtracts changes, the lots carry what is left, and both are the same.
- `FeesAddUp` sums both kinds of fees over all years up to a date, currency by currency.
- `DetailsAddUp`: a summary adds by kind and by side of its matches, a detail by closing; matches belong to one closing, one kind and one side (`DetailSums`, `Gains`). Every filter admits whole closings, which is why it holds for any.

**`ReturnsProofs`.** As with the tax, every answer is computed from the records in force. Of the records the steps keep only that they are valid and in the order of
their dates (`RecordsInv`); that writing, revising, voiding and carrying keep it is proved action by action. The rest is about the calculations, for any records of this kind. `Balances`, `Chain` and `Member` are
recursive functions, so that it begins with what each is at the end of a day, from the day before (`ChainAt`, `MemberAt`). Then:

- `CurveIsPrefix`: the running sums of the chain are the sums over the days so far (`ChainSums`), and chains over the same days are the same (`ChainSame`). A projection that
  ends earlier is the longer one, cut (`UntilIs`), so a point of the curve is the end of the prefix (`CurvePrefix`).
- `IntervalsCompose`: from the split on, the chain of the whole and that of the second part grow by the same factors (`Linked`), but not at once: until the next flow, the last growth of the
  first part is not in the chain of the whole yet (`Pending`). That the second part starts from the assets *after* the flow of its opening is what makes both meet (`SplitPending`, `BothChains`).
- `SummaryAgrees`: after the last statement the projection adds the flows of the days since (`LastStated`), and the summary those of the records since (`FlowsOfDays`).
- `ContributionsAddUp`: no date of a member lies between the day that opens and the day before the interval, so that the members have on the one what the portfolio has on the other (`OpeningHeld`); flows
  are summed by day in the portfolio and by member in the contributions, and the order of the sums does not matter (`SumSwap`, `FlowsMeet`).
- `AnnualIsCustom`: what a member has on a day does not depend on where the analysis ends (`NormalizedCut`, `HeldCut`). The dates do: both take the ends of the years and the last day known, which is looked up
  in another way than the days of the members are, before any conversion. It is the date of a member all the same (`LatestCounts`), hence the dates of a year are those of the table and at most the day before its first (`YearDates`). That
  day has the assets with which the year opens (`BorderHeld`), and therefore changes nothing (`BorderCountsNothing`). Where no last day is known there is no table (`Returns_no_end`).

*Induction over data.* The library's induction theorems take an operator as a parameter, which the installed provers cannot instantiate. Sums and folds are therefore
proved about with an induction stated for sets: a set of numbers with 0 and every successor holds all (`AllNumbers`), and one of subsets with {} that is closed under adding holds the whole
(`SubsetInduction` of `SumTheorems`), both from the well-foundedness of the order on numbers. The folds of the community modules are a `CHOOSE` among functions on subsets, so that each theory begins with the existence and
uniqueness of that function.

The type invariants, `MutexExcludes`, `FinalStays` and `RetryWaits` (a settled weekly job is never changed, a failed one waits) are proved for all instances and not listed
with a run.

**Only model-checked.** Liveness (`JobsTerminate`, `JobsSettle`, `EventuallyStored`, `QueueDrains`, `RunsEnd`, `ShutdownEnds`), as the prover has no ENABLED and no
fairness. That a report of the tax calculator adds up in CNY (`Total`) is neither checked nor proved, as it has no second definition to agree with.
What does not hold is shown by TLC.

## What is not modelled

*Without a module*: the Scrapy spiders, whose order of requests and callbacks is Scrapy's; the full-text index; the last results
of jobs and the expired cookie derived from them; the publication of a backup; the read cache of the frontend. The last four are
candidates of the plan. Left out for good: the extraction of fields from pages, spreadsheets and answers of sources, rendering (PDF, Vue components, the static page),
configuration, request protection, deployment scripts: they keep no state another part depends on.

*Within the modelled parts*: the texts and codes of errors; XIRR, which searches a root with floating-point numbers and certifies it with
intervals of unbounded rationals, and the annualized rates; labels that tell observed from estimated values; the arithmetic of
valuations; splits that scale a position or a dividend, several securities or events in one journal; the American index, whose source refuses a window without trading
days so that such a gap is asked for again in every slot (`benchmark.go:427`); the minutes between two retries of a slot; and a process that is killed in the
middle of an SQLite transaction, which SQLite undoes.
