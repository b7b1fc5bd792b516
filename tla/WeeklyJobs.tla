----------------------------- MODULE WeeklyJobs -----------------------------
(***************************************************************************)
(* The weekly asset jobs of the ledger (backend/internal/modules/ledger/   *)
(* weekly.go): every Saturday, from a configured time until midnight, one  *)
(* job per account writes that account's total assets into its timeline,   *)
(* valued from current holdings or carried forward from an older record.   *)
(*                                                                         *)
(* A job is a row of weekly_jobs, claimed, executed and completed in       *)
(* separate transactions, with the network between them.  The process may  *)
(* crash between any two of them, any transaction may fail, the clock may  *)
(* pass midnight, and users change or delete the account meanwhile.        *)
(***************************************************************************)
EXTENDS Naturals, FiniteSets, Sequences

CONSTANTS
    Accounts,     \* account ids
    NoSlot,       \* the job of a worker that has claimed none
    MaxClock,     \* bound: the clock stops here
    DateAt,       \* [0..MaxClock -> Nat]: the Beijing date at each instant
    OpenAt,       \* [0..MaxClock -> BOOLEAN]: Saturday, at or after the configured time
    RetryDelay,   \* [1..2 -> Nat]: 5 and 30 minutes in clock units
    Lease,        \* the lifetime of a claim in clock units
    Batch,        \* weeklyBatch: rows touched by one statement, claims of one tick
    MaxVersion    \* bound: versions of an account's current holdings

MaxAttempts == 3
Clock == 0..MaxClock
Dates == {DateAt[c] : c \in {x \in Clock : OpenAt[x]}}   \* the Saturdays
Slots == Accounts \X Dates                               \* UNIQUE(account_id, date)

ASSUME WeeklyAssumption ==
    /\ MaxClock \in Nat /\ MaxVersion \in Nat /\ Lease \in Nat
    /\ Batch \in Nat \ {0}
    /\ DateAt \in [Clock -> Nat]
    /\ OpenAt \in [Clock -> BOOLEAN]
    /\ RetryDelay \in [1..2 -> Nat]
    /\ NoSlot \notin Slots

VARIABLES
    clock,
    account,     \* [Accounts -> {"absent", "live", "deleted"}]
    holdings,    \* [Accounts -> 0..MaxVersion]: current_holdings version, 0 without a row
    eligible,    \* [Accounts -> BOOLEAN]: the timeline has a record a carry may copy
    job,         \* [Slots -> Job]: weekly_jobs
    records,     \* [Slots -> Seq(Posting)]: records written by weekly jobs
    pc,          \* where the worker is
    recovered,   \* WeeklyWorker.recovered
    work         \* what the worker knows of its claim outside a transaction

vars == <<clock, account, holdings, eligible, job, records, pc, recovered, work>>
users == <<account, holdings, eligible>>
worker == <<pc, recovered, work>>

Sources  == {"holdings_current", "account_record_carry"}
Statuses == {"none", "pending", "running", "succeeded", "failed", "skipped"}
Labels   == {"down", "idle", "claim", "inputs", "network", "complete", "carry", "fail"}
Codes    == {"", "retry", "no_source", "expired"}   \* "retry" stands for every other code

\* next, lease and finished hold a clock value plus one, 0 for NULL.
Job == [status: Statuses, source: Sources, attempts: 0..MaxAttempts,
        next: Nat, lease: Nat, finished: Nat]
Posting == [source: Sources, basis: 0..MaxVersion]
Work == [slot: Slots \cup {NoSlot}, source: Sources, attempts: 0..MaxAttempts,
         basis: 0..MaxVersion, asOf: Nat, code: Codes, date: Nat, left: 0..Batch]

NoJob == [status |-> "none", source |-> "account_record_carry", attempts |-> 0,
          next |-> 0, lease |-> 0, finished |-> 0]
NoWork == [slot |-> NoSlot, source |-> "account_record_carry", attempts |-> 0,
           basis |-> 0, asOf |-> 0, code |-> "", date |-> 0, left |-> 0]

Now == clock + 1
AccountOf(s) == s[1]
DateOf(s) == s[2]
Today == DateAt[clock]
InWindow(s) == OpenAt[clock] /\ Today = DateOf(s)

Init ==
    /\ clock = 0
    /\ account = [a \in Accounts |-> "absent"]
    /\ holdings = [a \in Accounts |-> 0]
    /\ eligible = [a \in Accounts |-> FALSE]
    /\ job = [s \in Slots |-> NoJob]
    /\ records = [s \in Slots |-> << >>]
    /\ pc = "down"
    /\ recovered = FALSE
    /\ work = NoWork

(***************************************************************************)
(* The clock, the users and the process.                                   *)
(***************************************************************************)

Advance ==
    /\ clock < MaxClock
    /\ clock' = clock + 1
    /\ UNCHANGED <<users, job, records, worker>>

CreateAccount(a) ==
    /\ account[a] = "absent"           \* a retired id is never used again
    /\ account' = [account EXCEPT ![a] = "live"]
    /\ UNCHANGED <<clock, holdings, eligible, job, records, worker>>

PutHoldings(a) ==
    /\ account[a] = "live"
    /\ holdings[a] < MaxVersion
    /\ holdings' = [holdings EXCEPT ![a] = @ + 1]
    /\ UNCHANGED <<clock, account, eligible, job, records, worker>>

\* A person writes or voids the only asset record a carry may copy.
EditTimeline(a) ==
    /\ account[a] = "live"
    /\ eligible' = [eligible EXCEPT ![a] = ~@]
    /\ UNCHANGED <<clock, account, holdings, job, records, worker>>

\* One transaction removes the account's jobs, holdings and records.
DeleteAccount(a) ==
    /\ account[a] = "live"
    /\ account' = [account EXCEPT ![a] = "deleted"]
    /\ holdings' = [holdings EXCEPT ![a] = 0]
    /\ eligible' = [eligible EXCEPT ![a] = FALSE]
    /\ job' = [s \in Slots |-> IF AccountOf(s) = a THEN NoJob ELSE job[s]]
    /\ records' = [s \in Slots |-> IF AccountOf(s) = a THEN << >> ELSE records[s]]
    /\ UNCHANGED <<clock, worker>>

\* The process stops or crashes; the rows keep what the last commit left.
Crash ==
    /\ pc # "down"
    /\ pc' = "down"
    /\ work' = NoWork
    /\ UNCHANGED <<clock, users, job, records, recovered>>

Restart ==
    /\ pc = "down"
    /\ pc' = "idle"
    /\ recovered' = FALSE
    /\ UNCHANGED <<clock, users, job, records, work>>

(***************************************************************************)
(* Tick: expire, recover and insert jobs, then claim up to Batch of them.  *)
(***************************************************************************)

\* At most Batch rows of S, as ORDER BY id LIMIT ? takes them.
Limited(S) == {T \in SUBSET S : Cardinality(T) <= Batch /\ (T # S => Cardinality(T) = Batch)}

\* Mutant: a claim left over from an earlier day stays.
ExpirableNotRunning ==
    {s \in Slots : DateOf(s) < Today /\
        \/ job[s].status = "pending"
        \/ job[s].status = "failed" /\ job[s].next # 0}

Expirable ==
    {s \in Slots : DateOf(s) < Today /\
        \/ job[s].status \in {"pending", "running"}
        \/ job[s].status = "failed" /\ job[s].next # 0}

Recoverable ==
    {s \in Slots : DateOf(s) = Today /\ job[s].status = "running"
                     /\ (~recovered \/ job[s].lease <= Now)}

Missing ==
    {s \in Slots : InWindow(s) /\ account[AccountOf(s)] = "live" /\ job[s].status = "none"}

\* weeklyRetry: no retry after the last attempt.
Retry(attempts) == IF attempts >= MaxAttempts THEN 0 ELSE Now + RetryDelay[attempts]

Expired(j) == [j EXCEPT !.status = "skipped", !.finished = Now, !.next = 0, !.lease = 0]

Interrupted(j) ==
    [j EXCEPT !.status = "failed", !.finished = Now, !.lease = 0, !.next = Retry(j.attempts)]

SourceNow(a) == IF holdings[a] # 0 THEN "holdings_current" ELSE "account_record_carry"

Inserted(s) == [NoJob EXCEPT !.status = "pending", !.source = SourceNow(AccountOf(s))]

Tick ==
    /\ pc = "idle"
    /\ \E expire \in Limited(Expirable), recover \in Limited(Recoverable),
          insert \in Limited(Missing) :
         job' = [s \in Slots |->
                    CASE s \in expire  -> Expired(job[s])
                      [] s \in recover -> Interrupted(job[s])
                      [] s \in insert  -> Inserted(s)
                      [] OTHER         -> job[s]]
    /\ recovered' = TRUE
    /\ pc' = IF OpenAt[clock] THEN "claim" ELSE "idle"
    /\ work' = IF OpenAt[clock] THEN [NoWork EXCEPT !.date = Today, !.left = Batch] ELSE NoWork
    /\ UNCHANGED <<clock, users, records>>

EndTick ==
    /\ pc' = "idle"
    /\ work' = NoWork

Claimable ==
    {s \in Slots : DateOf(s) = work.date /\ job[s].attempts < MaxAttempts /\
        \/ job[s].status = "pending"
        \/ job[s].status = "failed" /\ job[s].next # 0 /\ job[s].next <= Now}

\* A carry whose account has acquired holdings becomes a holdings job.
ClaimedSource(s) ==
    IF holdings[AccountOf(s)] # 0 THEN "holdings_current" ELSE job[s].source

Claim(s) ==
    /\ pc = "claim"
    /\ work.left > 0 /\ Today = work.date /\ OpenAt[clock]
    /\ s \in Claimable
    /\ LET source == ClaimedSource(s) IN
       /\ job' = [job EXCEPT ![s].source = source, ![s].status = "running",
                             ![s].attempts = @ + 1, ![s].finished = 0,
                             ![s].next = 0, ![s].lease = Now + Lease]
       /\ work' = [work EXCEPT !.slot = s, !.source = source,
                               !.attempts = job[s].attempts + 1, !.left = @ - 1]
       /\ pc' = IF source = "holdings_current" THEN "inputs" ELSE "carry"
    /\ UNCHANGED <<clock, users, records, recovered>>

\* Nothing to claim, the window closed, the batch is used up, or storage failed.
StopClaiming ==
    /\ pc = "claim"
    /\ EndTick
    /\ UNCHANGED <<clock, users, job, records, recovered>>

(***************************************************************************)
(* execute: a claimed job, outside any transaction but its own steps.      *)
(***************************************************************************)

FailWith(code) == pc' = "fail" /\ work' = [work EXCEPT !.code = code]

NextClaim ==
    /\ pc' = "claim"
    /\ work' = [NoWork EXCEPT !.date = work.date, !.left = work.left]

\* valuationInputs: the basis is captured before the network calls.
ReadInputs ==
    /\ pc = "inputs"
    /\ LET a == AccountOf(work.slot) IN
       IF account[a] = "live" /\ holdings[a] # 0
       THEN /\ pc' = "network"
            /\ work' = [work EXCEPT !.basis = holdings[a], !.asOf = Today]
       ELSE FailWith("retry")
    /\ UNCHANGED <<clock, users, job, records, recovered>>

QuotesArrive ==
    /\ pc = "network"
    /\ pc' = "complete"
    /\ UNCHANGED <<clock, users, job, records, recovered, work>>

\* An incomplete valuation, a timeout, a cancelled context or a storage error.
Trouble ==
    /\ pc \in {"inputs", "network", "complete", "carry"}
    /\ FailWith("retry")
    /\ UNCHANGED <<clock, users, job, records, recovered>>

Owns == job[work.slot].status = "running" /\ job[work.slot].attempts = work.attempts

Succeeded(j) == [j EXCEPT !.status = "succeeded", !.finished = Now, !.lease = 0]

\* Mutant: the record commits, and the status change fails on its own.
PostFirst(source, basis) ==
    /\ records' = [records EXCEPT ![work.slot] =
                        Append(@, [source |-> source, basis |-> basis])]
    /\ FailWith("retry")
    /\ UNCHANGED job

\* The record and the status change commit together.
Post(source, basis) ==
    /\ records' = [records EXCEPT ![work.slot] =
                        Append(@, [source |-> source, basis |-> basis])]
    /\ job' = [job EXCEPT ![work.slot] = Succeeded(@)]
    /\ NextClaim

Refuse(code) == FailWith(code) /\ UNCHANGED <<job, records>>

\* Mutant: only the hour of the window is checked again.
CommitOnAnySaturday(source, basis) ==
    IF OpenAt[clock] THEN Post(source, basis) ELSE Refuse("expired")

\* The window is checked again up to the commit.
CommitInWindow(source, basis) ==
    IF InWindow(work.slot) THEN Post(source, basis) ELSE Refuse("expired")

\* The job is no longer this attempt's: its account is gone.
Abandon == ~Owns /\ NextClaim /\ UNCHANGED <<job, records>>

\* Mutant: what was read before the network calls is taken to hold still.
BasisAssumed == FALSE

\* The holdings are not those the valuation used; a carry wants none (basis 0).
BasisMoved == holdings[AccountOf(work.slot)] # work.basis

CompleteHoldings ==
    /\ pc = "complete"
    /\ \/ Abandon
       \/ /\ Owns
          /\ IF work.asOf # DateOf(work.slot) \/ BasisMoved
             THEN Refuse("retry")
             ELSE CommitInWindow("holdings_current", work.basis)
    /\ UNCHANGED <<clock, users, recovered>>

CompleteCarry ==
    /\ pc = "carry"
    /\ \/ Abandon
       \/ Owns /\ BasisMoved /\ Refuse("retry")
       \/ /\ Owns /\ ~BasisMoved
          /\ IF ~eligible[AccountOf(work.slot)]
             THEN Refuse("no_source")
             ELSE CommitInWindow("account_record_carry", 0)
    /\ UNCHANGED <<clock, users, recovered>>

\* Outside the window any failure is an expiry; no_source is final as well.
Failed(j, code) ==
    IF ~InWindow(work.slot) \/ code \in {"expired", "no_source"}
    THEN Expired(j)
    ELSE [j EXCEPT !.status = "failed", !.finished = Now, !.lease = 0,
                   !.next = Retry(work.attempts)]

Fail ==
    /\ pc = "fail"
    /\ job' = [job EXCEPT ![work.slot] = IF Owns THEN Failed(@, work.code) ELSE @]
    /\ NextClaim
    /\ UNCHANGED <<clock, users, records, recovered>>

\* The failure itself cannot be stored: the row stays running until its lease ends.
FailLost ==
    /\ pc = "fail"
    /\ NextClaim
    /\ UNCHANGED <<clock, users, job, records, recovered>>

Execute == ReadInputs \/ QuotesArrive \/ Trouble \/ CompleteHoldings \/ CompleteCarry

User == \E a \in Accounts :
    CreateAccount(a) \/ PutHoldings(a) \/ EditTimeline(a) \/ DeleteAccount(a)

Next ==
    \/ Advance \/ User \/ Crash \/ Restart
    \/ Tick \/ StopClaiming \/ \E s \in Slots : Claim(s)
    \/ Execute \/ Fail \/ FailLost

Spec == Init /\ [][Next]_vars

\* The clock runs, a stopped process is started again, network calls are bounded
\* by a deadline, and Run ticks again after every tick.
Fairness ==
    /\ WF_vars(Advance)
    /\ WF_vars(Restart)
    /\ SF_vars(Tick)
    /\ WF_vars(StopClaiming)
    /\ WF_vars(Execute)
    /\ WF_vars(Fail \/ FailLost)

FairSpec == Spec /\ Fairness

-----------------------------------------------------------------------------
(***************************************************************************)
(* Properties.                                                             *)
(***************************************************************************)

TypeOK ==
    /\ clock \in Clock
    /\ account \in [Accounts -> {"absent", "live", "deleted"}]
    /\ holdings \in [Accounts -> 0..MaxVersion]
    /\ eligible \in [Accounts -> BOOLEAN]
    /\ job \in [Slots -> Job]
    /\ records \in [Slots -> Seq(Posting)]
    /\ pc \in Labels
    /\ recovered \in BOOLEAN
    /\ work \in Work

Final(s) ==
    \/ job[s].status \in {"succeeded", "skipped"}
    \/ job[s].status = "failed" /\ job[s].next = 0

\* A slot has one weekly record if its job succeeded and none otherwise: no retry,
\* recovery, crash or account deletion posts twice or leaves half a completion.
OneRecordPerSlot ==
    \A s \in Slots : Len(records[s]) = IF job[s].status = "succeeded" THEN 1 ELSE 0

\* A weekly record is only ever written on its own Saturday, inside the window,
\* however long the network or the transaction before it took.
NoBackdating ==
    [][\A s \in Slots : Len(records'[s]) > Len(records[s]) => InWindow(s)]_vars

\* A valuation is posted only while the holdings are those it was computed from,
\* and a carry only while the account has none.
FreshBasis ==
    [][\A s \in Slots :
         Len(records'[s]) > Len(records[s]) =>
            LET r == records'[s][Len(records'[s])] IN
            /\ account[AccountOf(s)] = "live"
            /\ r.basis = holdings[AccountOf(s)]
            /\ (r.source = "account_record_carry") <=> (r.basis = 0)]_vars

\* A job that succeeded, was skipped or used up its attempts never changes again,
\* and a running or failed one never falls back to pending, unless its account goes.
FinalStays ==
    [][\A s \in Slots :
         account[AccountOf(s)] = account'[AccountOf(s)] =>
            /\ Final(s) => job'[s] = job[s]
            /\ job'[s].attempts >= job[s].attempts
            /\ job'[s].status = "pending" => job[s].status \in {"none", "pending"}]_vars

\* A failed or interrupted attempt is not tried again before its delay, which is
\* the longer one after the second attempt.
RetryWaits ==
    [][\A s \in Slots :
         job[s].status = "failed" /\ job'[s].status = "running" =>
            /\ job[s].attempts \in 1..2
            /\ Now >= job[s].finished + RetryDelay[job[s].attempts]]_vars

\* Every job ends: it succeeds, is skipped, or runs out of attempts.
JobsSettle ==
    \A s \in Slots : job[s].status # "none" ~> (Final(s) \/ job[s].status = "none")

=============================================================================
