-------------------------- MODULE WeeklyJobsProofs --------------------------
(***************************************************************************)
(* Proofs about WeeklyJobs, for any accounts, calendar, delays and bounds. *)
(* The inductive invariant WInv says what a claim still holds about the    *)
(* row it was made from, and what the row says about its account.          *)
(***************************************************************************)
EXTENDS WeeklyJobs, TLAPS

Executing == {"inputs", "network", "complete", "carry", "fail"}

\* What the worker knows of its claim at each step.
WorkShape ==
    /\ pc \in Executing => work.slot \in Slots /\ work.attempts \in 1..MaxAttempts
    /\ pc \in {"claim", "inputs", "carry"} => work.basis = 0
    /\ pc \in {"network", "complete"} => work.basis # 0

\* A row belongs to a live account; a claimed row counts its attempt; a row that
\* waits for a retry waits for the delay of its attempt.
RowShape ==
    \A s \in Slots :
        /\ job[s].status # "none" => account[AccountOf(s)] = "live"
        /\ job[s].status = "none" => job[s] = NoJob
        /\ job[s].status = "running" => job[s].attempts \in 1..MaxAttempts
        /\ job[s].status = "failed" /\ job[s].next # 0 =>
             /\ job[s].attempts \in 1..2
             /\ job[s].next >= job[s].finished + RetryDelay[job[s].attempts]

WInv == TypeOK /\ WorkShape /\ RowShape /\ OneRecordPerSlot

-----------------------------------------------------------------------------
\* The clock is a number, a retry is due after a delay or never, and what the
\* actions put into a row or into the claim has the type of one.
LEMMA NowType ==
    ASSUME clock \in Clock
    PROVE  Now \in Nat /\ Now # 0 /\ Today \in Nat
BY WeeklyAssumption DEF Clock, Now, Today

\* The next attempt is due after the delay of this one, or never.
LEMMA RetryType ==
    ASSUME clock \in Clock, NEW n \in 1..MaxAttempts
    PROVE  /\ Retry(n) \in Nat
           /\ Retry(n) # 0 => n \in 1..2 /\ Retry(n) = Now + RetryDelay[n]
BY WeeklyAssumption DEF Retry, Now, Clock, MaxAttempts

\* An absent row.
LEMMA NoJobType == NoJob \in Job
BY DEF Job, Statuses, Sources, NoJob, MaxAttempts

\* A worker with no claim.
LEMMA NoWorkType == NoWork \in Work
BY WeeklyAssumption DEF Work, NoWork, Sources, Codes, MaxAttempts

\* The rows that expire, complete and interrupt leave behind.
LEMMA RowTypes ==
    ASSUME NEW j \in Job, clock \in Clock
    PROVE  /\ Expired(j) \in Job
           /\ Succeeded(j) \in Job
           /\ j.attempts \in 1..MaxAttempts => Interrupted(j) \in Job
<1>1. Expired(j) \in Job
  BY NowType DEF Expired, Job, Statuses
<1>2. Succeeded(j) \in Job
  BY NowType DEF Succeeded, Job, Statuses
<1>3. ASSUME j.attempts \in 1..MaxAttempts PROVE Interrupted(j) \in Job
  <2>1. Retry(j.attempts) \in Nat
    BY <1>3, RetryType
  <2> QED BY <2>1, NowType DEF Interrupted, Job, Statuses
<1> QED BY <1>1, <1>2, <1>3

\* The rows that Tick inserts.
LEMMA InsertedType == \A s \in Slots : Inserted(s) \in Job
<1>1. \A s \in Slots : SourceNow(AccountOf(s)) \in Sources
  BY DEF SourceNow, Sources
<1> QED BY <1>1, NoJobType DEF Inserted, Job, Statuses

\* The worker between two claims of a tick.
LEMMA NextClaimType ==
    ASSUME NEW w \in Work
    PROVE  [NoWork EXCEPT !.date = w.date, !.left = w.left] \in Work
BY WeeklyAssumption, NoWorkType DEF Work

\* The worker about to store a failure.
LEMMA FailType ==
    ASSUME NEW w \in Work, NEW c \in Codes
    PROVE  [w EXCEPT !.code = c] \in Work
BY DEF Work

\* The invariant holds when the process first starts.
LEMMA InitWInv == Init => WInv
<1> SUFFICES ASSUME Init PROVE WInv
  OBVIOUS
<1>1. TypeOK
  <2>1. 0 \in Clock /\ 0 \in 0..MaxVersion /\ << >> \in Seq(Posting)
    BY WeeklyAssumption DEF Clock
  <2> QED BY <2>1, NoJobType, NoWorkType DEF Init, TypeOK, Labels
<1>2. WorkShape /\ RowShape /\ OneRecordPerSlot
  BY DEF Init, WorkShape, RowShape, OneRecordPerSlot, Executing, NoJob, NoWork
<1> QED BY <1>1, <1>2 DEF WInv

-----------------------------------------------------------------------------
\* The rows a tick writes.
LEMMA TickRows ==
    ASSUME Tick, NEW s \in Slots
    PROVE  \/ job'[s] = job[s]
           \/ s \in Expirable /\ job'[s] = Expired(job[s])
           \/ s \in Recoverable /\ job'[s] = Interrupted(job[s])
           \/ s \in Missing /\ job'[s] = Inserted(s)
<1>1. PICK expire \in Limited(Expirable), recover \in Limited(Recoverable),
           insert \in Limited(Missing) :
         job' = [r \in Slots |->
                    CASE r \in expire  -> Expired(job[r])
                      [] r \in recover -> Interrupted(job[r])
                      [] r \in insert  -> Inserted(r)
                      [] OTHER         -> job[r]]
  BY DEF Tick
<1>2. expire \subseteq Expirable /\ recover \subseteq Recoverable /\ insert \subseteq Missing
  BY DEF Limited
<1> QED BY <1>1, <1>2

\* Tick keeps the types of the rows and of the worker.
LEMMA TickType ==
    ASSUME WInv, Tick
    PROVE  job' \in [Slots -> Job] /\ work' \in Work
<1> USE DEF WInv, TypeOK
<1>1. ASSUME NEW s \in Slots PROVE job'[s] \in Job
  <2>1. s \in Recoverable => job[s].attempts \in 1..MaxAttempts
    BY DEF Recoverable, RowShape
  <2> QED BY <2>1, TickRows, RowTypes, InsertedType
<1>2. \E R : job' = [s \in Slots |-> R[s]]
  <2>1. ASSUME NEW e, NEW r, NEW i,
               job' = [s \in Slots |->
                    CASE s \in e -> Expired(job[s])
                      [] s \in r -> Interrupted(job[s])
                      [] s \in i -> Inserted(s)
                      [] OTHER   -> job[s]]
        PROVE  job' = [s \in Slots |-> job'[s]]
    BY <2>1
  <2> QED BY <2>1 DEF Tick
<1>3. work' \in Work
  <2>1. Batch \in 0..Batch
    BY WeeklyAssumption
  <2>2. [NoWork EXCEPT !.date = Today, !.left = Batch] \in Work
    BY <2>1, NoWorkType, NowType DEF Work
  <2> QED BY <2>2, NoWorkType DEF Tick
<1> QED BY <1>1, <1>2, <1>3

\* A claim keeps them too: its attempt is within MaxAttempts.
LEMMA ClaimType ==
    ASSUME TypeOK, NEW s \in Slots, Claim(s)
    PROVE  job' \in [Slots -> Job] /\ work' \in Work
<1>1. ClaimedSource(s) \in Sources
  BY DEF ClaimedSource, Sources, Job, TypeOK
<1>2. job[s].attempts + 1 \in 0..MaxAttempts
  <2>1. job[s].attempts \in 0..MaxAttempts
    BY DEF Job, TypeOK
  <2>2. job[s].attempts < MaxAttempts
    BY DEF Claim, Claimable
  <2> QED BY <2>1, <2>2 DEF MaxAttempts
<1>3. work.left - 1 \in 0..Batch
  BY WeeklyAssumption DEF Claim, Work, TypeOK
<1>4. Now + Lease \in Nat
  BY NowType, WeeklyAssumption DEF TypeOK
<1>5. ASSUME NEW j \in Job, NEW src \in Sources, NEW n \in 0..MaxAttempts, NEW l \in Nat
      PROVE  [j EXCEPT !.source = src, !.status = "running", !.attempts = n,
                       !.finished = 0, !.next = 0, !.lease = l] \in Job
  BY DEF Job, Statuses
<1>6. job'[s] = [job[s] EXCEPT !.source = ClaimedSource(s), !.status = "running",
                               !.attempts = job[s].attempts + 1, !.finished = 0,
                               !.next = 0, !.lease = Now + Lease]
  BY DEF Claim, TypeOK
<1>7. job' = [job EXCEPT ![s] = job'[s]]
  BY DEF Claim, TypeOK
<1>8. job' \in [Slots -> Job]
  <2>1. job[s] \in Job
    BY DEF TypeOK
  <2>2. [job[s] EXCEPT !.source = ClaimedSource(s), !.status = "running",
                       !.attempts = job[s].attempts + 1, !.finished = 0,
                       !.next = 0, !.lease = Now + Lease] \in Job
    BY <1>1, <1>2, <1>4, <1>5, <2>1
  <2>3. job'[s] \in Job
    BY <1>6, <2>2
  <2> QED BY <1>7, <2>3 DEF TypeOK
<1>9. ASSUME NEW w \in Work, NEW src \in Sources, NEW n \in 0..MaxAttempts, NEW l \in 0..Batch
      PROVE  [w EXCEPT !.slot = s, !.source = src, !.attempts = n, !.left = l] \in Work
  BY DEF Work
<1>10. work' = [work EXCEPT !.slot = s, !.source = ClaimedSource(s),
                            !.attempts = job[s].attempts + 1, !.left = work.left - 1]
  BY DEF Claim
<1> QED BY <1>1, <1>2, <1>3, <1>8, <1>9, <1>10 DEF TypeOK

\* Every step keeps the rows, the records and the claim in their types.
LEMMA WeeklyTypeStep == WInv /\ [Next]_vars => TypeOK'
<1> SUFFICES ASSUME WInv, [Next]_vars PROVE TypeOK'
  OBVIOUS
<1>t. TypeOK /\ WorkShape
  BY DEF WInv
<1> USE <1>t DEF TypeOK, users, worker
<1>1. CASE UNCHANGED vars
  BY ONLY <1>1, <1>t DEF vars, TypeOK
<1>2. CASE Advance \/ Crash \/ Restart
  <2>1. CASE Advance
    BY <2>1, WeeklyAssumption DEF Advance, Clock
  <2>2. CASE Crash \/ Restart
    BY <2>2, NoWorkType DEF Crash, Restart, Labels
  <2> QED BY <1>2, <2>1, <2>2
<1>3. ASSUME NEW a \in Accounts, CreateAccount(a) \/ PutHoldings(a) \/ EditTimeline(a) PROVE TypeOK'
  <2>1. CASE CreateAccount(a)
    BY <2>1 DEF CreateAccount
  <2>2. CASE PutHoldings(a)
    <3>1. holdings[a] + 1 \in 0..MaxVersion
      BY <2>2, WeeklyAssumption DEF PutHoldings
    <3> QED BY <2>2, <3>1 DEF PutHoldings
  <2>3. CASE EditTimeline(a)
    BY <2>3 DEF EditTimeline
  <2> QED BY <1>3, <2>1, <2>2, <2>3
<1>4. ASSUME NEW a \in Accounts, DeleteAccount(a) PROVE TypeOK'
  BY <1>4, NoJobType, WeeklyAssumption DEF DeleteAccount
<1>5. CASE Tick
  BY <1>5, TickType DEF Tick, Labels
<1>6. CASE StopClaiming
  BY <1>6, NoWorkType DEF StopClaiming, EndTick, Labels
<1>7. ASSUME NEW s \in Slots, Claim(s) PROVE TypeOK'
  BY <1>7, ClaimType DEF Claim, Labels
<1>8. CASE ReadInputs
  <2>1. CASE pc' = "network"
    <3>1. work.slot \in Slots
      BY <1>8 DEF ReadInputs, WorkShape, Executing
    <3>2. AccountOf(work.slot) \in Accounts
      BY <3>1 DEF AccountOf, Slots
    <3>3. [work EXCEPT !.basis = holdings[AccountOf(work.slot)], !.asOf = Today] \in Work
      BY <3>2, NowType DEF Work
    <3> QED BY <1>8, <2>1, <3>3 DEF ReadInputs, FailWith, Labels
  <2>2. CASE pc' # "network"
    BY <1>8, <2>2, FailType DEF ReadInputs, FailWith, Labels, Codes
  <2> QED BY <2>1, <2>2
<1>9. CASE QuotesArrive \/ Trouble
  BY <1>9, FailType DEF QuotesArrive, Trouble, FailWith, Labels, Codes
<1>10. ASSUME NEW b \in 0..MaxVersion, NEW src \in Sources, Post(src, b), pc \in Executing,
              UNCHANGED <<clock, users, recovered>>
       PROVE  TypeOK'
  <2>1. work.slot \in Slots
    BY <1>10 DEF WorkShape
  <2>2. [source |-> src, basis |-> b] \in Posting
    BY DEF Posting
  <2>3. Append(records[work.slot], [source |-> src, basis |-> b]) \in Seq(Posting)
    BY <2>1, <2>2
  <2>4. job' \in [Slots -> Job] /\ records' \in [Slots -> Seq(Posting)]
    BY <1>10, <2>1, <2>3, RowTypes DEF Post
  <2> QED BY <1>10, <2>4, NextClaimType DEF Post, NextClaim, Labels
<1>11. ASSUME NEW c \in Codes, Refuse(c), UNCHANGED <<clock, users, recovered>> PROVE TypeOK'
  BY <1>11, FailType DEF Refuse, FailWith, Labels
<1>12. ASSUME Abandon, UNCHANGED <<clock, users, recovered>> PROVE TypeOK'
  BY <1>12, NextClaimType DEF Abandon, NextClaim, Labels
<1>13. CASE CompleteHoldings
  <2>1. work.basis \in 0..MaxVersion
    BY DEF Work
  <2> QED BY <1>13, <2>1, <1>10, <1>11, <1>12 DEF CompleteHoldings, CommitInWindow, Sources, Codes, Executing
<1>14. CASE CompleteCarry
  <2>1. 0 \in 0..MaxVersion
    BY WeeklyAssumption
  <2> QED BY <1>14, <2>1, <1>10, <1>11, <1>12 DEF CompleteCarry, CommitInWindow, Sources, Codes, Executing
<1>15. CASE Fail \/ FailLost
  <2>1. ASSUME Owns, pc = "fail" PROVE Failed(job[work.slot], work.code) \in Job
    <3>1. work.slot \in Slots /\ Retry(work.attempts) \in Nat
      BY <2>1, RetryType DEF WorkShape, Executing
    <3>2. ASSUME NEW j \in Job
          PROVE  [j EXCEPT !.status = "failed", !.finished = Now, !.lease = 0,
                           !.next = Retry(work.attempts)] \in Job
      BY <3>1, NowType DEF Job, Statuses
    <3> QED BY <3>1, <3>2, RowTypes DEF Failed
  <2>2. pc = "fail" => work.slot \in Slots
    BY DEF WorkShape, Executing
  <2>3. ASSUME Fail PROVE job' \in [Slots -> Job]
    BY <2>1, <2>2, <2>3 DEF Fail
  <2>4. FailLost => job' = job
    BY DEF FailLost
  <2>5. work' \in Work /\ pc' \in Labels
    BY <1>15, NextClaimType DEF Fail, FailLost, NextClaim, Labels
  <2> QED BY <1>15, <2>3, <2>4, <2>5 DEF Fail, FailLost
<1> QED BY <1>1, <1>2, <1>3, <1>4, <1>5, <1>6, <1>7, <1>8, <1>9, <1>13, <1>14, <1>15
       DEF Next, User, Execute

-----------------------------------------------------------------------------
\* The worker never forgets its claim between taking and completing it.
LEMMA WorkShapeStep == WInv /\ [Next]_vars => WorkShape'
<1> SUFFICES ASSUME WInv, [Next]_vars PROVE WorkShape'
  OBVIOUS
<1>t. TypeOK /\ WorkShape /\ RowShape
  BY DEF WInv
<1>w. work \in Work
  BY <1>t DEF TypeOK
<1> USE <1>t DEF WorkShape, Executing, users, worker
<1>1. CASE UNCHANGED vars
  BY <1>1 DEF vars
<1>2. CASE Advance \/ Crash \/ Restart \/ User
  BY <1>2 DEF Advance, Crash, Restart, User, CreateAccount, PutHoldings, EditTimeline, DeleteAccount
<1>3. CASE Tick
  BY <1>3 DEF Tick, NoWork
<1>4. CASE StopClaiming \/ FailLost \/ Fail
  BY <1>4 DEF StopClaiming, EndTick, FailLost, Fail, NextClaim, NoWork
<1>5. ASSUME NEW s \in Slots, Claim(s) PROVE WorkShape'
  <2>1. job[s].attempts + 1 \in 1..MaxAttempts
    <3>1. job[s].attempts \in 0..MaxAttempts
      BY DEF TypeOK, Job
    <3> QED BY <1>5, <3>1 DEF Claim, Claimable, MaxAttempts
  <2>2. work'.slot = s /\ work'.attempts = job[s].attempts + 1 /\ work'.basis = work.basis
    BY <1>5, <1>w DEF Claim, Work
  <2> QED BY <1>5, <2>1, <2>2 DEF Claim
<1>6. CASE ReadInputs
  BY <1>6, <1>w DEF ReadInputs, FailWith, Work
<1>7. CASE QuotesArrive \/ Trouble
  BY <1>7, <1>w DEF QuotesArrive, Trouble, FailWith, Work
<1>8. ASSUME NEW c, FailWith(c), pc \in Executing PROVE WorkShape'
  BY <1>8, <1>w DEF FailWith, Work
<1>9. ASSUME NextClaim PROVE WorkShape'
  BY <1>9 DEF NextClaim, NoWork
<1>10. CASE CompleteHoldings \/ CompleteCarry
  BY <1>8, <1>9, <1>10 DEF CompleteHoldings, CompleteCarry, CommitInWindow, Post, Refuse, Abandon
<1> QED BY <1>1, <1>2, <1>3, <1>4, <1>5, <1>6, <1>7, <1>10 DEF Next, Execute

-----------------------------------------------------------------------------
(***************************************************************************)
(* The moves of one row.  Every step is one of them for every row, so the  *)
(* invariants and the action properties follow from this list alone.       *)
(***************************************************************************)
Kept(s) == job'[s] = job[s] /\ records'[s] = records[s]
           /\ (account'[AccountOf(s)] = account[AccountOf(s)] \/ job[s].status = "none")
Dropped(s) == job'[s] = NoJob /\ records'[s] = << >>
              /\ account[AccountOf(s)] = "live" /\ account'[AccountOf(s)] = "deleted"
Rewritten(s) ==
    /\ records'[s] = records[s] /\ account' = account
    /\ \/ s \in Missing /\ job'[s] = Inserted(s)
       \/ s \in Expirable /\ job'[s] = Expired(job[s])
       \/ s \in Recoverable /\ job'[s] = Interrupted(job[s])
       \/ /\ s \in Claimable /\ job'[s].status = "running"
          /\ job'[s].attempts = job[s].attempts + 1
       \/ /\ job[s].status = "running"
          /\ \/ job'[s] = Expired(job[s])
             \/ job'[s] = [job[s] EXCEPT !.status = "failed", !.finished = Now, !.lease = 0,
                                         !.next = Retry(job[s].attempts)]
Posted(s) ==
    \E src \in Sources, b \in 0..MaxVersion :
        /\ job[s].status = "running" /\ job'[s] = Succeeded(job[s])
        /\ records'[s] = Append(records[s], [source |-> src, basis |-> b])
        /\ account' = account /\ InWindow(s) /\ holdings[AccountOf(s)] = b
        /\ src = "account_record_carry" <=> b = 0

Moves(s) == Kept(s) \/ Dropped(s) \/ Rewritten(s) \/ Posted(s)

\* Every step does one of these four things to each row: it keeps it, drops it
\* with its account, rewrites it without a posting, or completes it with one.
LEMMA RowMoves ==
    ASSUME WInv, [Next]_vars, NEW s \in Slots
    PROVE  Moves(s)
<1>t. TypeOK /\ WorkShape /\ RowShape
  BY DEF WInv
<1>r. job \in [Slots -> Job] /\ records \in [Slots -> Seq(Posting)] /\ AccountOf(s) \in Accounts
  BY <1>t DEF TypeOK, AccountOf, Slots
<1> USE <1>r DEF Moves, users, worker
<1>1. CASE UNCHANGED vars
  BY <1>1 DEF vars, Kept
<1>2. CASE Advance \/ Crash \/ Restart \/ StopClaiming \/ FailLost \/ ReadInputs \/ QuotesArrive \/ Trouble
  BY <1>2 DEF Advance, Crash, Restart, StopClaiming, FailLost, ReadInputs, QuotesArrive, Trouble, Kept
<1>3. ASSUME NEW a \in Accounts, CreateAccount(a) \/ PutHoldings(a) \/ EditTimeline(a) PROVE Moves(s)
  BY <1>3, <1>t DEF CreateAccount, PutHoldings, EditTimeline, Kept, RowShape, TypeOK
<1>4. ASSUME NEW a \in Accounts, DeleteAccount(a) PROVE Moves(s)
  BY <1>4, <1>t DEF DeleteAccount, Kept, Dropped, TypeOK
<1>5. CASE Tick
  BY <1>5, TickRows DEF Tick, Kept, Rewritten
<1>6. ASSUME NEW r \in Slots, Claim(r) PROVE Moves(s)
  <2>1. CASE s = r
    <3>1. job'[s].status = "running" /\ job'[s].attempts = job[s].attempts + 1
      BY <1>6, <2>1 DEF Claim, Job
    <3> QED BY <1>6, <2>1, <3>1 DEF Claim, Rewritten
  <2>2. CASE s # r
    BY <1>6, <2>2 DEF Claim, Kept
  <2> QED BY <2>1, <2>2
<1>7. CASE Fail
  <2>1. work.slot \in Slots
    BY <1>7, <1>t DEF Fail, WorkShape, Executing
  <2>2. CASE s = work.slot /\ Owns
    <3>1. job'[s] = Failed(job[s], work.code)
      BY <1>7, <2>2 DEF Fail
    <3>2. job[s].status = "running" /\ work.attempts = job[s].attempts
      BY <2>2 DEF Owns
    <3> QED BY <1>7, <3>1, <3>2 DEF Fail, Failed, Rewritten
  <2>3. CASE ~(s = work.slot /\ Owns)
    BY <1>7, <2>3 DEF Fail, Kept
  <2> QED BY <2>2, <2>3
<1>8. ASSUME NEW src \in Sources, NEW b \in 0..MaxVersion, Owns, InWindow(work.slot),
             Post(src, b), UNCHANGED <<clock, users, recovered>>, pc \in Executing,
             holdings[AccountOf(work.slot)] = b, src = "account_record_carry" <=> b = 0
      PROVE  Moves(s)
  <2>1. CASE s = work.slot
    BY <1>8, <2>1 DEF Post, Posted, Owns
  <2>2. CASE s # work.slot
    BY <1>8, <2>2 DEF Post, Kept
  <2> QED BY <2>1, <2>2
<1>9. CASE CompleteHoldings
  <2>1. work.basis \in 0..MaxVersion /\ (pc = "complete" => work.basis # 0)
    BY <1>t DEF TypeOK, Work, WorkShape
  <2>2. CASE UNCHANGED <<job, records>>
    BY <1>9, <2>2 DEF CompleteHoldings, Kept
  <2>3. CASE ~UNCHANGED <<job, records>>
    <3>1. Owns /\ ~BasisMoved /\ InWindow(work.slot) /\ Post("holdings_current", work.basis)
      BY <1>9, <2>3 DEF CompleteHoldings, CommitInWindow, Refuse, Abandon
    <3> QED BY <1>8, <1>9, <2>1, <3>1 DEF CompleteHoldings, BasisMoved, Sources, Executing
  <2> QED BY <2>2, <2>3
<1>10. CASE CompleteCarry
  <2>1. 0 \in 0..MaxVersion /\ (pc = "carry" => work.basis = 0)
    BY <1>t, WeeklyAssumption DEF WorkShape
  <2>2. CASE UNCHANGED <<job, records>>
    BY <1>10, <2>2 DEF CompleteCarry, Kept
  <2>3. CASE ~UNCHANGED <<job, records>>
    <3>1. Owns /\ ~BasisMoved /\ InWindow(work.slot) /\ Post("account_record_carry", 0)
      BY <1>10, <2>3 DEF CompleteCarry, CommitInWindow, Refuse, Abandon
    <3> QED BY <1>8, <1>10, <2>1, <3>1 DEF CompleteCarry, BasisMoved, Sources, Executing
  <2> QED BY <2>2, <2>3
<1> QED BY <1>1, <1>2, <1>3, <1>4, <1>5, <1>6, <1>7, <1>9, <1>10 DEF Next, User, Execute

-----------------------------------------------------------------------------
\* A row that waits for a retry keeps its due time; a row exists only while its
\* account does.
LEMMA RowShapeStep == WInv /\ [Next]_vars => RowShape'
<1> SUFFICES ASSUME WInv, [Next]_vars, NEW s \in Slots
             PROVE  /\ job'[s].status # "none" => account'[AccountOf(s)] = "live"
                    /\ job'[s].status = "none" => job'[s] = NoJob
                    /\ job'[s].status = "running" => job'[s].attempts \in 1..MaxAttempts
                    /\ job'[s].status = "failed" /\ job'[s].next # 0 =>
                         /\ job'[s].attempts \in 1..2
                         /\ job'[s].next >= job'[s].finished + RetryDelay[job'[s].attempts]
  BY DEF RowShape
<1>t. TypeOK /\ RowShape
  BY DEF WInv
<1>j. job[s] \in Job /\ clock \in Clock
  BY <1>t DEF TypeOK
<1>1. CASE Kept(s) \/ Dropped(s)
  BY <1>1, <1>t DEF Kept, Dropped, RowShape, NoJob
<1>2. CASE Posted(s)
  BY <1>2, <1>t, <1>j DEF Posted, RowShape, Succeeded, Job
<1>3. ASSUME job[s].attempts \in 1..MaxAttempts, account' = account, job[s].status = "running",
             job'[s] = [job[s] EXCEPT !.status = "failed", !.finished = Now, !.lease = 0,
                                      !.next = Retry(job[s].attempts)]
      PROVE  /\ job'[s].status = "failed" /\ account'[AccountOf(s)] = "live"
             /\ job'[s].next # 0 =>
                  /\ job'[s].attempts \in 1..2
                  /\ job'[s].next >= job'[s].finished + RetryDelay[job'[s].attempts]
  <2>1. /\ job'[s].status = "failed" /\ job'[s].finished = Now
        /\ job'[s].next = Retry(job[s].attempts) /\ job'[s].attempts = job[s].attempts
    BY <1>3, <1>j DEF Job
  <2>2. Now \in Nat /\ RetryDelay \in [1..2 -> Nat]
    BY <1>j, NowType, WeeklyAssumption
  <2>3. job'[s].next # 0 =>
          job'[s].attempts \in 1..2 /\ job'[s].next = Now + RetryDelay[job'[s].attempts]
    BY <1>3, <1>j, <2>1, RetryType
  <2>4. job'[s].next # 0 => job'[s].next >= job'[s].finished + RetryDelay[job'[s].attempts]
    BY <2>1, <2>2, <2>3
  <2> QED BY <1>3, <1>t, <2>1, <2>3, <2>4 DEF RowShape
<1>4. CASE Rewritten(s)
  <2>1. CASE s \in Missing /\ job'[s] = Inserted(s) /\ account' = account
    BY <2>1 DEF Missing, Inserted, NoJob
  <2>2. CASE job'[s] = Expired(job[s]) /\ job[s].status # "none" /\ account' = account
    BY <2>2, <1>t, <1>j DEF RowShape, Expired, Job
  <2>3. CASE s \in Claimable /\ job'[s].status = "running" /\ account' = account
               /\ job'[s].attempts = job[s].attempts + 1
    <3>1. job[s].attempts \in 0..MaxAttempts
      BY <1>j DEF Job
    <3> QED BY <2>3, <3>1, <1>t DEF Claimable, RowShape, MaxAttempts
  <2>4. s \in Recoverable \/ job[s].status = "running" => job[s].attempts \in 1..MaxAttempts
    BY <1>t DEF Recoverable, RowShape
  <2>5. s \in Recoverable => job[s].status = "running"
    BY DEF Recoverable
  <2>6. s \in Expirable => job[s].status # "none"
    BY DEF Expirable
  <2> QED BY <1>3, <1>4, <2>1, <2>2, <2>3, <2>4, <2>5, <2>6 DEF Rewritten, Interrupted
<1> QED BY <1>1, <1>2, <1>4, RowMoves DEF Moves

\* A completion adds the record and ends the job; nothing else touches either.
LEMMA OneRecordStep == WInv /\ [Next]_vars => OneRecordPerSlot'
<1> SUFFICES ASSUME WInv, [Next]_vars, NEW s \in Slots
             PROVE  Len(records'[s]) = IF job'[s].status = "succeeded" THEN 1 ELSE 0
  BY DEF OneRecordPerSlot
<1>t. /\ job[s] \in Job /\ records[s] \in Seq(Posting)
      /\ Len(records[s]) = IF job[s].status = "succeeded" THEN 1 ELSE 0
  BY DEF WInv, TypeOK, OneRecordPerSlot
<1>1. CASE Kept(s) \/ Dropped(s)
  BY <1>1, <1>t DEF Kept, Dropped, NoJob
<1>2. CASE Posted(s)
  <2>1. PICK e \in Posting : job[s].status = "running" /\ job'[s] = Succeeded(job[s])
                             /\ records'[s] = Append(records[s], e)
    BY <1>2 DEF Posted, Posting
  <2>2. Len(records'[s]) = Len(records[s]) + 1
    BY <2>1, <1>t
  <2>3. job'[s].status = "succeeded"
    BY <2>1, <1>t DEF Succeeded, Job
  <2> QED BY <1>t, <2>1, <2>2, <2>3
<1>3. CASE Rewritten(s)
  <2>1. job[s].status # "succeeded"
    BY <1>3 DEF Rewritten, Missing, Expirable, Recoverable, Claimable
  <2>2. job'[s].status # "succeeded"
    BY <1>3, <1>t DEF Rewritten, Inserted, NoJob, Expired, Interrupted, Job
  <2> QED BY <1>3, <1>t, <2>1, <2>2 DEF Rewritten
<1> QED BY <1>1, <1>2, <1>3, RowMoves DEF Moves

-----------------------------------------------------------------------------
\* The inductive invariant holds throughout.
THEOREM WeeklyInvariance == Spec => []WInv
<1>1. WInv /\ [Next]_vars => WInv'
  BY WeeklyTypeStep, WorkShapeStep, RowShapeStep, OneRecordStep DEF WInv
<1> QED BY InitWInv, <1>1, PTL DEF Spec

\* The types hold; in particular no job is ever claimed a fourth time.
THEOREM WeeklyTypeCorrect == Spec => []TypeOK
<1>1. WInv => TypeOK
  BY DEF WInv
<1> QED BY WeeklyInvariance, <1>1, PTL

\* One record per account and Saturday, exactly when the job says succeeded,
\* through every crash, lost failure, retry, recovery and account deletion.
THEOREM OneWeeklyRecord == Spec => []OneRecordPerSlot
<1>1. WInv => OneRecordPerSlot
  BY DEF WInv
<1> QED BY WeeklyInvariance, <1>1, PTL

\* Only a completion lengthens the records of a slot.
LEMMA OnlyPosted ==
    ASSUME WInv, [Next]_vars, NEW s \in Slots, Len(records'[s]) > Len(records[s])
    PROVE  Posted(s)
<1>1. Len(records[s]) \in Nat
  BY DEF WInv, TypeOK
<1>2. ~Kept(s) /\ ~Rewritten(s)
  BY <1>1 DEF Kept, Rewritten
<1>3. ~Dropped(s)
  BY <1>1 DEF Dropped
<1> QED BY <1>2, <1>3, RowMoves DEF Moves

\* A weekly record is never written outside its own Saturday's window, however
\* late the network answers.
THEOREM NeverBackdated == Spec => NoBackdating
<1>1. WInv /\ [Next]_vars =>
        [\A s \in Slots : Len(records'[s]) > Len(records[s]) => InWindow(s)]_vars
  BY OnlyPosted DEF Posted
<1> QED BY WeeklyInvariance, <1>1, PTL DEF Spec, NoBackdating

\* A record is written only from the holdings of that moment, and only for an
\* account that still exists.
THEOREM BasisIsFresh == Spec => FreshBasis
<1>1. ASSUME WInv, [Next]_vars, NEW s \in Slots, Len(records'[s]) > Len(records[s])
      PROVE  LET r == records'[s][Len(records'[s])] IN
                /\ account[AccountOf(s)] = "live"
                /\ r.basis = holdings[AccountOf(s)]
                /\ (r.source = "account_record_carry") <=> (r.basis = 0)
  <2>1. PICK src \in Sources, b \in 0..MaxVersion :
          /\ job[s].status = "running"
          /\ records'[s] = Append(records[s], [source |-> src, basis |-> b])
          /\ holdings[AccountOf(s)] = b /\ (src = "account_record_carry" <=> b = 0)
    BY <1>1, OnlyPosted DEF Posted
  <2>2. records[s] \in Seq(Posting) /\ [source |-> src, basis |-> b] \in Posting
    BY <1>1 DEF WInv, TypeOK, Posting
  <2>3. records'[s][Len(records'[s])] = [source |-> src, basis |-> b]
    BY <2>1, <2>2
  <2>4. account[AccountOf(s)] = "live"
    BY <1>1, <2>1 DEF WInv, RowShape
  <2> QED BY <2>1, <2>3, <2>4
<1>2. WInv /\ [Next]_vars =>
        [\A s \in Slots :
           Len(records'[s]) > Len(records[s]) =>
              LET r == records'[s][Len(records'[s])] IN
              /\ account[AccountOf(s)] = "live"
              /\ r.basis = holdings[AccountOf(s)]
              /\ (r.source = "account_record_carry") <=> (r.basis = 0)]_vars
  BY <1>1
<1> QED BY WeeklyInvariance, <1>2, PTL DEF Spec, FreshBasis

\* A settled job is never touched again while its account lives, and attempts
\* never fall.
THEOREM SettledStays == Spec => FinalStays
<1>1. ASSUME WInv, [Next]_vars, NEW s \in Slots, account[AccountOf(s)] = account'[AccountOf(s)]
      PROVE  /\ Final(s) => job'[s] = job[s]
             /\ job'[s].attempts >= job[s].attempts
             /\ job'[s].status = "pending" => job[s].status \in {"none", "pending"}
  <2>1. job[s] \in Job /\ job[s].attempts \in Nat
    BY <1>1 DEF WInv, TypeOK, Job
  <2>2. CASE Kept(s)
    BY <2>1, <2>2 DEF Kept
  <2>3. CASE Posted(s)
    BY <2>1, <2>3 DEF Posted, Succeeded, Final, Job
  <2>4. CASE Rewritten(s)
    <3>2. CASE s \in Missing /\ job'[s] = Inserted(s)
      BY <3>2, <1>1 DEF WInv, RowShape, Missing, Inserted, NoJob, Final
    <3>3. CASE s \notin Missing \/ job'[s] # Inserted(s)
      <4>1. ~Final(s)
        BY <2>4, <3>3 DEF Rewritten, Expirable, Recoverable, Claimable, Final
      <4>2. /\ job'[s].status # "pending"
            /\ job'[s].attempts = job[s].attempts \/ job'[s].attempts = job[s].attempts + 1
        BY <2>1, <2>4, <3>3 DEF Rewritten, Expired, Interrupted, Job
      <4> QED BY <2>1, <4>1, <4>2
    <3> QED BY <3>2, <3>3
  <2>5. ~Dropped(s)
    BY <1>1 DEF Dropped
  <2> QED BY <1>1, <2>2, <2>3, <2>4, <2>5, RowMoves DEF Moves
<1>2. WInv /\ [Next]_vars =>
        [\A s \in Slots :
           account[AccountOf(s)] = account'[AccountOf(s)] =>
              /\ Final(s) => job'[s] = job[s]
              /\ job'[s].attempts >= job[s].attempts
              /\ job'[s].status = "pending" => job[s].status \in {"none", "pending"}]_vars
  BY <1>1
<1> QED BY WeeklyInvariance, <1>2, PTL DEF Spec, FinalStays

\* A failed attempt waits out the delay of its number before the next claim.
THEOREM RetriesWait == Spec => RetryWaits
<1>1. ASSUME WInv, [Next]_vars, NEW s \in Slots,
             job[s].status = "failed", job'[s].status = "running"
      PROVE  /\ job[s].attempts \in 1..2
             /\ Now >= job[s].finished + RetryDelay[job[s].attempts]
  <2>1. job[s] \in Job /\ clock \in Clock
    BY <1>1 DEF WInv, TypeOK
  <2>2. s \in Claimable
    <3>1. ~Kept(s) /\ ~Dropped(s) /\ ~Posted(s)
      BY <1>1, <2>1 DEF Kept, Dropped, NoJob, Posted
    <3>2. Rewritten(s)
      BY <1>1, <3>1, RowMoves DEF Moves
    <3> QED BY <1>1, <2>1, <3>2 DEF Rewritten, Missing, Expired, Recoverable, Interrupted, Job
  <2>3. job[s].next # 0 /\ job[s].next <= Now
    BY <1>1, <2>2 DEF Claimable
  <2>4. /\ job[s].attempts \in 1..2
        /\ job[s].next >= job[s].finished + RetryDelay[job[s].attempts]
    BY <1>1, <2>3 DEF WInv, RowShape
  <2>5. /\ Now \in Nat /\ job[s].next \in Nat /\ job[s].finished \in Nat
        /\ RetryDelay[job[s].attempts] \in Nat
    BY <2>1, <2>4, NowType, WeeklyAssumption DEF Job
  <2> QED BY <2>3, <2>4, <2>5
<1>2. WInv /\ [Next]_vars =>
        [\A s \in Slots :
           job[s].status = "failed" /\ job'[s].status = "running" =>
              /\ job[s].attempts \in 1..2
              /\ Now >= job[s].finished + RetryDelay[job[s].attempts]]_vars
  BY <1>1
<1> QED BY WeeklyInvariance, <1>2, PTL DEF Spec, RetryWaits

=============================================================================
