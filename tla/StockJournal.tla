---------------------------- MODULE StockJournal ----------------------------
(***************************************************************************)
(* The stock journal of one ledger account with one security               *)
(* (backend/internal/modules/ledger: stock_store.go, stock_math.go and     *)
(* stock_dividends.go).  Users record buys, sells, dividends and cash; a   *)
(* worker fetches dividend announcements without a lock and reconciles     *)
(* them with the journal.  Every commit replays the journal and stores the *)
(* resulting quantity and cash as the current holdings of the account.     *)
(*                                                                         *)
(* A transaction is one step: commands and the worker's commit take the    *)
(* database's write lock.  A command whose expected version is stale, or   *)
(* whose key has a receipt, changes nothing, so that the model has only    *)
(* commands against the current version.  The unit price is 1 and fees are *)
(* 0: the amount of a trade is its quantity; an exchange rate is known or  *)
(* not, and is 1.                                                          *)
(***************************************************************************)
EXTENDS Integers, FiniteSets, FiniteSetsExt

CONSTANTS
    Ids,           \* entry ids the users choose
    Event,         \* the id of the automatic entry: event id and instrument
    Drafts,        \* entries the users submit
    CashInputs,    \* cash balances the users submit
    Holdings,      \* [qty, cash] of the holdings saved before the journal
    Foreign,       \* the security's currency is not the account's
    ExDate,        \* the ex-dividend date of the announced dividend
    LastEntitled,  \* trades up to this date count: the record date, or the
                   \* day before ExDate in Hong Kong
    Announcements, \* what the source may announce: payment date, dividend per
                   \* share, and whether it lists the split
    SplitDate,     \* the date of the split: it blocks the dividend of shares
                   \* that were traded before
    MaxDay,        \* bound: the calendar stops here
    MaxVersion     \* bound: commits to the account

Days == 1..MaxDay
EntryIds == Ids \cup {Event}
Kinds == {"buy", "sell", "dividend"}

Draft == [kind: Kinds, date: Days, qty: Nat, amount: Nat, fx: BOOLEAN]

ASSUME JournalAssumption ==
    /\ IsFiniteSet(Ids)
    /\ MaxDay \in Nat \ {0}
    /\ Event \notin Ids
    /\ Drafts \subseteq Draft
    /\ \A d \in Drafts :
         IF d.kind = "dividend" THEN d.amount > 0 /\ d.qty = 0
         ELSE d.qty > 0 /\ d.amount = d.qty
    /\ CashInputs \subseteq Nat
    /\ Holdings \subseteq [qty: Nat, cash: Nat]
    /\ Foreign \in BOOLEAN
    /\ SplitDate \in 0..LastEntitled /\ MaxVersion \in Nat
    /\ ExDate \in Days /\ LastEntitled \in 0..ExDate
    /\ Announcements \subseteq [pay: Nat, share: Nat \ {0}, split: BOOLEAN]
    /\ \A a \in Announcements : a.pay >= ExDate

PayDates == {a.pay : a \in Announcements}
PerShare == {a.share : a \in Announcements}

VARIABLES
    day,       \* the Beijing date
    managed,   \* stock_journals has a row for the account
    book,      \* the journal: openings, cash anchor and entries
    snapshot,  \* current_holdings; version 0 without a row
    cache,     \* stock_dividend_cache: the announced dividend
    worker     \* what the dividend worker has read

vars == <<day, managed, book, snapshot, cache, worker>>

\* pay is the payment date of the announcement an automatic entry was made from,
\* 0 for an entry made by hand; seq is 0 for an entry that does not exist.
Entry == [seq: Nat, kind: Kinds, date: Days, qty: Nat, amount: Nat, fx: BOOLEAN,
          pay: {0} \cup PayDates, voided: BOOLEAN, override: BOOLEAN, opening: BOOLEAN]

NoEntry == [seq |-> 0, kind |-> "buy", date |-> 1, qty |-> 0, amount |-> 0, fx |-> FALSE,
            pay |-> 0, voided |-> FALSE, override |-> FALSE, opening |-> FALSE]

\* opening: shares held before the first entry, at an unknown cost; the cash
\* anchor is the balance a user entered, on its date, after entry cashSeq.
Book == [opening: Nat, anchored: BOOLEAN, cash: Nat, cashDate: 0..MaxDay, cashSeq: Nat,
         entries: [EntryIds -> Entry]]

Blank == [opening |-> 0, anchored |-> FALSE, cash |-> 0, cashDate |-> 0, cashSeq |-> 0,
          entries |-> [i \in EntryIds |-> NoEntry]]

\* fxFor is the payment date the stored exchange rate was fetched for, or 0.
Unannounced == [known |-> FALSE, pay |-> 0, share |-> 0, split |-> FALSE, fxFor |-> 0]

Resting == [pc |-> "idle", book |-> Blank, day |-> 1]

Init ==
    /\ day = 1
    /\ managed = FALSE
    /\ book = Blank
    /\ snapshot = [version |-> 0, qty |-> 0, cash |-> 0]
    /\ cache = Unannounced
    /\ worker = Resting

-----------------------------------------------------------------------------
(***************************************************************************)
(* Replaying a journal: replayStocks and stockCash.                        *)
(***************************************************************************)

Exists(b, i) == b.entries[i].seq # 0
Live(b) == {i \in EntryIds : Exists(b, i) /\ ~b.entries[i].voided}
IsAutomatic(e) == e.pay # 0

\* entryLess: by date, automatic dividends first, then as they were entered.
NoLaterThan(e, f) ==
    \/ e.date < f.date
    \/ /\ e.date = f.date
       /\ \/ IsAutomatic(e) /\ ~IsAutomatic(f)
          \/ IsAutomatic(e) = IsAutomatic(f) /\ e.seq <= f.seq

UpTo(b, S, i) == {j \in S : NoLaterThan(b.entries[j], b.entries[i])}

\* What each entry adds to the shares.
Shares(b) == [i \in EntryIds |-> CASE b.entries[i].kind = "buy"  -> b.entries[i].qty
                                   [] b.entries[i].kind = "sell" -> -b.entries[i].qty
                                   [] OTHER                      -> 0]

\* The shares held after the entries of S.
Held(b, S) == b.opening + SumFunctionOnSet(Shares(b), S)

NeverOversold(b, S) ==
    \A i \in S : b.entries[i].kind = "sell" => Held(b, UpTo(b, S, i)) >= 0

\* The cost of the position is known: it was once empty when shares were bought.
CostKnown(b, S) ==
    \/ b.opening = 0
    \/ \E i \in S : b.entries[i].kind = "buy" /\ Held(b, UpTo(b, S, i) \ {i}) = 0

CashDate(e) == IF IsAutomatic(e) THEN e.pay ELSE e.date

\* The entries that change the cash after the anchor, up to a day; an automatic
\* dividend waits for its exchange rate.
Flows(b, today) ==
    {i \in Live(b) :
        LET e == b.entries[i]
            d == CashDate(e) IN
        /\ ~e.opening
        /\ d <= today
        /\ d > b.cashDate \/ (d = b.cashDate /\ ~IsAutomatic(e) /\ e.seq > b.cashSeq)
        /\ IsAutomatic(e) => e.fx}

\* What each entry adds to the cash.
Payments(b) == [i \in EntryIds |-> IF b.entries[i].kind = "buy" THEN -b.entries[i].amount
                                   ELSE b.entries[i].amount]

CashAfter(b, S) == b.cash + SumFunctionOnSet(Payments(b), S)

CashUpTo(b, S, i) ==
    LET e == b.entries[i] IN
    {j \in S : LET f == b.entries[j] IN
        CashDate(f) < CashDate(e) \/ (CashDate(f) = CashDate(e) /\ f.seq <= e.seq)}

\* Mutant: only the cash that is left in the end counts.
OverdrawnInTheEnd(b, S) == CashAfter(b, S) >= 0

NeverOverdrawn(b, S) == \A i \in S : CashAfter(b, CashUpTo(b, S, i)) >= 0

\* saveStockProjection accepts the journal.
Replays(b, today) ==
    /\ NeverOversold(b, Live(b))
    /\ b.anchored => /\ \A i \in Flows(b, today) : b.entries[i].fx
                     /\ NeverOverdrawn(b, Flows(b, today))

QtyOf(b) == Held(b, Live(b))
CashOf(b, today) == IF b.anchored THEN CashAfter(b, Flows(b, today)) ELSE 0

-----------------------------------------------------------------------------
(***************************************************************************)
(* reconcileStockDividends.                                                *)
(***************************************************************************)

NextSeq(b) == 1 + Max({b.entries[i].seq : i \in EntryIds})

EntitlingTrades(b) ==
    {i \in Live(b) : b.entries[i].kind # "dividend" /\ b.entries[i].date <= LastEntitled}

\* Mutant: the shares held today, not on the record date.
EntitledToday(b) == IF CostKnown(b, Live(b)) THEN QtyOf(b) ELSE 0

Entitled(b) ==
    IF CostKnown(b, EntitlingTrades(b)) THEN Held(b, EntitlingTrades(b)) ELSE 0

\* A dividend entered by hand on one of the dates of the announcement.
PaidByHand(b, c) ==
    \E i \in Live(b) : LET e == b.entries[i] IN
        e.kind = "dividend" /\ ~IsAutomatic(e) /\ e.date \in {ExDate, c.pay}

\* Mutant: a split on the day of the first trade does not count.
BlockedAfter(b, c) == c.split /\ \E i \in EntitlingTrades(b) : b.entries[i].date < SplitDate

Blocked(b, c) == c.split /\ \E i \in EntitlingTrades(b) : b.entries[i].date <= SplitDate

\* The announcement applies: it is due, no split intervenes, and no user has
\* changed or voided the automatic entry.
Applies(b, c, today) ==
    /\ c.known /\ ExDate <= today
    /\ ~Blocked(b, c)
    /\ ~(Exists(b, Event) /\ b.entries[Event].override)

\* The stored exchange rate is for another payment date: ErrCorrupt.
RateMismatch(b, c, today) ==
    /\ Foreign /\ c.fxFor \notin {0, c.pay}
    /\ Applies(b, c, today) /\ Entitled(b) > 0 /\ ~PaidByHand(b, c)

Credit(b, c) ==
    [NoEntry EXCEPT !.seq = IF Exists(b, Event) THEN b.entries[Event].seq ELSE NextSeq(b),
                    !.kind = "dividend", !.date = ExDate,
                    !.qty = Entitled(b), !.amount = Entitled(b) * c.share,
                    !.fx = ~Foreign \/ c.fxFor = c.pay, !.pay = c.pay]

Reconcile(b, c, today) ==
    IF ~Applies(b, c, today) THEN b
    ELSE IF Entitled(b) = 0
         THEN IF Exists(b, Event) THEN [b EXCEPT !.entries[Event].voided = TRUE] ELSE b
         ELSE IF PaidByHand(b, c) THEN b ELSE [b EXCEPT !.entries[Event] = Credit(b, c)]

-----------------------------------------------------------------------------
(***************************************************************************)
(* Users.                                                                  *)
(***************************************************************************)

Tomorrow ==
    /\ day < MaxDay
    /\ day' = day + 1
    /\ UNCHANGED <<managed, book, snapshot, cache, worker>>

\* PutCurrentHoldings, refused once the journal manages the account.
PutHoldings(h) ==
    /\ ~managed
    /\ snapshot.version < MaxVersion
    /\ snapshot' = [version |-> snapshot.version + 1, qty |-> h.qty, cash |-> h.cash]
    /\ book' = [Blank EXCEPT !.opening = h.qty, !.anchored = h.cash > 0, !.cash = h.cash,
                             !.cashDate = IF h.cash > 0 THEN day ELSE 0]
    /\ UNCHANGED <<day, managed, cache, worker>>

\* Mutant: the projection is left to the next sync.
SaveBookOnly(b) ==
    LET r == Reconcile(b, cache, day) IN
    /\ snapshot.version < MaxVersion
    /\ ~RateMismatch(b, cache, day)
    /\ book' = r
    /\ snapshot' = [snapshot EXCEPT !.version = @ + 1]
    /\ managed' = TRUE

\* Reconcile, replay and project: what every commit to the journal ends with.
Save(b) ==
    LET r == Reconcile(b, cache, day) IN
    /\ snapshot.version < MaxVersion
    /\ ~RateMismatch(b, cache, day)
    /\ Replays(r, day)
    /\ book' = r
    /\ snapshot' = [version |-> snapshot.version + 1, qty |-> QtyOf(r), cash |-> CashOf(r, day)]
    /\ managed' = TRUE

\* Cash flows of this date and sequence number are in the anchored balance.
Covered(b, d, seq, opening) ==
    \/ ~b.anchored
    \/ opening
    \/ d.date < b.cashDate
    \/ d.date = b.cashDate /\ seq # 0 /\ seq <= b.cashSeq

\* What create and replace both check of a submitted entry.
Admissible(d, seq, opening) ==
    /\ d.date <= day
    /\ Foreign \/ d.fx
    /\ Covered(book, d, seq, opening) \/ d.fx

\* The dividend is not already credited by an automatic entry.
NotCredited(d) ==
    LET e == book.entries[Event] IN
    ~(d.kind = "dividend" /\ Event \in Live(book) /\ d.date \in {e.date, e.pay})

Filled(e, d) == [e EXCEPT !.kind = d.kind, !.date = d.date, !.qty = d.qty,
                          !.amount = d.amount, !.fx = d.fx]

Create(i, d) ==
    /\ ~Exists(book, i)
    /\ Admissible(d, 0, FALSE)
    /\ NotCredited(d)
    /\ Save([book EXCEPT !.entries[i] = Filled([NoEntry EXCEPT !.seq = NextSeq(book)], d)])
    /\ UNCHANGED <<day, cache, worker>>

\* The initial purchase of shares that were entered without one.
ReplaceOpening(i, d) ==
    /\ ~Exists(book, i)
    /\ Admissible(d, 0, TRUE)
    /\ d.kind = "buy" /\ d.qty = book.opening
    /\ Save([book EXCEPT !.opening = 0,
                         !.entries[i] = Filled([NoEntry EXCEPT !.seq = NextSeq(book), !.opening = TRUE], d)])
    /\ UNCHANGED <<day, cache, worker>>

Replace(i, d) ==
    LET e == book.entries[i] IN
    /\ i \in Live(book)
    /\ Admissible(d, e.seq, e.opening)
    /\ IF IsAutomatic(e) THEN d.kind = "dividend" /\ d.date = e.date /\ d.fx ELSE NotCredited(d)
    /\ Save([book EXCEPT !.entries[i] =
                IF IsAutomatic(e) THEN [e EXCEPT !.amount = d.amount, !.fx = d.fx, !.override = TRUE]
                ELSE Filled(e, d)])
    /\ UNCHANGED <<day, cache, worker>>

Void(i) ==
    /\ i \in Live(book)
    /\ Save([book EXCEPT !.entries[i].voided = TRUE, !.entries[i].override = TRUE])
    /\ UNCHANGED <<day, cache, worker>>

SetCash(amount) ==
    /\ Save([book EXCEPT !.anchored = TRUE, !.cash = amount, !.cashDate = day,
                         !.cashSeq = NextSeq(book) - 1])
    /\ UNCHANGED <<day, cache, worker>>

ClearOpening ==
    /\ book.opening > 0
    /\ Save([book EXCEPT !.opening = 0])
    /\ UNCHANGED <<day, cache, worker>>

-----------------------------------------------------------------------------
(***************************************************************************)
(* DividendWorker.syncAccount: read, fetch and cache, then reconcile.      *)
(***************************************************************************)

ReadBook ==
    /\ worker.pc = "idle"
    /\ managed
    /\ worker' = [pc |-> "fetch", book |-> book, day |-> day]
    /\ UNCHANGED <<day, managed, book, snapshot, cache>>

\* The rate is wanted for a payment that the journal, as it was read, will book.
WantsRate(c) ==
    /\ Foreign /\ c.known /\ c.fxFor = 0
    /\ c.pay <= worker.day
    /\ worker.book.anchored /\ c.pay > worker.book.cashDate
    /\ \E i \in Live(worker.book) : worker.book.entries[i].kind = "buy"
                                      /\ worker.book.entries[i].date <= ExDate

\* A split that was once announced stays in the cache, and so does the rate.
Announced(a) ==
    [cache EXCEPT !.known = TRUE, !.pay = a.pay, !.share = a.share, !.split = @ \/ a.split]

\* The source announces or revises the dividend, answers nothing, or the cache is
\* fresh; then the rate is fetched or not; the cache is stored on its own.
FetchDividends ==
    /\ worker.pc = "fetch"
    /\ \E c \in {cache} \cup {Announced(a) : a \in Announcements} :
         \E rate \in BOOLEAN :
           cache' = IF rate /\ WantsRate(c) THEN [c EXCEPT !.fxFor = c.pay] ELSE c
    /\ worker' = [worker EXCEPT !.pc = "settle"]
    /\ UNCHANGED <<day, managed, book, snapshot>>

\* stockStateChanged
Changed(r) == r.entries # book.entries \/ CashOf(r, day) # snapshot.cash

\* Mutant: the journal is reconciled as it was read before the fetch.
SettleStale ==
    /\ worker.pc = "settle"
    /\ worker' = Resting
    /\ IF Changed(Reconcile(worker.book, cache, day)) THEN Save(worker.book)
       ELSE UNCHANGED <<managed, book, snapshot>>
    /\ UNCHANGED <<day, cache>>

\* The journal is read again under the write lock and reconciled.
Settle ==
    /\ worker.pc = "settle"
    /\ worker' = Resting
    /\ IF Changed(Reconcile(book, cache, day)) THEN Save(book)
       ELSE ~RateMismatch(book, cache, day) /\ UNCHANGED <<managed, book, snapshot>>
    /\ UNCHANGED <<day, cache>>

\* Anything fails, or the process stops; the worker starts over.
GiveUp ==
    /\ worker.pc # "idle"
    /\ worker' = Resting
    /\ UNCHANGED <<day, managed, book, snapshot, cache>>

Users ==
    \/ \E h \in Holdings : PutHoldings(h)
    \/ \E i \in Ids, d \in Drafts : Create(i, d) \/ ReplaceOpening(i, d)
    \/ \E i \in EntryIds, d \in Drafts : Replace(i, d)
    \/ \E i \in EntryIds : Void(i)
    \/ \E amount \in CashInputs : SetCash(amount)
    \/ ClearOpening

Next == Tomorrow \/ Users \/ ReadBook \/ FetchDividends \/ Settle \/ GiveUp

Spec == Init /\ [][Next]_vars

-----------------------------------------------------------------------------
(***************************************************************************)
(* Properties.                                                             *)
(***************************************************************************)

TypeOK ==
    /\ day \in Days
    /\ managed \in BOOLEAN
    /\ book \in Book
    /\ snapshot \in [version: Nat, qty: Nat, cash: Nat]
    /\ cache \in [known: BOOLEAN, pay: {0} \cup PayDates, share: {0} \cup PerShare,
                  split: BOOLEAN, fxFor: {0} \cup PayDates]
    /\ worker \in [pc: {"idle", "fetch", "settle"}, book: Book, day: Days]

\* The stored holdings are always those of the journal: quantities at any time,
\* cash but for dividends that have fallen due since the last commit.
HoldingsAreReplay ==
    /\ snapshot.qty = QtyOf(book)
    /\ \E d \in 1..day : snapshot.cash = CashOf(book, d)

\* No history of a stored journal is impossible: whatever was entered, corrected or
\* voided since, on no day, to the end of the calendar, are there less than no
\* shares, or less than no cash after the anchor.
NeverNegative ==
    \A d \in Days :
        /\ Held(book, {i \in Live(book) : book.entries[i].date <= d}) >= 0
        /\ managed /\ book.anchored =>
             CashAfter(book, {i \in Flows(book, MaxDay) : CashDate(book.entries[i]) <= d}) >= 0

\* The shares of the record date, whose cost is known.
HeldOnRecordDate ==
    LET S == {i \in Live(book) : book.entries[i].kind # "dividend" /\ book.entries[i].date <= LastEntitled} IN
    IF CostKnown(book, S) THEN Held(book, S) ELSE 0

\* After every commit the automatic entry pays exactly the announced dividend on
\* the shares of the record date, however trades were corrected afterwards, and
\* there is none when there were no shares; unless a split blocks it, a user has
\* entered a payment by hand or has edited or voided it.
PaysRecordDate ==
    [][LET e == book'.entries[Event] IN
       /\ managed' /\ snapshot' # snapshot
       /\ cache'.known /\ ExDate <= day' /\ ~Blocked(book', cache')
       /\ ~e.override /\ ~PaidByHand(book', cache')
       => IF Event \in Live(book')
          THEN e.amount = HeldOnRecordDate' * cache'.share
          ELSE HeldOnRecordDate' = 0]_vars

\* A split between the first trade and the record date leaves the shares of that
\* date in doubt: no command and no sync then credits, revises or voids the automatic
\* entry, except a user who edits or voids it.
SplitSkipped ==
    [][LET T == {i \in Live(book) : book.entries[i].kind # "dividend"
                                      /\ book.entries[i].date <= SplitDate} IN
       cache'.split /\ T' # {} /\ book'.entries[Event] # book.entries[Event]
       => book'.entries[Event].override]_vars

\* The worker changes nothing of what users entered: entries by hand, opening,
\* cash, and an automatic entry that a user has edited or voided, although they
\* may do so while it waits for the network.
WorkerYields ==
    [][worker.pc = "settle" /\ worker'.pc = "idle" =>
         /\ [book EXCEPT !.entries[Event] = NoEntry] = [book' EXCEPT !.entries[Event] = NoEntry]
         /\ book.entries[Event].override => book'.entries[Event] = book.entries[Event]]_vars

\* One dividend is paid once: when a payment was entered by hand on one of its
\* dates, no automatic entry that nobody edited pays it again.
PaidOnce ==
    [][worker.pc = "settle" /\ worker'.pc = "idle" /\ PaidByHand(book', cache') =>
         ~(Event \in Live(book') /\ ~book'.entries[Event].override)]_vars

\* A rate that was fetched never stands in the way: while the journal manages the
\* account, a command or a sync can settle, at worst without the rate.
AlwaysSettles == managed => ~RateMismatch(book, cache, day)

=============================================================================
