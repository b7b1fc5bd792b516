---------------------------- MODULE TaxReport ----------------------------
(* The tax calculator of modules/tax: statements are imported and deleted, and every *)
(* report is computed anew from the rows they hold.  Closings are matched with       *)
(* openings first in, first out; the fee of an opening travels with what it opened   *)
(* and is recognised, pro rata, when that is closed.                                 *)
(*                                                                                   *)
(* Amounts and fees are multiples of their quantities, so that the shares, exact     *)
(* rationals in the code, are whole numbers here.  Taxes are in tenths.              *)
EXTENDS Integers, Sequences, FiniteSets, FiniteSetsExt, Functions, SequencesExt

CONSTANTS
    Files,          \* statements: the rank of the name, a digest, and a sequence of rows
    MaxImports,     \* the number of statements a space may hold
    MaxRecords,     \* the number of rows
    Dates,          \* the dates of rows and filters, numbered
    YearOf(_),      \* the year of a date
    Rates,          \* the years and currencies with a rate, and the rate
    Anyone          \* the filter that admits every account

Currencies == {"HKD", "USD"}
Years == {YearOf(d) : d \in Dates}
Lines == UNION {ToSet(file.rows) : file \in Files}

\* What validate admits: a fund is subscribed and redeemed, never sold short.
Sides(kind) == {"buy_open", "sell_close"} \cup (IF kind = "security" THEN {"sell_open", "buy_close"} ELSE {})
Valid(r) ==
    /\ r.date \in Dates /\ r.currency \in Currencies
    /\ \/ r.kind = "cash" /\ r.change \in Int
       \/ /\ r.kind \in {"security", "fund"} /\ r.side \in Sides(r.kind)
          /\ r.quantity \in Nat \ {0} /\ r.amount \in Nat /\ r.fee \in Nat
          /\ r.amount % r.quantity = 0 /\ r.fee % r.quantity = 0

ASSUME TaxAssumption == MaxImports \in Nat /\ MaxRecords \in Nat

\* poolKey: a pool is one of a currency.
ASSUME StatementsAssumption ==
    /\ \A file \in Files : file.name \in Nat /\ file.rows \in Seq(Lines)
    /\ \A r \in Lines : Valid(r)
    /\ \A r, s \in Lines : r.kind # "cash" /\ s.kind # "cash" /\ r.pool = s.pool => r.currency = s.currency

ASSUME CalendarAssumption ==
    /\ Dates \subseteq Nat /\ IsFiniteSet(Dates)
    /\ \A d, e \in Dates : YearOf(d) \in Nat /\ (d <= e => YearOf(d) <= YearOf(e))

VARIABLE imports    \* the statements in the order of their ids
vars == <<imports>>

-----------------------------------------------------------------------------
\* The rows of all statements.  A row that several statements have is kept as often as
\* the statement that has it most often, in the place where it was met first.
Times(file, row, n) == Cardinality({i \in 1 .. n : file.rows[i] = row})
Seen(n, row) == Max({0} \cup {Times(imports[m], row, Len(imports[m].rows)) : m \in 1 .. n})

Kept(n, i) == LET row == imports[n].rows[i]
              IN Times(imports[n], row, i) > Seen(n - 1, row)

\* mergeRecords
Merged == UNION {{[row |-> imports[n].rows[i], name |-> imports[n].name, line |-> i, import |-> n] :
                  i \in {j \in 1 .. Len(imports[n].rows) : Kept(n, j)}} : n \in 1 .. Len(imports)}

\* Calculate: by time, name of the statement and line; the sort is stable.
Before(x, y) ==
    \/ x.row.date < y.row.date
    \/ /\ x.row.date = y.row.date
       /\ \/ x.name < y.name
          \/ x.name = y.name /\ x.line < y.line
          \/ x.name = y.name /\ x.line = y.line /\ x.import < y.import

Ordered(entries) ==
    [n \in 1 .. Cardinality(entries) |->
        CHOOSE e \in entries : Cardinality({f \in entries : Before(f, e)}) = n - 1]

-----------------------------------------------------------------------------
\* A trade opens or closes, long or short, in the pool of its security: the long and the
\* short side of a pool are separate books, whatever the account.
Trade(e) == e.row.kind \in {"security", "fund"}
Opens(e) == e.row.side \in {"buy_open", "sell_open"}
Short(e) == e.row.side \in {"sell_open", "buy_close"}
SameBook(e, f) == e.row.pool = f.row.pool /\ Short(e) = Short(f)

SumOver(S, V(_)) == SumFunction([x \in S |-> V(x)])
Portion(x, part, whole) == (x * part) \div whole
Lesser(x, y) == IF x < y THEN x ELSE y
Positive(x) == IF x > 0 THEN x ELSE 0

\* Mutant: the lot opened last is closed first.
TakenLast(book, lot, quantity) ==
    Lesser(lot.quantity,
           Positive(quantity - SumOver({l \in book : Before(lot.of, l.of)}, LAMBDA l : l.quantity)))

\* What a closing takes from a lot of its book: what the lots ahead leave to be closed.
Taken(book, lot, quantity) ==
    Lesser(lot.quantity,
           Positive(quantity - SumOver({l \in book : Before(l.of, lot.of)}, LAMBDA l : l.quantity)))

\* Mutant: the fee of the opening stays with the lot.
RestWithFee(lot, part) ==
    [lot EXCEPT !.quantity = @ - part,
                !.amount   = @ - Portion(lot.amount, part, lot.quantity)]
Rest(lot, part) ==
    [lot EXCEPT !.quantity = @ - part,
                !.amount   = @ - Portion(lot.amount, part, lot.quantity),
                !.fee      = @ - Portion(lot.fee, part, lot.quantity)]

Match(lot, close, part) ==
    [open     |-> lot.of,
     close    |-> close,
     quantity |-> part,
     cost     |-> Portion(lot.amount, part, lot.quantity),
     proceeds |-> Portion(close.row.amount, part, close.row.quantity),
     openFee  |-> Portion(lot.fee, part, lot.quantity),
     closeFee |-> Portion(close.row.fee, part, close.row.quantity)]

Open(c, e) ==
    [c EXCEPT !.lots = @ \cup {[of |-> e, quantity |-> e.row.quantity, amount |-> e.row.amount, fee |-> e.row.fee]}]

\* The lots that are open stand in their book in the order in which they were opened.
Close(c, e) ==
    LET book == {lot \in c.lots : SameBook(lot.of, e)}
        taken == [lot \in book |-> Taken(book, lot, e.row.quantity)]
        left == e.row.quantity - SumFunction(taken)
    IN  [lots    |-> (c.lots \ book) \cup {Rest(lot, taken[lot]) : lot \in {l \in book : taken[l] < l.quantity}},
         matches |-> c.matches \cup {Match(lot, e, taken[lot]) : lot \in {l \in book : taken[l] > 0}},
         missing |-> IF left = 0 THEN c.missing
                     ELSE c.missing \cup {[of       |-> e,
                                           quantity |-> left,
                                           fee      |-> Portion(e.row.fee, left, e.row.quantity)]}]

\* The loop of Calculate, up to each of its rows; what it shows is selected afterwards, as
\* it matches all history.
Counted(c, e) == IF ~Trade(e) THEN c ELSE IF Opens(e) THEN Open(c, e) ELSE Close(c, e)
Progress(entries) ==
    LET ordered == Ordered(entries)
        after[n \in 0 .. Cardinality(entries)] ==
            IF n = 0 THEN [lots |-> {}, matches |-> {}, missing |-> {}]
            ELSE Counted(after[n - 1], ordered[n])
    IN  after
Calculation(entries) == Progress(entries)[Cardinality(entries)]

-----------------------------------------------------------------------------
\* Filter.includes
Includes(filter, e) ==
    /\ filter.from <= e.row.date /\ e.row.date <= filter.to
    /\ filter.account \in {Anyone, e.row.account}

In(year, currency, e) == YearOf(e.row.date) = year /\ e.row.currency = currency

End(filter, year) == Lesser(filter.to, Max({d \in Dates : YearOf(d) = year}))

\* Mutant: the balance of fees follows the account that closes.
BelongsToCloser(filter, m) == filter.account \in {Anyone, m.close.row.account}
Belongs(filter, m) == filter.account \in {Anyone, m.open.row.account}

\* applyDeferredFees: opening fees that are not recognised at the end of a year, or of the
\* dates asked for, by the account of the opening, whatever else is selected.
Deferred(entries, c, filter, year, currency) ==
    LET end == End(filter, year)
        opened == {e \in entries : /\ Trade(e) /\ Opens(e)
                                   /\ e.row.currency = currency /\ e.row.date <= end
                                   /\ filter.account \in {Anyone, e.row.account}}
        closed == {m \in c.matches : /\ m.close.row.currency = currency /\ m.close.row.date <= end
                                     /\ Belongs(filter, m)}
    IN  SumOver(opened, LAMBDA e : e.row.fee) - SumOver(closed, LAMBDA m : m.openFee)

\* How the changes of an account count: dividends, other fees, or not at all.
Dividend(e) == e.row.kind = "cash" /\ e.row.reason = "dividend"
OtherFee(e) == e.row.kind = "cash" /\ e.row.reason = "charge"

\* Mutant: the profit of a short position has the wrong sign.
ProfitLong(m) == m.proceeds - m.cost
Profit(m) == IF Short(m.close) THEN m.cost - m.proceeds ELSE m.proceeds - m.cost

\* The row of a year and a currency.
Summary(entries, c, filter, year, currency) ==
    LET here      == {e \in entries : Includes(filter, e) /\ In(year, currency, e)}
        matched   == {m \in c.matches : m.close \in here}
        unmatched == {u \in c.missing : u.of \in here}
        Kind(kind, short) == {m \in matched : m.close.row.kind = kind /\ Short(m.close) = short}
        Cost(kind, short) == SumOver(Kind(kind, short), LAMBDA m : m.cost)
        Proceeds(kind, short) == SumOver(Kind(kind, short), LAMBDA m : m.proceeds)
        other == -SumOver({e \in here : OtherFee(e)}, LAMBDA e : e.row.change)
        trade == SumOver(matched, LAMBDA m : m.openFee + m.closeFee)
    IN  [year |-> year, currency |-> currency,
         turnover   |-> SumOver(matched, LAMBDA m : m.cost + m.proceeds),
         other      |-> other,
         incurred   |-> SumOver({e \in here : Trade(e)}, LAMBDA e : e.row.fee),
         openFees   |-> SumOver(matched, LAMBDA m : m.openFee),
         closeFees  |-> SumOver(matched, LAMBDA m : m.closeFee),
         unmatched  |-> SumOver(unmatched, LAMBDA u : u.fee),
         deferred   |-> Deferred(entries, c, filter, year, currency),
         fees       |-> trade + other,
         net        |-> Proceeds("security", FALSE) - Cost("security", FALSE)
                          + Cost("security", TRUE) - Proceeds("security", TRUE)
                          + Proceeds("fund", FALSE) - Cost("fund", FALSE) - (trade + other),
         dividends  |-> SumOver({e \in here : Dividend(e)}, LAMBDA e : e.row.change),
         complete   |-> unmatched = {}]

Values == {"turnover", "incurred", "openFees", "closeFees", "unmatched", "deferred", "other", "dividends"}

\* The rows in an original currency: years with a selected row, and of those the
\* currencies in which something is selected or deferred and not all is nought.
Rows(entries, c, filter) ==
    LET years == {YearOf(e.row.date) : e \in {f \in entries : Includes(filter, f)}}
    IN  {r \in {Summary(entries, c, filter, y, cur) : y \in years, cur \in Currencies} :
            \/ ~r.complete
            \/ \E v \in Values : r[v] # 0}

Rated(r) == <<r.year, r.currency>> \in DOMAIN Rates
ProfitTax(r) == 2 * Positive(r.net) * Rates[<<r.year, r.currency>>]
DividendTax(r) ==
    (IF r.currency = "USD" THEN 1 ELSE 2) * Positive(r.dividends) * Rates[<<r.year, r.currency>>]

\* The total of a year in CNY: taxes are computed per currency and then added.
Total(rows, year) ==
    LET mine == {r \in rows : r.year = year}
        rated == {r \in mine : Rated(r)}
    IN  [year |-> year,
         tax  |-> SumOver(rated, LAMBDA r : ProfitTax(r) + DividendTax(r)),
         net  |-> SumOver(rated, LAMBDA r : r.net * Rates[<<r.year, r.currency>>]),
         missingRate |-> rated # mine]

\* The details that are shown beneath a year: every selected row once.
Details(entries, c, filter) ==
    {LET mine == {m \in c.matches : m.close = e}
         fees == SumOver(mine, LAMBDA m : m.openFee + m.closeFee)
     IN  [of        |-> e,
          fees      |-> IF OtherFee(e) THEN -e.row.change ELSE fees,
          profit    |-> IF OtherFee(e) THEN e.row.change ELSE SumOver(mine, Profit) - fees,
          dividends |-> IF Dividend(e) THEN e.row.change ELSE 0] :
     e \in {f \in entries : Includes(filter, f) /\ (Trade(f) \/ Dividend(f) \/ OtherFee(f))}}

Report(entries, filter) ==
    LET c == Calculation(entries)
        rows == Rows(entries, c, filter)
    IN  [rows    |-> rows,
         totals  |-> {Total(rows, r.year) : r \in rows},
         matches |-> {m \in c.matches : Includes(filter, m.close)},
         missing |-> {u \in c.missing : Includes(filter, u.of)},
         details |-> Details(entries, c, filter)]

-----------------------------------------------------------------------------
Held == SumOver(1 .. Len(imports), LAMBDA n : Len(imports[n].rows))

\* A file that is there already, under whatever name, is not imported again; the same
\* rows in another layout are.
Import(file) ==
    /\ \A n \in 1 .. Len(imports) : imports[n].digest # file.digest
    /\ Len(imports) < MaxImports
    /\ Held + Len(file.rows) <= MaxRecords
    /\ imports' = Append(imports, file)

Delete(n) == imports' = RemoveAt(imports, n)

Init == imports = <<>>

Next ==
    \/ \E file \in Files : Import(file)
    \/ \E n \in 1 .. Len(imports) : Delete(n)

Spec == Init /\ [][Next]_vars

-----------------------------------------------------------------------------
Everything(to) == [from |-> Min(Dates), to |-> to, account |-> Anyone]

Accounts == {e.row.account : e \in {f \in Merged : Trade(f)}}

\* The fees that the lots open after the rows up to a date still carry.
Carried(to, currency, Owns(_)) ==
    SumOver({lot \in Calculation({e \in Merged : e.row.date <= to}).lots :
                lot.of.row.currency = currency /\ Owns(lot.of.row.account)}, LAMBDA lot : lot.fee)

\* No fee is lost and none is counted twice: at every date, what was ever paid in a
\* currency has been recognised by then, is unmatched, or is carried by open lots.
FeesAddUp ==
    LET c == Calculation(Merged)
    IN  \A to \in Dates, currency \in Currencies :
            LET rows == {Summary(Merged, c, Everything(to), y, currency) : y \in {z \in Years : z <= YearOf(to)}}
            IN  SumOver(rows, LAMBDA r : r.incurred)
                  = SumOver(rows, LAMBDA r : r.openFees + r.closeFees + r.unmatched)
                      + Carried(to, currency, LAMBDA account : TRUE)

\* The deferred balance of an account is what its own open lots carry, whoever closed
\* the others, and the balance of all accounts is what all of them carry.
DeferredIsCarried ==
    \A to \in Dates, account \in Accounts \cup {Anyone}, currency \in Currencies :
        Deferred(Merged, Calculation(Merged),
                 [from |-> Min(Dates), to |-> to, account |-> account], YearOf(to), currency)
          = Carried(to, currency, LAMBDA owner : account \in {Anyone, owner})

\* The units of a book that were closed before the entry e, and those that were opened.
Closed(c, e) ==
    SumOver({m \in c.matches : SameBook(m.close, e) /\ Before(m.close, e)}, LAMBDA m : m.quantity)
Opened(entries, e) ==
    SumOver({f \in entries : Trade(f) /\ Opens(f) /\ SameBook(f, e) /\ Before(f, e)}, LAMBDA f : f.row.quantity)

\* First in, first out, unit by unit: the n-th unit closed in a book is the n-th that was
\* opened, and a closing takes all that is open before it leaves anything unmatched.
FirstInFirstOut ==
    LET c == Calculation(Merged)
        trades == {e \in Merged : Trade(e)}
        Units(from, n) == from + 1 .. from + n
    IN  \A close \in {e \in trades : ~Opens(e)} :
            LET done == Lesser(close.row.quantity, Opened(Merged, close) - Closed(c, close))
                of == {m \in c.matches : m.close = close}
            IN  /\ SumOver(of, LAMBDA m : m.quantity) = done
                /\ \A m \in of : m.quantity = Cardinality(
                       Units(Closed(c, close), done) \cap Units(Opened(Merged, m.open), m.open.row.quantity))

\* The details of a report add up to its rows, for any dates and accounts.
DetailsAddUp ==
    LET c == Calculation(Merged)
    IN  \A from, to \in Dates, account \in Accounts \cup {Anyone} :
            LET filter == [from |-> from, to |-> to, account |-> account]
                details == Details(Merged, c, filter)
            IN  \A year \in Years, currency \in Currencies :
                    LET r == Summary(Merged, c, filter, year, currency)
                        mine == {d \in details : In(year, currency, d.of)}
                    IN  /\ r.fees = SumOver(mine, LAMBDA d : d.fees)
                        /\ r.net = SumOver(mine, LAMBDA d : d.profit)
                        /\ r.dividends = SumOver(mine, LAMBDA d : d.dividends)

=============================================================================
