-------------------------- MODULE AccountReturns --------------------------
(* The returns of an account: its effective records are projected to one balance a    *)
(* day, and profit, Modified Dietz and TWR are computed from the projection for any   *)
(* interval, with a curve of all prefixes.  Nothing is stored: every answer is        *)
(* computed from the records as they are, whatever was revised or voided before.      *)
(*                                                                                    *)
(* A rate is a reason why it is unavailable, or an exact fraction.  XIRR, the         *)
(* annualized rates and the labels of provenance (reference, observed) are left out.  *)
EXTENDS Integers, Sequences, FiniteSets, FiniteSetsExt, Functions, SequencesExt

CONSTANTS
    Accounts,
    Dates,          \* business dates, numbered by their days
    YearOf(_),      \* the year of a date
    Saturdays,      \* the dates on which the weekly job runs
    Entries(_),     \* what may be written to an account
    MaxRecords,     \* the number of records
    Nothing         \* no amount, no date

ASSUME ReturnsAssumption ==
    /\ Dates \subseteq Nat \ {0} /\ IsFiniteSet(Dates)
    /\ Saturdays \subseteq Dates
    /\ Nothing \notin Int

\* Years follow dates.
ASSUME YearsAssumption ==
    /\ \A d \in Dates : YearOf(d) \in Int
    /\ \A d, e \in Dates : d <= e => YearOf(d) <= YearOf(e)

AccountRecords ==
    [date : Dates, kind : {"asset", "cash_flow", "log"}, flow : Int \cup {Nothing},
     assets : Nat \cup {Nothing}, carried : BOOLEAN, manual : BOOLEAN]

\* AccountEntry.valid; a flow may come with the assets after it.
Valid(r) ==
    /\ r \in AccountRecords
    /\ \/ r.kind = "asset" /\ r.assets # Nothing /\ r.flow = Nothing
       \/ r.kind = "cash_flow" /\ r.flow # Nothing
       \/ r.kind = "log" /\ r.assets = Nothing /\ r.flow = Nothing

ASSUME EntriesAssumption == \A a \in Accounts : \A r \in Entries(a) : Valid(r) /\ ~r.carried

VARIABLE records    \* of each account those that are not voided, by date and sequence
vars == <<records>>

-----------------------------------------------------------------------------
\* An amount stated by the user, an import or a valuation; a carry of the weekly job only
\* once it was revised by hand.
Explicit(r) == r.assets # Nothing /\ (~r.carried \/ r.manual)

Lesser(x, y) == IF x < y THEN x ELSE y
SumOver(S, V(_)) == SumFunction([x \in S |-> V(x)])

\* The records of a date, without the logs, and the one that speaks for it.
On(rs, date) == {i \in DOMAIN rs : rs[i].kind # "log" /\ rs[i].date = date}
Selected(rs, date) ==
    LET stated == {i \in On(rs, date) : Explicit(rs[i])}
    IN  rs[Max(IF stated = {} THEN On(rs, date) ELSE stated)]

\* The days up to a date that have records, with the flows of each together.
RawDays(rs, to) ==
    LET Day(date) == LET flows == {i \in On(rs, date) : rs[i].flow # Nothing}
                     IN  [flow    |-> SumOver(flows, LAMBDA i : rs[i].flow),
                          hasFlow |-> flows # {},
                          moved   |-> \E i \in flows : rs[i].flow # 0,
                          by      |-> Selected(rs, date)]
    IN  [date \in {d \in Dates : d <= to /\ On(rs, d) # {}} |-> Day(date)]

\* A day is worth what it states, after all its flows; without a statement it is worth the
\* last one and the flows since.  A carry alone is worth nothing once its source is voided.
Project(p, d) ==
    IF Explicit(d.by) THEN [source |-> d.by.assets, net |-> 0]
    ELSE [p EXCEPT !.net = @ + d.flow]
Worth(p) == IF p.source = Nothing THEN Nothing ELSE p.source + p.net

\* projectTWREstimates, day by day: what is known at the end of each.
Balances(raw, to) ==
    LET at[n \in 0 .. to] == IF n = 0 THEN [source |-> Nothing, net |-> 0]
                             ELSE IF n \in DOMAIN raw THEN Project(at[n - 1], raw[n])
                             ELSE at[n - 1]
    IN  at

\* analysisBasis: the days of the account up to a date, and their assets
Projected(rs, to) ==
    LET raw == RawDays(rs, to)
        at == Balances(raw, to)
    IN  [n \in DOMAIN raw |-> [flow |-> raw[n].flow, moved |-> raw[n].moved, assets |-> Worth(at[n])]]

Until(days, to) == [d \in {e \in DOMAIN days : e <= to} |-> days[d]]

\* The day with which an interval opens: the last before its first date, or the first
\* that is known where none is given.
OpeningDay(days, from) ==
    LET known == {d \in DOMAIN days : days[d].assets # Nothing}
        before == {d \in DOMAIN days : d < from}
    IN  IF from = Nothing THEN IF known = {} THEN Nothing ELSE Min(known)
        ELSE IF before = {} THEN Nothing ELSE Max(before)

-----------------------------------------------------------------------------
Unavailable(reason) == [reason |-> reason, n |-> 0, d |-> 1]
Fraction(n, d) == [reason |-> "none", n |-> n, d |-> d]
Available(x) == x.reason = "none"
Same(x, y) == x.reason = y.reason /\ x.n * y.d = y.n * x.d

Dietz(profit, den, period) ==
    IF den > 0 THEN Fraction(profit * period, den) ELSE Unavailable("nonpositive_denominator")

\* Mutant: the next subinterval starts from the assets before the flow.
BaseBefore(d) == d.assets - d.flow
BaseAfter(d) == d.assets

\* The step of the TWR chain at a day, or why there is none.  On an empty account a deposit
\* that is there at the end of its day is neutral; anything else would need a convention.
Gap(c, d) ==
    LET pre == d.assets - d.flow
    IN  IF c.reason # "none" THEN c.reason
        ELSE IF d.assets = Nothing THEN "missing_flow_boundary"
        ELSE IF d.assets < 0 \/ c.base < 0 THEN "negative_twr_factor"
        ELSE IF c.base = 0 THEN IF pre # 0 THEN "zero_twr_base" ELSE "none"
        ELSE IF pre < 0 THEN "negative_twr_factor"
        ELSE "none"
Growth(c, d) ==
    IF c.base = 0 THEN c.chain ELSE <<c.chain[1] * (d.assets - d.flow), c.chain[2] * c.base>>

\* Only a day with a flow extends the chain, also when its flows cancel.
Extend(c, elapsed, d) ==
    LET reason == Gap(c, d)
        net == [c EXCEPT !.net = @ + d.flow, !.moment = @ + d.flow * elapsed]
    IN  IF ~d.moved THEN net
        ELSE IF reason # "none" THEN [net EXCEPT !.reason = reason]
        ELSE [net EXCEPT !.chain = Growth(c, d), !.base = BaseAfter(d)]

\* What is known at the end of each day from the one that opens.
Chain(days, start, end, opening) ==
    LET at[n \in 0 .. end] == IF n <= start THEN [net |-> 0, moment |-> 0, reason |-> "none", chain |-> <<1, 1>>, base |-> opening]
                              ELSE IF n \in DOMAIN days THEN Extend(at[n - 1], n - start, days[n])
                              ELSE at[n - 1]
    IN  at

\* A point of the curve, which goes through every day: profit and Dietz are those of the
\* prefix, from running sums.
CurvePoint(c, opening, elapsed, d) ==
    LET net == c.net + d.flow
        moment == c.moment + d.flow * elapsed
        profit == d.assets - opening - net
    IN  [profit |-> Fraction(profit, 1),
         dietz  |-> Dietz(profit, opening * (elapsed + 1) + net * elapsed - moment, elapsed + 1),
         twr    |-> IF Gap(c, d) # "none" THEN Unavailable(Gap(c, d))
                    ELSE Fraction(Growth(c, d)[1] - Growth(c, d)[2], Growth(c, d)[2])]

\* Mutant: the day of the closing counts as a day on which its flows were invested.
WeightWithClosing(to, date) == to - date + 1
Weight(to, date) == to - date

\* The returns from the end of one day to the end of another.
IntervalReturns(days, start, end, opening) ==
    LET after == {d \in DOMAIN days : d > start}
        profit == days[end].assets - opening - SumOver(after, LAMBDA d : days[d].flow)
        weighted == SumOver(after, LAMBDA d : days[d].flow * Weight(end, d))
        period == end - start + 1
        c == Chain(days, start, end, opening)
        curve == [d \in after |-> CurvePoint(c[d - 1], opening, d - start, days[d])]
    IN  [from |-> start, to |-> end, curve |-> curve,
         profit |-> Fraction(profit, 1),
         dietz  |-> Dietz(profit, opening * period + weighted, period),
         twr    |-> curve[end].twr]

\* calculateMoneyReturns and calculateReturns.  Once a statement is known every later day
\* has assets, and the closing is the last day: neither a missing closing nor a flow after
\* it can occur.
ReturnsOf(days, from) ==
    LET first == OpeningDay(days, from)
        start == IF from = Nothing THEN first ELSE from - 1
        end == IF DOMAIN days = {} THEN Nothing ELSE Max(DOMAIN days)
        All(reason) == [from |-> start, to |-> end, curve |-> <<>>, profit |-> Unavailable(reason),
                        dietz |-> Unavailable(reason), twr |-> Unavailable(reason)]
    IN  IF first = Nothing \/ days[first].assets = Nothing THEN All("missing_opening")
        ELSE IF end - start <= 0 THEN All("no_interval")
        ELSE IntervalReturns(days, start, end, days[first].assets)

\* AnalysisBasis: the returns of an account
AccountReturn(rs, from, to) == ReturnsOf(Projected(rs, to), from)

\* annualBasisReturns: a row for each year since assets are known
Annual(days) ==
    LET known == {d \in DOMAIN days : days[d].assets # Nothing}
        first == YearOf(Min(known))
        Row(year) ==
            LET dates == {d \in Dates : YearOf(d) = year}
                from == IF year = first THEN Nothing ELSE Min(dates)
            IN  [year |-> year, result |-> ReturnsOf(Until(days, Max(dates)), from)]
    IN  IF known = {} THEN {}
        ELSE {Row(y) : y \in {YearOf(d) : d \in Dates} \cap first .. YearOf(Max(DOMAIN days))}

\* Mutant: the flows of the day of the statement are added to it.
NotBefore(date, other) == date >= other
LaterThan(date, other) == date > other

\* EffectiveSummary: the last statement of the last day that has one, and the flows of
\* later days.
LatestAssets(rs) ==
    LET stated == {i \in DOMAIN rs : Explicit(rs[i])}
        last == Max(stated)
    IN  IF stated = {} THEN Nothing
        ELSE rs[last].assets + SumOver({i \in DOMAIN rs : rs[i].flow # Nothing /\ LaterThan(rs[i].date, rs[last].date)},
                                       LAMBDA i : rs[i].flow)

-----------------------------------------------------------------------------
\* A record is entered after those of its date.
Placed(rs, r) == InsertAt(rs, Max({0} \cup {i \in DOMAIN rs : rs[i].date <= r.date}) + 1, r)

Held == SumOver(Accounts, LAMBDA a : Len(records[a]))

\* WriteAccountRecord
Write(a, r) ==
    /\ Held < MaxRecords
    /\ records' = [records EXCEPT ![a] = Placed(@, r)]

Void(a, i) == records' = [records EXCEPT ![a] = RemoveAt(@, i)]

\* The order of analysisBasis: by date, and by sequence within a date.
Sorted(rs) == \A i, j \in DOMAIN rs : i <= j => rs[i].date <= rs[j].date

\* A carry that is revised keeps its source and becomes a statement of the user.  A record
\* keeps its sequence: revised for another date it stands anywhere among those of that date.
Revise(a, i, r) ==
    LET old == records[a][i]
        new == [r EXCEPT !.carried = old.carried, !.manual = old.carried]
    IN  /\ old.carried => r.kind = "asset"
        /\ \E n \in DOMAIN records[a] :
               LET revised == InsertAt(RemoveAt(records[a], i), n, new)
               IN  /\ r.date = old.date => n = i
                   /\ Sorted(revised)
                   /\ records' = [records EXCEPT ![a] = revised]

\* The weekly job enters the last statement again, as of its own date, without the flows.
Carry(a, date) ==
    LET stated == {i \in DOMAIN records[a] : Explicit(records[a][i]) /\ records[a][i].date <= date}
    IN  /\ Held < MaxRecords
        /\ stated # {}
        /\ records' = [records EXCEPT ![a] =
               Placed(@, [date |-> date, kind |-> "asset", flow |-> Nothing,
                          assets |-> records[a][Max(stated)].assets, carried |-> TRUE, manual |-> FALSE])]

Init == records = [a \in Accounts |-> <<>>]

Next ==
    \E a \in Accounts :
        \/ \E r \in Entries(a) : Write(a, r)
        \/ \E i \in DOMAIN records[a] : Void(a, i)
        \/ \E i \in DOMAIN records[a], r \in Entries(a) : Revise(a, i, r)
        \/ \E date \in Saturdays : Carry(a, date)

Spec == Init /\ [][Next]_vars

-----------------------------------------------------------------------------
\* The curve and the summary are computed by two formulas: a point of the curve is what an
\* analysis that ends on that day reports, whatever was recorded for later days.
CurveIsPrefix ==
    \A a \in Accounts : \A from \in Dates \cup {Nothing} : \A to \in Dates :
        LET curve == AccountReturn(records[a], from, to).curve
        IN  \A date \in DOMAIN curve :
                LET prefix == AccountReturn(records[a], from, date)
                IN  /\ Same(curve[date].profit, prefix.profit)
                    /\ Same(curve[date].dietz, prefix.dietz)
                    /\ Same(curve[date].twr, prefix.twr)

\* Wherever an interval is split, the profits of the parts add up to the profit of the
\* whole, and their time-weighted growths multiply to that of the whole.
IntervalsCompose ==
    \A a \in Accounts : \A from \in Dates \cup {Nothing} : \A mid, to \in Dates :
        ((from # Nothing => from < mid) /\ mid <= to) =>
            LET one   == AccountReturn(records[a], from, mid - 1)
                two   == AccountReturn(records[a], mid, to)
                whole == AccountReturn(records[a], from, to)
            IN  /\ (Available(one.profit) /\ Available(two.profit)) =>
                       Same(whole.profit, Fraction(one.profit.n + two.profit.n, 1))
                /\ (Available(one.twr) /\ Available(two.twr)) =>
                       Same(whole.twr,
                            LET n == (one.twr.n + one.twr.d) * (two.twr.n + two.twr.d)
                                d == one.twr.d * two.twr.d
                            IN  Fraction(n - d, d))

\* The balance that the list of accounts shows is the one the analysis ends with.
SummaryAgrees ==
    \A a \in Accounts :
        LET days == Projected(records[a], Max(Dates))
        IN  LatestAssets(records[a]) = IF DOMAIN days = {} THEN Nothing ELSE days[Max(DOMAIN days)].assets
=============================================================================
