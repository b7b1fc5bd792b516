------------------------- MODULE PortfolioReturns -------------------------
(* A portfolio is an analysis of its members' records, and keeps no record itself:    *)
(* every member is normalized to a balance and a flow a day, the days of all members  *)
(* are joined, and the result goes through the calculation of a single account.       *)
EXTENDS AccountReturns

CONSTANT Rates      \* of each account, what a hundredth of its currency is in the portfolio's

ASSUME RatesAssumption ==
    /\ IsFiniteSet(Accounts)
    /\ \A a \in Accounts : Rates[a] \in (Nat \ {0}) \X (Nat \ {0})

\* ConvertMoney: to the nearest, halves away from zero
Converted(amount, rate) ==
    IF amount = Nothing THEN Nothing
    ELSE IF amount < 0 THEN -((-2 * amount * rate[1] + rate[2]) \div (2 * rate[2]))
    ELSE (2 * amount * rate[1] + rate[2]) \div (2 * rate[2])

\* The records of a member in the currency of the portfolio
Records(a) == [i \in DOMAIN records[a] |->
    [records[a][i] EXCEPT !.flow = Converted(@, Rates[a]), !.assets = Converted(@, Rates[a])]]

-----------------------------------------------------------------------------
Positive(x) == IF x > 0 THEN x ELSE 0

\* A member begins with its first statement or flow; a carry of the weekly job counts for
\* one that has begun.
Counts(m, d) == Explicit(d.by) \/ d.hasFlow \/ (d.by.assets # Nothing /\ m.begun)

Amount(m, d) == IF Explicit(d.by) THEN d.by.assets ELSE m.balance + d.flow

\* A first statement brings in what the flows of its day do not explain, and never less
\* than nothing: that is a loss of the day.
Joining(m, d) == IF Explicit(d.by) /\ ~m.begun THEN Positive(d.by.assets - d.flow) ELSE 0

Normalize(m, d) ==
    IF ~Counts(m, d) THEN m
    ELSE [balance |-> Amount(m, d), valid |-> m.valid /\ Amount(m, d) >= 0, begun |-> TRUE]

\* normalizePortfolioMember: what is known of a member at the end of each day, ...
Member(raw, to) ==
    LET at[n \in 0 .. to] == IF n = 0 THEN [balance |-> 0, valid |-> TRUE, begun |-> FALSE]
                             ELSE IF n \in DOMAIN raw THEN Normalize(at[n - 1], raw[n])
                             ELSE at[n - 1]
    IN  at

\* ... and the days that count, with the assets and the flows of each.
Normalized(a, to) ==
    LET raw == RawDays(Records(a), to)
        at == Member(raw, to)
    IN  [n \in {d \in DOMAIN raw : Counts(at[d - 1], raw[d])} |->
            [assets |-> at[n].balance, flow |-> raw[n].flow + Joining(at[n - 1], raw[n])]]

\* portfolioAsOf: the last day of a member by a date
AsOf(days, date) ==
    LET until == {d \in DOMAIN days : d <= date}
    IN  IF until = {} THEN Nothing ELSE Max(until)
AssetsAsOf(days, date) == IF AsOf(days, date) = Nothing THEN 0 ELSE days[AsOf(days, date)].assets
FlowOn(days, date) == IF date \in DOMAIN days THEN days[date].flow ELSE 0

LastKnown(a, until) ==
    LET raw == RawDays(records[a], until)
        days == Projected(records[a], until)
    IN  Max({0} \cup {d \in DOMAIN raw : days[d].assets # Nothing \/ raw[d].by.flow # Nothing})

\* Mutant: the last day is looked up among the records that are left after the cut.
ClippedLatest(a, to) == LastKnown(a, to)

\* The last day on which a member has assets or a flow, wherever the analysis ends.
Latest(a, to) == LastKnown(a, Max(Dates))

\* The dates of the joint curve: those of the members, the end, the ends of the years and
\* the day before the analysis begins.
JointDates(members, from, to) ==
    LET dates == UNION {DOMAIN Normalized(a, to) : a \in members}
        last == Lesser(to, Max({Latest(a, to) : a \in members}))
        ends == {Max({d \in Dates : YearOf(d) = y}) : y \in {YearOf(d) : d \in Dates}}
        first == Min(dates)
    IN  IF dates = {} THEN {}
        ELSE dates \cup {last} \cup {d \in ends : YearOf(first) <= YearOf(d) /\ YearOf(d) < YearOf(last)}
                   \cup (IF from # Nothing /\ first <= from - 1 /\ from - 1 <= last THEN {from - 1} ELSE {})

\* portfolioPoint
Point(assets, flow) == [flow |-> flow, moved |-> flow # 0, assets |-> assets]

Joint(members, from, to) ==
    LET days == [a \in members |-> Normalized(a, to)]
    IN  [date \in JointDates(members, from, to) |->
            Point(SumOver(members, LAMBDA a : AssetsAsOf(days[a], date)),
                  SumOver(members, LAMBDA a : FlowOn(days[a], date)))]

\* Mutant: the flows of the day on which the interval opens are counted again.
CountedAtOpening(date, from, to) == from <= date /\ date <= to
Counted(date, from, to) == from < date /\ date <= to

\* portfolioContribution: the amount with the boundaries and flows of the portfolio, the
\* rates over the days of the member itself.
Contribution(a, result, closing, from, to) ==
    LET days == Until(Normalized(a, to), closing)
        own == IF from # Nothing /\ Min(DOMAIN days) >= from THEN Nothing ELSE from
        borders == {closing} \cup (IF own = Nothing THEN {} ELSE {own - 1})
        points == [date \in DOMAIN days \cup {b \in borders : AsOf(days, b) # Nothing} |->
                      Point(AssetsAsOf(days, date), FlowOn(days, date))]
        rates == ReturnsOf(points, own)
        mine == {d \in DOMAIN days : Counted(d, result.from, result.to)}
    IN  IF DOMAIN days = {} THEN [assets |-> 0, profit |-> Fraction(0, 1),
                                  dietz |-> Unavailable("no_interval"), twr |-> Unavailable("no_interval")]
        ELSE [assets |-> AssetsAsOf(days, closing),
              profit |-> IF result.from # Nothing /\ closing > result.from
                         THEN Fraction(AssetsAsOf(days, closing) - AssetsAsOf(days, result.from)
                                         - SumOver(mine, LAMBDA d : days[d].flow), 1)
                         ELSE Fraction(0, 1),
              dietz |-> rates.dietz, twr |-> rates.twr]

\* PortfolioAnalysis.  Without a valid basis there is no analysis, and none where there are
\* days and no end of them: the code takes the year of an empty date.
ValidBasis(members, to) ==
    \A a \in members : Member(RawDays(Records(a), to), to)[to].valid
EndKnown(members, to) ==
    (\E a \in members : DOMAIN Normalized(a, to) # {}) => \E a \in members : Latest(a, to) > 0
Analysed(members, to) == ValidBasis(members, to) /\ EndKnown(members, to)
PortfolioReturn(members, from, to) ==
    ReturnsOf(Joint(members, from, to), from)

-----------------------------------------------------------------------------
Froms == Dates \cup {Nothing}

\* The contributions of the members add up to the profit of the portfolio, to the cent and
\* for every interval, also for members that join within it, at a loss or from abroad.
ContributionsAddUp ==
    \A from \in Froms : \A to \in Dates : Analysed(Accounts, to) =>
        \A result \in {PortfolioReturn(Accounts, from, to)} : Available(result.profit) =>
            \A parts \in {[a \in Accounts |-> Contribution(a, result, result.to, from, to)]} :
                /\ SumOver(Accounts, LAMBDA a : parts[a].profit.n) = result.profit.n
                /\ SumOver(Accounts, LAMBDA a : parts[a].assets) = Joint(Accounts, from, to)[result.to].assets

\* A year of the table of years is what an analysis of that year from its first to its
\* last day reports: both carry the balances to the same end.
AnnualIsCustom ==
    Analysed(Accounts, Max(Dates)) =>
        \A row \in Annual(Joint(Accounts, Nothing, Max(Dates))) :
            LET year == {d \in Dates : YearOf(d) = row.year}
                from == IF row.result.from = Min(year) - 1 THEN Min(year) ELSE Nothing
            IN  \A custom \in {PortfolioReturn(Accounts, from, Max(year))} :
                    /\ Same(row.result.profit, custom.profit)
                    /\ Same(row.result.dietz, custom.dietz)
                    /\ Same(row.result.twr, custom.twr)

\* "A first day with flows only starts from zero and adds the flows of the day": whatever
\* was voided, members that have a balance are analysed.
FlowsAreABasis == \A to \in Dates : ValidBasis(Accounts, to) => EndKnown(Accounts, to)
=============================================================================
